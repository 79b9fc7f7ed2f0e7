# Verification of enbox-rust-core

TLA+ models of the DWN engine in this repository, TLC runs that check them on small
instances, and TLAPS proofs about the message store. Paths are relative to
`src/crates/dwn-rs-core/src/` unless they start with `dwn-rs-stores`.

## The system

A node answers DWN messages. `Dwn` (dwn/) validates a message and dispatches it to one of the
handlers (handlers/). Handlers are async functions that share stores and run concurrently; nothing
locks a record or a protocol across the awaits of one handler.

| Part | Source | Module | State |
|---|---|---|---|
| Message store, replication feed, fingerprints | stores/memory.rs, stores/replication_feed_reader.rs | ReplicationFeed | partly (the in-memory store), proved |
| Contract of the feed reader | stores/replication_feed_reader.rs | FeedView, FeedViewRefinement | modelled, refinement checked |
| Durable event log, wake bus | stores/durable_event_log/, stores/wake.rs | DurableEventLog | partly |
| RecordsWrite, RecordsDelete, prune, squash | handlers/records/ | RecordsHandlers | modelled |
| ProtocolsConfigure, control repair, resumable tasks, recovery at open | handlers/protocols/, tasks/, dwn-rs-stores sqlite/resumable_task_store.rs, dwn/builder.rs | ControlRepair | partly |
| Guarded subscriptions, subscribe handlers | handlers/guarded_subscription.rs, handlers/*/subscribe.rs | GuardedSubscription | partly |
| Sync engine, endpoints and ledger | sync/, dwn-rs-stores sqlite/sync_ledger.rs | | planned |
| SQLite message store, feed reader, connection lifecycle | dwn-rs-stores sqlite/ | | planned |
| In-memory event log, state index | stores/ | | planned |
| Messages and Records reads, permissions | handlers/, permissions/ | | planned |
| Runtime, agent and vault, did:dht publishing, FFI | runtime/, dwn-rs-agent, did-dht, enbox-ffi | | planned in part |
| Cryptography, DID resolution, schemas, derive macros, remote client | encryption/, auth/, dwn-rs-message-derive, dwn-rs-remote | | left out: conversions and stateless calls |

How the parts meet: a handler commits through the message store, which appends to the feed in the
same step and then publishes a wake. The event log reads the feed when it is woken and calls the
listeners of its subscriptions. A subscribe handler wraps its listener in a guard before the event
log sees it. FeedView is the interface between store and event log: ReplicationFeed is shown to
implement it and DurableEventLog is built on it. RecordsHandlers and ControlRepair use the message
store through its atomic commit, which ReplicationFeed justifies.

## The modules

**ReplicationFeed.** Per tenant: messages with their index projection, feed entries by position, the
CID-to-position index, the head and the fingerprint of every scope. Actions: `put`,
`commit_latest_state`, `delete`, `clear`. A fingerprint, an XOR of hashes in the code, is the set of
CIDs folded in an odd number of times.

**FeedView / FeedViewRefinement.** What a reader may rely on: an epoch, a head that only grows, a set of
visible positions, cursor validation and paged reads. The refinement module maps the tables to it.

**DurableEventLog.** The subscribe call, the drain task, the wake listener, the idle timer, the close
callers and the publisher, each moving from await to await. Wakes may be lost or coalesced.

**RecordsHandlers.** Each handler reads the retained messages, plans, stores data, commits, then works
off its clean-up one await at a time. Checks that only refuse a request are one refusal. Message store
and data store are separate and a handler can fail or vanish at any await.

**ControlRepair.** One protocol. A process runs a program, the list of awaits still to come: enlist the
repair (in memory, then in the table), commit, scan, and for each condemned record enlist, delete
messages, delete data, retire. Time is the leases running down by `Tick`. A definition is abstracted to
whether it defines a record's role; admission asks the configuration governing the record's timestamp,
repair also the newest one, as the code does. Control records are taken to have data in the data
store, that is, above the size that travels inside the message.

**GuardedSubscription.** The projection queue, its worker, the close handshake and the handler that
installs, flushes and reads a snapshot, over DurableEventLog, whose close callback keeps the listener
alive.

Operators whose name has a suffix after the name of a mapped definition (`Retains_None`,
`Configuring_CommitFirst`) are plausible bugs: putting one in place of the definition makes the named
property fail, which shows that the property depends on that code.

## The runs

| Run | Question | States |
|---|---|---|
| replication_feed | tables agree, fingerprints are exact, positions are never reused, the store implements FeedView | 2,770 |
| event_log | order, no skipped event, Eose between stored and live, errors final, no lost wakeup, replacing and closing | 560 k |
| event_log_progress | every event is eventually delivered and every call returns | 125 k |
| records_serial | convergence, one latest state, data present and no orphan, prune, squash floor; one handler at a time | 25 k |
| records_race | what survives two concurrent handlers: the winner, the initial write, a state that only advances | 215 k |
| control_repair | no repair or removal is forgotten, nothing valid is removed, repairs finish; over errors and crashes | 108 k |
| guard | an error fences and closes, flush waits, no gap between snapshot and stream, the handler answers | 15 k |
| records_one_latest, records_live_data, records_co_update, repair_race | refuted, see below | |

Scenarios. The full product of stimuli of the event log and of the records handlers is too large for one
run. `MCDurableEventLog` fixes in the initial state one scenario of a set (which subscriptions,
which of commit, clear, close, close log, timer and fault may happen, how many positions) and
`MCRecordsHandlers` one family of messages; the behaviour then stays inside it. A scenario only
withholds stimuli. It never withholds a step of a task that fairness is about.

Bounds. Two CIDs plus one outside the feed and four positions reach put, re-put, delete and the position
limit. Two subscriptions under one id reach replacement; a read limit of one makes every page boundary
happen and three positions put one page before, at and after the frozen cursor. Two handlers are enough
for the races found: each needs one stale snapshot; six requests let the messages of a family (initial write,
updates, a delete, a prune, a child) be sent in any order, some twice. Three
configurations are the fewest in which a role disappears and returns; one control record held from the
start and one arriving later are the fewest with one half removed and one untouched; a lease of two
ticks separates lapsed, running and renewed, and two crashes let a recovery itself be interrupted.
Four events fit before, during and after installation and snapshot. Bounds on requests, faults and
crashes are the constants named Max.... Deadlock checking is off where the model may come to rest: the
requests are bounded and a node without requests is idle. ControlRepair always has time passing and
leaves it on.

Fairness. Weak fairness is put on steps of tasks that the tokio runtime polls once they are ready, and on
timers. New requests, faults, crashes and epoch changes are never fair. `control_repair` also
assumes that the node is shut down and opened again and again, because the only recovery pass is at
open: without it a task whose repair failed stays enlisted.

## Where code and stated intent differ

Each has a run that TLC refutes and an entry with the quoted line in PROJECT.json.

| Run | What happens |
|---|---|
| records_one_latest | two handlers planned from one snapshot leave two latest states |
| records_live_data | clean-up deletes data a concurrent write returns to |
| records_co_update | an update by another author deletes the initial write |
| repair_race | retiring one repair erases the row another configure has just written |

Other orders of events that the models reach and no run states a property about are listed, with their
lines, under "hazards" in PROJECT.json: a child write that checked its parent before a prune, data removed before
messages, an interrupted prune, a record admitted under the old history after the scan, a restart
within a lease, a repair re-run beside its own child task, a failed repair that blocks later
configures, and the flush of a guard over MemoryEventLog.

These are results about the models. None was reproduced by running the Rust code. The interleavings
need two requests on the same record or protocol at once, which nothing in the handlers excludes.

## What is proved

`ReplicationFeedProofs` proves, for every set of tenants, CIDs and protocols and every bound, `TypeCorrect`,
`PositionsAlwaysAgree`, `FeedAlwaysMatchesMessages`, `FingerprintsAlwaysExact` and
`PositionsAreNeverReused`. None of the four invariants is inductive alone: deleting a message folds its
scopes out of the fingerprints, which is right only if the entry, the index and the projection agree.
`FeedInv` is their conjunction per tenant (`FeedOK`). One lemma per table operation (append, reindex, put,
delete, commit) shows that it keeps `FeedOK`; `FeedInvInductive` has one step per action. Position reuse
is an action property: each operation is shown not to reuse positions, and the lemmas compose for
transitions. The assumptions are the named ASSUME of ReplicationFeed, which TLC evaluates.

Everything else is model-checked only. Liveness under fairness, facts about recursive definitions and
ENABLED are outside this prover's reach and stay with TLC.

## Not modelled, and the plan

Left out inside modelled parts: a subscribe future dropped half way; cursor replay in
GuardedSubscription (DurableEventLog has it); the write of a lease extension as a step of its own; seal
keys and action rules in control repair; the RecordsDelete and RecordsSquash tasks, which no handler
enlists.

Next, in this order:

1. SyncEngine with its ledger: pull and push over an unreliable endpoint, checkpoints written out of
   order, dead letters, epoch gaps; abstract specification: both sides converge. No handler writes the
   StateIndex that DirectSyncEndpoint reads, so the endpoints will be taken from the SyncEndpoint trait
   and that gap stated as an assumption.
2. SqliteMessageStore as a refinement of ReplicationFeed; SqliteStore open and close; MemoryEventLog.
3. State index as a pure algorithm; paging of Records and Messages queries over a changing set.
4. Permissions at delivery time, runtime sessions, vault and setup, did:dht publishing.
5. Proofs: ReplicationFeed implements FeedView; WinnerKept and InitialKept of RecordsHandlers;
   ObligationDurable of ControlRepair for one call; ErrorIsLast and ErrorCloses of GuardedSubscription.
