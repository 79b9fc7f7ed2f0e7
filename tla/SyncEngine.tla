----------------------------- MODULE SyncEngine -----------------------------
(***************************************************************************)
(* The native sync engine (dwn-rs-core/src/sync): sync_once in its three   *)
(* directions, dead-letter retries, live subscription messages, and the    *)
(* ledger its memory is restored from.                                     *)
(*                                                                         *)
(* A message is a constant with the attributes that decide what applying   *)
(* it does: its record, its kind, its rank in the record, its parent and   *)
(* its ancestors.  An endpoint is the set of messages it holds.  Subtree   *)
(* hashes are the contents of the buckets of the key space, which is what  *)
(* a collision-free hash distinguishes.  Every await that another call can *)
(* be scheduled at ends a step; where a memory write and the ledger write  *)
(* after it are one step, no other call reads the memory copy in between.  *)
(***************************************************************************)
EXTENDS Naturals, FiniteSets, SequencesExt

CONSTANTS Msgs,        \* messages that can exist
          Record,      \* Msgs -> records
          Kind,        \* Msgs -> {"initial", "update", "prune"}
          Rank,        \* Msgs -> Nat, the order of a record's messages
          Parent,      \* Msgs -> records or NoRecord (descriptor.parentId)
          Ancestors,   \* Msgs -> sets of records (the contextId chain)
          Bucket,      \* Msgs -> key-space prefix of length diff_depth
          Scope,       \* Msgs -> sync scope
          Large,       \* messages whose data is too large to travel inline
          LeafOrder,   \* the messages in key-hash order
          NoRecord,
          Scopes,      \* the identity's protocols, in order
          Engines,     \* engine instances that share one ledger
          Calls,       \* concurrent callers
          MaxLetters,  \* bound: dead letters ever recorded
          MaxFaults    \* bound: failed reads, applies and ledger writes

VARIABLES held,    \* side -> messages the endpoint holds
          log,     \* side -> messages in the order the endpoint admitted them
          data,    \* side -> held messages whose data it has
          indexed, \* the sides whose StateIndex follows their message store
          identity,\* is the tenant registered for sync on the node?
          mem,     \* engine -> SyncEngineState
          ledger,  \* SyncLedgerSnapshot
          calls,   \* caller -> the call it is in
          faults,  \* faults that happened
          letterId,\* dead letters recorded so far
          link,    \* scope and direction -> events its subscription delivered
          waived   \* events cleared by the host or whose letter was not persisted

syncVars == <<held, log, data, indexed, identity, mem, ledger, calls, faults, letterId, link, waived>>
stores == <<held, log, data>>
wiring == <<indexed, identity>>

Sides == {"local", "remote"}
Directions == {"Pull", "Push"}
ScopeSet == {Scopes[i] : i \in DOMAIN Scopes}
Keys == ScopeSet \X Directions
Buckets == {Bucket[m] : m \in Msgs}

-----------------------------------------------------------------------------
(* Endpoints.                                                              *)

HasInitial(S, r) == \E x \in S : Record[x] = r /\ Kind[x] = "initial"
Pruned(S, r) == \E x \in S : Record[x] = r /\ Kind[x] = "prune"
Newer(S, m) == \E x \in S : Record[x] = Record[m] /\ Rank[x] > Rank[m]

(* parent_reply_is_terminal: an ancestor carries a retained prune. *)
AncestorPruned(S, m) == \E r \in Ancestors[m] : Pruned(S, r)

ParentMissing(S, m) ==
    /\ Parent[m] # NoRecord
    /\ ~HasInitial(S, Parent[m]) \/ Pruned(S, Parent[m])

(* The outcome of handing m, with or without its data, to a side that     *)
(* holds S, as classify_apply_reply_with_parent_state names the handler's *)
(* reply.  Only the local endpoint can look for a prune of an ancestor.   *)
ApplyOutcome(side, S, m, withData) ==
    IF m \in S THEN "Duplicate"
    ELSE IF Kind[m] # "initial" /\ ~HasInitial(S, Record[m]) THEN "Incomplete"
    ELSE IF Pruned(S, Record[m]) \/ Newer(S, m) THEN "Superseded"
    ELSE IF ParentMissing(S, m)
         THEN IF side = "local" /\ AncestorPruned(S, m) THEN "Superseded" ELSE "Incomplete"
    ELSE IF Kind[m] = "update" /\ ~withData THEN "Incomplete"
    ELSE "Applied"

(* What the endpoint holds after applying m: a write displaces the      *)
(* record's older updates, a prune the record's writes after the first  *)
(* and every descendant.                                                *)
AfterApply(S, m) ==
    {x \in S : /\ Record[x] = Record[m] => Kind[x] = "initial"
               /\ Kind[m] = "prune" => Record[m] \notin Ancestors[x]} \cup {m}

(* An endpoint that has m, or whose state already decides m. *)
Settled(S, m) ==
    m \in S \/ Newer(S, m) \/ Pruned(S, Record[m]) \/ AncestorPruned(S, m)

(* What a side's StateIndex lists.  No handler of this repository writes   *)
(* the index, so the node's own side lists nothing unless its embedder     *)
(* keeps the index; a server's index is external.                          *)
Index(side) == IF side \in indexed THEN held[side] ELSE {}

InScope(S, s) == {m \in S : Scope[m] = s}
SubtreeHashes(S, s) == [b \in Buckets |-> {m \in InScope(S, s) : Bucket[m] = b}]

(* compute_diff.  Neither side's collection drops an empty bucket (the   *)
(* empty hash it compares with is the one of a tree of depth 16, the     *)
(* index's tree has depth 256), so both maps are total: the prefixes     *)
(* reported are the ones that differ, the entries all leaves of those.   *)
DiffPrefixes(server, client, s) ==
    {b \in Buckets : SubtreeHashes(server, s)[b] # SubtreeHashes(client, s)[b]}
DiffEntries(server, client, s) ==
    SelectSeq(LeafOrder, LAMBDA m : /\ m \in InScope(server, s)
                                    /\ Bucket[m] \in DiffPrefixes(server, client, s))

(* Mutant: the diff's own order. *)
UnsortedEntry(pending) == 1

(* The next entry of sort_diff_entries_topologically: the first whose    *)
(* parent record is not among the entries left; in a cycle, any first.   *)
NextEntry(pending) ==
    LET ready(i) == Parent[pending[i]] \notin {Record[pending[j]] : j \in DOMAIN pending}
        first(P) == CHOOSE i \in P : \A j \in P : i <= j
    IN  IF \E i \in DOMAIN pending : ready(i)
        THEN first({i \in DOMAIN pending : ready(i)}) ELSE 1

Without(s, i) == SubSeq(s, 1, i - 1) \o SubSeq(s, i + 1, Len(s))

-----------------------------------------------------------------------------
(* Checkpoints, ledger and engine memory.                                  *)

(* A cursor is the number of log entries it covers; 0 is None. *)
NewCheckpoint ==
    [pendingPull |-> {}, pendingPush |-> {}, pullCursor |-> 0, pushCursor |-> 0,
     error |-> FALSE]

EmptyLedger ==
    [checkpoints |-> [k \in Keys |-> NewCheckpoint], letters |-> {}, echo |-> {},
     status |-> "None"]

(* Does a fault strike this step?  Faults are bounded. *)
Fault(f) == f \in {0, 1} /\ faults + f <= MaxFaults /\ faults' = faults + f

(* The writes of a SyncLedger; each may fail (f = 1), which the engine     *)
(* logs and ignores.  Updates and removals of unknown letters do nothing.  *)
Ids(S) == {x.id : x \in S}
LedgerWrite(f, new) == Fault(f) /\ ledger' = IF f = 1 THEN ledger ELSE new
Upsert(k, cp) == [ledger EXCEPT !.checkpoints[k] = cp]
InsertLetter(l) == [ledger EXCEPT !.letters = @ \cup {l}]
ReplaceLetter(S, l) == IF l.id \in Ids(S) THEN {x \in S : x.id # l.id} \cup {l} ELSE S
DropLetter(S, l) == {x \in S : x.id # l.id}
InsertEcho(m) == [ledger EXCEPT !.echo = @ \cup {m}]
SetLastStatus(status) == [ledger EXCEPT !.status = status]
Load(f) == IF f = 1 THEN EmptyLedger ELSE ledger

(* NativeSyncEngine::open: restore copies the snapshot, and an engine     *)
(* whose load failed starts empty.                                        *)
Restored(l) == [checkpoints |-> l.checkpoints, letters |-> l.letters,
                echo |-> l.echo, status |-> l.status, running |-> {},
                links |-> {}, identity |-> FALSE]

IdleCall == [pc |-> "idle"]

Goto(c, fields) == calls' = [calls EXCEPT ![c] = fields @@ @]
Mem(c) == mem[calls[c].engine]

(* The checkpoint closures the callers pass to update_checkpoint. *)
CheckpointUpdate(cp, u) ==
    CASE u.what = "pullEqual" -> [cp EXCEPT !.pendingPull = {}, !.error = FALSE]
      [] u.what = "pushEqual" -> [cp EXCEPT !.pendingPush = {}, !.error = FALSE]
      [] u.what = "pullDiff" -> [cp EXCEPT !.pendingPush = u.arg, !.error = FALSE]
      [] u.what = "pushDiff" -> [cp EXCEPT !.pendingPull = u.arg, !.error = FALSE]
      [] u.what = "pullEvent" -> [cp EXCEPT !.pullCursor = u.arg, !.error = FALSE]
      [] u.what = "pushEvent" -> [cp EXCEPT !.pushCursor = u.arg, !.error = FALSE]
      [] u.what = "pullEose" -> [cp EXCEPT !.pullCursor = u.arg]
      [] u.what = "pushEose" -> [cp EXCEPT !.pushCursor = u.arg]
      [] u.what = "retried" -> [cp EXCEPT !.error = FALSE]
      [] u.what = "gap" -> [cp EXCEPT !.error = TRUE]

ScopeOf(c) == Head(calls[c].scopes)
Dir(c) == Head(calls[c].dirs)
CursorOf(cp, dir) == IF dir = "Pull" THEN cp.pullCursor ELSE cp.pushCursor
Server(dir) == IF dir = "Pull" THEN "remote" ELSE "local"
Client(dir) == IF dir = "Pull" THEN "local" ELSE "remote"

(* Entries carry their data unless it is too large; a diff entry posted  *)
(* to a remote server never does (HttpSyncEndpoint::apply sends only the *)
(* message, whose data was split off).                                   *)
Inlined(side) == data[side] \ Large
CarriesData(c, m) ==
    /\ m \in Inlined(Server(Dir(c)))
    /\ calls[c].kind = "sync" => Dir(c) = "Pull"

(* One side applies m.  A first write without its data is stored without. *)
Store(side, m, withData) ==
    IF ApplyOutcome(side, held[side], m, withData) = "Applied"
    THEN /\ held' = [held EXCEPT ![side] = AfterApply(@, m)]
         /\ log' = [log EXCEPT ![side] = Append(@, m)]
         /\ data' = [data EXCEPT ![side] = (IF withData /\ Kind[m] # "prune" THEN @ \cup {m} ELSE @)
                                            \cap AfterApply(held[side], m)]
    ELSE UNCHANGED stores

(* SyncEndpoint::apply within call c: the reply is an error when the     *)
(* message is incomplete at the endpoint, or when the request or its     *)
(* answer is lost, with or without the message having been applied.      *)
Apply(c, m, onOk, onError) ==
    LET side == Client(Dir(c)) IN
    \E f \in {0, 1} :
      /\ Fault(f)
      /\ Store(side, m, CarriesData(c, m)) \/ (f = 1 /\ UNCHANGED stores)
      /\ IF f = 1 \/ ApplyOutcome(side, held[side], m, CarriesData(c, m)) = "Incomplete"
         THEN \E r \in BOOLEAN : (f = 0 => r) /\ Goto(c, [retryable |-> r] @@ onError)
         ELSE Goto(c, onOk)

-----------------------------------------------------------------------------
(* sync_once.                                                              *)

DirectionsOf(op) ==
    CASE op = "Pull" -> <<"Pull">> [] op = "Push" -> <<"Push">>
      [] op = "Bidirectional" -> <<"Pull", "Push">>

(* The run of an identity that is not registered fails at once.  A        *)
(* maxRecords of 0 is None.                                               *)
NewSync(e, op, scopes, maxRecords, registered) ==
    [pc |-> IF registered THEN "localRoot" ELSE "end", kind |-> "sync", engine |-> e, op |-> op,
     dirs |-> DirectionsOf(op), scopes |-> scopes, maxRecords |-> maxRecords,
     saw |-> {}, result |-> IF registered THEN "Completed" ELSE "Failed"]

(* begin_operation: AlreadyRunning (and NoConnectivity before it) change *)
(* nothing, so only the admitted call is a step.                         *)
SyncOnce(c, e, op, scopes, maxRecords) ==
    /\ calls[c].pc = "idle"
    /\ op \notin mem[e].running
    /\ mem' = [mem EXCEPT ![e].running = @ \cup {op}]
    /\ calls' = [calls EXCEPT ![c] = NewSync(e, op, scopes, maxRecords, mem[e].identity)]
    /\ UNCHANGED <<wiring, stores, ledger, faults, letterId, link, waived>>

Seen(c, S) == {<<Dir(c), m>> : m \in InScope(S, ScopeOf(c))}
Failed == [pc |-> "end", result |-> "Failed"]

ReadLocalRoot(c) ==
    /\ calls[c].pc = "localRoot"
    /\ \E f \in {0, 1} :
         /\ Fault(f)
         /\ Goto(c, IF f = 1 THEN Failed
                    ELSE [pc |-> "remoteRoot", root |-> InScope(Index("local"), ScopeOf(c))])
    /\ UNCHANGED <<wiring, stores, mem, ledger, letterId, link, waived>>

(* Equal roots end the direction with a checkpoint. *)
ReadRemoteRoot(c) ==
    /\ calls[c].pc = "remoteRoot"
    /\ \E f \in {0, 1} :
         /\ Fault(f)
         /\ Goto(c, IF f = 1 THEN Failed
                    ELSE IF calls[c].root # InScope(Index("remote"), ScopeOf(c))
                    THEN [pc |-> "hashes"]
                    ELSE [pc |-> "checkpoint", saw |-> calls[c].saw \cup Seen(c, calls[c].root),
                          update |-> [what |-> IF Dir(c) = "Pull" THEN "pullEqual"
                                               ELSE "pushEqual"]])
    /\ UNCHANGED <<wiring, stores, mem, ledger, letterId, link, waived>>

ReadHashes(c) ==
    /\ calls[c].pc = "hashes"
    /\ \E f \in {0, 1} :
         /\ Fault(f)
         /\ Goto(c, IF f = 1 THEN Failed
                    ELSE [pc |-> "diff", root |-> InScope(Index(Client(Dir(c))), ScopeOf(c))])
    /\ UNCHANGED <<wiring, stores, mem, ledger, letterId, link, waived>>

ReadDiff(c) ==
    /\ calls[c].pc = "diff"
    /\ \E f \in {0, 1} :
         LET server == Index(Server(Dir(c))) client == calls[c].root IN
         /\ Fault(f)
         /\ Goto(c, IF f = 1 THEN Failed
                    ELSE [pc |-> "entry", n |-> 0,
                          pending |-> DiffEntries(server, client, ScopeOf(c)),
                          saw |-> calls[c].saw \cup Seen(c, server),
                          update |-> [what |-> IF Dir(c) = "Pull" THEN "pullDiff" ELSE "pushDiff",
                                      arg |-> DiffPrefixes(server, client, ScopeOf(c))]])
    /\ UNCHANGED <<wiring, stores, mem, ledger, letterId, link, waived>>

(* should_suppress_echo asks the ledger, and memory when the ledger fails. *)
Suppressed(c, m, f) == m \in (IF f = 1 THEN Mem(c).echo ELSE ledger.echo)

OutOfBudget(c) == calls[c].maxRecords # 0 /\ calls[c].n >= calls[c].maxRecords

(* One turn of the loop over the sorted entries: a pull applies the entry  *)
(* and remembers it as an echo; a push first skips the echoes.             *)
AtEntry(c) == calls[c].pc = "entry" /\ calls[c].pending # <<>>
Entry(c) == calls[c].pending[NextEntry(calls[c].pending)]
Rest(c) == Without(calls[c].pending, NextEntry(calls[c].pending))

(* Mutant: a failed apply is skipped instead of ending the run. *)
PullEntrySkipping(c) ==
    /\ AtEntry(c) /\ Dir(c) = "Pull" /\ ~OutOfBudget(c)
    /\ Apply(c, Entry(c), [pc |-> "echo", msg |-> Entry(c), pending |-> Rest(c)],
             [pending |-> Rest(c)])
    /\ UNCHANGED <<wiring, mem, ledger, letterId, link, waived>>

PullEntry(c) ==
    /\ AtEntry(c) /\ Dir(c) = "Pull" /\ ~OutOfBudget(c)
    /\ Apply(c, Entry(c), [pc |-> "echo", msg |-> Entry(c), pending |-> Rest(c)],
             [pc |-> "letter", msg |-> Entry(c)])
    /\ UNCHANGED <<wiring, mem, ledger, letterId, link, waived>>

SkipEcho(c) ==
    /\ AtEntry(c) /\ Dir(c) = "Push"
    /\ \E f \in {0, 1} : Fault(f) /\ Suppressed(c, Entry(c), f)
    /\ Goto(c, [pending |-> Rest(c)])
    /\ UNCHANGED <<wiring, stores, mem, ledger, letterId, link, waived>>

PushEntry(c) ==
    /\ AtEntry(c) /\ Dir(c) = "Push" /\ ~Suppressed(c, Entry(c), 0) /\ ~OutOfBudget(c)
    /\ Apply(c, Entry(c), [pending |-> Rest(c), n |-> calls[c].n + 1],
             [pc |-> "letter", msg |-> Entry(c)])
    /\ UNCHANGED <<wiring, mem, ledger, letterId, link, waived>>

(* The end of the loop, or a budget that leaves entries for a later run. *)
StopEntries(c) ==
    /\ calls[c].pc = "entry"
    /\ \/ calls[c].pending = <<>> /\ Goto(c, [pc |-> "checkpoint"])
       \/ /\ AtEntry(c) /\ OutOfBudget(c)
          /\ Dir(c) = "Push" => ~Suppressed(c, Entry(c), 0)
          /\ Goto(c, [pc |-> "checkpoint", result |-> "Partial"])
    /\ UNCHANGED <<wiring, stores, mem, ledger, faults, letterId, link, waived>>

-----------------------------------------------------------------------------
(* The steps that every kind of call shares.                               *)

(* remember_echo, then the next entry (sync) or the checkpoint. *)
RememberEcho(c) ==
    /\ calls[c].pc = "echo"
    /\ mem' = [mem EXCEPT ![calls[c].engine].echo = @ \cup {calls[c].msg}]
    /\ \E f \in {0, 1} : LedgerWrite(f, InsertEcho(calls[c].msg))
    /\ Goto(c, IF calls[c].kind = "sync" THEN [pc |-> "entry", n |-> calls[c].n + 1]
               ELSE [pc |-> "checkpoint"])
    /\ UNCHANGED <<wiring, stores, letterId, link, waived>>

(* record_dead_letter; the call then fails. *)
RecordLetter(c) ==
    LET l == [id |-> letterId + 1, dir |-> Dir(c), scope |-> ScopeOf(c),
              msg |-> calls[c].msg, retryable |-> calls[c].retryable] IN
    /\ calls[c].pc = "letter"
    /\ letterId < MaxLetters
    /\ letterId' = letterId + 1
    /\ mem' = [mem EXCEPT ![calls[c].engine].letters = @ \cup {l}]
    /\ \E f \in {0, 1} :
         /\ LedgerWrite(f, InsertLetter(l))
         /\ waived' = IF f = 1 THEN waived \cup {<<l.dir, l.msg>>} ELSE waived
    /\ IF calls[c].kind = "sync" THEN Goto(c, Failed)
       ELSE calls' = [calls EXCEPT ![c] = IdleCall]
    /\ UNCHANGED <<wiring, stores, link>>

(* update_checkpoint: memory under the lock, the ledger after it. *)
UpdateCheckpoint(c) ==
    LET cp == CheckpointUpdate(Mem(c).checkpoints[<<ScopeOf(c), Dir(c)>>], calls[c].update) IN
    /\ calls[c].pc = "checkpoint"
    /\ mem' = [mem EXCEPT ![calls[c].engine].checkpoints[<<ScopeOf(c), Dir(c)>>] = cp]
    /\ Goto(c, [pc |-> "persist", copy |-> cp])
    /\ UNCHANGED <<wiring, stores, ledger, faults, letterId, link, waived>>

(* sync_scope and sync_once_unlocked: a direction that did not complete  *)
(* ends the run; otherwise the next direction, then the next scope.      *)
AfterCheckpoint(c) ==
    CASE calls[c].kind = "live" -> [pc |-> "return"]
      [] calls[c].kind = "gap" -> [pc |-> "repairing"]
      [] calls[c].kind = "retry" -> [pc |-> "clear"]
      [] calls[c].kind = "sync" ->
           IF calls[c].result # "Completed" THEN [pc |-> "end"]
           ELSE IF Len(calls[c].dirs) > 1
                THEN [pc |-> "localRoot", dirs |-> Tail(calls[c].dirs)]
           ELSE IF Len(calls[c].scopes) > 1
                THEN [pc |-> "localRoot", scopes |-> Tail(calls[c].scopes),
                      dirs |-> DirectionsOf(calls[c].op)]
           ELSE [pc |-> "end"]

PersistCheckpoint(c) ==
    LET next == AfterCheckpoint(c) IN
    /\ calls[c].pc = "persist"
    /\ \E f \in {0, 1} : LedgerWrite(f, Upsert(<<ScopeOf(c), Dir(c)>>, calls[c].copy))
    /\ IF next.pc = "return" THEN calls' = [calls EXCEPT ![c] = IdleCall] ELSE Goto(c, next)
    /\ UNCHANGED <<wiring, stores, mem, letterId, link, waived>>

(* The run status: end_operation, and the Repairing of handle_progress_gap. *)
SetStatus(c, status, running) ==
    /\ mem' = [mem EXCEPT ![calls[c].engine].status = status,
                          ![calls[c].engine].running = running]
    /\ \E f \in {0, 1} : LedgerWrite(f, SetLastStatus(status))
    /\ calls' = [calls EXCEPT ![c] = IdleCall]
    /\ UNCHANGED <<wiring, stores, letterId, link, waived>>

EndOperation(c) ==
    /\ calls[c].pc = "end"
    /\ SetStatus(c, calls[c].result, Mem(c).running \ {calls[c].op})

Repairing(c) ==
    /\ calls[c].pc = "repairing"
    /\ SetStatus(c, "Repairing", Mem(c).running)

-----------------------------------------------------------------------------
(* Dead letters.                                                           *)

(* retry_dead_letter up to begin_operation: a letter that is not in       *)
(* memory, not retryable or without an entry is refused without effect.   *)
RetryDeadLetter(c, e, l) ==
    /\ calls[c].pc = "idle"
    /\ l \in mem[e].letters /\ l.retryable /\ l.msg \in Msgs
    /\ l.dir \notin mem[e].running
    /\ mem' = [mem EXCEPT ![e].running = @ \cup {l.dir}]
    /\ calls' = [calls EXCEPT ![c] =
          [pc |-> "retry", kind |-> "retry", engine |-> e, op |-> l.dir, msg |-> l.msg,
           dirs |-> <<l.dir>>, scopes |-> <<l.scope>>, letter |-> l, saw |-> {},
           result |-> "Completed", update |-> [what |-> "retried"]]]
    /\ UNCHANGED <<wiring, stores, ledger, faults, letterId, link, waived>>

RetryApply(c) ==
    /\ calls[c].pc = "retry"
    /\ Apply(c, calls[c].msg,
             [pc |-> IF Dir(c) = "Pull" THEN "echo" ELSE "checkpoint"],
             [pc |-> "retryFailed", result |-> "Failed"])
    /\ UNCHANGED <<wiring, mem, ledger, letterId, link, waived>>

(* update_dead_letter_failure: the error, and with it whether the letter *)
(* may be retried again, in memory and ledger under the lock.            *)
RetryFailed(c) ==
    LET l == calls[c].letter
        new == [l EXCEPT !.retryable = calls[c].retryable] IN
    /\ calls[c].pc = "retryFailed"
    /\ mem' = [mem EXCEPT ![calls[c].engine].letters = ReplaceLetter(@, new)]
    /\ \E f \in {0, 1} :
         LedgerWrite(f, IF l.id \in Ids(Mem(c).letters)
                        THEN [ledger EXCEPT !.letters = ReplaceLetter(@, new)] ELSE ledger)
    /\ Goto(c, [pc |-> "end"])
    /\ UNCHANGED <<wiring, stores, letterId, link, waived>>

(* clear_dead_letter: memory forgets the letter only if the ledger did. *)
Clear(e, l, f) ==
    LET removed == f = 0 /\ l.id \in Ids(ledger.letters) IN
    /\ LedgerWrite(f, [ledger EXCEPT !.letters = DropLetter(@, l)])
    /\ mem' = IF removed THEN [mem EXCEPT ![e].letters = DropLetter(@, l)] ELSE mem

RetryClear(c) ==
    /\ calls[c].pc = "clear"
    /\ \E f \in {0, 1} : Clear(calls[c].engine, calls[c].letter, f)
    /\ Goto(c, [pc |-> "end"])
    /\ UNCHANGED <<wiring, stores, letterId, link, waived>>

ClearDeadLetter(e, l) ==
    /\ l \in mem[e].letters
    /\ Clear(e, l, 0)
    /\ waived' = waived \cup {<<l.dir, l.msg>>}
    /\ UNCHANGED <<wiring, stores, calls, letterId, link>>

-----------------------------------------------------------------------------
(* Live subscriptions.  The link of a scope and direction delivers the     *)
(* entries of the server's log in order, one handler at a time, and may     *)
(* deliver an entry again.                                                  *)

LiveIdle(s, dir) ==
    \A c \in Calls : calls[c].pc # "idle" /\ calls[c].kind \in {"live", "gap"}
                       => <<ScopeOf(c), Dir(c)>> # <<s, dir>>

Deliverable(s, dir, p) ==
    /\ p \in DOMAIN log[Server(dir)] /\ Scope[log[Server(dir)][p]] = s
    /\ \A q \in (link[<<s, dir>>] + 1)..(p - 1) : Scope[log[Server(dir)][q]] # s

LiveCall(c, e, s, dir, kind, fields) ==
    calls' = [calls EXCEPT ![c] =
        fields @@ [kind |-> kind, engine |-> e, dirs |-> <<dir>>, scopes |-> <<s>>]]

(* validate_pull_cursor: an event behind the pull checkpoint is a gap. *)
validate_pull_cursor(e, s, p) == p >= mem[e].checkpoints[<<s, "Pull">>].pullCursor

(* handle_remote_subscription_message, Event: an entry with a cursor that *)
(* is not a gap is applied.                                               *)
RemoteEvent(c, e, s, p) ==
    /\ calls[c].pc = "idle" /\ LiveIdle(s, "Pull") /\ Deliverable(s, "Pull", p)
    /\ link' = [link EXCEPT ![<<s, "Pull">>] = IF p > @ THEN p ELSE @]
    /\ IF validate_pull_cursor(e, s, p)
       THEN LiveCall(c, e, s, "Pull", "live",
                     [pc |-> "event", msg |-> log.remote[p],
                      update |-> [what |-> "pullEvent", arg |-> p]])
       ELSE LiveCall(c, e, s, "Pull", "gap", [pc |-> "checkpoint", update |-> [what |-> "gap"]])
    /\ UNCHANGED <<wiring, stores, mem, ledger, faults, letterId, waived>>

(* handle_local_subscription_message, Event: an echo only moves the      *)
(* cursor (read before the checkpoint is written).                       *)
LocalEvent(c, e, s, p) ==
    /\ calls[c].pc = "idle" /\ LiveIdle(s, "Push") /\ Deliverable(s, "Push", p)
    /\ link' = [link EXCEPT ![<<s, "Push">>] = IF p > @ THEN p ELSE @]
    /\ LiveCall(c, e, s, "Push", "live",
                IF log.local[p] \in ledger.echo
                THEN [pc |-> "checkpoint", update |-> [what |-> "pushEose", arg |-> p]]
                ELSE [pc |-> "event", msg |-> log.local[p],
                      update |-> [what |-> "pushEvent", arg |-> p]])
    /\ UNCHANGED <<wiring, stores, mem, ledger, faults, letterId, waived>>

(* Mutant: the cursor moves past an event whose apply failed. *)
ApplyEventAdvancing(c) ==
    /\ calls[c].pc = "event"
    /\ Apply(c, calls[c].msg, [pc |-> "checkpoint"], [pc |-> "checkpoint"])
    /\ UNCHANGED <<wiring, mem, ledger, letterId, link, waived>>

ApplyEvent(c) ==
    /\ calls[c].pc = "event"
    /\ Apply(c, calls[c].msg,
             [pc |-> IF Dir(c) = "Pull" THEN "echo" ELSE "checkpoint"], [pc |-> "letter"])
    /\ UNCHANGED <<wiring, mem, ledger, letterId, link, waived>>

(* Eose: the stream is drained; its cursor becomes the checkpoint's. *)
EndOfStored(c, e, s, dir) ==
    LET head == Len(log[Server(dir)]) IN
    /\ calls[c].pc = "idle" /\ LiveIdle(s, dir)
    /\ head > 0 /\ \A p \in 1..head : Deliverable(s, dir, p) => p <= link[<<s, dir>>]
    /\ head > CursorOf(mem[e].checkpoints[<<s, dir>>], dir)
    /\ LiveCall(c, e, s, dir, "live",
                [pc |-> "checkpoint",
                 update |-> [what |-> IF dir = "Pull" THEN "pullEose" ELSE "pushEose", arg |-> head]])
    /\ UNCHANGED <<wiring, stores, mem, ledger, faults, letterId, link, waived>>

(* A subscription error is a dead letter without an entry; the host then *)
(* subscribes again from the checkpoint's cursor.                        *)
StreamError(c, e, s, dir) ==
    /\ calls[c].pc = "idle" /\ LiveIdle(s, dir) /\ Fault(1)
    /\ LiveCall(c, e, s, dir, "live", [pc |-> "letter", msg |-> NoRecord, retryable |-> TRUE])
    /\ link' = [link EXCEPT ![<<s, dir>>] = CursorOf(mem[e].checkpoints[<<s, dir>>], dir)]
    /\ UNCHANGED <<wiring, stores, mem, ledger, letterId, waived>>

-----------------------------------------------------------------------------
(* Identities and live links.                                              *)

(* register_identity, update_identity and unregister_identity on engine e. *)
SetIdentity(e, b) ==
    /\ mem[e].identity # b
    /\ mem' = [mem EXCEPT ![e].identity = b]
    /\ UNCHANGED <<wiring, stores, ledger, calls, faults, letterId, link, waived>>

(* start_sync: the link is noted, then a bidirectional run. *)
StartSync(c, e) ==
    /\ calls[c].pc = "idle" /\ "Bidirectional" \notin mem[e].running
    /\ mem' = [mem EXCEPT ![e].links = ScopeSet, ![e].running = @ \cup {"Bidirectional"}]
    /\ calls' = [calls EXCEPT ![c] = NewSync(e, "Bidirectional", Scopes, 0, mem[e].identity)]
    /\ UNCHANGED <<wiring, stores, ledger, faults, letterId, link, waived>>

(* stop_sync forgets the links; it neither waits for nor stops a run. *)
StopSync(e) ==
    /\ mem[e].links # {}
    /\ mem' = [mem EXCEPT ![e].links = {}]
    /\ UNCHANGED <<wiring, stores, ledger, calls, faults, letterId, link, waived>>

(* enter_degraded_poll; reconcile_after_live_disconnect follows it with a *)
(* pull (poll_reconcile), a SyncOnce of direction Pull.                   *)
EnterDegradedPoll(e, s) ==
    /\ s \in mem[e].links
    /\ mem' = [mem EXCEPT ![e].links = @ \ {s}, ![e].status = "DegradedPoll"]
    /\ \E f \in {0, 1} : LedgerWrite(f, SetLastStatus("DegradedPoll"))
    /\ UNCHANGED <<wiring, stores, calls, letterId, link, waived>>

-----------------------------------------------------------------------------
(* The environment: writers on either side, and the process.               *)

UserWrite(side, m) ==
    /\ \A d \in Sides : \A i \in DOMAIN log[d] : log[d][i] # m
    /\ ApplyOutcome(side, held[side], m, TRUE) = "Applied"
    /\ Store(side, m, TRUE)
    /\ UNCHANGED <<wiring, mem, ledger, calls, faults, letterId, link, waived>>

(* The process dies and every engine is opened again on the ledger. *)
Crash ==
    /\ Fault(1)
    /\ mem' = [e \in Engines |-> Restored(Load(0))]
    /\ identity' = FALSE
    /\ calls' = [c \in Calls |-> IdleCall]
    /\ link' = [k \in Keys |-> CursorOf(ledger.checkpoints[k], k[2])]
    /\ UNCHANGED <<indexed, stores, ledger, letterId, waived>>

CallStep(c) ==
    \/ ReadLocalRoot(c) \/ ReadRemoteRoot(c) \/ ReadHashes(c) \/ ReadDiff(c)
    \/ PullEntry(c) \/ SkipEcho(c) \/ PushEntry(c) \/ StopEntries(c)
    \/ RememberEcho(c) \/ RecordLetter(c) \/ UpdateCheckpoint(c) \/ PersistCheckpoint(c)
    \/ EndOperation(c) \/ Repairing(c)
    \/ RetryApply(c) \/ RetryFailed(c) \/ RetryClear(c) \/ ApplyEvent(c)

LiveStep(c, e) ==
    \E s \in ScopeSet :
       \/ \E p \in DOMAIN log.remote : RemoteEvent(c, e, s, p)
       \/ \E p \in DOMAIN log.local : LocalEvent(c, e, s, p)
       \/ \E dir \in Directions : EndOfStored(c, e, s, dir) \/ StreamError(c, e, s, dir)

(* Endpoints that admitted the messages of `admitted` before sync starts. *)
SyncInit(admitted) ==
    /\ log = admitted
    /\ held = [d \in Sides |-> FoldLeft(AfterApply, {}, admitted[d])]
    /\ data = [d \in Sides |-> {m \in held[d] : Kind[m] # "prune"}]
    /\ ledger = EmptyLedger /\ mem = [e \in Engines |-> Restored(EmptyLedger)]
    /\ calls = [c \in Calls |-> IdleCall]
    /\ faults = 0 /\ letterId = 0 /\ waived = {}
    /\ link = [k \in Keys |-> 0] /\ identity = FALSE /\ indexed \in SUBSET Sides
=============================================================================
