---------------------------- MODULE RecordsHandlers ----------------------------
(***************************************************************************)
(* The RecordsWrite and RecordsDelete handlers of one tenant, cut at their *)
(* await points: handlers/records/{write,delete,squash,data,state}.rs and  *)
(* the helpers of common.rs they call.  Calls run concurrently and take no *)
(* lock on a record: each reads the retained messages once, plans from     *)
(* that snapshot, and commits later.  The message store is its atomic      *)
(* interface (ReplicationFeed models how it keeps that promise); the data  *)
(* store is a second store with no transaction in common.                  *)
(*                                                                         *)
(* A message is the record [record, class, ts, cid, author, initial, data, *)
(* squash]; a request adds whether its data stream came along.  Signature, *)
(* schema, protocol and grant checks are one refusal that may happen: they *)
(* change nothing.                                                         *)
(***************************************************************************)
EXTENDS Naturals, Sequences

CONSTANTS
    Calls,          \* handler invocations that may be in flight together
    Records,        \* recordIds
    Parent,         \* [Records -> Records \cup {None}], the parentId
    SquashRecords,  \* the records at a $squash protocol path
    Messages,       \* the RecordsWrite and RecordsDelete messages that exist
    Requests,       \* the <<message, data stream supplied?>> that are sent
    LargeData,      \* the dataCids larger than MAX_ENCODED_DATA_SIZE
    None,
    MaxRequests,    \* bound on the number of requests
    MaxFaults       \* bound on store errors, dropped calls and crashes

(* A CID names one message; CIDs are ordered as their strings are. *)
ASSUME MessagesAssumption ==
    /\ \A m \in Messages : m.record \in Records /\ m.class \in 0..2 /\ m.ts \in Nat /\ m.cid \in Nat
    /\ \A m, n \in Messages : m.cid = n.cid => m = n
    /\ Requests \subseteq Messages \X BOOLEAN
    /\ None \notin Records /\ None \notin Messages

VARIABLES
    store,      \* the message store: retained, isLatestBaseState, encodedData
    blobs,      \* the data store: <<recordId, dataCid>>
    call,       \* the handler invocations
    settled,    \* history: messages the node has committed or outranked
    requests,   \* history: requests sent
    faults      \* history: calls that ended half-way

handlersVars == <<store, blobs, call, settled, requests, faults>>

-----------------------------------------------------------------------------
(* RecordsStateClass, in its derived order. *)
WriteClass == 0
DeleteClass == 1
PruneClass == 2

OfRecord(S, r) == {m \in S : m.record = r}

(* Message timestamp, then CID. *)
compare_messages(a, b) == a.ts < b.ts \/ (a.ts = b.ts /\ a.cid < b.cid)

newest_message(S) == CHOOSE m \in S : \A n \in S \ {m} : compare_messages(n, m)

(* The convergence lattice: class, then timestamp, then CID. *)
compare_order(a, b) ==
    a.class < b.class \/ (a.class = b.class /\ compare_messages(a, b))

Winner(S) == CHOOSE m \in S : \A n \in S \ {m} : compare_order(n, m)

(* Mutant: the candidate meets only the newest retained message. *)
plan_records_transition_Newest(m, retained) ==
    IF m \in retained THEN "Duplicate"
    ELSE IF retained # {} /\ ~compare_order(newest_message(retained), m) THEN "Superseded"
    ELSE "Apply"

plan_records_transition(m, retained) ==
    IF m \in retained THEN "Duplicate"
    ELSE IF \E w \in retained : ~compare_order(w, m) THEN "Superseded"
    ELSE "Apply"

outranked_cids(m, retained) == {x \in retained : compare_order(x, m)}

(* entry_id(author, descriptor) equals the recordId: the message is the     *)
(* initial write, seen with the author that is part of its identity.        *)
is_initial_write(m, author) == m.class = WriteClass /\ m.initial /\ m.author = author

Initials(S) == {m \in S : is_initial_write(m, m.author)}

(* The outranked messages a transition keeps: a write judges the initial    *)
(* write with the incoming author, a delete with the stored message's own.  *)
Retains(m, existing) ==
    {x \in outranked_cids(m, existing) :
        is_initial_write(x, IF m.class = WriteClass THEN m.author ELSE x.author)}

Deletes(m, existing) == outranked_cids(m, existing) \ Retains(m, existing)

(* Mutant: everything else of the record goes. *)
Committed_Replaces(s, m, latest, encoded, existing) ==
    LET others == {x \in s.retained : x.record = m.record}
    IN  [retained |-> ((s.retained \ others) \cup Retains(m, existing)) \cup {m},
         latest   |-> (s.latest \ others) \cup (IF latest THEN {m} ELSE {}),
         encoded  |-> (s.encoded \ others) \cup (IF encoded THEN {m} ELSE {})]

(* commit_latest_state: the put, the reindexed retains (isLatestBaseState   *)
(* off, encodedData gone) and the deletes in one step.                      *)
Committed(s, m, latest, encoded, existing) ==
    LET keep(S, add) == ((S \ {m}) \cup (IF add THEN {m} ELSE {})) \ Deletes(m, existing)
    IN  [retained |-> keep(s.retained, TRUE),
         latest   |-> keep(s.latest, latest) \ Retains(m, existing),
         encoded  |-> keep(s.encoded, encoded) \ Retains(m, existing)]

-----------------------------------------------------------------------------
(* What is left to do after the commit, one await at a time:                *)
(*   clean     delete the data of outranked messages                        *)
(*   children  query the children of records, to purge below them           *)
(*   siblings  query the records a squash removes                           *)
(*   purge     delete the data of records' newest writes                    *)
(*   drop      delete the messages of a record                              *)
(* Then puts such work before the rest, if there is any.                    *)
Then(op, S, rest) == IF S = {} THEN rest ELSE <<[op |-> op, of |-> S]>> \o rest

(* Mutant: the incoming write's own data is not spared. *)
delete_from_data_store_if_needed_Always(m, newest) ==
    m.class = WriteClass /\ m.data \in LargeData

delete_from_data_store_if_needed(m, newest) ==
    /\ m.class = WriteClass
    /\ m.data \in LargeData
    /\ ~(newest.class = WriteClass /\ newest.data = m.data)

Cleanup(m, existing) ==
    {x \in outranked_cids(m, existing) : delete_from_data_store_if_needed(x, m)}

Oldest(m, S) == \A n \in S \ {m} : compare_messages(m, n)

(* Deepest first: below every child of record r, then the children          *)
(* themselves.                                                              *)
purge_record_descendants(S, rest) ==
    Then("children", {m.record : m \in S}, Then("purge", S, rest))

(* The messages of the other records that are older than the squash. *)
perform_records_squash(m, S) ==
    {x \in S : x.record # m.record /\ newest_message(OfRecord(S, x.record)).ts < m.ts}

-----------------------------------------------------------------------------
Idle == [pc |-> "idle", msg |-> None, stream |-> FALSE, existing |-> {},
         encoded |-> {}, latest |-> FALSE, todo |-> <<>>]

HandlersInit ==
    /\ store = [retained |-> {}, latest |-> {}, encoded |-> {}]
    /\ blobs = {}
    /\ call = [c \in Calls |-> Idle]
    /\ settled = {}
    /\ requests = 0
    /\ faults = 0

At(c, pc) == call[c].pc = pc

Becomes(c, rec) == call' = [call EXCEPT ![c] = rec]

Goto(c, pc) == Becomes(c, [call[c] EXCEPT !.pc = pc])

Return(c) == Becomes(c, Idle)

Settle(m) == settled' = settled \cup {m}

(* A message outranked by one of the snapshot is settled with it, unless    *)
(* the record was purged meanwhile.                                         *)
SettleBelow(m, existing) ==
    settled' = IF \E w \in existing \cap settled : ~compare_order(w, m)
               THEN settled \cup {m} ELSE settled

(* The rest of a handler after its commit; it replies when nothing is left. *)
Continue(c, todo) ==
    IF todo = <<>> THEN Return(c)
    ELSE Becomes(c, [Idle EXCEPT !.pc = "work", !.msg = call[c].msg, !.todo = todo])

Request(c) ==
    /\ At(c, "idle")
    /\ requests < MaxRequests
    /\ requests' = requests + 1
    /\ \E q \in Requests :
          Becomes(c, [Idle EXCEPT !.pc = IF q[1].class = WriteClass THEN "write" ELSE "delete",
                                  !.msg = q[1], !.stream = q[2]])
    /\ UNCHANGED <<store, blobs, settled, faults>>

(* Authentication, schema, protocol rule or grant refuses the message. *)
Refuse(c) ==
    /\ call[c].pc \in {"admit", "delete"}
    /\ Return(c)
    /\ UNCHANGED <<store, blobs, settled, requests, faults>>

(* The snapshot every later decision of the call is taken from. *)
Snapshot(c, pc) ==
    LET existing == OfRecord(store.retained, call[c].msg.record)
    IN  Becomes(c, [call[c] EXCEPT !.pc = pc, !.existing = existing,
                                   !.encoded = existing \cap store.encoded])

(***************************************************************************)
(* RecordsWrite                                                            *)
(***************************************************************************)
WriteRead(c) ==
    LET m == call[c].msg
    IN  /\ At(c, "write")
        /\ IF m \in OfRecord(store.retained, m.record)
           THEN Settle(m) /\ Return(c)
           ELSE UNCHANGED settled /\ Snapshot(c, "admit")
        /\ UNCHANGED <<store, blobs, requests, faults>>

(* Mutant: a pruned parent still counts. *)
fetch_parent_record_IgnoresPrune(r) == Initials(OfRecord(store.retained, r)) # {}

(* A parent is its retained initial write, unless a prune is retained. *)
fetch_parent_record(r) ==
    /\ \A m \in OfRecord(store.retained, r) : m.class # PruneClass
    /\ Initials(OfRecord(store.retained, r)) # {}

(* validate_referential_integrity reads the parent, authorization follows.  *)
WriteAdmit(c) ==
    LET p == Parent[call[c].msg.record]
    IN  /\ At(c, "admit")
        /\ IF p = None \/ fetch_parent_record(p) THEN Goto(c, "decide") ELSE Return(c)
        /\ UNCHANGED <<store, blobs, settled, requests, faults>>

(* A write at a $squash path must be newer than the newest live squash. *)
enforce_squash_backstop(m) ==
    m.record \in SquashRecords =>
        \A x \in store.latest :
            x.record \in SquashRecords /\ x.class = WriteClass /\ x.squash => m.ts > x.ts

(* An update needs the initial write in the snapshot; then the backstop,    *)
(* read now; then the plan, still the one of the snapshot.                  *)
WriteDecide(c) ==
    LET m == call[c].msg
        existing == call[c].existing
    IN  /\ At(c, "decide")
        /\ IF \/ ~is_initial_write(m, m.author) /\ Initials(existing) = {}
              \/ ~enforce_squash_backstop(m)
           THEN Return(c) /\ UNCHANGED settled
           ELSE IF plan_records_transition(m, existing) = "Superseded"
           THEN Return(c) /\ SettleBelow(m, existing)
           ELSE Goto(c, "data") /\ UNCHANGED settled
        /\ UNCHANGED <<store, blobs, requests, faults>>

(* process_message_with_data_stream *)
WriteWithData(c) ==
    LET m == call[c].msg
    IN  /\ At(c, "data") /\ call[c].stream
        /\ blobs' = IF m.data \in LargeData THEN blobs \cup {<<m.record, m.data>>} ELSE blobs
        /\ Becomes(c, [call[c] EXCEPT !.pc = "commit", !.latest = TRUE,
                           !.encoded = IF m.data \in LargeData THEN {} ELSE {m}])
        /\ UNCHANGED <<store, settled, requests, faults>>

(* process_message_without_data_stream: the data must be the newest existing *)
(* write's, inline in that message or present in the data store.            *)
PreviousData(m, existing, encoded) ==
    LET w == newest_message(existing)
    IN  /\ w.class = WriteClass
        /\ w.data = m.data
        /\ IF m.data \in LargeData THEN <<m.record, m.data>> \in blobs ELSE w \in encoded

WriteWithoutData(c) ==
    LET m == call[c].msg
    IN  /\ At(c, "data") /\ ~call[c].stream
        /\ IF is_initial_write(m, m.author)
           THEN Becomes(c, [call[c] EXCEPT !.pc = "commit", !.encoded = {}])
           ELSE IF PreviousData(m, call[c].existing, call[c].encoded)
           THEN Becomes(c, [call[c] EXCEPT !.pc = "commit", !.latest = TRUE,
                                !.encoded = IF m.data \in LargeData THEN {} ELSE {m}])
           ELSE Return(c)
        /\ UNCHANGED <<store, blobs, settled, requests, faults>>

(* The commit fails if a message it retains is gone. *)
RetainMissing(c) ==
    /\ At(c, "commit")
    /\ ~(Retains(call[c].msg, call[c].existing) \subseteq store.retained)
    /\ Return(c)
    /\ UNCHANGED <<store, blobs, settled, requests, faults>>

Commit(c, latest, encoded, todo) ==
    LET m == call[c].msg
    IN  /\ At(c, "commit")
        /\ Retains(m, call[c].existing) \subseteq store.retained
        /\ store' = Committed(store, m, latest, encoded, call[c].existing)
        /\ Settle(m)
        /\ Continue(c, todo)
        /\ UNCHANGED <<blobs, requests, faults>>

WriteCommit(c) ==
    LET m == call[c].msg
    IN  /\ m # None /\ m.class = WriteClass
        /\ Commit(c, call[c].latest, call[c].encoded # {},
                  Then("clean", Cleanup(m, call[c].existing),
                       Then("siblings", IF m.squash THEN {m.record} ELSE {}, <<>>)))

(***************************************************************************)
(* RecordsDelete                                                           *)
(***************************************************************************)
DeleteRead(c) ==
    LET m == call[c].msg
        existing == OfRecord(store.retained, m.record)
    IN  /\ At(c, "delete")
        /\ IF existing # {} /\ plan_records_transition(m, existing) # "Apply"
           THEN Return(c) /\ SettleBelow(m, existing)
           ELSE IF \A x \in existing : x.class # WriteClass
           THEN Return(c) /\ UNCHANGED settled
           ELSE Snapshot(c, "commit") /\ UNCHANGED settled
        /\ UNCHANGED <<store, blobs, requests, faults>>

DeleteCommit(c) ==
    LET m == call[c].msg
    IN  /\ m # None /\ m.class # WriteClass
        /\ Commit(c, TRUE, FALSE,
                  Then("children", IF m.class = PruneClass THEN {m.record} ELSE {},
                       Then("clean", Cleanup(m, call[c].existing), <<>>)))

(***************************************************************************)
(* After the commit                                                        *)
(***************************************************************************)
Doing(c, op) == At(c, "work") /\ Head(call[c].todo).op = op

Work(c) == Head(call[c].todo).of
Rest(c) == Tail(call[c].todo)

(* The oldest message first; the next await follows. *)
DeleteData(c) ==
    /\ Doing(c, "clean")
    /\ \E m \in Work(c) :
          /\ Oldest(m, Work(c))
          /\ blobs' = blobs \ {<<m.record, m.data>>}
          /\ Continue(c, Then("clean", Work(c) \ {m}, Rest(c)))
    /\ UNCHANGED <<store, settled, requests, faults>>

(* A subtree is purged before the next record of the same query. *)
PurgeChildren(c) ==
    LET r == CHOOSE x \in Work(c) : TRUE
        below == {m \in store.retained : Parent[m.record] = r}
    IN  /\ Doing(c, "children")
        /\ Continue(c, purge_record_descendants(below, Then("children", Work(c) \ {r}, Rest(c))))
        /\ UNCHANGED <<store, blobs, settled, requests, faults>>

PurgeSiblings(c) ==
    LET siblings == {m \in store.retained : m.record \in SquashRecords}
    IN  /\ Doing(c, "siblings")
        /\ Continue(c, Then("purge", perform_records_squash(call[c].msg, siblings), Rest(c)))
        /\ UNCHANGED <<store, blobs, settled, requests, faults>>

(* purge_record_messages, one record after the other: the data of the       *)
(* newest write first, the messages after.                                  *)
PurgeRecordMessages(c) ==
    LET r == (CHOOSE x \in Work(c) : TRUE).record
        S == OfRecord(Work(c), r)
        writes == {m \in S : m.class = WriteClass}
    IN  /\ Doing(c, "purge")
        /\ blobs' = IF writes = {} THEN blobs ELSE blobs \ {<<r, newest_message(writes).data>>}
        /\ Continue(c, Then("drop", S, Then("purge", Work(c) \ S, Rest(c))))
        /\ UNCHANGED <<store, settled, requests, faults>>

(* A purged record starts again: its settled history goes with it. *)
DropMessage(c) ==
    /\ Doing(c, "drop")
    /\ \E m \in Work(c) :
          /\ Oldest(m, Work(c))
          /\ store' = [retained |-> store.retained \ {m}, latest |-> store.latest \ {m},
                       encoded |-> store.encoded \ {m}]
          /\ settled' = settled \ OfRecord(settled, m.record)
          /\ Continue(c, Then("drop", Work(c) \ {m}, Rest(c)))
    /\ UNCHANGED <<blobs, requests, faults>>

(* A store error answered with 500, a dropped call or a crash: the rest of  *)
(* the handler does not happen, and no task was enlisted to finish it.      *)
Fault(c) ==
    /\ ~At(c, "idle")
    /\ faults < MaxFaults
    /\ faults' = faults + 1
    /\ Return(c)
    /\ UNCHANGED <<store, blobs, settled, requests>>

Step(c) ==
    \/ WriteRead(c) \/ WriteAdmit(c) \/ WriteDecide(c)
    \/ WriteWithData(c) \/ WriteWithoutData(c) \/ WriteCommit(c)
    \/ DeleteRead(c) \/ DeleteCommit(c) \/ RetainMissing(c)
    \/ DeleteData(c) \/ PurgeChildren(c) \/ PurgeSiblings(c) \/ PurgeRecordMessages(c) \/ DropMessage(c)

HandlersNext == \E c \in Calls : Request(c) \/ Refuse(c) \/ Step(c) \/ Fault(c)

HandlersSpec == HandlersInit /\ [][HandlersNext]_handlersVars

-----------------------------------------------------------------------------
Quiet == \A c \in Calls : At(c, "idle")

(* Every variable has its type, only retained messages are indexed as the   *)
(* latest state or carry inline data, and a call that works has work left.  *)
HandlersTypeOK ==
    /\ store.retained \subseteq Messages
    /\ store.latest \subseteq store.retained
    /\ store.encoded \subseteq store.retained
    /\ blobs \subseteq Records \X LargeData
    /\ settled \subseteq Messages
    /\ requests \in 0..MaxRequests /\ faults \in 0..MaxFaults
    /\ \A c \in Calls :
          /\ call[c].pc \in {"idle", "write", "admit", "decide", "data", "delete", "commit", "work"}
          /\ At(c, "idle") <=> call[c].msg = None
          /\ call[c].existing \subseteq Messages
          /\ At(c, "work") <=> call[c].todo # <<>>

(* Same valid set, any order, same state: whatever order the messages of a  *)
(* record arrived in, however often, and wherever a handler was cut short,  *)
(* the node retains the greatest of those it settled, and the initial write.*)
Convergence ==
    \A r \in Records :
        LET S == OfRecord(settled, r)
        IN  S # {} => OfRecord(store.retained, r) = {Winner(S)} \cup Initials(S)

(* At most one retained message of a record is its latest base state, the   *)
(* one RecordsRead and RecordsQuery select.                                 *)
OneLatest == \A m, n \in store.latest : m.record = n.record => m = n

(* A live RecordsWrite can be read: its data is inline or in the data store.*)
(* The handlers put data before the commit and delete it after.  Asked when *)
(* no handler is running, so that what is missing stays so: no later step   *)
(* of the code brings back the data of a live write.                        *)
LiveDataPresent ==
    Quiet => \A m \in store.latest :
        m.class = WriteClass => IF m.data \in LargeData THEN <<m.record, m.data>> \in blobs
                           ELSE m \in store.encoded

(* When every handler ran to its end, the data store holds the data of live *)
(* writes and nothing else: cleanup and purge leave no bytes behind.        *)
NoOrphanData ==
    Quiet /\ faults = 0 =>
        \A b \in blobs : \E m \in store.latest : m.class = WriteClass /\ b = <<m.record, m.data>>

(* Handlers that race on one record never lose the winner: the greatest     *)
(* message the node settled is retained, and it is indexed as latest unless *)
(* it is an initial write (which may have come without data).               *)
WinnerKept ==
    \A r \in Records :
        LET S == OfRecord(settled, r)
        IN  S # {} => /\ Winner(S) \in store.retained
                      /\ Winner(S) \in store.latest \cup Initials(S)

(* The records no purge can reach. *)
Roots == {r \in Records \ SquashRecords : Parent[r] = None}

(* The state of such a record only moves up the lattice, in every           *)
(* interleaving: no late commit undoes a delete or a newer write.           *)
Advances ==
    \A r \in Roots :
        LET before == OfRecord(store.retained, r)
            after  == OfRecord(store'.retained, r)
        IN  before # {} => after # {} /\ ~compare_order(Winner(after), Winner(before))

StateOnlyAdvances == [][Advances]_handlersVars

(* One that has any message has its initial write: the ancestry of its      *)
(* children and the immutable properties of its updates are read from it.   *)
InitialKept ==
    \A r \in Roots : OfRecord(store.retained, r) # {} => Initials(OfRecord(store.retained, r)) # {}

(* r lies below p in the record tree. *)
Below(p) == {r \in Records : Parent[r] = p \/ (Parent[r] # None /\ Parent[Parent[r]] = p)}

(* Prune removes the subtree: once its handler is done, a pruned record has *)
(* no descendant left, and none is admitted below it later.                 *)
PruneComplete ==
    Quiet => \A m \in store.retained :
        m.class = PruneClass => \A n \in store.retained : n.record \notin Below(m.record)

(* A squash is a floor: when its handler is done, no other live write at    *)
(* the path is older than a live squash.                                    *)
SquashFloor ==
    Quiet => \A s, x \in store.latest :
        /\ s.class = WriteClass /\ s.squash
        /\ x.class = WriteClass /\ x.record \in SquashRecords \ {s.record}
        => x.ts >= s.ts

(* What a prune or a squash displaces is gone when its handler is done: no  *)
(* descendant of a pruned record is left or admitted later, and no live     *)
(* write at a squash path is older than a live squash (purge_record_tree,   *)
(* fetch_parent_record, perform_records_squash, enforce_squash_backstop).   *)
PurgesComplete == PruneComplete /\ SquashFloor

(* Data and live writes agree when no handler is running: every live write  *)
(* has its data and the data store holds no other (process_data_stream,     *)
(* delete_from_data_store_if_needed, purge_record_messages).                *)
DataExact == LiveDataPresent /\ NoOrphanData

(* Whatever handlers race, the winner and the initial write stay            *)
(* (plan_records_transition, commit_latest_state).                          *)
RaceSafe == WinnerKept /\ InitialKept

=============================================================================
