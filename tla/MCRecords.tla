------------------------------- MODULE MCRecords -------------------------------
(***************************************************************************)
(* The message store's feed and the record handlers above it for TLC.  A   *)
(* behaviour explores the feed or sends requests of one family: to one     *)
(* call at a time, or to two calls that overlap.                           *)
(***************************************************************************)
EXTENDS ReplicationFeed, RecordsHandlers

CONSTANTS c1, c2, n1, perms, chat, alice

VARIABLE part

-----------------------------------------------------------------------------
(* The feed, read through a filter on the latest-state flag: two feed      *)
(* messages, one of them tagged with a protocol in its descriptor, one     *)
(* message outside the feed, and projections that differ in protocol, tag  *)
(* and flag.                                                               *)

MCProtocols == {perms, chat}

MCTagProtocol == [c \in Cids |-> IF c = c1 THEN chat ELSE Absent]

MCIndexes ==
    {[protocol |-> Absent, tag |-> Absent, latest |-> TRUE],
     [protocol |-> chat,   tag |-> Absent, latest |-> TRUE],
     [protocol |-> chat,   tag |-> Absent, latest |-> FALSE],
     [protocol |-> perms,  tag |-> Absent, latest |-> TRUE]}

MCMatching == {i \in MCIndexes : i.latest}

-----------------------------------------------------------------------------
(* The messages: one record with competing updates and deletes, a tree of  *)
(* three records with prunes, three sibling records at a $squash path.     *)
(* The class of a message is a RecordsStateClass.                          *)

Message(record, class, ts, cid, author, initial, data, squash) ==
    [record |-> record, class |-> class, ts |-> ts, cid |-> cid, author |-> author,
     initial |-> initial, data |-> data, squash |-> squash]

InitialWrite(r, ts, cid, data) == Message(r, WriteClass, ts, cid, "alice", TRUE, data, FALSE)
Update(r, ts, cid, author, data) == Message(r, WriteClass, ts, cid, author, FALSE, data, FALSE)
Tombstone(r, class, ts, cid) == Message(r, class, ts, cid, "alice", FALSE, None, FALSE)
SquashWrite(r, ts, cid, data) == Message(r, WriteClass, ts, cid, "alice", TRUE, data, TRUE)

Sent(S) == S \X {TRUE}
Dataless(S) == S \X {FALSE}

MCLargeData == {"D0", "D1"}

(* One record: two updates with the same timestamp, one that returns to the *)
(* first data, one that brings none, a delete older than both updates, and  *)
(* a prune older than the initial write.                                    *)
R0 == InitialWrite("r", 2, 10, "D0")
R1 == Update("r", 4, 11, "alice", "D1")
R2 == Update("r", 4, 12, "alice", "D0")
R3 == Update("r", 5, 13, "alice", "D1")
R4 == Update("r", 6, 14, "alice", "small")
R5 == Update("r", 7, 15, "alice", "small")
RDelete == Tombstone("r", DeleteClass, 3, 16)
RPrune == Tombstone("r", PruneClass, 1, 17)
OneRecord == Sent({R0, R1, R2, R4, RDelete, RPrune}) \cup Dataless({R0, R2, R3, R5})
RCoUpdate == Update("r", 4, 18, "bob", "D1")
CoUpdate == Sent({R0, R3, RCoUpdate})
OneRecordRace == Sent({R0, R1, R2, RDelete}) \cup Dataless({R0, R3})

(* A root, its child and its grandchild. *)
T0 == InitialWrite("root", 1, 20, "small")
TDelete == Tombstone("root", DeleteClass, 4, 21)
TPrune == Tombstone("root", PruneClass, 5, 22)
TOldPrune == Tombstone("root", PruneClass, 3, 27)
Child == InitialWrite("child", 2, 23, "D0")
ChildUpdate == Update("child", 4, 24, "alice", "D1")
ChildPrune == Tombstone("child", PruneClass, 5, 25)
Leaf == InitialWrite("leaf", 3, 26, "D0")
Tree == Sent({T0, TDelete, TPrune, Child, ChildUpdate, ChildPrune, Leaf})
TreeRace == Sent({T0, TDelete, TOldPrune, Child, ChildUpdate})

(* Three records at one $squash path, two of which are squashes. *)
Family == {"a", "b", "c"}
Squash ==
    Sent({InitialWrite("a", 1, 30, "D0"), Update("a", 4, 31, "alice", "D1"),
          Tombstone("a", DeleteClass, 2, 32),
          SquashWrite("b", 3, 33, "D0"), SquashWrite("c", 4, 34, "small"),
          Tombstone("b", DeleteClass, 5, 35)})

MCRecordIds == {"r", "root", "child", "leaf"} \cup Family
MCParent == [x \in MCRecordIds |-> CASE x = "child" -> "root" [] x = "leaf" -> "child"
                                   [] OTHER -> None]

RequestsOf == [OneRecord |-> OneRecord, Tree |-> Tree, Squash |-> Squash,
               OneRecordRace |-> OneRecordRace, TreeRace |-> TreeRace, CoUpdate |-> CoUpdate]
Sequential == {"OneRecord", "Tree", "Squash"}
Overlapping == {"OneRecordRace", "TreeRace"}
MCRequests == UNION {RequestsOf[f] : f \in DOMAIN RequestsOf}
MCMessages == {q[1] : q \in MCRequests}

-----------------------------------------------------------------------------
(* A purge reads and deletes in several awaits and is not resumed when it  *)
(* fails half-way; the properties of purges are about those that run to    *)
(* their end.                                                              *)
OfFamily ==
    /\ \A c \in {1, 2} : call[c].msg = None \/ \E b \in BOOLEAN : <<call[c].msg, b>> \in RequestsOf[part]
    /\ part \in Sequential \cup {"CoUpdate"} => call[2].msg = None
    /\ part \in {"Tree", "Squash"} => faults = 0

PartsInit(parts) == part \in parts /\ Init /\ HandlersInit

PartsNext ==
    /\ UNCHANGED part
    /\ \/ part = "feed" /\ Next /\ UNCHANGED handlersVars
       \/ part # "feed" /\ HandlersNext /\ OfFamily' /\ UNCHANGED vars

partsVars == <<part, vars, handlersVars>>

StoreSpec == PartsInit({"feed"} \cup Sequential \cup Overlapping) /\ [][PartsNext]_partsVars
RacingSpec == PartsInit({"OneRecordRace"}) /\ [][PartsNext]_partsVars
CoUpdateSpec == PartsInit({"CoUpdate"}) /\ [][PartsNext]_partsVars

(* Same valid set, any order, same state: whatever order the messages of a  *)
(* record arrived in, however often, and wherever a handler was cut short,  *)
(* the node retains the greatest of those it settled, and the initial write,*)
(* and one message of the record is the latest.                             *)
SerialConvergence == part \in Sequential => Convergence /\ OneLatest

(* Data and live writes agree when no handler is running: every live write  *)
(* has its data, inline or in the data store, and the data store holds no   *)
(* other.  The handlers put data before the commit and delete it after, and *)
(* no later step brings back the data of a live write.                      *)
SerialDataExact == part \in Sequential => DataExact

(* What a prune or a squash displaces is gone when its handler is done: no  *)
(* descendant of a pruned record is left or admitted later, and no live     *)
(* write at a squash path is older than a live squash (purge_record_tree,   *)
(* fetch_parent_record, perform_records_squash, enforce_squash_backstop).   *)
SerialPurges == part \in Sequential => PurgesComplete

================================================================================
