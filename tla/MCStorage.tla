------------------------------ MODULE MCStorage ------------------------------
(***************************************************************************)
(* The storage layer's specifications for TLC.  They share no state: a     *)
(* behaviour explores the one that part names, the others stay in their    *)
(* initial state or, for those that have several, at None.                 *)
(***************************************************************************)
EXTENDS Integers, Sequences, DataBlocks, TaskStore, EventLogStore

CONSTANTS None, c1, c2, n1, perms, chat, alice, root, thread, a, b, c, p

VARIABLES part,
    epoch, feed, db, opened, cursor,
    shape, stored, ascending, client,
    probe,
    state, sets, open_mutex, file_lock, task, worker, abandoned,
    index, rows, pending, overtaken, changes, diff

feedPart  == <<epoch, feed, db, opened, cursor>>
queryPart == <<shape, stored, ascending, client>>
connPart  == <<state, sets, open_mutex, file_lock, task, worker, abandoned>>
indexPart == <<index, rows, pending, overtaken, changes, diff>>
allVars   == <<part, feedPart, queryPart, probe, connPart, dataVars, indexPart, taskVars, logVars>>

-----------------------------------------------------------------------------
(* The instances. *)

FeedIndexes ==
    {[protocol |-> chat,   tag |-> None, latest |-> TRUE],
     [protocol |-> chat,   tag |-> None, latest |-> FALSE],
     [protocol |-> perms,  tag |-> None, latest |-> TRUE]}
Feed == INSTANCE SqliteFeed WITH Tenants <- {alice}, FeedCids <- {c1, c2}, OtherCids <- {n1},
                                 Protocols <- {perms, chat}, Permissions <- perms,
                                 TagProtocol <- [m \in {c1, c2, n1} |-> IF m = c1 THEN chat ELSE None],
                                 Indexes <- FeedIndexes, MaxPosition <- 2, MaxEpoch <- 1, Absent <- None,
                                 Reader <- alice, MatchingIndexes <- {i \in FeedIndexes : i.latest}

(* Two rows of one record with distinct sort values, a tie, a row without  *)
(* a value, two parents, and more records than occupants under one.        *)
Row(v, rec, parent, created) == [value |-> v, record |-> rec, parent |-> parent, created |-> created]
Rows == <<Row(1, 1, root, 2), Row(2, 1, root, 2), Row(None, 2, root, 1), Row(1, 3, thread, 1)>>
Query == INSTANCE MessageQuery WITH RowIds <- 1 .. 4, Shapes <- {Rows}, PageLimit <- 1,
                                    MaxOccupants <- 1, NoRow <- None

Match == INSTANCE FilterMatching WITH Chars <- {0, 1, 2, 4}, MaxChar <- 4, Gap <- 3, MaxText <- 3,
                                      Missing <- None

(* Every program reopens the file while somebody else reads or writes it. *)
Runs(x, y, z) == [t \in {a, b, c} |-> IF t = a THEN x ELSE IF t = b THEN y ELSE z]
MCPrograms == {Runs(<<"read">>, <<"write", "close">>, <<"open", "read">>),
               Runs(<<"close">>, <<"open", "write">>, <<"read">>)}
Conn == INSTANCE SqliteLifecycle WITH Tasks <- {a, b, c}, Programs <- MCPrograms, Sets <- 1 .. 5,
                                      Readers <- {"r1"}, MayCancel <- {b}

KeyBits == [x \in {"c1", "c2"} |-> IF x = "c1" THEN <<0, 0>> ELSE <<0, 1>>]
Index == INSTANCE StateIndex WITH Cids <- {"c1", "c2"}, Protocols <- {p}, NoProtocol <- None,
                                  KeyBits <- KeyBits, MaxChanges <- 2

-----------------------------------------------------------------------------

StorageInit ==
    /\ part \in {"feed", "query", "match", "conn", "data", "index", "task", "log"}
    /\ IF part = "feed" THEN Feed!SqlInit
       ELSE epoch = None /\ feed = None /\ db = None /\ opened = None /\ cursor = None
    /\ IF part = "query" THEN Query!QueryInit
       ELSE shape = None /\ stored = None /\ ascending = None /\ client = None
    /\ IF part = "match" THEN Match!FilterInit ELSE probe = None
    /\ IF part = "conn" THEN Conn!ConnInit
       ELSE /\ state = None /\ sets = None /\ open_mutex = None /\ file_lock = None
            /\ task = None /\ worker = None /\ abandoned = None
    /\ IF part = "index" THEN Index!IndexInit
       ELSE index = None /\ rows = None /\ pending = None /\ overtaken = None /\ changes = None /\ diff = None
    /\ DataInit /\ TaskInit /\ LogInit

StorageNext ==
    /\ UNCHANGED part
    /\ \/ /\ part = "feed" /\ Feed!SqlNext
          /\ UNCHANGED <<queryPart, probe, connPart, dataVars, indexPart, taskVars, logVars>>
       \/ /\ part = "query" /\ Query!QueryNext
          /\ UNCHANGED <<feedPart, probe, connPart, dataVars, indexPart, taskVars, logVars>>
       \/ /\ part = "match" /\ Match!FilterNext
          /\ UNCHANGED <<feedPart, queryPart, connPart, dataVars, indexPart, taskVars, logVars>>
       \/ /\ part = "conn" /\ Conn!ConnNext
          /\ UNCHANGED <<feedPart, queryPart, probe, dataVars, indexPart, taskVars, logVars>>
       \/ /\ part = "data" /\ DataNext
          /\ UNCHANGED <<feedPart, queryPart, probe, connPart, indexPart, taskVars, logVars>>
       \/ /\ part = "index" /\ Index!IndexNext
          /\ UNCHANGED <<feedPart, queryPart, probe, connPart, dataVars, taskVars, logVars>>
       \/ /\ part = "task" /\ TaskNext
          /\ UNCHANGED <<feedPart, queryPart, probe, connPart, dataVars, indexPart, logVars>>
       \/ /\ part = "log" /\ LogNext
          /\ UNCHANGED <<feedPart, queryPart, probe, connPart, dataVars, indexPart, taskVars>>

StorageSpec == StorageInit /\ [][StorageNext]_allVars

-----------------------------------------------------------------------------
(* The two stores cannot be told apart: after any sequence of puts,        *)
(* commits, deletes, clears and restarts they accept the same operations   *)
(* and hold the same messages, positions, heads, projections, fingerprints *)
(* and epoch, a database from before the feed is never opened, and         *)
(* log_read over the tables answers as the feed contract says for the      *)
(* reader's last token and every limit.                                    *)
StoresAgree == part = "feed" => Feed!StoresAgree /\ Feed!ReadsMatchView

(* The two stores answer a call alike: for the client's cursor and any     *)
(* state of the table, the record-ID filter and the rank cutoffs admit the *)
(* same rows, the page and its cursor are the same, and so is count(); a   *)
(* client that follows the cursors sees every row that stayed visible,     *)
(* once.  A filter sent as JSON is refused or means what each of its keys  *)
(* says; the text ranges a prefix and a subtree become in SQL hold exactly *)
(* the strings the in-memory matcher accepts, also at the last character   *)
(* and across the surrogate gap; and the feed reader, which reads indexes  *)
(* back from JSON, accepts them as before unless the text reads as another *)
(* type.                                                                   *)
QueriesAgree ==
    /\ part = "query" => Query!BackendsAgree /\ Query!PagingComplete
    /\ part = "match" => Match!MatchersAgree

(* Nobody waits on everybody: with calls, opens, closes and cancellations  *)
(* in any order, somebody can go on until every operation has returned (no *)
(* step can be taken twice without an operation ending in between).  On    *)
(* the way a connection is owned by one party at a time, and no two        *)
(* handles of the file are opened or closed at once unless a caller        *)
(* dropped its future.                                                     *)
NobodyStuck == part = "conn" => Conn!NobodyStuck /\ Conn!OwnedOnce /\ Conn!SerialLifecycle

(* A diff answered while the index changes is complete for what did not    *)
(* change: it names every message the server held all along and the peer   *)
(* lacks, and a prefix for every message of the peer the server never had. *)
(* And the tree a restart rebuilds from the rows is the one in memory.     *)
DiffComplete == part = "index" => Index!DiffComplete /\ Index!RebuildExact

==============================================================================
