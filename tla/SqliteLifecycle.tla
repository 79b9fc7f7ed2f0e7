--------------------------- MODULE SqliteLifecycle ---------------------------
(***************************************************************************)
(* The connections of one SQLite database file (sqlite/conn.rs) and the    *)
(* store that opens and closes them (sqlite/store.rs).  A connection set   *)
(* is a writer and a pool of readers; every call takes a handle out of its *)
(* slot, runs on a blocking worker and puts it back; drain() takes and     *)
(* closes them all.  Clones of the store run concurrently, and a caller    *)
(* may drop its future at any await: what it waited for is abandoned, what *)
(* a worker owns is not.                                                   *)
(*                                                                         *)
(* A task is one caller running a list of operations.  Its worker, if it   *)
(* has one, goes on when the task is cancelled.                            *)
(***************************************************************************)
EXTENDS Integers, FiniteSets, Sequences

CONSTANTS
    Tasks,
    Programs,        \* the assignments of operations to tasks explored
    Sets,            \* connection sets that may be built, 1 .. n
    Readers,         \* the reader slots of a set
    MayCancel,       \* the tasks whose caller may drop the future
    None             \* no value

Unopened == 0

Closed == -1

Slots == Readers \cup {"writer"}

VARIABLES
    state,           \* ConnState: Unopened, Closed or the open set
    sets,            \* every connection set
    open_mutex,      \* SqliteStore.open_mutex: a task or None
    file_lock,       \* FILE_LIFECYCLE of the path: a task or None
    task,            \* task -> [todo, op, pc, set]
    worker,          \* task -> [kind, set, slot], its blocking worker, or None
    abandoned        \* an open or a drain was dropped while its worker ran

connVars == <<state, sets, open_mutex, file_lock, task, worker, abandoned>>

(* slots: where each handle is: not opened yet, idle, taken by a worker or *)
(* closed.  idle: the channel of idle readers.  orphan: its opener gave up.*)
NoSet == [built |-> FALSE, orphan |-> FALSE, closed |-> FALSE, slots |-> [s \in Slots |-> "none"], idle |-> {},
          writer_lock |-> None, gate |-> {}, exclusive |-> None]

ConnInit ==
    /\ state = Unopened
    /\ sets = [i \in Sets |-> NoSet]
    /\ open_mutex = None
    /\ file_lock = None
    /\ \E p \in Programs : task = [t \in Tasks |-> [todo |-> p[t], op |-> None, pc |-> "idle", set |-> None]]
    /\ worker = [t \in Tasks |-> None]
    /\ abandoned = FALSE

Goto(t, pc) == task' = [task EXCEPT ![t].pc = pc]

GotoSet(t, pc, i) == task' = [task EXCEPT ![t].pc = pc, ![t].set = i]

Return(t) == task' = [task EXCEPT ![t] = [todo |-> @.todo, op |-> None, pc |-> "idle", set |-> None]]

At(t, pc) == task[t].pc = pc

Live(c) == c \in Sets /\ ~ sets[c].closed

-----------------------------------------------------------------------------
(* The start of an operation.  open_inner revives a closed store,          *)
(* close_inner marks it closed; reads, writes and opens need a connection. *)

Call(t) ==
    /\ At(t, "idle") /\ task[t].todo # <<>> /\ worker[t] = None
    /\ LET op   == Head(task[t].todo)
           next == IF op # "close" THEN "connect" ELSE IF state \in Sets THEN "checkpoint" ELSE "idle"
       IN  /\ task' = [task EXCEPT ![t] = [todo |-> Tail(@.todo), pc |-> next,
                         op  |-> IF next = "idle" THEN None ELSE op,
                         set |-> IF next = "checkpoint" THEN state ELSE None]]
           /\ state' = CASE op = "close" -> Closed
                         [] op = "open" /\ state = Closed -> Unopened
                         [] OTHER -> state
    /\ UNCHANGED <<sets, open_mutex, file_lock, worker, abandoned>>

(* Where an operation goes once it has its set. *)
WithSet(t, i) ==
    IF task[t].op = "open" THEN Return(t)
    ELSE GotoSet(t, IF task[t].op = "read" THEN "read" ELSE "write", i)

(* connection(): the shared state first, then again under open_mutex. *)
Connect(t) ==
    /\ At(t, "connect")
    /\ IF Live(state) THEN WithSet(t, state)
       ELSE IF state = Unopened THEN Goto(t, "single_flight")
       ELSE Return(t)
    /\ UNCHANGED <<state, sets, open_mutex, file_lock, worker, abandoned>>

SingleFlight(t) ==
    /\ At(t, "single_flight") /\ open_mutex = None
    /\ IF Live(state) THEN WithSet(t, state) /\ UNCHANGED open_mutex
       ELSE IF state = Unopened THEN Goto(t, "open_file") /\ open_mutex' = t
       ELSE Return(t) /\ UNCHANGED open_mutex
    /\ UNCHANGED <<state, sets, file_lock, worker, abandoned>>

(* SqliteConnection::open: the file lock, then the writer, the migration   *)
(* on it, and the readers, one worker after another.                       *)
OpenFile(t) ==
    \E i \in Sets :
        /\ At(t, "open_file") /\ file_lock = None
        /\ ~ sets[i].built /\ \A j \in Sets : j < i => sets[j].built
        /\ file_lock' = t
        /\ sets' = [sets EXCEPT ![i].built = TRUE]
        /\ GotoSet(t, "opening", i)
        /\ worker' = [worker EXCEPT ![t] = [kind |-> "open", set |-> i, slot |-> "writer"]]
        /\ UNCHANGED <<state, open_mutex, abandoned>>

(* The handle the awaited worker opened; the next one is opened, or, after *)
(* the writer, the migration runs as a writer call.                        *)
Opened(t) ==
    /\ At(t, "opening") /\ worker[t] = None
    /\ LET i    == task[t].set
           left == {s \in Readers : sets[i].slots[s] = "none"}
       IN  IF left = {}
           THEN /\ file_lock' = None
                /\ Goto(t, "publish")
                /\ UNCHANGED worker
           ELSE /\ worker' = [worker EXCEPT ![t] =
                     [kind |-> "open", set |-> i, slot |-> CHOOSE s \in left : TRUE]]
                /\ UNCHANGED <<task, file_lock>>
    /\ UNCHANGED <<state, sets, open_mutex, abandoned>>

(* A handle cannot be opened or the migration fails: what was opened is    *)
(* closed while the file lock is still held.                               *)
HandlesClosed(i, those) ==
    [sets EXCEPT ![i].slots = [s \in Slots |-> IF s \in those /\ @[s] = "in" THEN "closed" ELSE @[s]]]

OpenFails(t) ==
    /\ At(t, "opening") /\ worker[t] = None
    /\ sets' = [HandlesClosed(task[t].set, Slots) EXCEPT ![task[t].set].closed = TRUE]
    /\ file_lock' = None
    /\ open_mutex' = None
    /\ Return(t)
    /\ UNCHANGED <<state, worker, abandoned>>

(* The set is published under the state lock, or discarded: closed and     *)
(* drained, the caller getting the winner's set or an error.               *)

Publish(t) ==
    /\ At(t, "publish")
    /\ IF state = Unopened
       THEN state' = task[t].set /\ WithSet(t, task[t].set) /\ open_mutex' = None /\ UNCHANGED sets
       ELSE /\ sets' = [sets EXCEPT ![task[t].set].closed = TRUE]
            /\ Goto(t, "discard")
            /\ UNCHANGED <<state, open_mutex>>
    /\ UNCHANGED <<file_lock, worker, abandoned>>

-----------------------------------------------------------------------------
(* with_reader: the gate, then a slot from the idle channel.  The slot     *)
(* goes back when the set was closed meanwhile.                            *)

GateOpen(i) == sets[i].exclusive = None

ReadGate(t) ==
    /\ At(t, "read")
    /\ IF sets[task[t].set].closed THEN Return(t) /\ UNCHANGED sets
       ELSE /\ GateOpen(task[t].set)
            /\ sets' = [sets EXCEPT ![task[t].set].gate = @ \cup {t}]
            /\ Goto(t, "read_slot")
    /\ UNCHANGED <<state, open_mutex, file_lock, worker, abandoned>>

ReadSlot(t) ==
    At(t, "read_slot") /\ \E s \in sets[task[t].set].idle :
        LET i == task[t].set
        IN  /\ IF sets[i].closed
               THEN sets' = [sets EXCEPT ![i].gate = @ \ {t}] /\ Return(t) /\ UNCHANGED worker
               ELSE /\ sets' = [sets EXCEPT ![i].idle = @ \ {s}]
                    /\ worker' = [worker EXCEPT ![t] = [kind |-> "take", set |-> i, slot |-> s]]
                    /\ Goto(t, "joining")
            /\ UNCHANGED <<state, open_mutex, file_lock, abandoned>>

(* with_writer: the writer lock, then the gate.  checkpoint_and_close      *)
(* makes the same call first; its failure is ignored.                      *)
AfterWrite(t) == IF task[t].op = "close" THEN Goto(t, "close_set") ELSE Return(t)

WriteLock(t) ==
    /\ At(t, "write") \/ At(t, "checkpoint")
    /\ LET i == task[t].set
       IN  IF sets[i].closed
           THEN AfterWrite(t) /\ UNCHANGED sets
           ELSE /\ sets[i].writer_lock = None
                /\ sets' = [sets EXCEPT ![i].writer_lock = t]
                /\ Goto(t, "write_gate")
    /\ UNCHANGED <<state, open_mutex, file_lock, worker, abandoned>>

WriteGate(t) ==
    /\ At(t, "write_gate") /\ GateOpen(task[t].set)
    /\ LET i == task[t].set
       IN  IF sets[i].closed
           THEN sets' = [sets EXCEPT ![i].writer_lock = None] /\ AfterWrite(t) /\ UNCHANGED worker
           ELSE /\ sets' = [sets EXCEPT ![i].gate = @ \cup {t}]
                /\ worker' = [worker EXCEPT ![t] = [kind |-> "take", set |-> i, slot |-> "writer"]]
                /\ Goto(t, "joining")
    /\ UNCHANGED <<state, open_mutex, file_lock, abandoned>>

(* The call's worker has finished. *)
Joined(t) ==
    /\ At(t, "joining") /\ worker[t] = None
    /\ AfterWrite(t)
    /\ UNCHANGED <<state, sets, open_mutex, file_lock, worker, abandoned>>

-----------------------------------------------------------------------------
(* close() and drain(): the file lock, then the gate exclusively, then one *)
(* worker closes every handle.                                             *)

CloseSet(t) ==
    /\ At(t, "close_set")
    /\ sets' = [sets EXCEPT ![task[t].set].closed = TRUE]
    /\ Goto(t, "discard")
    /\ UNCHANGED <<state, open_mutex, file_lock, worker, abandoned>>

DrainFile(t) ==
    /\ At(t, "discard") /\ file_lock = None
    /\ file_lock' = t
    /\ Goto(t, "drain_gate")
    /\ UNCHANGED <<state, sets, open_mutex, worker, abandoned>>

DrainGate(t) ==
    /\ At(t, "drain_gate")
    /\ sets[task[t].set].gate = {} /\ GateOpen(task[t].set)
    /\ sets' = [sets EXCEPT ![task[t].set].exclusive = t]
    /\ worker' = [worker EXCEPT ![t] = [kind |-> "drain", set |-> task[t].set, slot |-> None]]
    /\ Goto(t, "draining")
    /\ UNCHANGED <<state, open_mutex, file_lock, abandoned>>

Drained(t) ==
    /\ At(t, "draining") /\ worker[t] = None
    /\ sets' = [sets EXCEPT ![task[t].set].exclusive = None]
    /\ file_lock' = None
    /\ open_mutex' = IF open_mutex = t THEN None ELSE open_mutex
    /\ Return(t)
    /\ UNCHANGED <<state, worker, abandoned>>

-----------------------------------------------------------------------------
(* The blocking workers.  Opening a handle ends with the handle in its     *)
(* slot; when the caller is gone, the handle is dropped, that is closed,   *)
(* on the worker.                                                          *)

WorkerOpens(t) ==
    /\ worker[t] # None /\ worker[t].kind = "open"
    /\ LET i == worker[t].set  s == worker[t].slot
       IN  IF At(t, "opening")
           THEN /\ sets' = [sets EXCEPT ![i].slots[s] = "in",
                                        ![i].idle = IF s = "writer" THEN @ ELSE @ \cup {s},
                                        ![i].gate = IF s = "writer" THEN @ \cup {t} ELSE @]
                /\ worker' = [worker EXCEPT ![t] =
                     IF s = "writer" THEN [kind |-> "take", set |-> i, slot |-> s] ELSE None]
           ELSE /\ worker' = [worker EXCEPT ![t].kind = "drop"]
                /\ UNCHANGED sets
    /\ UNCHANGED <<state, open_mutex, file_lock, task, abandoned>>

(* take: the handle leaves its slot, unless the set was closed or the slot *)
(* is empty.  The guards the worker owns are released with it.             *)
(* Variant with a fault: a reader slot does not return to the idle channel. *)
Released_LosesSlot(i, t, s) ==
    [sets EXCEPT ![i].gate = @ \ {t},
                 ![i].writer_lock = IF @ = t THEN None ELSE @]

Released(i, t, s) ==
    [sets EXCEPT ![i].gate = @ \ {t},
                 ![i].writer_lock = IF @ = t THEN None ELSE @,
                 ![i].idle = IF s = "writer" THEN @ ELSE @ \cup {s}]

WorkerTakes(t) ==
    /\ worker[t] # None /\ worker[t].kind = "take"
    /\ LET i == worker[t].set  s == worker[t].slot
       IN  IF sets[i].closed \/ sets[i].slots[s] # "in"
           THEN sets' = Released(i, t, s) /\ worker' = [worker EXCEPT ![t] = None]
           ELSE /\ sets' = [sets EXCEPT ![i].slots[s] = "taken"]
                /\ worker' = [worker EXCEPT ![t].kind = "run"]
    /\ UNCHANGED <<state, open_mutex, file_lock, task, abandoned>>

(* The call runs, also when it panics, and restores the handle.  The       *)
(* migration of an opener that gave up held the last reference to it.      *)
WorkerRestores(t) ==
    /\ worker[t] # None /\ worker[t].kind = "run"
    /\ LET i == worker[t].set  s == worker[t].slot
       IN  /\ sets' = [Released(i, t, s) EXCEPT ![i].slots[s] = IF sets[i].orphan THEN @ ELSE "in"]
           /\ worker' = [worker EXCEPT ![t] = IF sets[i].orphan THEN [@ EXCEPT !.kind = "drop"] ELSE None]
    /\ UNCHANGED <<state, open_mutex, file_lock, task, abandoned>>

(* The drain worker closes what is in its slot; the dropped handle of a    *)
(* cancelled open is closed.                                               *)
WorkerCloses(t) ==
    /\ worker[t] # None /\ worker[t].kind \in {"drain", "drop"}
    /\ sets' = IF worker[t].kind = "drop"
               THEN [sets EXCEPT ![worker[t].set].slots[worker[t].slot] = "closed"]
               ELSE HandlesClosed(worker[t].set, Slots)
    /\ worker' = [worker EXCEPT ![t] = None]
    /\ UNCHANGED <<state, open_mutex, file_lock, task, abandoned>>

-----------------------------------------------------------------------------
(* The caller drops its future at an await: the guards the future owns are *)
(* released, the worker and the guards it owns stay.  An open given up     *)
(* closes the handles it already had and no worker holds, before its       *)
(* guards are released.                                                    *)
Cancel(t) ==
    /\ t \in MayCancel
    /\ task[t].pc \notin {"idle", "connect", "publish", "close_set"}
    /\ LET i    == task[t].set
           mine == i \in Sets /\ worker[t] = None
           held == IF worker[t] = None THEN {} ELSE {worker[t].slot}
           base == IF At(t, "opening") THEN [HandlesClosed(i, Slots \ held) EXCEPT ![i].orphan = TRUE] ELSE sets
       IN  sets' = IF i \notin Sets THEN sets
                   ELSE [base EXCEPT
                           ![i].gate = IF mine THEN @ \ {t} ELSE @,
                           ![i].writer_lock = IF mine /\ @ = t THEN None ELSE @,
                           ![i].exclusive = IF @ = t THEN None ELSE @]
    /\ open_mutex' = IF open_mutex = t THEN None ELSE open_mutex
    /\ file_lock' = IF file_lock = t THEN None ELSE file_lock
    /\ Return(t)
    /\ abandoned' = (abandoned \/ (worker[t] # None /\ task[t].pc \in {"opening", "draining"}))
    /\ UNCHANGED <<state, worker>>

ConnStep(t) ==
    \/ Call(t) \/ Connect(t) \/ SingleFlight(t) \/ OpenFile(t) \/ Opened(t) \/ OpenFails(t) \/ Publish(t)
    \/ ReadGate(t) \/ ReadSlot(t) \/ WriteLock(t) \/ WriteGate(t) \/ Joined(t)
    \/ CloseSet(t) \/ DrainFile(t) \/ DrainGate(t) \/ Drained(t)
    \/ WorkerOpens(t) \/ WorkerTakes(t) \/ WorkerRestores(t) \/ WorkerCloses(t)

ConnNext == \E t \in Tasks : ConnStep(t) \/ Cancel(t)

ConnSpec == ConnInit /\ [][ConnNext]_connVars

-----------------------------------------------------------------------------
(* "A connection is owned by exactly one party at a time": a handle is out *)
(* of its slot exactly while one worker runs on it, a worker that comes    *)
(* for a handle of a set that is not closed finds it, and two never share  *)
(* one, whoever was cancelled.  restore's assertion and take's "connection *)
(* unavailable" are unreachable.                                           *)
OwnedOnce ==
    \A i \in Sets, s \in Slots :
        LET holders == {t \in Tasks : worker[t] # None /\ worker[t].kind \in {"run", "drop"}
                                        /\ worker[t].set = i /\ worker[t].slot = s}
            comers  == {t \in Tasks : worker[t] # None /\ worker[t].kind = "take"
                                        /\ worker[t].set = i /\ worker[t].slot = s}
        IN  /\ Cardinality(holders \cup comers) <= 1
            /\ sets[i].slots[s] = "taken" => holders # {}
            /\ comers # {} /\ ~ sets[i].closed => sets[i].slots[s] = "in"

LifecycleOps == {t \in Tasks : worker[t] # None /\ worker[t].kind \in {"open", "drain", "drop"}}

(* The process-wide hazard FILE_LIFECYCLE exists for: no two handles of    *)
(* the file are being opened or closed at the same time, as long as no     *)
(* caller dropped an open or a drain whose worker was running.             *)
SerialLifecycle == ~ abandoned => Cardinality(LifecycleOps) <= 1

(* "what makes the hazard unreachable rather than merely unlikely"         *)
(* (FILE_LIFECYCLE): the same with no exception.                           *)
HazardUnreachable == Cardinality(LifecycleOps) <= 1

(* checkpoint_and_close "takes and closes every handle before returning",  *)
(* also the ones calls were using when it began.                           *)
ClosedMeansClosed ==
    [][\A t \in Tasks : Drained(t) => \A s \in Slots : sets[task[t].set].slots[s] = "closed"]_connVars

(* Nobody waits on everybody: with calls, opens, closes and cancellations  *)
(* in any order, somebody can go on until every operation has returned.    *)
(* No step can be taken twice without an operation ending in between, so   *)
(* every operation does return.                                            *)
NobodyStuck ==
    \/ \A t \in Tasks : task[t].pc = "idle" /\ task[t].todo = <<>>
    \/ \E t \in Tasks : ENABLED ConnStep(t)

=============================================================================
