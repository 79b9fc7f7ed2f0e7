----------------------------- MODULE ControlRepair -----------------------------
(***************************************************************************)
(* Accepting a protocol configuration and repairing the control records it *)
(* contradicts, for one tenant and one protocol: the ProtocolsConfigure    *)
(* handler (handlers/protocols/configure.rs), the resumable task manager   *)
(* (tasks/manager.rs), the scan and purge of tasks/controller.rs, the      *)
(* SQLite task store with its copy in memory, and the recovery pass at     *)
(* open (dwn/builder.rs), with failures, crashes and restarts in between.  *)
(*                                                                         *)
(* Time is the leases: a lease of Lease ticks of 30 seconds that runs down *)
(* on Tick.  Each process runs a program, the awaits it still has to do.   *)
(***************************************************************************)
EXTENDS Naturals, FiniteSets, Sequences, SequencesExt, FiniteSetsExt

CONSTANTS
    Calls,          \* requests that may be in flight together
    Opener,         \* the recovery pass of open_native_stores
    Configs,        \* ProtocolsConfigure messages, as their timestamps
    FirstConfig,    \* the one accepted before the behaviour starts
    ControlRecords, \* control records of the protocol
    Written,        \* record |-> its timestamp
    Roles,          \* record |-> the configurations that define its role
    Held,           \* the records retained when the behaviour starts
    Writable,       \* the records that are sent during it
    Lease,          \* ticks of a lease: 60 s / TIMEOUT_EXTENSION_FREQUENCY_SECONDS
    MaxConfigures,  \* bound on configure requests
    MaxFaults,      \* bound on store errors
    MaxCrashes,     \* bound on crashes
    None

VARIABLES
    configs,    \* retained configure messages
    latest,     \* those indexed isLatestBaseState
    messages,   \* control records whose messages are retained
    data,       \* control records whose data is stored
    mem,        \* the task store's map in memory: task |-> ticks left, or None
    disk,       \* the resumable_tasks table
    node,       \* closed, opening, open
    proc,       \* what each process is doing
    count       \* history: requests, faults and crashes so far

vars == <<configs, latest, messages, data, mem, disk, node, proc, count>>
stores == <<configs, latest, messages, data>>

Repair == "repair"                    \* ControlRepair{tenant, protocol}
Tasks == {Repair} \cup ControlRecords \* ControlPurge{record} is named by its record

-----------------------------------------------------------------------------
(* fetch_protocol_definition for a timestamp: the newest configuration not  *)
(* after it, or else the oldest one.                                        *)
GoverningConfig(t, history) ==
    LET before == {k \in history : k <= t}
    IN  IF before # {} THEN Max(before) ELSE Min(history)

(* fetch_protocol_definition without one: the newest of those indexed latest.*)
NewestConfig(flagged) == Max(flagged)

(* Admission asks the governing configuration for the role, *)
Admissible(r) == GoverningConfig(Written[r], configs) \in Roles[r]

(* repair asks the newest one as well. *)
Invalid(r) == ~Admissible(r) \/ NewestConfig(latest) \notin Roles[r]

(* One await of a program. *)
Do(op, arg) == <<[op |-> op, arg |-> arg]>>

(* register: in memory, then in the table. *)
Enlist(t) == Do("register", t) \o Do("persist", t)

(* delete: from memory, then from the table. *)
Retire(t) == Do("forget", t) \o Do("erase", t)

(* perform_control_purge: messages first, data second. *)
perform_control_purge(r) == Do("messages", r) \o Do("data", r)

(* Mutant: the removal is started without an intent of its own. *)
PurgeIntent_None(r) == perform_control_purge(r)

(* repair_controls enlists each removal before it starts and retires it     *)
(* after.                                                                   *)
PurgeIntent(r) == Enlist(r) \o perform_control_purge(r) \o Retire(r)

(* run_with_automatic_timeout_extension: the work, then the retirement. *)
Fulfil(t) ==
    (IF t = Repair THEN Do("scan", Repair) ELSE perform_control_purge(t)) \o Retire(t)

Configuring(k) == Enlist(Repair) \o Do("commit", k) \o Fulfil(Repair)

Idle == [todo |-> <<>>, existing |-> {}, batch |-> <<>>, failed |-> FALSE, task |-> None]

Procs == Calls \cup {Opener}

Init ==
    /\ configs = {FirstConfig} /\ latest = {FirstConfig}
    /\ messages = Held /\ data = Held
    /\ mem = [t \in Tasks |-> None]
    /\ disk = [t \in Tasks |-> None]
    /\ node = "open"
    /\ proc = [p \in Procs |-> Idle]
    /\ count = [configures |-> 0, faults |-> 0, crashes |-> 0]

Busy(p) == proc[p].todo # <<>>
At(p, op) == Busy(p) /\ Head(proc[p].todo).op = op
Arg(p) == Head(proc[p].todo).arg
Becomes(p, rec) == proc' = [proc EXCEPT ![p] = rec]

(* The await succeeded: go on, at the end of the program forget it. *)
Proceed(p, more) ==
    LET todo == more \o Tail(proc[p].todo)
    IN  Becomes(p, IF todo = <<>> THEN [Idle EXCEPT !.batch = proc[p].batch, !.failed = proc[p].failed]
                   ELSE [proc[p] EXCEPT !.todo = todo])

(* The await failed: the rest of this program does not happen.  A handler   *)
(* answers 500 before its commit and logs after it; the recovery pass       *)
(* remembers the failure and goes on with the next task, unless grab failed.*)
Abandon(p) ==
    Becomes(p, IF p = Opener
               THEN [Idle EXCEPT !.failed = TRUE,
                         !.batch = IF proc[p].task = None THEN <<>> ELSE proc[p].batch]
               ELSE Idle)

-----------------------------------------------------------------------------
(* A configure request reads the retained configurations; an exact replay   *)
(* answers 409, a refused one changes nothing.                              *)
Configure(c) ==
    /\ node = "open" /\ c \in Calls /\ ~Busy(c)
    /\ count.configures < MaxConfigures
    /\ count' = [count EXCEPT !.configures = @ + 1]
    /\ \E k \in Configs \ configs :
          Becomes(c, [Idle EXCEPT !.todo = Configuring(k), !.existing = configs])
    /\ UNCHANGED <<stores, mem, disk, node>>

(* A control record is sent: admitted against the configurations as they    *)
(* are, its data stored next and its message last.                          *)
WriteControl(c) ==
    /\ node = "open" /\ c \in Calls /\ ~Busy(c)
    /\ \E r \in Writable \ messages :
          /\ Admissible(r)
          /\ Becomes(c, [Idle EXCEPT !.todo = Do("storeData", r) \o Do("storeMessage", r)])
    /\ UNCHANGED <<stores, mem, disk, node, count>>

StoreData(p) ==
    /\ At(p, "storeData")
    /\ data' = data \cup {Arg(p)}
    /\ Proceed(p, <<>>)
    /\ UNCHANGED <<configs, latest, messages, mem, disk, node, count>>

StoreMessage(p) ==
    /\ At(p, "storeMessage")
    /\ messages' = messages \cup {Arg(p)}
    /\ Proceed(p, <<>>)
    /\ UNCHANGED <<configs, latest, data, mem, disk, node, count>>

(* MemoryResumableTaskStore::register refuses a task that is there. *)
Register(p) ==
    /\ At(p, "register")
    /\ IF mem[Arg(p)] # None
       THEN Abandon(p) /\ UNCHANGED mem
       ELSE Proceed(p, <<>>) /\ mem' = [mem EXCEPT ![Arg(p)] = Lease]
    /\ UNCHANGED <<stores, disk, node, count>>

Persist(p) ==
    /\ At(p, "persist")
    /\ disk' = [disk EXCEPT ![Arg(p)] = mem[Arg(p)]]
    /\ Proceed(p, <<>>)
    /\ UNCHANGED <<stores, mem, node, count>>

Forget(p) ==
    /\ At(p, "forget")
    /\ mem' = [mem EXCEPT ![Arg(p)] = None]
    /\ Proceed(p, <<>>)
    /\ UNCHANGED <<stores, disk, node, count>>

Erase(p) ==
    /\ At(p, "erase")
    /\ disk' = [disk EXCEPT ![Arg(p)] = None]
    /\ Proceed(p, <<>>)
    /\ UNCHANGED <<stores, mem, node, count>>

(* From the snapshot: the incoming configuration, or else the greatest one  *)
(* of the snapshot, is indexed as latest.                                   *)
plan_configure_transition(k, existing) ==
    (latest \ existing) \cup (IF \A e \in existing : k > e THEN {k} ELSE {Max(existing)})

Commit(p) ==
    /\ At(p, "commit")
    /\ configs' = configs \cup {Arg(p)}
    /\ latest' = plan_configure_transition(Arg(p), proc[p].existing)
    /\ Becomes(p, [proc[p] EXCEPT !.todo = Tail(@), !.existing = {}, !.task = Repair])
    /\ UNCHANGED <<messages, data, mem, disk, node, count>>

(* Only a contradiction of the configurations condemns a record. *)
control_config_validity(r) == IF Invalid(r) THEN "Invalid" ELSE "Valid"

control_records_to_purge(held) == {r \in held : control_config_validity(r) = "Invalid"}

(* The scan decides; each condemned record is then removed in turn. *)
Scan(p) ==
    LET order == SetToSeq(control_records_to_purge(messages))
    IN  /\ At(p, "scan")
        /\ Proceed(p, FlattenSeq([i \in 1..Len(order) |-> PurgeIntent(order[i])]))
        /\ UNCHANGED <<stores, mem, disk, node, count>>

DeleteMessages(p) ==
    /\ At(p, "messages")
    /\ messages' = messages \ {Arg(p)}
    /\ Proceed(p, <<>>)
    /\ UNCHANGED <<configs, latest, data, mem, disk, node, count>>

DeleteData(p) ==
    /\ At(p, "data")
    /\ data' = data \ {Arg(p)}
    /\ Proceed(p, <<>>)
    /\ UNCHANGED <<configs, latest, messages, mem, disk, node, count>>

-----------------------------------------------------------------------------
Unloaded == [t \in Tasks |-> None]

(* SqliteResumableTaskStore::open loads the table; recovery follows. *)
Open ==
    /\ node = "closed"
    /\ node' = "opening"
    /\ mem' = disk
    /\ UNCHANGED <<stores, disk, proc, count>>

Opening == node = "opening" /\ ~Busy(Opener)

(* Mutant: a lapsed lease is never found. *)
Expired_Never(leases) == {}

Expired(leases) == {t \in Tasks : leases[t] = 0}

(* grab: every expired task gets a new lease, in memory and then, one by    *)
(* one, in the table.  The order of a batch is the order of the task ids.   *)
Grab ==
    LET expired == Expired(mem)
    IN  /\ Opening /\ ~proc[Opener].failed /\ proc[Opener].batch = <<>> /\ expired # {}
        /\ mem' = [t \in Tasks |-> IF t \in expired THEN Lease ELSE mem[t]]
        /\ \E order \in SetToSeqs(expired) :
              Becomes(Opener, [Idle EXCEPT !.batch = order,
                  !.todo = FlattenSeq([i \in 1..Len(order) |-> Do("persist", order[i])])])
        /\ UNCHANGED <<stores, disk, node, count>>

(* retry_tasks_until_completion: each grabbed task once. *)
RunNext ==
    /\ Opening /\ proc[Opener].batch # <<>>
    /\ LET t == Head(proc[Opener].batch)
       IN  Becomes(Opener, [proc[Opener] EXCEPT !.batch = Tail(@), !.task = t, !.todo = Fulfil(t)])
    /\ UNCHANGED <<stores, mem, disk, node, count>>

(* No expired task is left: the node serves.  Or a task failed and open     *)
(* returns its error.                                                       *)
Opened ==
    /\ Opening /\ proc[Opener].batch = <<>>
    /\ \/ /\ proc[Opener].failed
          /\ node' = "closed" /\ mem' = Unloaded
       \/ /\ ~proc[Opener].failed /\ Expired(mem) = {}
          /\ node' = "open" /\ UNCHANGED mem
    /\ Becomes(Opener, Idle)
    /\ UNCHANGED <<stores, disk, count>>

-----------------------------------------------------------------------------
(* 30 seconds pass.  The task a process is fulfilling is extended meanwhile,*)
(* until only its retirement is left.                                       *)
Extended == {proc[p].task : p \in {q \in Procs : Len(proc[q].todo) > 2}}

RunDown(m) ==
    [t \in Tasks |-> IF m[t] = None \/ m[t] = 0 THEN m[t]
                     ELSE IF t \in Extended THEN Lease ELSE m[t] - 1]

Tick ==
    /\ mem' = RunDown(mem) /\ disk' = RunDown(disk)
    /\ UNCHANGED <<stores, node, proc, count>>

(* A store operation fails. *)
Fault(p) ==
    /\ Busy(p)
    /\ count.faults < MaxFaults
    /\ count' = [count EXCEPT !.faults = @ + 1]
    /\ Abandon(p)
    /\ UNCHANGED <<stores, mem, disk, node>>

Stop ==
    /\ node' = "closed"
    /\ mem' = Unloaded
    /\ proc' = [p \in Procs |-> Idle]

Crash ==
    /\ node # "closed"
    /\ count.crashes < MaxCrashes
    /\ count' = [count EXCEPT !.crashes = @ + 1]
    /\ Stop
    /\ UNCHANGED <<stores, disk>>

(* The node is shut down with no request in flight. *)
Shutdown ==
    /\ node = "open" /\ \A p \in Procs : ~Busy(p)
    /\ Stop
    /\ UNCHANGED <<stores, disk, count>>

Step(p) ==
    \/ Register(p) \/ Persist(p) \/ Commit(p) \/ Scan(p) \/ StoreData(p) \/ StoreMessage(p)
    \/ DeleteMessages(p) \/ DeleteData(p) \/ Forget(p) \/ Erase(p)

Recover == Grab \/ RunNext \/ Opened

Next ==
    \/ \E c \in Calls : Configure(c) \/ WriteControl(c)
    \/ \E p \in Procs : Step(p) \/ Fault(p)
    \/ Open \/ Recover \/ Tick \/ Crash \/ Shutdown

Spec == Init /\ [][Next]_vars

(* What is started runs on, time passes, and the node is stopped and opened *)
(* again and again: recovery happens at open and nowhere else.              *)
FairSpec ==
    /\ Spec
    /\ \A p \in Procs : WF_vars(Step(p))
    /\ WF_vars(Recover) /\ WF_vars(Open) /\ WF_vars(Shutdown) /\ WF_vars(Tick)

-----------------------------------------------------------------------------
Contradicted == {r \in messages : Invalid(r)}

(* Every variable has its type, tasks run only in an open or opening node,  *)
(* and a closed node has nothing in memory.                                 *)
TypeOK ==
    /\ configs \subseteq Configs /\ latest \subseteq configs
    /\ messages \subseteq ControlRecords /\ data \subseteq ControlRecords
    /\ mem \in [Tasks -> (0..Lease) \cup {None}]
    /\ disk \in [Tasks -> (0..Lease) \cup {None}]
    /\ node \in {"closed", "opening", "open"}
    /\ node = "closed" => \A t \in Tasks : mem[t] = None
    /\ \A p \in Procs : Busy(p) => node = (IF p = Opener THEN "opening" ELSE "open")
    /\ latest # {}

(* No crash can leave an accepted history with nothing remembering to check *)
(* it: while a record the configurations contradict is retained, the repair *)
(* is in the task table.                                                    *)
ObligationDurable == Contradicted # {} => disk[Repair] # None

PurgeStep ==
    /\ \A r \in messages \ messages' : disk[r] # None
    /\ \A r \in data \ messages : disk[r] # None => disk'[r] # None

(* The same of a removal: the messages of a record are deleted only while   *)
(* the table names its purge, and that row stays until the data is gone     *)
(* too, so a crash at any await leaves nothing half removed and forgotten.  *)
PurgeRemembered == [][PurgeStep]_vars

RemovalStep == \A r \in messages \ messages' : Invalid(r)

(* Only a contradiction of the configurations licenses removal: a record    *)
(* that is valid under the configurations of the moment is not removed.     *)
OnlyCondemnedRemoved == [][RemovalStep]_vars

(* At most one configuration of a protocol is indexed as the latest. *)
OneLatestConfig == Cardinality(latest) <= 1

(* A step keeps or records what is owed, removes only what is condemned,    *)
(* and leaves one configuration the latest.                                 *)
RepairStep == PurgeStep /\ RemovalStep /\ ObligationDurable' /\ OneLatestConfig'

(* If the node is restarted now and then, what the configurations           *)
(* contradict is eventually gone, whatever failed on the way.               *)
RepairsFinish == Contradicted # {} ~> Contradicted = {}
=============================================================================
