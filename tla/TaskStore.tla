------------------------------ MODULE TaskStore ------------------------------
(***************************************************************************)
(* The resumable task store: the map in memory (MemoryResumableTaskStore)  *)
(* and the SQLite rows it is loaded from (SqliteResumableTaskStore).       *)
(* Every operation changes the map first and persists in a second step     *)
(* that other operations may overtake; extend reads the map again in       *)
(* between.  A task's id is the CID of its content, so the same work       *)
(* registered again is the same task.                                      *)
(***************************************************************************)
EXTENDS Naturals, FiniteSets

CONSTANTS
    TaskIds,
    TaskCallers,
    Lease,           \* ticks a registration, a grab or an extension lasts
    MaxTime,         \* ticks of the clock
    MaxTaskCalls     \* operations begun

VARIABLES
    tasks,           \* id -> [timeout, retry_count], the map
    task_rows,       \* id -> [timeout, retry_count], the resumable_tasks table
    step,            \* caller -> the operation it is in
    clock,
    begun,           \* operations begun
    promised,        \* ids whose register returned, with no delete begun since
    tangled          \* ids registered or extended while a delete of them was still to be persisted

taskVars == <<tasks, task_rows, step, clock, begun, promised, tangled>>

Rest == [op |-> "rest"]

Without(f, ids) == [i \in DOMAIN f \ ids |-> f[i]]

With(f, i, x) == [j \in DOMAIN f \cup {i} |-> IF j = i THEN x ELSE f[j]]

TaskInit ==
    /\ tasks = [i \in {} |-> 0]
    /\ task_rows = [i \in {} |-> 0]
    /\ step = [c \in TaskCallers |-> Rest]
    /\ clock = 0
    /\ begun = 0
    /\ promised = {}
    /\ tangled = {}

Begins(c) ==
    /\ step[c].op = "rest" /\ begun < MaxTaskCalls
    /\ begun' = begun + 1

Deleting(i) == \E c \in TaskCallers : step[c].op = "delete" /\ i \in step[c].ids

Persisting(c, op, i, x) ==
    /\ step' = [step EXCEPT ![c] = [op |-> op, id |-> i, row |-> x]]
    /\ tangled' = IF Deleting(i) THEN tangled \cup {i} ELSE tangled

(* register: refused while the map holds the task. *)
Register(c, i) ==
    /\ Begins(c) /\ i \notin DOMAIN tasks
    /\ LET x == [timeout |-> clock + Lease, retry_count |-> 0]
       IN  /\ tasks' = With(tasks, i, x)
           /\ Persisting(c, "register", i, x)
    /\ UNCHANGED <<task_rows, clock, promised>>

(* grab of one task: an expired one gets a new lease and counts a retry. *)
Grab(c, i) ==
    /\ Begins(c) /\ i \in DOMAIN tasks /\ clock >= tasks[i].timeout
    /\ LET x == [timeout |-> clock + Lease, retry_count |-> tasks[i].retry_count + 1]
       IN  /\ tasks' = With(tasks, i, x)
           /\ Persisting(c, "grab", i, x)
    /\ UNCHANGED <<task_rows, clock, promised>>

(* extend: the map, then a read of it, then the persist. *)
Extend(c, i) ==
    /\ Begins(c) /\ i \in DOMAIN tasks
    /\ tasks' = [tasks EXCEPT ![i].timeout = clock + Lease]
    /\ step' = [step EXCEPT ![c] = [op |-> "reread", id |-> i]]
    /\ UNCHANGED <<task_rows, clock, promised, tangled>>

ExtendRead(c) ==
    /\ step[c].op = "reread"
    /\ IF step[c].id \in DOMAIN tasks
       THEN Persisting(c, "extend", step[c].id, tasks[step[c].id])
       ELSE step' = [step EXCEPT ![c] = Rest] /\ UNCHANGED tangled
    /\ UNCHANGED <<tasks, task_rows, clock, begun, promised>>

(* delete of one task, clear of all. *)
Remove(c, ids) ==
    /\ Begins(c)
    /\ tasks' = Without(tasks, ids)
    /\ promised' = promised \ ids
    /\ step' = [step EXCEPT ![c] = [op |-> "delete", ids |-> ids]]
    /\ UNCHANGED <<task_rows, clock, tangled>>

DeleteTask(c, i) == Remove(c, {i})

ClearTasks(c) == Remove(c, TaskIds)

(* Variant with a fault: registering returns before the row is written. *)
PersistTask_Late(c) ==
    /\ step[c].op \in {"register", "grab", "extend"}
    /\ task_rows' = IF step[c].op = "register" THEN task_rows
                    ELSE With(task_rows, step[c].id, step[c].row)
    /\ promised' = IF step[c].op = "register" /\ step[c].id \in DOMAIN tasks
                   THEN promised \cup {step[c].id} ELSE promised
    /\ step' = [step EXCEPT ![c] = Rest]
    /\ UNCHANGED <<tasks, clock, begun, tangled>>

(* persist_task and delete_task: the row is replaced or removed, and the   *)
(* caller returns.                                                         *)
PersistTask(c) ==
    /\ step[c].op \in {"register", "grab", "extend"}
    /\ task_rows' = With(task_rows, step[c].id, step[c].row)
    /\ promised' = IF step[c].op = "register" /\ step[c].id \in DOMAIN tasks
                   THEN promised \cup {step[c].id} ELSE promised
    /\ step' = [step EXCEPT ![c] = Rest]
    /\ UNCHANGED <<tasks, clock, begun, tangled>>

DeleteRow(c) ==
    /\ step[c].op = "delete"
    /\ task_rows' = Without(task_rows, step[c].ids)
    /\ step' = [step EXCEPT ![c] = Rest]
    /\ UNCHANGED <<tasks, clock, begun, promised, tangled>>

Tick ==
    /\ clock < MaxTime
    /\ clock' = clock + 1
    /\ UNCHANGED <<tasks, task_rows, step, begun, promised, tangled>>

(* The process ends; open loads the rows. *)
Restart ==
    /\ tasks # task_rows \/ \E c \in TaskCallers : step[c].op # "rest"
    /\ tasks' = task_rows
    /\ step' = [c \in TaskCallers |-> Rest]
    /\ UNCHANGED <<task_rows, clock, begun, promised, tangled>>

TaskNext ==
    \/ \E c \in TaskCallers, i \in TaskIds : Register(c, i) \/ Grab(c, i) \/ Extend(c, i) \/ DeleteTask(c, i)
    \/ \E c \in TaskCallers : ClearTasks(c) \/ ExtendRead(c) \/ PersistTask(c) \/ DeleteRow(c)
    \/ Tick \/ Restart

TaskSpec == TaskInit /\ [][TaskNext]_taskVars

-----------------------------------------------------------------------------
(* Work a caller was told is registered is not forgotten by a crash: the   *)
(* task is in the table until someone deletes it, whatever grabs and       *)
(* extensions are being persisted, unless it was registered again while    *)
(* an earlier delete of the same task was still to be persisted.           *)
RegisteredSurvives == \A i \in promised \ tangled : i \in DOMAIN task_rows

=============================================================================
