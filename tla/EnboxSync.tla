------------------------------ MODULE EnboxSync ------------------------------
(***************************************************************************)
(* The sync calls of the FFI facade (enbox-ffi/src/lib.rs) over the sync   *)
(* engine.  Every run opens an engine of its own on the node's ledger      *)
(* (native_node.rs), so runs share the ledger and the endpoints but not    *)
(* the engine's memory or its running operations.  The host also keeps one *)
(* long-lived engine for live subscriptions and dead letters.              *)
(***************************************************************************)
EXTENDS SyncEngine

CONSTANTS HostCalls,  \* FFI callers; each run of one opens the engine of its name
          LiveCalls,  \* callers of the long-lived engine
          LiveEngine, \* that engine
          Ops,        \* directions the host asks for
          Budgets     \* its record budgets; 0 is None

VARIABLES core,  \* CoreState: locked, and sync_in_progress
          host   \* caller -> where its FFI call is

vars == <<syncVars, core, host>>

OutOfCall == [at |-> "out"]

(* checkpoint_is_pending *)
IsPending(cp) ==
    \/ cp.pendingPull # {} \/ cp.pendingPush # {}
    \/ cp.pullCursor # 0 \/ cp.pushCursor # 0

(* The scopes list_pending_scopes returns and resume_pending runs. *)
PendingKeys(l) == {k \in Keys : IsPending(l.checkpoints[k])}

(* The checks at the head of run_sync_request, under the state lock. *)
Gate(c, fields) ==
    /\ host[c].at = "out" /\ ~core.locked /\ ~core.busy
    /\ host' = [host EXCEPT ![c] = fields]
    /\ UNCHANGED <<syncVars, core>>

RunSyncRequest(c, op, maxRecords) ==
    Gate(c, [at |-> "gated", maxRecords |-> maxRecords, deadline |-> FALSE,
             work |-> <<[op |-> op, scopes |-> Scopes]>>])

(* resume_pending reads the ledger after the checks; with nothing pending *)
(* it returns without claiming the flag.                                  *)
ResumePending(c, maxRecords) == Gate(c, [at |-> "listing", maxRecords |-> maxRecords])

ListPending(c) ==
    /\ host[c].at = "listing"
    /\ IF PendingKeys(ledger) = {} THEN host' = [host EXCEPT ![c] = OutOfCall]
       ELSE \E order \in [1..Cardinality(PendingKeys(ledger)) -> PendingKeys(ledger)] :
              /\ \A i, j \in DOMAIN order : i # j => order[i] # order[j]
              /\ host' = [host EXCEPT ![c] =
                    [at |-> "gated", maxRecords |-> host[c].maxRecords, deadline |-> FALSE,
                     work |-> [i \in DOMAIN order |->
                                 [op |-> order[i][2], scopes |-> <<order[i][1]>>]]]]
    /\ UNCHANGED <<syncVars, core>>

(* The second section of the lock sets sync_in_progress. *)
Claim(c) ==
    /\ host[c].at = "gated"
    /\ core' = [core EXCEPT !.busy = TRUE]
    /\ host' = [host EXCEPT ![c].at = "open"]
    /\ UNCHANGED syncVars

(* register_sync_identity: the node's identities live until the process ends. *)
RegisterSyncIdentity ==
    /\ ~identity /\ identity' = TRUE
    /\ UNCHANGED <<indexed, stores, mem, ledger, calls, faults, letterId, link, waived, core, host>>

(* build_http_sync_engine: a fresh engine, restored from the ledger or,   *)
(* if the load failed, empty, with the node's identities; then sync_once  *)
(* on it.                                                                 *)
OpenEngine(c) ==
    /\ host[c].at = "open" /\ host[c].work # <<>> /\ calls[c].pc = "idle"
    /\ \E f \in {0, 1} :
         LET fresh == Restored(Load(f))
             job == Head(host[c].work) IN
         /\ Fault(f)
         /\ mem' = [mem EXCEPT ![c] = [fresh EXCEPT !.running = {job.op}, !.identity = identity]]
         /\ calls' = [calls EXCEPT ![c] =
                        NewSync(c, job.op, job.scopes, host[c].maxRecords, identity)]
    /\ host' = [host EXCEPT ![c].at = "run", ![c].work = Tail(@)]
    /\ UNCHANGED <<wiring, stores, ledger, letterId, link, waived, core>>

(* A step of the engine call that caller c is in. *)
RunStep(c) ==
    /\ CallStep(c)
    /\ host' = IF c \in HostCalls /\ calls'[c].pc = "idle"
               THEN [host EXCEPT ![c].at = "open"] ELSE host
    /\ UNCHANGED core

(* tokio::time::timeout drops the run where it stands. *)
Deadline(c) ==
    /\ host[c].at = "run" /\ Fault(1)
    /\ calls' = [calls EXCEPT ![c] = IdleCall]
    /\ host' = [host EXCEPT ![c].at = "open", ![c].work = <<>>, ![c].deadline = TRUE]
    /\ UNCHANGED <<wiring, stores, mem, ledger, letterId, link, waived, core>>

Release(c) ==
    /\ host[c].at = "open" /\ host[c].work = <<>>
    /\ core' = [core EXCEPT !.busy = FALSE]
    /\ host' = [host EXCEPT ![c] = OutOfCall]
    /\ UNCHANGED syncVars

(* lock and unlock do not wait for a run in flight. *)
SetLocked(b) ==
    /\ core.locked # b /\ core' = [core EXCEPT !.locked = b]
    /\ UNCHANGED <<syncVars, host>>

(* The long-lived engine. *)
LiveEngineStep(c) ==
    /\ \/ LiveStep(c, LiveEngine)
       \/ \E l \in mem[LiveEngine].letters : RetryDeadLetter(c, LiveEngine, l)
       \/ StartSync(c, LiveEngine)
       \/ \E op \in Ops, n \in Budgets : SyncOnce(c, LiveEngine, op, Scopes, n)
    /\ UNCHANGED <<core, host>>

HostStep(c) ==
    \/ \E n \in Budgets : ResumePending(c, n) \/ \E op \in Ops : RunSyncRequest(c, op, n)
    \/ ListPending(c) \/ Claim(c) \/ OpenEngine(c) \/ Deadline(c) \/ Release(c)

Restart ==
    /\ Crash
    /\ core' = [locked |-> FALSE, busy |-> FALSE]
    /\ host' = [c \in HostCalls |-> OutOfCall]

InitWith(admitted) ==
    /\ SyncInit(admitted)
    /\ core = [locked |-> FALSE, busy |-> FALSE]
    /\ host = [c \in HostCalls |-> OutOfCall]

Next ==
    \/ \E c \in Calls : RunStep(c)
    \/ \E c \in HostCalls : HostStep(c)
    \/ \E c \in LiveCalls : LiveEngineStep(c)
    \/ /\ \/ \E l \in mem[LiveEngine].letters : ClearDeadLetter(LiveEngine, l)
          \/ \E b \in BOOLEAN : SetIdentity(LiveEngine, b)
          \/ StopSync(LiveEngine)
          \/ \E s \in ScopeSet : EnterDegradedPoll(LiveEngine, s)
       /\ UNCHANGED <<core, host>>
    \/ RegisterSyncIdentity
    \/ \E d \in Sides, m \in Msgs : UserWrite(d, m) /\ UNCHANGED <<core, host>>
    \/ \E b \in BOOLEAN : SetLocked(b)
    \/ Restart

Init == InitWith([d \in Sides |-> <<>>])

Spec == Init /\ [][Next]_vars

(* The steps of a host call that started, and the start of the next. *)
CallsRun(c) == ListPending(c) \/ Claim(c) \/ OpenEngine(c) \/ RunStep(c) \/ Release(c)
Poll(c) == \E n \in Budgets : RunSyncRequest(c, "Bidirectional", n)

-----------------------------------------------------------------------------
(* A subscription never skips an event: every entry of the server's log up *)
(* to the cursor in the ledger is settled at the other endpoint, or in a   *)
(* dead letter in the ledger, or was given up by the host (a cleared       *)
(* letter, or one whose insertion failed and was reported).  A process     *)
(* that restarts reads only the ledger, so this is what it can rely on.    *)
NoSilentLoss ==
    \A k \in Keys : \A p \in 1..CursorOf(ledger.checkpoints[k], k[2]) :
        LET m == log[Server(k[2])][p] IN
        Scope[m] = k[1] =>
            \/ Settled(held[Client(k[2])], m)
            \/ \E l \in ledger.letters : l.msg = m /\ l.dir = k[2]
            \/ <<k[2], m>> \in waived

(* A run that is about to return Completed has settled, at the receiving   *)
(* endpoint, every message it saw at the sending one: no entry was skipped *)
(* as an echo, lost in the sort, or passed over after a failed apply,      *)
(* whatever the other runs and subscriptions did meanwhile.                *)
CompletedMeansSettled ==
    \A c \in Calls :
        calls[c].pc = "end" /\ calls[c].result = "Completed" =>
            \A x \in calls[c].saw : Settled(held[Client(x[1])], x[2])

(* What a completed run delivered it delivered whole: a message it brought *)
(* over, still in place on both sides, has its data where it went.         *)
CompletedCarriesData ==
    \A c \in Calls :
        calls[c].pc = "end" /\ calls[c].result = "Completed" =>
            \A x \in calls[c].saw :
                x[2] \in data[Server(x[1])] \cap held[Client(x[1])] => x[2] \in data[Client(x[1])]

(* Once the writers stop, a host that keeps running sync brings the two    *)
(* endpoints to the same messages.                                         *)
Converges == <>[](held.local = held.remote)
=============================================================================
