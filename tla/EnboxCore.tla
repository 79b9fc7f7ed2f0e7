------------------------------- MODULE EnboxCore -------------------------------
(***************************************************************************)
(* EnboxCore, the object that mobile hosts call over the FFI (enbox-ffi/   *)
(* src/lib.rs).  Host threads call it concurrently.  Its state sits behind *)
(* one std Mutex.  A step below is one critical section, or the work       *)
(* between two of them; process_message and register_sync_identity keep    *)
(* the mutex over their block_on, the other calls drop it first.           *)
(* A checkpoint is [tenant, remote, protocol, direction], protocol Nothing *)
(* for the global scope; ledger is the set of the pending ones.  What a    *)
(* sync run does to them is SyncEngine's; here a run of a checkpoint ends  *)
(* with it settled or pending.  A call that is refused (Locked,            *)
(* SyncInProgress, SyncSignerMissing, NotInitialized) changes nothing and  *)
(* is not a step; poisoning of the mutex is left out.                      *)
(***************************************************************************)
EXTENDS Naturals, FiniteSets

CONSTANTS Threads, Checkpoints, Requests, CoreTasks, Nothing

ASSUME CoreAssumption == Nothing \notin Threads

VARIABLES core,       \* CoreState
          mutex,      \* the caller that keeps the state mutex over block_on, or Nothing
          ledger,     \* the pending checkpoints of the sync ledger
          entered     \* entered[c]: the call c is in, and where in it

coreVars == <<core, mutex, ledger, entered>>

Idle == [at |-> "idle"]
Free == mutex = Nothing

Answered(c) == entered' = [entered EXCEPT ![c] = Idle]

-----------------------------------------------------------------------------
(* Calls of one critical section. *)

lock ==
    /\ Free
    /\ core' = [core EXCEPT !.locked = TRUE, !.reason = FALSE]
    /\ UNCHANGED <<mutex, ledger, entered>>

(* unlock keeps the reason that is there, unlock_with_reason sets it. *)
unlock ==
    /\ Free
    /\ core' = [core EXCEPT !.locked = FALSE]
    /\ UNCHANGED <<mutex, ledger, entered>>

unlock_with_reason ==
    /\ Free
    /\ core' = [core EXCEPT !.locked = FALSE, !.reason = TRUE]
    /\ UNCHANGED <<mutex, ledger, entered>>

configure_sync_signer ==
    /\ Free
    /\ core' = [core EXCEPT !.signer = TRUE]
    /\ UNCHANGED <<mutex, ledger, entered>>

begin_background_task(id) ==
    /\ Free
    /\ core' = [core EXCEPT !.tasks = @ \cup {id}]
    /\ UNCHANGED <<mutex, ledger, entered>>

end_background_task(id) ==
    /\ Free
    /\ core' = [core EXCEPT !.tasks = @ \ {id}]
    /\ UNCHANGED <<mutex, ledger, entered>>

(* The host lets go of the last reference: no call is in progress. *)
drop ==
    /\ \A c \in Threads : entered[c] = Idle
    /\ core' = [core EXCEPT !.node = FALSE]
    /\ UNCHANGED <<mutex, ledger, entered>>

-----------------------------------------------------------------------------
(* process_message, which keeps the mutex until the node has replied.      *)

process_message(c) ==
    /\ entered[c] = Idle /\ Free /\ core.node /\ ~core.locked
    /\ entered' = [entered EXCEPT ![c] = [at |-> "processing"]]
    /\ mutex' = c
    /\ UNCHANGED <<core, ledger>>

Processed(c) ==
    /\ entered[c].at = "processing"
    /\ Answered(c)
    /\ mutex' = Nothing
    /\ UNCHANGED <<core, ledger>>

(* register_sync_identity looks at neither the lock nor a running sync. *)
register_sync_identity(c) ==
    /\ entered[c] = Idle /\ Free /\ core.node
    /\ entered' = [entered EXCEPT ![c] = [at |-> "registering"]]
    /\ mutex' = c
    /\ UNCHANGED <<core, ledger>>

Registered(c) ==
    /\ entered[c].at = "registering"
    /\ Answered(c)
    /\ mutex' = Nothing
    /\ UNCHANGED <<core, ledger>>

-----------------------------------------------------------------------------
(* sync_once, poll_reconcile and resume_pending.  A request q is           *)
(* [tenant, remote, protocol, direction, signer, deadline]; the remote,    *)
(* protocol and direction of resume_pending are filters that may be absent.*)

Gate(c, q) ==
    /\ entered[c] = Idle /\ Free
    /\ ~core.locked /\ ~core.inProgress /\ core.node /\ (q.signer \/ core.signer)

matches_scope_filter(k, q) ==
    /\ k.tenant = q.tenant
    /\ q.remote # Nothing => k.remote = q.remote
    /\ q.direction # Nothing => k.direction = q.direction
    /\ q.protocol # Nothing => k.protocol = q.protocol

build_sync_once_request(q) ==
    [tenant |-> q.tenant, remote |-> q.remote, protocol |-> q.protocol, direction |-> q.direction]

run_sync_request(c, q) ==
    /\ Gate(c, q) /\ q.remote # Nothing /\ q.direction # Nothing
    /\ entered' = [entered EXCEPT ![c] = [at |-> "set", todo |-> {build_sync_once_request(q)},
                                    last |-> Nothing, q |-> q, resume |-> FALSE]]
    /\ UNCHANGED <<core, mutex, ledger>>

resume_pending(c, q) ==
    /\ Gate(c, q)
    /\ entered' = [entered EXCEPT ![c] = [at |-> "load", todo |-> {}, last |-> Nothing, q |-> q,
                                    resume |-> TRUE]]
    /\ UNCHANGED <<core, mutex, ledger>>

(* The ledger is read after the mutex is dropped; list_pending_scopes      *)
(* reports the same set.                                                   *)
pending_scopes(q) == {k \in ledger : matches_scope_filter(k, q)}

LoadPending(c) ==
    LET pending == pending_scopes(entered[c].q)
    IN  /\ entered[c].at = "load"
        /\ IF pending = {} THEN Answered(c)
           ELSE entered' = [entered EXCEPT ![c].at = "set", ![c].todo = pending]
        /\ UNCHANGED <<core, mutex, ledger>>

SetInProgress(c) ==
    /\ entered[c].at = "set" /\ Free
    /\ core' = [core EXCEPT !.inProgress = TRUE]
    /\ entered' = [entered EXCEPT ![c].at = "running"]
    /\ UNCHANGED <<mutex, ledger>>

(* The next checkpoint is synchronised and remembered as the last one.     *)
SyncNext(c) ==
    LET k == CHOOSE x \in entered[c].todo : TRUE
        rest == entered[c].todo \ {k}
    IN  /\ entered[c].at = "running" /\ entered[c].todo # {}
        /\ \E settled \in BOOLEAN : ledger' = IF settled THEN ledger \ {k} ELSE ledger \cup {k}
        /\ entered' = [entered EXCEPT ![c].todo = rest, ![c].last = k,
                                      ![c].at = IF rest = {} THEN "done" ELSE "running"]
        /\ UNCHANGED <<core, mutex>>

(* The deadline passes: the future is dropped, resume_pending's results    *)
(* with it, and sync_once reports a result of its own.                     *)
SyncDeadline(c) ==
    /\ entered[c].at = "running" /\ entered[c].q.deadline
    /\ entered' = [entered EXCEPT ![c].at = "done",
                            ![c].last = IF entered[c].resume THEN Nothing ELSE build_sync_once_request(entered[c].q)]
    /\ UNCHANGED <<core, mutex, ledger>>

(* Mutant: a resume that ran out of time returns before the flag is reset. *)
FinishSync_KeepFlag(c) ==
    /\ entered[c].at = "done" /\ Free
    /\ core' = IF entered[c].last = Nothing THEN core
               ELSE [core EXCEPT !.inProgress = FALSE, !.last = entered[c].last]
    /\ Answered(c)
    /\ UNCHANGED <<mutex, ledger>>

FinishSync(c) ==
    /\ entered[c].at = "done" /\ Free
    /\ core' = [core EXCEPT !.inProgress = FALSE,
                            !.last = IF entered[c].last = Nothing THEN @ ELSE entered[c].last]
    /\ Answered(c)
    /\ UNCHANGED <<mutex, ledger>>

(* sync_status_from_state: the last result is shown to a caller that asks  *)
(* for its tenant and, when the caller names one, its remote.              *)
sync_status(q) ==
    [inProgress |-> core.inProgress,
     last |-> IF core.last # Nothing /\ core.last.tenant = q.tenant
                 /\ (q.remote # Nothing => core.last.remote = q.remote)
              THEN core.last ELSE Nothing]

-----------------------------------------------------------------------------
(* register_tenant, install_protocol, push_protocol, run_restore_flow,     *)
(* initialize_agent_identity and the calls on delegate keys: the lock is   *)
(* looked at once, and the work goes on without the mutex.                 *)
Require(c) ==
    /\ entered[c] = Idle /\ Free /\ core.node /\ ~core.locked
    /\ entered' = [entered EXCEPT ![c] = [at |-> "working"]]
    /\ UNCHANGED <<core, mutex, ledger>>

Worked(c) ==
    /\ entered[c].at = "working"
    /\ Answered(c)
    /\ UNCHANGED <<core, mutex, ledger>>

CoreInit ==
    /\ core = [locked |-> FALSE, reason |-> FALSE, node |-> TRUE, signer |-> FALSE,
               inProgress |-> FALSE, last |-> Nothing, tasks |-> {}]
    /\ mutex = Nothing
    /\ ledger \in SUBSET Checkpoints
    /\ entered = [c \in Threads |-> Idle]

CoreNext ==
    \/ lock \/ unlock \/ unlock_with_reason \/ configure_sync_signer \/ drop
    \/ \E id \in CoreTasks : begin_background_task(id) \/ end_background_task(id)
    \/ \E c \in Threads :
          \/ process_message(c) \/ Processed(c) \/ register_sync_identity(c) \/ Registered(c)
          \/ \E q \in Requests : run_sync_request(c, q) \/ resume_pending(c, q)
          \/ LoadPending(c) \/ SetInProgress(c) \/ SyncNext(c) \/ SyncDeadline(c) \/ FinishSync(c)
          \/ Require(c) \/ Worked(c)

CoreSpec == CoreInit /\ [][CoreNext]_coreVars

-----------------------------------------------------------------------------
Syncing(c) == entered[c].at \in {"running", "done"}

(* No message is processed while the core is locked, and the in-progress   *)
(* flag never outlives the sync calls: whatever overlaps and whichever     *)
(* deadline passes, once no caller runs a sync the next one is let in      *)
(* (process_message keeps the mutex over block_on; run_sync_request and    *)
(* resume_pending reset the flag on every way out).                        *)
CoreGates ==
    /\ core.inProgress => \E c \in Threads : Syncing(c)
    /\ \A c \in Threads : entered[c].at = "processing" => ~core.locked

================================================================================
