-------------------------------- MODULE MobileCore --------------------------------
(***************************************************************************)
(* The mobile runtime (runtime/mobile.rs): a vault, a message processor    *)
(* and a sync bridge behind one state that every call shares.  A call      *)
(* checks the state once, waits for the component it needs, and may be     *)
(* cancelled while it waits: the operating system drops a background task  *)
(* whose time is up.  A refused call changes nothing and is not a step.    *)
(***************************************************************************)
EXTENDS Naturals, FiniteSets

CONSTANTS AppCalls, TaskIds, NoWait

ASSUME MobileAssumption == \A id \in TaskIds : NoWait # [op |-> "background", id |-> id]

VARIABLES
    state,     \* [initialized, refresh, active_background_tasks]
    unlocked,  \* what the biometric vault says
    waiting    \* call -> NoWait or [op, id] of the component it waits for

mobileVars == <<state, unlocked, waiting>>

ensure_initialized == state.initialized
ensure_ready == ensure_initialized /\ unlocked

Wait(c, op, id) == waiting' = [waiting EXCEPT ![c] = [op |-> op, id |-> id]]
Leave(c) == waiting' = [waiting EXCEPT ![c] = NoWait]

(* May be called again on a running core. *)
initialize_core(refresh) ==
    /\ state' = [state EXCEPT !.initialized = TRUE, !.refresh = refresh]
    /\ UNCHANGED <<unlocked, waiting>>

unlock_core(c) ==
    /\ waiting[c] = NoWait /\ ensure_initialized
    /\ Wait(c, "unlock", NoWait)
    /\ UNCHANGED <<state, unlocked>>

lock_core(c) ==
    /\ waiting[c] = NoWait /\ ensure_initialized
    /\ Wait(c, "lock", NoWait)
    /\ UNCHANGED <<state, unlocked>>

(* The vault's own step; the user may refuse the prompt of an unlock. *)
BiometricVault(c) ==
    /\ waiting[c] # NoWait /\ waiting[c].op \in {"unlock", "lock"}
    /\ \/ unlocked' = (waiting[c].op = "unlock")
       \/ waiting[c].op = "unlock" /\ UNCHANGED unlocked
    /\ Leave(c)
    /\ UNCHANGED state

forward_message(c) ==
    /\ waiting[c] = NoWait /\ ensure_ready
    /\ Wait(c, "process", NoWait)
    /\ UNCHANGED <<state, unlocked>>

sync_once(c) ==
    /\ waiting[c] = NoWait /\ ensure_ready
    /\ Wait(c, "sync", NoWait)
    /\ UNCHANGED <<state, unlocked>>

track_background_task(id) ==
    state' = [state EXCEPT !.active_background_tasks = @ \cup {id}]

(* Without a network it returns NoConnectivity and is never tracked. *)
background_sync(c, id) ==
    /\ waiting[c] = NoWait /\ ensure_initialized
    /\ track_background_task(id)
    /\ Wait(c, "background", id)
    /\ UNCHANGED unlocked

(* Mutant: the task is taken off the list where the sync returns, and a    *)
(* future that is dropped takes nothing off.                               *)
guard_drop_OnReturn(c, completed) ==
    IF completed /\ waiting[c].op = "background"
    THEN state' = [state EXCEPT !.active_background_tasks = @ \ {waiting[c].id}]
    ELSE UNCHANGED state

(* BackgroundTaskGuard::drop, on success, error and cancellation alike. *)
guard_drop(c, completed) ==
    IF waiting[c].op = "background"
    THEN state' = [state EXCEPT !.active_background_tasks = @ \ {waiting[c].id}]
    ELSE UNCHANGED state

(* The component answers, or the caller drops the future. *)
EndCall(c, completed) ==
    /\ waiting[c] # NoWait
    /\ completed => waiting[c].op \in {"process", "sync", "background"}
    /\ guard_drop(c, completed)
    /\ Leave(c)
    /\ UNCHANGED unlocked

MobileInit ==
    /\ state = [initialized |-> FALSE, refresh |-> FALSE, active_background_tasks |-> {}]
    /\ unlocked = FALSE
    /\ waiting = [c \in AppCalls |-> NoWait]

MobileNext ==
    \/ \E refresh \in BOOLEAN : initialize_core(refresh)
    \/ \E c \in AppCalls :
        \/ unlock_core(c) \/ lock_core(c) \/ BiometricVault(c) \/ forward_message(c) \/ sync_once(c)
        \/ \E id \in TaskIds : background_sync(c, id)
        \/ \E completed \in BOOLEAN : EndCall(c, completed)

MobileSpec == MobileInit /\ [][MobileNext]_mobileVars

-----------------------------------------------------------------------------
RunningTask(id) == {c \in AppCalls : waiting[c] # NoWait /\ waiting[c].op = "background" /\ waiting[c].id = id}

(* Every task status() lists is running: whatever way a background sync    *)
(* ends (it returns, fails, or its future is dropped), the guard takes its *)
(* id off the list.                                                        *)
NoLeakedTask ==
    \A id \in TaskIds :
        id \in state.active_background_tasks => RunningTask(id) # {}

================================================================================
