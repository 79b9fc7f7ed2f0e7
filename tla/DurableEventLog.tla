--------------------------- MODULE DurableEventLog ---------------------------
(***************************************************************************)
(* Subscriptions over the durable replication feed                         *)
(* (stores/durable_event_log/mod.rs) and the wake bus that prompts them    *)
(* (stores/wake.rs), for the subscriptions of one tenant and one filter.   *)
(*                                                                         *)
(* Processes, each advancing from one await point to the next: the caller  *)
(* of subscribe(), the task that drains a live subscription, the wake      *)
(* listener of a subscription, the idle re-drain timer, the callers of     *)
(* close() and the store that commits and publishes.  A member of Subs is  *)
(* one SubscriptionState object: subscribing twice under one id makes two. *)
(*                                                                         *)
(* The per-id install lock is subsumed by installation_gate, which every   *)
(* installation holds exclusively from start to end.                       *)
(***************************************************************************)
EXTENDS FeedView, Sequences, SequencesExt

CONSTANTS
    Subs,            \* SubscriptionState objects
    Ids,             \* subscription ids
    IdOf,            \* the id each is subscribed under
    ReadLimit,       \* config.read_limit, at least 1
    IdleRedrain,     \* whether config.idle_redrain_interval is set
    MaxFaults,       \* bound on failed reads and lost wakes explored
    Nil

ASSUME LogAssumption ==
    /\ IdOf \in [Subs -> Ids]
    /\ ReadLimit \in Nat \ {0}
    /\ IdleRedrain \in BOOLEAN
    /\ MaxFaults \in Nat
    /\ Nil \notin Subs \cup Tokens

VARIABLES
    faults,            \* failed reads and lost wakes so far
    unpublished,       \* commits whose wake has not been offered to the bus yet
    state,             \* SubscriptionState.mutable
    delivery_gate,     \* which task of the subscription holds it
    subscriptions,     \* DurableEventLogInner.subscriptions
    installation_gate, \* the subscribe call that holds it
    bus,               \* the wake registration and listener task of each subscription
    idle,              \* the idle timer's progress on each subscription
    call,              \* the subscribe() call that created each subscription
    drain,             \* the drain task of each subscription
    cleanups,          \* cleanup_subscription calls in progress
    closing,           \* the close() call of the log
    delivered,         \* history: what each listener was called with
    returned,          \* history: subscriptions some external cleanup of which returned
    steady             \* history: positions visible ever since they were appended

storeVars == <<epoch, head, visible, steady, unpublished>>

tableVars == <<subscriptions, installation_gate, closing>>

historyVars == <<delivered, returned>>

local == <<state, delivery_gate, tableVars, idle, call, drain, cleanups, historyVars>>

vars == <<epoch, head, visible, faults, unpublished, state, delivery_gate, subscriptions,
          installation_gate, bus, idle, call, drain, cleanups, closing, delivered,
          returned, steady>>

-----------------------------------------------------------------------------
SubscriptionPhase == {"Absent", "Replay", "Live", "Closed"}

Message == [kind : {"event", "eose", "error"}, at : Tokens]

Closed(s) == state[s].phase = "Closed"

IdleCall == [pc |-> "idle", cursor |-> Nil, frozen |-> Nil, read |-> 0, page |-> {}, scan |-> Nil]

NoDrain == [pc |-> "none", cursor |-> Nil, page |-> {}, scan |-> Nil, drained |-> FALSE]

Init ==
    /\ InitFeed
    /\ faults = 0
    /\ unpublished = 0
    /\ state = [s \in Subs |->
                  [phase |-> "Absent", cursor |-> Nil, draining |-> FALSE,
                   redrain_requested |-> FALSE, terminal_error_sent |-> FALSE,
                   wake_handle |-> FALSE, drain_task |-> FALSE]]
    /\ delivery_gate = [s \in Subs |-> "free"]
    /\ subscriptions = [i \in Ids |-> Nil]
    /\ installation_gate = Nil
    /\ bus = [s \in Subs |-> [registered |-> FALSE, queued |-> FALSE, pc |-> "recv"]]
    /\ idle = [s \in Subs |-> "wait"]
    /\ call = [s \in Subs |-> IdleCall]
    /\ drain = [s \in Subs |-> NoDrain]
    /\ cleanups = {}
    /\ closing = [pc |-> "open", todo |-> {}]
    /\ delivered = [s \in Subs |-> <<>>]
    /\ returned = {}
    /\ steady = {}

-----------------------------------------------------------------------------
(* The store.  A commit that appends an entry publishes a wake once the    *)
(* transaction is over, so other tasks run in between; the caller may also *)
(* be dropped there, and then nobody publishes.                            *)

StoreCommit ==
    \E appended \in BOOLEAN, after \in SUBSET (1 .. head + 1) :
        /\ CommitFeed(appended, after)
        /\ unpublished' = IF appended THEN unpublished + 1 ELSE unpublished
        /\ steady' = (steady \cup (head + 1 .. head')) \cap after
        /\ UNCHANGED <<faults, bus, local>>

StoreClear ==
    /\ ClearFeed
    /\ steady' = {}
    /\ UNCHANGED <<faults, unpublished, bus, local>>

(* InProcessWakeBus::publish: a listener whose queue of one is full has    *)
(* the wake coalesced.                                                     *)
Publish ==
    /\ unpublished > 0
    /\ unpublished' = unpublished - 1
    /\ bus' = [s \in Subs |-> IF bus[s].registered THEN [bus[s] EXCEPT !.queued = TRUE]
                                                   ELSE bus[s]]
    /\ UNCHANGED <<feedVars, steady, faults, local>>

LoseWake ==
    /\ unpublished > 0
    /\ faults < MaxFaults
    /\ unpublished' = unpublished - 1
    /\ faults' = faults + 1
    /\ UNCHANGED <<feedVars, steady, bus, local>>

-----------------------------------------------------------------------------
(* Asking for a drain and starting one are two critical sections of        *)
(* SubscriptionState.mutable.                                              *)

MayRequest(s) == ~ Closed(s) /\ ~ state[s].terminal_error_sent

request_drain(s) ==
    state' = IF MayRequest(s) THEN [state EXCEPT ![s].redrain_requested = TRUE] ELSE state

StartsAfterRequest(s) == MayRequest(s) /\ state[s].phase = "Live"

Startable(s) ==
    /\ state[s].phase = "Live"
    /\ ~ state[s].draining
    /\ ~ state[s].terminal_error_sent

try_start_drain(s) ==
    IF Startable(s)
    THEN /\ state' = [state EXCEPT ![s].draining = TRUE, ![s].redrain_requested = FALSE,
                                   ![s].drain_task = TRUE]
         /\ drain' = [drain EXCEPT ![s] = [NoDrain EXCEPT !.pc = "read",
                                                          !.cursor = state[s].cursor]]
    ELSE UNCHANGED <<state, drain>>

(* run_listener and wake_handler: the task takes the wake off its queue,   *)
(* then requests, then starts.                                             *)

WakeReceive(s) ==
    /\ bus[s].pc = "recv"
    /\ bus[s].queued
    /\ bus' = [bus EXCEPT ![s].queued = FALSE, ![s].pc = "request"]
    /\ UNCHANGED <<storeVars, faults, local>>

WakeRequest(s) ==
    /\ bus[s].pc = "request"
    /\ request_drain(s)
    /\ bus' = [bus EXCEPT ![s].pc = IF StartsAfterRequest(s) THEN "start" ELSE "recv"]
    /\ UNCHANGED <<storeVars, faults, delivery_gate, tableVars, idle, call, drain, cleanups, historyVars>>

WakeStart(s) ==
    /\ bus[s].pc = "start"
    /\ try_start_drain(s)
    /\ bus' = [bus EXCEPT ![s].pc = "recv"]
    /\ UNCHANGED <<storeVars, faults, delivery_gate, tableVars, idle, call, cleanups, historyVars>>

(* redrain_all on a tick of the idle timer, which close() stops. *)

(* Variant with a fault: only subscriptions that asked for it are drained. *)
IdleRequest_OnlyRequested(s) ==
    /\ IdleRedrain
    /\ closing.pc = "open"
    /\ idle[s] = "wait"
    /\ subscriptions[IdOf[s]] = s
    /\ state[s].redrain_requested
    /\ idle' = [idle EXCEPT ![s] = IF StartsAfterRequest(s) THEN "start" ELSE "wait"]
    /\ UNCHANGED <<storeVars, faults, state, delivery_gate, tableVars, bus, call, drain, cleanups,
                   historyVars>>

IdleRequest(s) ==
    /\ IdleRedrain
    /\ closing.pc = "open"
    /\ idle[s] = "wait"
    /\ subscriptions[IdOf[s]] = s
    /\ request_drain(s)
    /\ idle' = [idle EXCEPT ![s] = IF StartsAfterRequest(s) THEN "start" ELSE "wait"]
    /\ UNCHANGED <<storeVars, faults, delivery_gate, tableVars, bus, call, drain, cleanups, historyVars>>

IdleStart(s) ==
    /\ idle[s] = "start"
    /\ try_start_drain(s)
    /\ idle' = [idle EXCEPT ![s] = "wait"]
    /\ UNCHANGED <<storeVars, faults, delivery_gate, tableVars, bus, call, cleanups, historyVars>>

-----------------------------------------------------------------------------
(* cleanup_subscription.  Every caller runs its own copy: by names it, and *)
(* it goes on when its copy is gone.  The phase and the handles are taken  *)
(* in one critical section, so of two concurrent cleanups the first gets   *)
(* the wake handle and the drain task.                                     *)

Cleanup(by, origin, target) ==
    [by |-> by, origin |-> origin, target |-> target, step |-> "mark",
     wake_handle |-> FALSE, drain_task |-> FALSE]

Cleaning(by) == \E c \in cleanups : c.by = by

(* Variant with a fault: a drain task takes its own join handle. *)
CleanupMark_JoinsItself(c) ==
    LET st == state[c.target]
    IN  /\ c.step = "mark"
        /\ state' = [state EXCEPT ![c.target] =
                       [st EXCEPT !.phase = "Closed", !.redrain_requested = FALSE,
                                  !.wake_handle = FALSE, !.drain_task = FALSE]]
        /\ cleanups' = (cleanups \ {c}) \cup
                         {[c EXCEPT !.step = "unmap", !.wake_handle = st.wake_handle,
                                    !.drain_task = st.drain_task]}
        /\ UNCHANGED <<storeVars, faults, delivery_gate, tableVars, bus, idle, call, drain, historyVars>>

CleanupMark(c) ==
    LET st == state[c.target]
        external == c.origin = "External"
    IN  /\ c.step = "mark"
        /\ state' = [state EXCEPT ![c.target] =
                       [st EXCEPT !.phase = "Closed", !.redrain_requested = FALSE,
                                  !.wake_handle = FALSE,
                                  !.drain_task = IF external THEN FALSE ELSE @]]
        /\ cleanups' = (cleanups \ {c}) \cup
                         {[c EXCEPT !.step = "unmap", !.wake_handle = st.wake_handle,
                                    !.drain_task = external /\ st.drain_task]}
        /\ UNCHANGED <<storeVars, faults, delivery_gate, tableVars, bus, idle, call, drain, historyVars>>

(* Leaves the map if it is still this object's entry, and the wake bus. *)
CleanupUnmap(c) ==
    /\ c.step = "unmap"
    /\ subscriptions' = [subscriptions EXCEPT ![IdOf[c.target]] =
                           IF @ = c.target THEN Nil ELSE @]
    /\ bus' = IF c.wake_handle
              THEN [bus EXCEPT ![c.target].registered = FALSE, ![c.target].queued = FALSE]
              ELSE bus
    /\ cleanups' = (cleanups \ {c}) \cup {[c EXCEPT !.step = "gate"]}
    /\ UNCHANGED <<storeVars, faults, state, delivery_gate, installation_gate, closing,
                   idle, call, drain, historyVars>>

(* Variant with a fault: a listener call in progress is not waited for. *)
ListenerQuiet_NoGate(c) == c.step = "gate"

(* The delivery gate is taken and dropped: any listener call has returned. *)
ListenerQuiet(c) == c.step = "gate" /\ delivery_gate[c.target] = "free"

TaskJoined(c) == c.step = "join" /\ drain[c.target].pc = "none"

CleanupWait(c) ==
    /\ ListenerQuiet(c)
    /\ c.drain_task
    /\ cleanups' = (cleanups \ {c}) \cup {[c EXCEPT !.step = "join"]}
    /\ UNCHANGED <<storeVars, faults, state, delivery_gate, tableVars, bus, idle, call, drain,
                   historyVars>>

CleanupReturn(c) ==
    /\ (ListenerQuiet(c) /\ ~ c.drain_task) \/ TaskJoined(c)
    /\ cleanups' = cleanups \ {c}
    /\ returned' = IF c.origin = "External" THEN returned \cup {c.target} ELSE returned
    /\ UNCHANGED <<storeVars, faults, state, delivery_gate, tableVars, bus, idle, call, drain,
                   delivered>>

(* The close function of the EventSubscription a subscribe() returned. *)
CloseHandle(s) ==
    /\ call[s].pc = "returned"
    /\ s \notin returned
    /\ ~ Cleaning(<<"close", s>>)
    /\ cleanups' = cleanups \cup {Cleanup(<<"close", s>>, "External", s)}
    /\ UNCHANGED <<storeVars, faults, state, delivery_gate, tableVars, bus, idle, call, drain,
                   historyVars>>

(* DurableEventLog::close: reject new calls, stop the timer, wait for an   *)
(* installation in progress, then clean up what is installed one by one.   *)

LogClose ==
    /\ closing.pc = "open"
    /\ closing' = [closing EXCEPT !.pc = "gate"]
    /\ UNCHANGED <<storeVars, faults, state, delivery_gate, subscriptions, installation_gate,
                   bus, idle, call, drain, cleanups, historyVars>>

(* Variant with a fault: the installation gate is not waited for. *)
LogCloseSnapshot_NoGate ==
    /\ closing.pc = "gate"
    /\ closing' = [pc |-> "sweep", todo |-> {s \in Subs : subscriptions[IdOf[s]] = s}]
    /\ UNCHANGED <<storeVars, faults, state, delivery_gate, subscriptions, installation_gate,
                   bus, idle, call, drain, cleanups, historyVars>>

LogCloseSnapshot ==
    /\ closing.pc = "gate"
    /\ \A s \in Subs : idle[s] = "wait"
    /\ installation_gate = Nil
    /\ closing' = [pc |-> "sweep", todo |-> {s \in Subs : subscriptions[IdOf[s]] = s}]
    /\ UNCHANGED <<storeVars, faults, state, delivery_gate, subscriptions, installation_gate,
                   bus, idle, call, drain, cleanups, historyVars>>

LogCloseSweep ==
    /\ closing.pc = "sweep"
    /\ ~ Cleaning(<<"log">>)
    /\ \/ \E s \in closing.todo :
             /\ closing' = [closing EXCEPT !.todo = @ \ {s}]
             /\ cleanups' = cleanups \cup {Cleanup(<<"log">>, "External", s)}
       \/ /\ closing.todo = {}
          /\ closing' = [closing EXCEPT !.pc = "closed"]
          /\ UNCHANGED cleanups
    /\ UNCHANGED <<storeVars, faults, state, delivery_gate, subscriptions, installation_gate,
                   bus, idle, call, drain, historyVars>>

-----------------------------------------------------------------------------
(* subscribe().  pc names the await point the call stands at.              *)

Goto(s, pc) == call' = [call EXCEPT ![s].pc = pc]

Return(s, pc) == call' = [call EXCEPT ![s].pc = pc, ![s].read = 0, ![s].page = {}, ![s].scan = Nil]

Deliver(s, kind, at) ==
    delivered' = [delivered EXCEPT ![s] = Append(@, [kind |-> kind, at |-> at])]

(* Cleans up the new subscription, then returns the error. *)
FailCall(s) ==
    /\ Goto(s, "failing")
    /\ cleanups' = cleanups \cup {Cleanup(<<"subscribe", s>>, "External", s)}

(* Entry, and validate_resume_cursor's read. *)
Subscribe(s) ==
    \E cursor \in Tokens \cup {Nil} :
        /\ call[s].pc = "idle"
        /\ call' = [call EXCEPT ![s].cursor = cursor, ![s].pc =
                      IF closing.pc = "open" /\ (cursor = Nil \/ CursorValid(cursor))
                      THEN "gate" ELSE "failed"]
        /\ UNCHANGED <<storeVars, faults, state, delivery_gate, tableVars, bus, idle, drain,
                       cleanups, historyVars>>

(* install_subscription up to the cleanup of the subscription replaced. *)
Install(s) ==
    LET old == subscriptions[IdOf[s]]
    IN  /\ call[s].pc = "gate"
        /\ installation_gate = Nil
        /\ \/ /\ closing.pc # "open"
              /\ Return(s, "failed")
              /\ UNCHANGED <<installation_gate, subscriptions, cleanups>>
           \/ /\ closing.pc = "open"
              /\ Goto(s, "insert")
              /\ installation_gate' = s
              /\ subscriptions' = [subscriptions EXCEPT ![IdOf[s]] = Nil]
              /\ cleanups' = IF old = Nil THEN cleanups
                             ELSE cleanups \cup {Cleanup(<<"subscribe", s>>, "External", old)}
        /\ UNCHANGED <<storeVars, faults, state, delivery_gate, closing, bus, idle, drain,
                       historyVars>>

(* The rest of it: enter the map, register for wakes. *)
Insert(s) ==
    /\ call[s].pc = "insert"
    /\ ~ Cleaning(<<"subscribe", s>>)
    /\ subscriptions' = [subscriptions EXCEPT ![IdOf[s]] = s]
    /\ state' = [state EXCEPT ![s].phase = "Replay", ![s].cursor = call[s].cursor,
                              ![s].wake_handle = TRUE]
    /\ bus' = [bus EXCEPT ![s].registered = TRUE]
    /\ installation_gate' = Nil
    /\ Goto(s, "bounds")
    /\ UNCHANGED <<storeVars, faults, delivery_gate, closing, idle, drain, cleanups, historyVars>>

(* frozen_cursor: the head, or the anchor at zero that a second read       *)
(* yields when the feed was empty.                                         *)

Freeze(s, frozen) ==
    LET cursor == call[s].cursor
    IN  IF cursor # Nil /\ (cursor.epoch # frozen.epoch \/ cursor.position > frozen.position)
        THEN FailCall(s)
        ELSE /\ call' = [call EXCEPT ![s].frozen = frozen,
                           ![s].read = IF cursor = Nil THEN 0 ELSE cursor.position,
                           ![s].pc   = IF cursor = Nil THEN "live"
                                       ELSE IF cursor.position = frozen.position THEN "eose"
                                       ELSE "read"]
             /\ UNCHANGED cleanups

ReadBounds(s) ==
    /\ call[s].pc = "bounds"
    /\ IF head = 0 THEN Goto(s, "anchor") /\ UNCHANGED cleanups
                   ELSE Freeze(s, Token(epoch, head))
    /\ UNCHANGED <<storeVars, faults, state, delivery_gate, tableVars, bus, idle, drain, historyVars>>

ReadAnchor(s) ==
    /\ call[s].pc = "anchor"
    /\ Freeze(s, Token(epoch, 0))
    /\ UNCHANGED <<storeVars, faults, state, delivery_gate, tableVars, bus, idle, drain, historyVars>>

(* Without a cursor the subscription follows the feed from the frozen head. *)
GoLive(s) ==
    /\ call[s].pc = "live"
    /\ IF Closed(s)
       THEN /\ state' = [state EXCEPT ![s].cursor = call[s].frozen]
            /\ Return(s, "returned")
       ELSE /\ state' = [state EXCEPT ![s].cursor = call[s].frozen, ![s].phase = "Live"]
            /\ Goto(s, IF state[s].redrain_requested THEN "start" ELSE "returned")
    /\ UNCHANGED <<storeVars, faults, delivery_gate, tableVars, bus, idle, drain, cleanups, historyVars>>

(* replay_to_frozen: read a page, deliver its entries up to the frozen     *)
(* head one by one, go on from the position scanned to.                    *)

ReplayRead(s) ==
    LET result == log_read(call[s].read, ReadLimit)
    IN  /\ call[s].pc = "read"
        /\ IF Closed(s) THEN Return(s, "returned") /\ UNCHANGED cleanups
           ELSE IF ~ CursorValid(Token(call[s].frozen.epoch, call[s].read)) THEN FailCall(s)
           ELSE /\ call' = [call EXCEPT ![s].page = result.events, ![s].scan = result.cursor,
                                        ![s].pc = "deliver"]
                /\ UNCHANGED cleanups
        /\ UNCHANGED <<storeVars, faults, state, delivery_gate, tableVars, bus, idle, drain,
                       historyVars>>

Pending(s) == {p \in call[s].page : p <= call[s].frozen.position}

(* deliver_entry up to the listener call. *)
ReplayEntry(s) ==
    /\ call[s].pc = "deliver"
    /\ Pending(s) # {}
    /\ \/ /\ Closed(s)
          /\ Return(s, "returned")
          /\ UNCHANGED delivery_gate
       \/ /\ ~ Closed(s)
          /\ delivery_gate[s] = "free"
          /\ delivery_gate' = [delivery_gate EXCEPT ![s] = "subscribe"]
          /\ Goto(s, "calling")
    /\ UNCHANGED <<storeVars, faults, state, tableVars, bus, idle, drain, cleanups, historyVars>>

ReplayCall(s) ==
    LET at == Token(call[s].scan.epoch, Min(Pending(s)))
    IN  /\ call[s].pc = "calling"
        /\ Deliver(s, "event", at)
        /\ delivery_gate' = [delivery_gate EXCEPT ![s] = "free"]
        /\ IF Closed(s) THEN Return(s, "returned")
           ELSE call' = [call EXCEPT ![s].page = @ \ {at.position}, ![s].pc = "deliver"]
        /\ state' = IF Closed(s) THEN state ELSE [state EXCEPT ![s].cursor = at]
        /\ UNCHANGED <<storeVars, faults, tableVars, bus, idle, drain, cleanups, returned>>

ReplayPageDone(s) ==
    LET reached == call[s].scan.position >= call[s].frozen.position
    IN  /\ call[s].pc = "deliver"
        /\ Pending(s) = {}
        /\ IF reached THEN Return(s, "eose")
           ELSE IF Closed(s) THEN Return(s, "returned")
           ELSE call' = [call EXCEPT ![s].read = call[s].scan.position, ![s].page = {}, ![s].pc = "read"]
        /\ state' = IF reached \/ Closed(s) THEN state
                    ELSE [state EXCEPT ![s].cursor = call[s].scan]
        /\ UNCHANGED <<storeVars, faults, delivery_gate, tableVars, bus, idle, drain, cleanups,
                       historyVars>>

(* End of replay.  The gate is held from the check of the phase until the  *)
(* call returns, so no drain delivers before the end-of-stored-events      *)
(* message does.                                                           *)

EoseAcquire(s) ==
    /\ call[s].pc = "eose"
    /\ delivery_gate[s] = "free"
    /\ IF Closed(s)
       THEN Return(s, "returned") /\ UNCHANGED <<state, delivery_gate>>
       ELSE /\ Goto(s, "eosecall")
            /\ state' = [state EXCEPT ![s].cursor = call[s].frozen]
            /\ delivery_gate' = [delivery_gate EXCEPT ![s] = "subscribe"]
    /\ UNCHANGED <<storeVars, faults, tableVars, bus, idle, drain, cleanups, historyVars>>

EoseCall(s) ==
    LET starts == ~ Closed(s) /\ state[s].redrain_requested
    IN  /\ call[s].pc = "eosecall"
        /\ Deliver(s, "eose", call[s].frozen)
        /\ state' = IF Closed(s) THEN state
                    ELSE [state EXCEPT ![s].cursor = call[s].frozen, ![s].phase = "Live"]
        /\ delivery_gate' = IF starts THEN delivery_gate
                            ELSE [delivery_gate EXCEPT ![s] = "free"]
        /\ Return(s, IF starts THEN "start" ELSE "returned")
        /\ UNCHANGED <<storeVars, faults, tableVars, bus, idle, drain, cleanups, returned>>

SubscribeStart(s) ==
    /\ call[s].pc = "start"
    /\ try_start_drain(s)
    /\ delivery_gate' = [delivery_gate EXCEPT ![s] = IF @ = "subscribe" THEN "free" ELSE @]
    /\ Return(s, "returned")
    /\ UNCHANGED <<storeVars, faults, tableVars, bus, idle, cleanups, historyVars>>

(* A failed feed read, or a failed lookup of an event's initial write. *)
SubscribeFault(s) ==
    /\ \/ call[s].pc \in {"bounds", "anchor", "read"}
       \/ call[s].pc = "deliver" /\ Pending(s) # {}
    /\ faults < MaxFaults
    /\ faults' = faults + 1
    /\ FailCall(s)
    /\ UNCHANGED <<storeVars, state, delivery_gate, tableVars, bus, idle, drain, historyVars>>

SubscribeFailed(s) ==
    /\ call[s].pc = "failing"
    /\ ~ Cleaning(<<"subscribe", s>>)
    /\ Return(s, "failed")
    /\ UNCHANGED <<storeVars, faults, state, delivery_gate, tableVars, bus, idle, drain,
                   cleanups, historyVars>>

-----------------------------------------------------------------------------
(* run_drain and drain_once.                                               *)

DrainGoto(s, pc) == drain' = [drain EXCEPT ![s].pc = pc]

DrainEnds(s) == drain' = [drain EXCEPT ![s] = [NoDrain EXCEPT !.pc = "finish"]]

DrainRead(s) ==
    LET result == log_read(drain[s].cursor.position, ReadLimit)
    IN  /\ drain[s].pc = "read"
        /\ IF Closed(s) THEN DrainEnds(s)
           ELSE IF ~ CursorValid(drain[s].cursor) THEN DrainGoto(s, "gap")
           ELSE drain' = [drain EXCEPT ![s] =
                            [pc |-> "deliver", cursor |-> drain[s].cursor,
                             page |-> result.events, scan |-> result.cursor,
                             drained |-> result.drained]]
        /\ UNCHANGED <<storeVars, faults, state, delivery_gate, tableVars, bus, idle, call,
                       cleanups, historyVars>>

DrainEntry(s) ==
    /\ drain[s].pc = "deliver"
    /\ drain[s].page # {}
    /\ \/ /\ Closed(s)
          /\ DrainEnds(s)
          /\ UNCHANGED delivery_gate
       \/ /\ ~ Closed(s)
          /\ delivery_gate[s] = "free"
          /\ delivery_gate' = [delivery_gate EXCEPT ![s] = "drain"]
          /\ DrainGoto(s, "calling")
    /\ UNCHANGED <<storeVars, faults, state, tableVars, bus, idle, call, cleanups, historyVars>>

DrainCall(s) ==
    LET at == Token(drain[s].scan.epoch, Min(drain[s].page))
    IN  /\ drain[s].pc = "calling"
        /\ Deliver(s, "event", at)
        /\ delivery_gate' = [delivery_gate EXCEPT ![s] = "free"]
        /\ IF Closed(s) THEN DrainEnds(s)
           ELSE drain' = [drain EXCEPT ![s].page = @ \ {at.position}, ![s].pc = "deliver"]
        /\ state' = IF Closed(s) THEN state ELSE [state EXCEPT ![s].cursor = at]
        /\ UNCHANGED <<storeVars, faults, tableVars, bus, idle, call, cleanups, returned>>

DrainPageDone(s) ==
    LET scanned == drain[s].scan
    IN  /\ drain[s].pc = "deliver"
        /\ drain[s].page = {}
        /\ IF Closed(s) THEN DrainEnds(s) /\ UNCHANGED state
           ELSE /\ state' = [state EXCEPT ![s].cursor = scanned]
                /\ IF drain[s].drained THEN DrainEnds(s)
                   ELSE drain' = [drain EXCEPT ![s] = [NoDrain EXCEPT !.pc = "read",
                                                                     !.cursor = scanned]]
        /\ UNCHANGED <<storeVars, faults, delivery_gate, tableVars, bus, idle, call, cleanups,
                       historyVars>>

DrainFault(s) ==
    /\ drain[s].pc = "read" \/ (drain[s].pc = "deliver" /\ drain[s].page # {})
    /\ faults < MaxFaults
    /\ faults' = faults + 1
    /\ DrainEnds(s)
    /\ UNCHANGED <<storeVars, state, delivery_gate, tableVars, bus, idle, call, cleanups,
                   historyVars>>

(* One critical section decides between another round and the end. *)
DrainFinish(s) ==
    LET again == state[s].phase = "Live" /\ state[s].redrain_requested
    IN  /\ drain[s].pc = "finish"
        /\ IF again
           THEN /\ state' = [state EXCEPT ![s].redrain_requested = FALSE]
                /\ drain' = [drain EXCEPT ![s] = [NoDrain EXCEPT !.pc = "read",
                                                                 !.cursor = state[s].cursor]]
           ELSE /\ state' = [state EXCEPT ![s].draining = FALSE, ![s].drain_task = FALSE]
                /\ drain' = [drain EXCEPT ![s] = NoDrain]
        /\ UNCHANGED <<storeVars, faults, delivery_gate, tableVars, bus, idle, call, cleanups,
                       historyVars>>

(* handle_progress_gap: one terminal error, then the task cleans up its    *)
(* own subscription, which it must not wait for.                           *)

CleanupByDrain(s) == cleanups' = cleanups \cup {Cleanup(<<"drain", s>>, "DrainTask", s)}

DrainGap(s) ==
    /\ drain[s].pc = "gap"
    /\ delivery_gate[s] = "free"
    /\ IF MayRequest(s)
       THEN /\ state' = [state EXCEPT ![s].terminal_error_sent = TRUE]
            /\ delivery_gate' = [delivery_gate EXCEPT ![s] = "drain"]
            /\ DrainGoto(s, "gapcall")
            /\ UNCHANGED cleanups
       ELSE /\ DrainGoto(s, "gapclean")
            /\ CleanupByDrain(s)
            /\ UNCHANGED <<state, delivery_gate>>
    /\ UNCHANGED <<storeVars, faults, tableVars, bus, idle, call, historyVars>>

DrainGapCall(s) ==
    /\ drain[s].pc = "gapcall"
    /\ Deliver(s, "error", drain[s].cursor)
    /\ delivery_gate' = [delivery_gate EXCEPT ![s] = "free"]
    /\ DrainGoto(s, "gapclean")
    /\ CleanupByDrain(s)
    /\ UNCHANGED <<storeVars, faults, state, tableVars, bus, idle, call, returned>>

DrainGapReturn(s) ==
    /\ drain[s].pc = "gapclean"
    /\ ~ Cleaning(<<"drain", s>>)
    /\ state' = [state EXCEPT ![s].draining = FALSE, ![s].drain_task = FALSE]
    /\ drain' = [drain EXCEPT ![s] = NoDrain]
    /\ UNCHANGED <<storeVars, faults, delivery_gate, tableVars, bus, idle, call, cleanups,
                   historyVars>>

-----------------------------------------------------------------------------
Store == StoreCommit \/ StoreClear \/ Publish \/ LoseWake

WakeTask(s) == WakeReceive(s) \/ WakeRequest(s) \/ WakeStart(s)

IdleTask(s) == IdleRequest(s) \/ IdleStart(s)

SubscribeTask(s) ==
    \/ Install(s) \/ Insert(s) \/ ReadBounds(s) \/ ReadAnchor(s) \/ GoLive(s)
    \/ ReplayRead(s) \/ ReplayEntry(s) \/ ReplayCall(s) \/ ReplayPageDone(s)
    \/ EoseAcquire(s) \/ EoseCall(s) \/ SubscribeStart(s) \/ SubscribeFailed(s)

DrainTask(s) ==
    \/ DrainRead(s) \/ DrainEntry(s) \/ DrainCall(s) \/ DrainPageDone(s) \/ DrainFinish(s)
    \/ DrainGap(s) \/ DrainGapCall(s) \/ DrainGapReturn(s)

CleanupBy(by) ==
    \E c \in cleanups :
        c.by = by /\ (CleanupMark(c) \/ CleanupUnmap(c) \/ CleanupWait(c) \/ CleanupReturn(c))

Closers == {<<"log">>} \cup ({"close", "subscribe", "drain"} \X Subs)

Next ==
    \/ Store
    \/ \E s \in Subs : \/ WakeTask(s) \/ IdleTask(s)
                       \/ Subscribe(s) \/ SubscribeTask(s) \/ SubscribeFault(s)
                       \/ DrainTask(s) \/ DrainFault(s)
                       \/ CloseHandle(s)
    \/ \E by \in Closers : CleanupBy(by)
    \/ LogClose \/ LogCloseSnapshot \/ LogCloseSweep

Spec == Init /\ [][Next]_vars

(* Every spawned task, the timer and every call once begun keep running.   *)
(* Whether anyone subscribes, commits or closes is left open.              *)
Fairness ==
    /\ WF_vars(Publish)
    /\ \A s \in Subs :
          /\ WF_vars(WakeTask(s)) /\ WF_vars(IdleRequest(s)) /\ WF_vars(IdleStart(s))
          /\ WF_vars(SubscribeTask(s))
          /\ WF_vars(DrainTask(s))
    /\ \A by \in Closers : WF_vars(CleanupBy(by))
    /\ WF_vars(LogCloseSnapshot) /\ WF_vars(LogCloseSweep)

FairSpec == Spec /\ Fairness

-----------------------------------------------------------------------------
(* Every variable has its type, and a drain task runs only while it holds  *)
(* the draining claim, which is what keeps two drains of one subscription  *)
(* apart.                                                                  *)
TypeOK ==
    /\ epoch \in 0 .. MaxEpoch
    /\ head \in 0 .. MaxPosition
    /\ visible \subseteq 1 .. head
    /\ steady \subseteq visible
    /\ faults \in 0 .. MaxFaults
    /\ unpublished \in Nat
    /\ state \in [Subs -> [phase : SubscriptionPhase, cursor : Tokens \cup {Nil},
                           draining : BOOLEAN, redrain_requested : BOOLEAN,
                           terminal_error_sent : BOOLEAN, wake_handle : BOOLEAN,
                           drain_task : BOOLEAN]]
    /\ delivery_gate \in [Subs -> {"free", "subscribe", "drain"}]
    /\ subscriptions \in [Ids -> Subs \cup {Nil}]
    /\ installation_gate \in Subs \cup {Nil}
    /\ bus \in [Subs -> [registered : BOOLEAN, queued : BOOLEAN,
                         pc : {"recv", "request", "start"}]]
    /\ idle \in [Subs -> {"wait", "start"}]
    /\ \A s \in Subs : delivered[s] \in Seq(Message)
    /\ returned \subseteq Subs
    /\ \A s \in Subs : drain[s].pc # "none" => state[s].draining

Of(s, kind) == {i \in DOMAIN delivered[s] : delivered[s][i].kind = kind}

EventPositions(s) == {delivered[s][i].at.position : i \in Of(s, "event")}

(* The position a subscription starts after. *)
StartOf(s) ==
    IF call[s].cursor # Nil THEN call[s].cursor
    ELSE IF call[s].frozen # Nil THEN call[s].frozen ELSE Token(epoch, head)

(* The listener sees entries of one epoch in strictly increasing position  *)
(* order, beginning after the requested cursor or, without one, after the  *)
(* frozen head: replay, live drains and restarted drains together never    *)
(* repeat or reorder an event (subscribe, replay_to_frozen, drain_once).   *)
DeliveredInOrder ==
    \A s \in Subs : \A i \in Of(s, "event") :
        LET at == delivered[s][i].at
        IN  /\ at.epoch = StartOf(s).epoch
            /\ StartOf(s).position < at.position
            /\ \A j \in Of(s, "event") : j < i => delivered[s][j].at.position < at.position

(* Nothing is skipped: an entry that has matched the filter ever since it  *)
(* was appended, and that lies between the start and the stored cursor of  *)
(* a subscription, has been delivered, whatever was displaced around it    *)
(* and however the pages fell.                                             *)
NothingSkipped ==
    \A s \in Subs :
        LET cursor == state[s].cursor
        IN  cursor # Nil /\ cursor.epoch = epoch =>
              \A p \in steady :
                 StartOf(s).position < p /\ p <= cursor.position => p \in EventPositions(s)

(* A subscription with a cursor gets one end-of-stored-events message,     *)
(* before it counts as live; events up to the frozen head precede it and   *)
(* later ones follow it, even when a wake races with the end of replay.    *)
(* A subscription without a cursor gets none.                              *)
EoseSeparates ==
    \A s \in Subs :
        /\ Cardinality(Of(s, "eose")) <= 1
        /\ call[s].cursor = Nil => Of(s, "eose") = {}
        /\ call[s].cursor # Nil /\ state[s].phase = "Live" => Of(s, "eose") # {}
        /\ call[s].cursor # Nil /\ call[s].frozen # Nil =>
              \A i \in Of(s, "event") :
                 delivered[s][i].at.position <= call[s].frozen.position
                   <=> \A j \in Of(s, "eose") : i < j

(* A progress gap is reported at most once and is the last thing the       *)
(* listener sees (terminal_error_sent).                                    *)
ErrorIsFinal ==
    \A s \in Subs : \A i \in Of(s, "error") : i = Len(delivered[s])

(* Once a close function, a replacement, a failed subscribe() or the       *)
(* close() of the log has returned from cleaning a subscription up, its    *)
(* listener is never called again ("close waits for an in-flight drain     *)
(* and delivers nothing after").                                           *)
QuietAfterClose ==
    [][\A s \in returned : delivered'[s] = delivered[s]]_vars

NothingUnderWay(s) ==
    /\ unpublished = 0
    /\ ~ bus[s].queued /\ bus[s].pc = "recv" /\ idle[s] = "wait"
    /\ drain[s].pc = "none" /\ call[s].pc = "returned"

(* No wakeup is lost: when reads succeed and wakes are published, a live   *)
(* subscription with no wake, request or drain under way has its cursor at *)
(* the head.  This must hold for wakes that arrive during installation,    *)
(* during replay, while a drain runs and while one is just ending.         *)
(* clear() publishes no wake, so a feed that is empty after one is         *)
(* excepted.                                                               *)
NoLostWakeup ==
    \A s \in Subs :
        faults = 0 /\ state[s].phase = "Live" /\ NothingUnderWay(s) =>
            \/ state[s].cursor = Token(epoch, head)
            \/ state[s].cursor.epoch # epoch /\ head = 0

(* The map names the subscription in force: one that is not closed is its  *)
(* id's entry unless it is being replaced right now, and one that is       *)
(* closed, with no cleanup of it in progress, is neither mapped nor        *)
(* registered for wakes.  A late cleanup of a replaced subscription does   *)
(* not disturb the one that replaced it (the Arc::ptr_eq test).            *)
MapNamesTheLiving ==
    \A s \in Subs :
        LET cleaned == \E c \in cleanups : c.target = s
            mapped  == subscriptions[IdOf[s]] = s
        IN  /\ state[s].phase \in {"Replay", "Live"} => mapped \/ cleaned
            /\ Closed(s) /\ ~ cleaned => ~ mapped /\ ~ bus[s].registered

(* When close() of the log returns no subscription is open, and none can   *)
(* be opened afterwards: an installation that raced with it was waited for *)
(* or is refused.                                                          *)
LogCloseIsTotal ==
    closing.pc = "closed" =>
        \A s \in Subs : state[s].phase \in {"Absent", "Closed"} /\ subscriptions[IdOf[s]] = Nil

(* The listener's stream is exact: what it has been given is the feed in    *)
(* order, from its start on and with nothing left out, with the marker of   *)
(* the stored events in its place and an error only at the end (subscribe,  *)
(* replay_to_frozen, drain_once).                                           *)
StreamExact == DeliveredInOrder /\ NothingSkipped /\ EoseSeparates /\ ErrorIsFinal

(* A subscription in force is served and one that is not is gone: no wake   *)
(* is lost, replacing and cleaning up under one id leave the map at the     *)
(* living, and a closed log has none (request_drain, cleanup, close).       *)
SubscriptionsServed == NoLostWakeup /\ MapNamesTheLiving /\ LogCloseIsTotal

(* A live subscription is eventually brought up to date, through the idle  *)
(* re-drain even after lost wakes and failed reads: every steady entry     *)
(* after its cursor is delivered unless it is closed or the entry goes     *)
(* away first.                                                             *)
EventuallyDelivered ==
    \A s \in Subs : \A p \in Positions :
        (state[s].phase = "Live" /\ state[s].cursor.epoch = epoch
           /\ p \in steady /\ p > state[s].cursor.position)
          ~> (p \in EventPositions(s) \/ p \notin steady \/ Closed(s))

(* Every subscribe() and every close, of a subscription or of the log,     *)
(* returns: no wait for a gate, a drain task or an installation lasts      *)
(* forever.                                                                *)
CallsReturn ==
    /\ \A s \in Subs : call[s].pc # "idle" ~> call[s].pc \in {"returned", "failed"}
    /\ cleanups # {} ~> cleanups = {}
    /\ closing.pc = "gate" ~> closing.pc = "closed"
=============================================================================
