-------------------------- MODULE GuardedSubscription --------------------------
(***************************************************************************)
(* A subscribe request with guarded delivery: the projection queue of      *)
(* handlers/guarded_subscription.rs, its worker, and the handler of        *)
(* RecordsSubscribe (handlers/records/subscribe.rs), which subscribes to   *)
(* the event log, installs the close callback, flushes the queue and reads *)
(* a snapshot.  MessagesSubscribe takes the same steps up to the flush.    *)
(*                                                                         *)
(* The event log hands every event committed while the subscription is     *)
(* installed to the guarded listener, in feed order; how it does so is     *)
(* the subject of DurableEventLog.                                         *)
(***************************************************************************)
EXTENDS Naturals, Sequences, Functions

CONSTANTS
    MaxEvents,  \* bound on committed events
    Decisions   \* what projection may decide: a subset of forward, suppress, fail

ASSUME GuardAssumption ==
    MaxEvents \in Nat \ {0} /\ Decisions \subseteq {"forward", "suppress", "fail"}

VARIABLES
    feed,       \* position of the newest committed event
    subscription, \* the event-log subscription: none, open, closed
    sent,       \* position up to which the event log has called the listener
    queue,      \* GuardCommands: positions and Flush
    worker,     \* the worker: what it awaits and for which event
    terminal,   \* the worker's flag
    guard,      \* GuardState: close installed, close_requested
    handler,    \* where the subscribe handler is
    snapshot,   \* position the snapshot was read at
    delivered,  \* history: what the caller's listener received
    projected,  \* history: events the processor has decided on
    dropped,    \* history: events dropped after a terminal failure
    due         \* history: events enqueued and unfinished when flush was called

guardVars == <<feed, subscription, sent, queue, worker, terminal, guard, handler, snapshot,
               delivered, projected, dropped, due>>

Flush == 0              \* beside the positions of events, which start at 1
Error == MaxEvents + 1
Waiting == [at |-> "recv", event |-> 0]

GuardInit ==
    /\ feed \in 0..1 /\ subscription = "none" /\ sent = 0
    /\ queue = <<>> /\ worker = Waiting /\ terminal = FALSE
    /\ guard = [close |-> FALSE, close_requested |-> FALSE]
    /\ handler = "subscribe" /\ snapshot = 0
    /\ delivered = <<>> /\ projected = {} /\ dropped = {} /\ due = {}

-----------------------------------------------------------------------------
(* A message is committed. *)
CommitEvent ==
    /\ feed < MaxEvents
    /\ feed' = feed + 1
    /\ UNCHANGED <<subscription, sent, queue, worker, terminal, guard, handler, snapshot, delivered, projected, dropped, due>>

(* The event log calls the guarded listener with the next event. *)
Deliver ==
    /\ subscription = "open" /\ sent < feed
    /\ sent' = sent + 1
    /\ queue' = Append(queue, sent + 1)
    /\ UNCHANGED <<feed, subscription, worker, terminal, guard, handler, snapshot, delivered, projected, dropped, due>>

-----------------------------------------------------------------------------
(* EventLog::subscribe without a cursor: live from the head of the feed. *)
Subscribe ==
    /\ handler = "subscribe"
    /\ subscription' = "open" /\ sent' = feed
    /\ handler' = "install"
    /\ UNCHANGED <<feed, queue, worker, terminal, guard, snapshot, delivered, projected, dropped, due>>

(* install_close: store the callback, and see whether closing was asked for.*)
InstallClose ==
    /\ handler = "install"
    /\ guard' = [guard EXCEPT !.close = TRUE]
    /\ handler' = IF guard.close_requested THEN "invoke" ELSE "flush"
    /\ UNCHANGED <<feed, subscription, sent, queue, worker, terminal, snapshot, delivered, projected, dropped, due>>

InvokeClose ==
    /\ handler = "invoke"
    /\ subscription' = "closed"
    /\ handler' = "flush"
    /\ UNCHANGED <<feed, sent, queue, worker, terminal, guard, snapshot, delivered, projected, dropped, due>>

AfterFlush == "flushing"

(* Mutant: the marker is lost. *)
EnqueueFlush_Lost == queue

EnqueueFlush == Append(queue, Flush)

(* flush: enqueue a marker and wait for it.  The sender can always be       *)
(* upgraded: DurableEventLog's close callback owns the listener, which owns *)
(* the sender.                                                              *)
StartFlush ==
    /\ handler = "flush"
    /\ due' = (Range(queue) \cup {worker.event}) \ {0}
    /\ queue' = EnqueueFlush
    /\ handler' = AfterFlush
    /\ UNCHANGED <<feed, subscription, sent, worker, terminal, guard, snapshot, delivered, projected, dropped>>

(* The snapshot is read and the reply sent, *)
ReadSnapshot ==
    /\ handler = "snapshot"
    /\ snapshot' = feed
    /\ handler' = "done"
    /\ UNCHANGED <<feed, subscription, sent, queue, worker, terminal, guard, delivered, projected, dropped, due>>

ClosedOnError == "closed"

(* or a query fails: the subscription is closed and an error returned. *)
SnapshotFails ==
    /\ handler = "snapshot"
    /\ subscription' = ClosedOnError
    /\ handler' = "failed"
    /\ UNCHANGED <<feed, sent, queue, worker, terminal, guard, snapshot, delivered, projected, dropped, due>>

-----------------------------------------------------------------------------
(* Mutant: the answered flush ends the stream as a failure does. *)
Fenced_AfterFlush == terminal \/ handler \in {"snapshot", "done"}

Fenced == terminal

(* recv: a flush is answered, a message after a terminal failure dropped,   *)
(* any other one given to the processor.                                    *)
Receive ==
    /\ worker.at = "recv" /\ queue # <<>>
    /\ queue' = Tail(queue)
    /\ IF Head(queue) = Flush
       THEN /\ handler' = IF handler = "flushing" THEN "snapshot" ELSE handler
            /\ UNCHANGED <<worker, dropped>>
       ELSE /\ UNCHANGED handler
            /\ IF Fenced
               THEN dropped' = dropped \cup {Head(queue)} /\ UNCHANGED worker
               ELSE worker' = [at |-> "project", event |-> Head(queue)] /\ UNCHANGED dropped
    /\ UNCHANGED <<feed, subscription, sent, terminal, guard, snapshot, delivered, projected, due>>

(* The processor's decision. *)
Project(d) ==
    /\ worker.at = "project"
    /\ IF d = "fail"
       THEN /\ terminal' = TRUE
            /\ worker' = [worker EXCEPT !.at = "lock"]
            /\ UNCHANGED <<delivered, projected>>
       ELSE /\ delivered' = IF d = "forward" THEN Append(delivered, worker.event) ELSE delivered
            /\ projected' = projected \cup {worker.event}
            /\ worker' = Waiting
            /\ UNCHANGED terminal
    /\ UNCHANGED <<feed, subscription, sent, queue, guard, handler, snapshot, dropped, due>>

CloseRequested == [guard EXCEPT !.close_requested = TRUE]

(* GuardedSubscription::close, under the lock and after it. *)
RequestClose ==
    /\ worker.at = "lock"
    /\ guard' = CloseRequested
    /\ worker' = [worker EXCEPT !.at = IF guard.close THEN "close" ELSE "report"]
    /\ UNCHANGED <<feed, subscription, sent, queue, terminal, handler, snapshot, delivered, projected, dropped, due>>

CallClose ==
    /\ worker.at = "close"
    /\ subscription' = "closed"
    /\ worker' = [worker EXCEPT !.at = "report"]
    /\ UNCHANGED <<feed, sent, queue, terminal, guard, handler, snapshot, delivered, projected, dropped, due>>

Report ==
    /\ worker.at = "report"
    /\ delivered' = Append(delivered, Error)
    /\ projected' = projected \cup {worker.event}
    /\ worker' = Waiting
    /\ UNCHANGED <<feed, subscription, sent, queue, terminal, guard, handler, snapshot, dropped, due>>

(* The caller closes the subscription it was given. *)
CallerCloses ==
    /\ handler = "done" /\ subscription = "open"
    /\ subscription' = "closed"
    /\ UNCHANGED <<feed, sent, queue, worker, terminal, guard, handler, snapshot, delivered, projected, dropped, due>>

Handle == Subscribe \/ InstallClose \/ InvokeClose \/ StartFlush \/ ReadSnapshot \/ SnapshotFails
Work == Receive \/ (\E d \in Decisions : Project(d)) \/ RequestClose \/ CallClose \/ Report

GuardNext == CommitEvent \/ Deliver \/ Handle \/ Work \/ CallerCloses

GuardSpec == GuardInit /\ [][GuardNext]_guardVars

-----------------------------------------------------------------------------
(* The queue holds positions and at most one flush, the worker waits only   *)
(* with no event in hand, and the subscription is as old as the handler.    *)
GuardTypeOK ==
    /\ feed \in 0..MaxEvents /\ sent \in 0..feed /\ snapshot \in 0..feed
    /\ subscription \in {"none", "open", "closed"} /\ (subscription = "none") = (handler = "subscribe")
    /\ queue \in Seq(0..feed)
    /\ handler = "flushing" => Flush \in Range(queue)
    /\ worker.at \in {"recv", "project", "lock", "close", "report"}
    /\ worker.event \in 0..feed /\ (worker.at = "recv") = (worker.event = 0)
    /\ terminal \in BOOLEAN /\ guard \in [close : BOOLEAN, close_requested : BOOLEAN]
    /\ delivered \in Seq((1..feed) \cup {Error}) /\ projected \cup dropped \subseteq 1..feed

(* The worker fences the stream after the first terminal failure: an error  *)
(* is the last thing the listener receives, and events come in feed order.  *)
ErrorIsLast ==
    \A i, j \in 1..Len(delivered) :
        i < j => delivered[i] < delivered[j]

(* A subscription cannot be live after its terminal error: once the listener*)
(* has the error and the handler is past install_close, the event log has   *)
(* been told to close, whichever of the two came first.                     *)
ErrorCloses ==
    (Error \in Range(delivered) /\ handler \in {"flush", "flushing", "snapshot", "done"})
        => subscription = "closed"

(* A subscribe that answers an error leaves no subscription behind. *)
NoOrphan == handler = "failed" => subscription = "closed"

(* flush waits until all messages enqueued before it have been projected:   *)
(* none of them is unfinished when the snapshot is read.                    *)
FlushWaits == handler \in {"snapshot", "done", "failed"} => due \subseteq projected \cup dropped

(* Snapshot and stream leave no gap: while the stream runs, an event that   *)
(* was committed after the snapshot is projected, in the worker, queued or  *)
(* still to be handed over.                                                 *)
NoGap ==
    (handler = "done" /\ subscription = "open") =>
        \A e \in (snapshot + 1)..feed :
            e \in projected \cup {worker.event} \cup Range(queue) \/ e > sent

(* What the guard promises the subscriber: snapshot and stream together     *)
(* show every event, in order and up to the first error, which closes the   *)
(* subscription, and a subscribe that fails leaves none behind              *)
(* (guarded_subscription_listener, flush, install_close, handle_subscribe). *)
GuardContract == ErrorIsLast /\ ErrorCloses /\ NoOrphan /\ FlushWaits /\ NoGap
=============================================================================
