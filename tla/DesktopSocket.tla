------------------------------ MODULE DesktopSocket ------------------------------
(***************************************************************************)
(* JSON-RPC over one WebSocket of the loopback server                      *)
(* (runtime/desktop/ws.rs): handle_websocket's reader and send task, the   *)
(* subscriptions of the connection, and the FlowController that keeps at   *)
(* most max_in_flight messages of a subscription unacknowledged.           *)
(*                                                                         *)
(* Three parties run at once: the reader, which serves one request at a    *)
(* time; the event log, which calls each subscription's listener (push)    *)
(* one message at a time; and the send task, which moves texts from the    *)
(* unbounded channel to the peer.  The FlowController's mutex is released  *)
(* around every send, so push and ack are several steps each.              *)
(***************************************************************************)
EXTENDS Naturals, Sequences, SequencesExt, FiniteSets, TLC

CONSTANTS SubIds,       \* subscription ids the client uses
          MaxInFlight,  \* FlowControllerState.max_in_flight
          MaxEvents,    \* bound on the messages of one subscription
          None

VARIABLES active,       \* WsConnection.subscriptions
          listening,    \* the ids whose listener the event log calls
          flow,         \* id -> [unacked, buffer]
          pusher,       \* id -> the push in progress
          reader,       \* what the reader is doing
          channel,      \* texts the send task has not taken
          received,     \* id -> the messages the peer has received
          pushed,       \* id -> [first, last]: the messages pushed to this flow
          up            \* [peer: the peer is there, task: the send task runs]

sockVars == <<active, listening, flow, pusher, reader, channel, received, pushed, up>>

Idle == [at |-> "idle", id |-> None, msg |-> None]
At(at, id, msg) == [at |-> at, id |-> id, msg |-> msg]

SockInit ==
    /\ active = {} /\ listening = {}
    /\ flow = [i \in SubIds |-> [unacked |-> <<>>, buffer |-> <<>>]]
    /\ pusher = [i \in SubIds |-> Idle] /\ reader = Idle
    /\ channel = <<>> /\ received = [i \in SubIds |-> <<>>] /\ pushed = [i \in SubIds |-> [first |-> 1, last |-> 0]]
    /\ up = [peer |-> TRUE, task |-> TRUE]

(* FlowController::send_message up to the channel; a text sent when the    *)
(* send task is gone is dropped.                                           *)
Send(id, msg) == channel' = IF up.task THEN Append(channel, <<id, msg>>) ELSE channel

-----------------------------------------------------------------------------
(* handle_process_message with rpc.subscribe: the id must be free; the flow *)
(* exists, and may be pushed to, before process_subscribe returns and the  *)
(* subscription is entered.                                                *)

Subscribe(id) ==
    /\ reader = Idle /\ up.peer
    /\ IF id \in active
       THEN UNCHANGED <<flow, reader, pushed>>
       ELSE /\ flow' = [flow EXCEPT ![id] = [unacked |-> <<>>, buffer |-> <<>>]]
            /\ pushed' = [pushed EXCEPT ![id].first = pushed[id].last + 1]
            /\ reader' = At("subscribing", id, None)
    /\ UNCHANGED <<active, listening, pusher, channel, received, up>>

(* process_subscribe: the event log takes the listener, or refuses. *)
Listen ==
    /\ reader.at = "subscribing" /\ reader.id \notin listening
    /\ \/ listening' = listening \cup {reader.id} /\ reader' = reader
       \/ listening' = listening /\ reader' = Idle
    /\ UNCHANGED <<active, flow, pusher, channel, received, pushed, up>>

Subscribed ==
    /\ reader.at = "subscribing" /\ reader.id \in listening
    /\ active' = active \cup {reader.id} /\ reader' = Idle
    /\ UNCHANGED <<listening, flow, pusher, channel, received, pushed, up>>

(* handle_close: the subscription is removed, then its close is awaited.   *)
(* The log's close returns once no listener call is running.               *)
handle_close(id) ==
    /\ reader = Idle /\ up.peer /\ id \in active
    /\ active' = active \ {id} /\ reader' = At("closing", id, None)
    /\ UNCHANGED <<listening, flow, pusher, channel, received, pushed, up>>

Closed ==
    /\ reader.at = "closing" /\ pusher[reader.id] = Idle
    /\ listening' = listening \ {reader.id} /\ reader' = Idle
    /\ UNCHANGED <<active, flow, pusher, channel, received, pushed, up>>

-----------------------------------------------------------------------------
(* FlowController::push *)

push(id) ==
    LET msg == pushed[id].last + 1
    IN  /\ id \in listening /\ pusher[id] = Idle /\ msg <= MaxEvents
        /\ pushed' = [pushed EXCEPT ![id].last = msg]
        /\ IF Len(flow[id].unacked) < MaxInFlight
           THEN /\ pusher' = [pusher EXCEPT ![id] = At("send", id, msg)]
                /\ UNCHANGED flow
           ELSE /\ flow' = [flow EXCEPT ![id].buffer = Append(@, msg)]
                /\ UNCHANGED pusher
        /\ UNCHANGED <<active, listening, reader, channel, received, up>>

PushSend(id) ==
    /\ pusher[id].at = "send"
    /\ Send(id, pusher[id].msg)
    /\ pusher' = [pusher EXCEPT ![id].at = "sent"]
    /\ UNCHANGED <<active, listening, flow, reader, received, pushed, up>>

PushSent(id) ==
    /\ pusher[id].at = "sent"
    /\ flow' = [flow EXCEPT ![id].unacked = Append(@, pusher[id].msg)]
    /\ pusher' = [pusher EXCEPT ![id] = Idle]
    /\ UNCHANGED <<active, listening, reader, channel, received, pushed, up>>

-----------------------------------------------------------------------------
(* FlowController::ack: drains the window up to the acknowledged cursor,   *)
(* then sends buffered messages while there is room.                       *)

(* The lock is held from the drain, or from the loop's test, to the pop. *)
Refill(id, unacked) ==
    IF Len(unacked) < MaxInFlight /\ flow[id].buffer # <<>>
    THEN /\ flow' = [flow EXCEPT ![id] = [unacked |-> unacked, buffer |-> Tail(@.buffer)]]
         /\ reader' = At("send", id, Head(flow[id].buffer))
    ELSE /\ flow' = [flow EXCEPT ![id].unacked = unacked]
         /\ reader' = Idle

ack(id, cursor) ==
    LET unacked == flow[id].unacked
    IN  /\ reader = Idle /\ up.peer /\ cursor \in ToSet(received[id])
        /\ IF id \in active /\ cursor \in ToSet(unacked)
           THEN LET index == CHOOSE i \in DOMAIN unacked : unacked[i] = cursor
                IN  Refill(id, SubSeq(unacked, index + 1, Len(unacked)))
           ELSE UNCHANGED <<flow, reader>>
        /\ UNCHANGED <<active, listening, pusher, channel, received, pushed, up>>

AckSend ==
    /\ reader.at = "send"
    /\ Send(reader.id, reader.msg)
    /\ reader' = [reader EXCEPT !.at = "sent"]
    /\ UNCHANGED <<active, listening, flow, pusher, received, pushed, up>>

AckSent ==
    /\ reader.at = "sent"
    /\ flow' = [flow EXCEPT ![reader.id].unacked = Append(@, reader.msg)]
    /\ reader' = At("next", reader.id, None)
    /\ UNCHANGED <<active, listening, pusher, channel, received, pushed, up>>

(* Mutant: an acknowledgement releases one buffered message. *)
AckNext_One ==
    /\ reader.at = "next" /\ reader' = Idle
    /\ UNCHANGED <<active, listening, flow, pusher, channel, received, pushed, up>>

(* The loop's test, under the lock taken again. *)
AckNext ==
    /\ reader.at = "next"
    /\ Refill(reader.id, flow[reader.id].unacked)
    /\ UNCHANGED <<active, listening, pusher, channel, received, pushed, up>>

-----------------------------------------------------------------------------
SendTask ==
    /\ up.task /\ channel # <<>>
    /\ channel' = IF up.peer THEN Tail(channel) ELSE <<>>
    /\ up' = [up EXCEPT !.task = up.peer]
    /\ received' = IF up.peer THEN [received EXCEPT ![Head(channel)[1]] = Append(@, Head(channel)[2])]
                   ELSE received
    /\ UNCHANGED <<active, listening, flow, pusher, reader, pushed>>

(* The peer goes: the reader's loop ends.  Nothing closes its              *)
(* subscriptions.                                                          *)
Disconnect ==
    /\ up.peer /\ reader = Idle
    /\ up' = [up EXCEPT !.peer = FALSE]
    /\ UNCHANGED <<active, listening, flow, pusher, reader, channel, received, pushed>>

SockNext ==
    \/ \E id \in SubIds :
        \/ Subscribe(id) \/ handle_close(id) \/ push(id) \/ PushSend(id) \/ PushSent(id)
        \/ \E cursor \in 1..MaxEvents : ack(id, cursor)
    \/ Listen \/ Subscribed \/ Closed \/ AckSend \/ AckSent \/ AckNext \/ SendTask \/ Disconnect

-----------------------------------------------------------------------------
(* A message waits in the buffer only while the window is full or its      *)
(* release is under way, so the next acknowledgement lets it go: push and  *)
(* ack, which both drop the flow's lock to send, never leave room in the   *)
(* window and a message behind it (FlowController, ws.rs).                 *)
NoStall ==
    \A id \in SubIds :
        flow[id].buffer # <<>> /\ ~(reader.id = id /\ reader.at \in {"send", "sent", "next"})
            => Len(flow[id].unacked) >= MaxInFlight

(* While the peer is there, every message pushed to a subscription is in   *)
(* exactly one place: received, in the channel, in the buffer, or in the   *)
(* hands of a push or of an acknowledgement; and the window is passed by   *)
(* at most the one message a concurrent push had already let through.      *)
EveryEventOnce ==
    \A id \in SubIds :
        LET sent == ToSet(received[id]) \cup {t[2] : t \in {x \in ToSet(channel) : x[1] = id}}
            handed == {p.msg : p \in {q \in {pusher[id], reader} : q.id = id /\ q.at = "send"}}
        IN  /\ up.peer /\ id \in listening =>
                   pushed[id].first..pushed[id].last \subseteq sent \cup handed \cup ToSet(flow[id].buffer)
            /\ Cardinality(ToSet(received[id])) = Len(received[id])
            /\ sent \cap ToSet(flow[id].buffer) = {} /\ sent \cap handed = {}
            /\ Len(flow[id].unacked) <= MaxInFlight + 1

(* No event is lost, doubled or left behind: while the peer is there every  *)
(* message pushed to a subscription is in exactly one place, and it waits   *)
(* in the buffer only while the window is full or its release is under way, *)
(* though push and ack both drop the flow's lock to send (FlowController,   *)
(* ws.rs).                                                                  *)
NoEventLostOrStuck == EveryEventOnce /\ NoStall

================================================================================
