------------------------------- MODULE DesktopNode -------------------------------
(***************************************************************************)
(* The desktop local node (runtime/desktop/mod.rs) with its loopback       *)
(* server (server.rs), its discovery registry and its delivery queue.      *)
(*                                                                         *)
(* DesktopLocalNode::start and stop hold no lock over their awaits: each   *)
(* is a sequence of steps on the server, the registry and the node's own   *)
(* state, and a step that fails ends the call where it is.                 *)
(***************************************************************************)
EXTENDS Naturals, FiniteSets, TLC

CONSTANTS Callers,      \* the threads that start and stop the node
          DeliveryIds,  \* fresh delivery ids (ulids)
          DedupKeys,    \* dedup keys of delivery requests
          MaxFailures,  \* bound on the failures of the server and of the registry
          None

VARIABLES node,         \* DesktopNodeState: [running, mode, advert]
          server,       \* LoopbackDwnServer: [serving, status]
          registry,     \* the registry's advert of this node
          queue,        \* MemoryDesktopDeliveryQueue: [deliveries, dedup]
          call,         \* caller -> [at, mode, status]
          outcome,      \* the last call that returned: "none", "ok" or "error"
          failures

nodeVars == <<node, server, registry, queue, call, outcome, failures>>

Stopped == [running |-> FALSE, endpoints |-> {}]
Idle == [at |-> "idle", mode |-> None, status |-> Stopped]

Modes == {"Embedded", "Loopback", "LoopbackNoSocket", "NotLoopback"}

is_loopback_host(mode) == mode # "NotLoopback"

Started(mode) ==
    [running |-> TRUE, endpoints |-> IF mode = "Loopback" THEN {"http", "ws"} ELSE {"http"}]

build_advert(mode, status) ==
    [mode |-> IF mode = "Embedded" THEN "Embedded" ELSE "LoopbackServer",
     endpoints |-> status.endpoints,
     capabilities |-> IF mode = "Embedded" THEN {"embedded"} ELSE status.endpoints]

NodeInit ==
    /\ node = [running |-> FALSE, mode |-> None, advert |-> None]
    /\ server = [serving |-> FALSE, status |-> Stopped]
    /\ registry = None
    /\ queue = [deliveries |-> {}, dedup |-> {}]
    /\ call = [c \in Callers |-> Idle]
    /\ outcome = "none" /\ failures = 0

Return(c, result) == call' = [call EXCEPT ![c] = Idle] /\ outcome' = result

(* A trait object of the host (or a bind) fails: the call ends here. *)
Fail(c) == failures < MaxFailures /\ failures' = failures + 1 /\ Return(c, "error")

-----------------------------------------------------------------------------
(* DesktopLocalNode::start *)

(* Mutant: an embedded start leaves the server alone. *)
StartCheck_KeepServer(c, mode) ==
    /\ call[c] = Idle
    /\ IF node.running THEN Return(c, "error")
       ELSE call' = [call EXCEPT ![c] =
                [Idle EXCEPT !.at = IF mode = "Embedded" THEN "publish" ELSE "server",
                             !.mode = mode]]
            /\ UNCHANGED outcome
    /\ UNCHANGED <<node, server, registry, queue, failures>>

StartCheck(c, mode) ==
    /\ call[c] = Idle
    /\ IF node.running THEN Return(c, "error")
       ELSE call' = [call EXCEPT ![c] = [Idle EXCEPT !.at = "server", !.mode = mode]]
            /\ UNCHANGED outcome
    /\ UNCHANGED <<node, server, registry, queue, failures>>

(* LoopbackDwnServer::start *)
ServerStart(c) ==
    /\ call[c].at = "server" /\ call[c].mode # "Embedded"
    /\ UNCHANGED <<node, registry, queue>>
    /\ IF ~is_loopback_host(call[c].mode) \/ server.serving
       THEN Return(c, "error") /\ UNCHANGED <<server, failures>>
       ELSE \/ /\ server' = [serving |-> TRUE, status |-> Started(call[c].mode)]
               /\ call' = [call EXCEPT ![c].at = "publish", ![c].status = Started(call[c].mode)]
               /\ UNCHANGED <<outcome, failures>>
            \/ Fail(c) /\ UNCHANGED server

(* LoopbackDwnServer::stop: the running server is taken, told to shut down *)
(* and joined under one lock; its status is reset under another.           *)
ServerStop(c) ==
    /\ call[c].at = "stop" \/ (call[c].at = "server" /\ call[c].mode = "Embedded")
    /\ server' = [server EXCEPT !.serving = FALSE]
    /\ call' = [call EXCEPT ![c].at = IF @ = "stop" THEN "stopped" ELSE "embedded"]
    /\ UNCHANGED <<node, registry, queue, outcome, failures>>

ServerStatus(c) ==
    /\ call[c].at \in {"stopped", "embedded"}
    /\ server' = [server EXCEPT !.status = Stopped]
    /\ call' = [call EXCEPT ![c].at = IF @ = "stopped" THEN "remove" ELSE "publish"]
    /\ UNCHANGED <<node, registry, queue, outcome, failures>>

Publish(c) ==
    /\ call[c].at = "publish"
    /\ \/ /\ registry' = build_advert(call[c].mode, call[c].status)
          /\ call' = [call EXCEPT ![c].at = "enter"]
          /\ UNCHANGED <<outcome, failures>>
       \/ Fail(c) /\ UNCHANGED registry
    /\ UNCHANGED <<node, server, queue>>

Enter(c) ==
    LET advert == build_advert(call[c].mode, call[c].status)
    IN  /\ call[c].at = "enter"
        /\ node' = [running |-> TRUE, mode |-> advert.mode, advert |-> advert]
        /\ Return(c, "ok")
        /\ UNCHANGED <<server, registry, queue, failures>>

(* DesktopLocalNode::stop *)
Stop(c) ==
    /\ call[c] = Idle
    /\ call' = [call EXCEPT ![c].at = "stop"]
    /\ UNCHANGED <<node, server, registry, queue, outcome, failures>>

Remove(c) ==
    /\ call[c].at = "remove"
    /\ \/ /\ registry' = None
          /\ call' = [call EXCEPT ![c].at = "leave"]
          /\ UNCHANGED <<outcome, failures>>
       \/ Fail(c) /\ UNCHANGED registry
    /\ UNCHANGED <<node, server, queue>>

Leave(c) ==
    /\ call[c].at = "leave"
    /\ node' = [running |-> FALSE, mode |-> None, advert |-> None]
    /\ Return(c, "ok")
    /\ UNCHANGED <<server, registry, queue, failures>>

-----------------------------------------------------------------------------
(* The delivery queue, behind ensure_running. *)

enqueue(id, key) ==
    /\ node.running /\ id \notin {d.id : d \in queue.deliveries}
    /\ IF key # None /\ \E e \in queue.dedup : e[1] = key
       THEN UNCHANGED queue
       ELSE queue' = [deliveries |-> queue.deliveries \cup {[id |-> id, key |-> key]},
                      dedup |-> IF key = None THEN queue.dedup ELSE queue.dedup \cup {<<key, id>>}]
    /\ UNCHANGED <<node, server, registry, call, outcome, failures>>

ack(id) ==
    /\ node.running
    /\ queue' = [deliveries |-> {d \in queue.deliveries : d.id # id},
                 dedup |-> queue.dedup \ {<<d.key, id>> : d \in {x \in queue.deliveries : x.id = id}}]
    /\ UNCHANGED <<node, server, registry, call, outcome, failures>>

pending == IF node.running THEN queue.deliveries ELSE {}

DesktopNext ==
    \/ \E c \in Callers :
        \/ \E mode \in Modes : StartCheck(c, mode)
        \/ ServerStart(c) \/ ServerStop(c) \/ ServerStatus(c) \/ Publish(c) \/ Enter(c)
        \/ Stop(c) \/ Remove(c) \/ Leave(c)
    \/ \E id \in DeliveryIds : ack(id) \/ \E key \in DedupKeys \cup {None} : enqueue(id, key)

-----------------------------------------------------------------------------
(* A start or a stop that succeeds leaves the node, its server and its     *)
(* advert telling one story, whatever earlier calls failed half way: a     *)
(* running node is published under its own advert, the server serves       *)
(* exactly when the mode is the loopback one and then on the endpoints     *)
(* published, and a stopped node has neither server nor advert             *)
(* (DesktopLocalNode::start and stop, desktop/mod.rs).                     *)
OkMeansCoherent ==
    outcome = "ok" /\ (\A c \in Callers : call[c] = Idle) =>
        /\ registry = node.advert
        /\ node.running <=> node.advert # None
        /\ server.serving <=> node.mode = "LoopbackServer"
        /\ server.status.running = server.serving
        /\ node.running => node.advert.endpoints = server.status.endpoints

(* A dedup key stands for exactly the delivery it was queued with: a retry *)
(* under the key is suppressed while that delivery is pending, and only    *)
(* then (MemoryDesktopDeliveryQueue, desktop/mod.rs).                      *)
DedupFollowsDelivery ==
    queue.dedup = {<<d.key, d.id>> : d \in {x \in queue.deliveries : x.key # None}}
    /\ \A e, f \in queue.dedup : e[1] = f[1] => e = f

================================================================================
