-------------------------- MODULE MCDurableEventLog --------------------------
(* Instances of DurableEventLog.  Everything at once is too much for TLC,  *)
(* so a behaviour explores one of several scenarios, which bounds what the *)
(* outside does: what is subscribed, committed, displaced, cleared, closed *)
(* and lost.  The log's own tasks are never restricted.  Subscriptions     *)
(* differ in nothing but their identity, so s1 comes first.                *)
EXTENDS DurableEventLog

CONSTANTS s1, s2, id1, Scenarios

VARIABLE scenario

MCIdOf == [s \in Subs |-> id1]

Scenario(subs, stimuli, positions, timer, faultsToo) ==
    [subs |-> subs, stimuli |-> stimuli, head |-> positions, timer |-> timer,
     cursor |-> IF subs = 1 THEN 1 ELSE 0,
     faults |-> IF faultsToo THEN 1 ELSE 0, epoch |-> IF "clear" \in stimuli THEN 1 ELSE 0]

(* Pages over a feed that is displaced; a cleared feed; two subscriptions  *)
(* that compete for one id.                                                *)
MCSafety ==
    {Scenario(1, {"displace"}, 3, FALSE, FALSE),
     Scenario(1, {"clear", "close"}, 1, TRUE, TRUE),
     Scenario(2, {"close"}, 1, FALSE, FALSE),
     Scenario(2, {"close log"}, 1, FALSE, FALSE)}

(* One subscription with a failed read or a lost wake; one with a clear.   *)
MCLiveness ==
    {Scenario(1, {"close"}, 1, TRUE, TRUE),
     Scenario(1, {"clear", "close log"}, 1, TRUE, FALSE)}

Allowed(stimulus) == stimulus \in scenario.stimuli

Grows == visible \subseteq visible' /\ visible' \ visible \subseteq {head'} \ {head}

Within ==
    /\ head' <= scenario.head /\ epoch' <= scenario.epoch /\ faults' <= scenario.faults
    /\ Allowed("displace") \/ epoch' # epoch \/ Grows
    /\ Allowed("close") \/ \A c \in cleanups' : c.by[1] # "close"
    /\ Allowed("close log") \/ closing'.pc = "open"
    /\ \A s \in Subs \ {s1} : call'[s].pc = "idle" \/ (scenario.subs = 2 /\ call'[s1].pc # "idle")
    /\ \A s \in Subs : LET cursor == call'[s].cursor
                       IN  cursor # Nil => /\ cursor.position <= scenario.cursor
                                           /\ cursor.epoch <= scenario.epoch
    /\ scenario.timer \/ \A s \in Subs : ~ IdleRequest(s)

MCInit == Init /\ scenario \in Scenarios

MCNext == UNCHANGED scenario /\ Next /\ Within

MCSpec == MCInit /\ [][MCNext]_<<vars, scenario>>

MCFairSpec == MCSpec /\ Fairness
=============================================================================
