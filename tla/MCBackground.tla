------------------------------ MODULE MCBackground ------------------------------
(***************************************************************************)
(* What goes on behind the requests, with the fairness each part assumes:  *)
(* the sync engine, the worker of a guarded subscription, and the repair   *)
(* of control records.  A behaviour runs one part; the others stay in an   *)
(* initial state.                                                          *)
(***************************************************************************)
EXTENDS EnboxSync, GuardedSubscription

CONSTANT None

VARIABLES part, family, starts,
          configs, latest, messages, control_data, task_map, disk, node, proc, count

repairVars == <<configs, latest, messages, control_data, task_map, disk, node, proc, count>>

-----------------------------------------------------------------------------
(* Sync: three messages of one protocol, a record A, a child B of it, and  *)
(* a prune of A.  Key-hash order puts the child before its parent.  A      *)
(* family fixes what the endpoints hold at the start, who may act and how  *)
(* often.                                                                  *)

MCMsgs == {"a0", "a1", "b0"}
MCRecord == [a0 |-> "A", a1 |-> "A", b0 |-> "B"]
MCKind == [a0 |-> "initial", a1 |-> "prune", b0 |-> "initial"]
MCRank == [a0 |-> 0, a1 |-> 1, b0 |-> 0]
MCParent == [a0 |-> "none", a1 |-> "none", b0 |-> "A"]
MCAncestors == [a0 |-> {}, a1 |-> {}, b0 |-> {"A"}]
MCBucket == [a0 |-> 0, a1 |-> 1, b0 |-> 0]
MCScope == [a0 |-> "s", a1 |-> "s", b0 |-> "s"]
MCLeafOrder == <<"b0", "a0", "a1">>
MCScopes == <<"s">>

(* hosts: FFI runs that may start; lives: calls of the long-lived engine;  *)
(* writes: messages users may write; index: sides with a followed index;   *)
(* manage: identities, links and locking; budget: the record budget.       *)
Family(local, remote, hosts, lives, nfaults) ==
    [admitted |-> [local |-> local, remote |-> remote], hosts |-> hosts, lives |-> lives,
     faults |-> nfaults, writes |-> {}, index |-> Sides, manage |-> FALSE, polls |-> FALSE,
     budget |-> 0]

(* The writers stop and the host polls on: with both indexes followed, and *)
(* with the index as the repository's node leaves it.                      *)
Polling == [Family(<<>>, <<>>, 1, 0, 0) EXCEPT !.writes = MCMsgs, !.polls = TRUE]
NodeWiring == [Polling EXCEPT !.index = {"remote"}]

Families ==
    { Family(<<>>, <<"a0", "b0">>, 1, 1, 1),
      Family(<<"a0", "a1">>, <<"a0", "b0">>, 1, 1, 0),
      [Family(<<"a0">>, <<"a0", "b0">>, 1, 0, 1) EXCEPT !.writes = {"a1"}],
      [Family(<<"a0">>, <<"a0", "b0">>, 1, 0, 1) EXCEPT !.budget = 1],
      [Family(<<>>, <<"a0", "b0">>, 0, 3, 2) EXCEPT !.index = {"remote"}],
      Family(<<"a0">>, <<"a0", "b0">>, 2, 0, 0),
      [Family(<<>>, <<>>, 1, 1, 0) EXCEPT !.manage = TRUE],
      [Family(<<>>, <<"a0">>, 0, 1, 0) EXCEPT !.manage = TRUE],
      Polling }

MCInit(F) == /\ family \in F
             /\ starts = [host |-> 0, live |-> 0]
             /\ InitWith(family.admitted) /\ indexed = family.index

HostStarts == \E c \in HostCalls : host[c].at = "out" /\ host'[c].at # "out"
LiveStarts == \E c \in LiveCalls : calls[c].pc = "idle" /\ calls'[c].pc # "idle"

(* The choices the family leaves open. *)
Allowed ==
    /\ starts' = IF family.polls THEN starts
                 ELSE [host |-> starts.host + (IF HostStarts THEN 1 ELSE 0),
                       live |-> starts.live + (IF LiveStarts THEN 1 ELSE 0)]
    /\ starts'.host <= family.hosts /\ starts'.live <= family.lives
    /\ \A c \in HostCalls :
         host'[c].at # "out" => /\ host'[c].maxRecords = family.budget
                                /\ family.polls => c = "h1" /\ host'[c].at # "listing"
    /\ family.polls => ~LiveStarts
    /\ faults' <= family.faults
    /\ \A m \in Msgs \ family.writes : \A d \in Sides :
          m \in held'[d] => m \in Range(log.local) \cup Range(log.remote)
    /\ ~family.manage => /\ ~core'.locked /\ mem'[LiveEngine].links = {}
                         /\ identity \/ identity'
                         /\ ~mem'[LiveEngine].identity
    /\ UNCHANGED family

MCNext == Next /\ Allowed
mcVars == <<vars, family, starts>>

-----------------------------------------------------------------------------
(* Repair.  Of three configurations the second takes a role away and the   *)
(* third gives it back.  "member" was written under the first; "late"      *)
(* carries a timestamp after the second, which may be learned when the     *)
(* record is already held.                                                 *)

MCWritten == [member |-> 1, late |-> 2]
MCRoles == [member |-> {1, 3}, late |-> {1, 3}]

Repair == INSTANCE ControlRepair WITH
    Calls <- {"c1"}, Opener <- "opener", Configs <- {1, 2, 3}, FirstConfig <- 1,
    ControlRecords <- {"member", "late"}, Written <- MCWritten, Roles <- MCRoles,
    Held <- {"member"}, Writable <- {"late"}, Lease <- 2, MaxConfigures <- 3, MaxFaults <- 1,
    MaxCrashes <- 2, data <- control_data, mem <- task_map

(* Two configures at once, with no faults. *)
RaceWritten == [member |-> 1]
RaceRoles == [member |-> {0, 1}]
Race == INSTANCE ControlRepair WITH
    Calls <- {"c1", "c2"}, Opener <- "opener", Configs <- {0, 1, 2}, FirstConfig <- 1,
    ControlRecords <- {"member"}, Written <- RaceWritten, Roles <- RaceRoles,
    Held <- {"member"}, Writable <- {}, Lease <- 2, MaxConfigures <- 3, MaxFaults <- 0,
    MaxCrashes <- 0, data <- control_data, mem <- task_map

-----------------------------------------------------------------------------
SyncStill == MCInit({Family(<<>>, <<>>, 0, 0, 0)})
GuardStill == GuardInit /\ feed = 0
RepairStill == Repair!Init

BackInit ==
    \/ part = "sync" /\ MCInit(Families) /\ GuardStill /\ RepairStill
    \/ part = "guard" /\ SyncStill /\ GuardInit /\ RepairStill
    \/ part = "repair" /\ SyncStill /\ GuardStill /\ Repair!Init

InSync(A) == part = "sync" /\ A /\ UNCHANGED <<part, guardVars, repairVars>>
InGuard(A) == part = "guard" /\ A /\ UNCHANGED <<part, mcVars, repairVars>>
InRepair(A) == part \in {"repair", "race"} /\ A /\ UNCHANGED <<part, mcVars, guardVars>>

(* A repair meets a store error or a crash twice, in any order. *)
Bearable == count'.faults + count'.crashes <= 2

BackNext == InSync(MCNext) \/ InGuard(GuardNext) \/ InRepair(Repair!Next /\ Bearable)

(* The host's scheduler polls again whenever it can, and a call that        *)
(* started is driven until it returns.  The runtime keeps scheduling the    *)
(* handler, the worker and the repair, and a node that is down is opened.   *)
(* A behaviour has one part, so a conjunct states the fairness of an        *)
(* action of each.                                                          *)
allVars == <<part, mcVars, guardVars, repairVars>>
BackFairness ==
    /\ WF_allVars(InSync(CallsRun("h1") /\ Allowed) \/ InGuard(Handle) \/ InRepair(Repair!Step("c1")))
    /\ WF_allVars(InSync(RegisterSyncIdentity /\ Allowed) \/ InGuard(Work) \/ InRepair(Repair!Step("opener")))
    /\ WF_allVars(InGuard(Deliver) \/ InRepair(Repair!Recover))
    /\ WF_allVars(InRepair(Repair!Open))
    /\ WF_allVars(InRepair(Repair!Shutdown))
    /\ WF_allVars(InRepair(Repair!Tick))
    /\ SF_allVars(InSync(Poll("h1") /\ Allowed))

BackSpec == BackInit /\ [][BackNext]_allVars /\ BackFairness

NodeInit == part = "sync" /\ MCInit({NodeWiring}) /\ GuardStill /\ RepairStill
NodeSpec == NodeInit /\ [][BackNext]_allVars /\ BackFairness

RaceInit == part = "race" /\ SyncStill /\ GuardStill /\ Race!Init
RaceSpec == RaceInit /\ [][InRepair(Race!Next)]_allVars

-----------------------------------------------------------------------------
(* Converges in the family where the writers stop and the host polls on. *)
PollingConverges == family.polls => Converges

(* If the node is restarted now and then, what the configurations           *)
(* contradict is eventually gone, whatever failed on the way.               *)
RepairsFinish ==
    (part = "repair" /\ Repair!Contradicted # {}) ~> (part = "repair" /\ Repair!Contradicted = {})

(* No store error and no crash, at any await, leaves a contradicted record  *)
(* without its repair in the task table or a half-finished removal without  *)
(* its purge; only contradicted records are removed; and one configuration  *)
(* is the latest (ProtocolsConfigure, run_repair, purge_control_record).    *)
RepairSound == [][part = "repair" => Repair!RepairStep]_allVars

(* The handler always answers: the flush it waits for is always reached,    *)
(* also when the worker is closing the subscription meanwhile.              *)
HandlerAnswers == <>(part = "guard" => handler \in {"done", "failed"})

(* No crash can leave an accepted history with nothing remembering to check *)
(* it: while a record the configurations contradict is retained, the repair *)
(* is in the task table.                                                    *)
ObligationDurable == Race!ObligationDurable

================================================================================
