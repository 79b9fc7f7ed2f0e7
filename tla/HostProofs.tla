------------------------------ MODULE HostProofs ------------------------------
(***************************************************************************)
(* Proofs about the host around the node, for any number of callers: the   *)
(* resolver's single flight, the mobile runtime and the bindings' core.    *)
(* Each has its own inductive invariant: who leads a flight is registered  *)
(* for it and who waits for one waits on an entry; a listed task is run by *)
(* some call; who keeps the state mutex over block_on holds it.            *)
(***************************************************************************)
EXTENDS ResolverFlight, EnboxCore, MobileCore, FiniteSetTheorems, TLAPS

(***************************************************************************)
(* The resolver                                                            *)
(***************************************************************************)
Entries == [leader : Clients, value : {Nil, "result"}]

FlightType ==
    /\ caller \in [Clients -> [at : {"idle", "lookup", "join", "wait", "recheck", "fetch", "publish", "drop"},
                               did : DIDs \cup {Nil}, heard : {Nil, "result", "closed"}]]
    /\ \A c \in Clients : caller[c].at # "idle" => caller[c].did \in DIDs
    /\ entries \in [DIDs -> Entries \cup {Nil}]

(* Who leads has the entry of its DID, whoever has an entry leads, *)
Registering == \A c \in Clients : Leading(c) =>
    entries[caller[c].did] # Nil /\ entries[caller[c].did].leader = c
Led == \A d \in DIDs, c \in Clients : entries[d] # Nil /\ entries[d].leader = c =>
    Leading(c) /\ caller[c].did = d

(* and who has heard nothing waits on an entry. *)
Followed == \A d \in DIDs, f \in Clients : Waiting(f, d) => entries[d] # Nil

FlightInv == FlightType /\ Registering /\ Led /\ Followed

LEMMA FlightStart == FlightInit => FlightInv
  BY DEF FlightInit, FlightInv, FlightType, Registering, Led, Followed, Resting, Leading, Waiting

LEMMA EntryNotNil == \A e \in Entries : e # Nil
  <1> SUFFICES ASSUME NEW e \in Entries PROVE e # Nil
    OBVIOUS
  <1>1. e = [leader |-> e.leader, value |-> e.value] /\ e.leader \in Clients /\ e.value \in {Nil, "result"}
    BY DEF Entries
  <1> QED BY <1>1, FlightAssumption

(* A caller that does not lead moves to where it neither leads nor waits   *)
(* for a value still to come, and the entries stay.                        *)
LEMMA FollowerMoves ==
    ASSUME FlightInv, NEW c \in Clients, ~ Leading(c), entries' = entries,
           NEW k \in [at : {"idle", "lookup", "join", "wait"}, did : DIDs \cup {Nil},
                      heard : {Nil, "result", "closed"}],
           caller' = [caller EXCEPT ![c] = k],
           k.at # "idle" => k.did \in DIDs,
           k.at = "wait" => k.heard # Nil \/ entries[k.did] # Nil
    PROVE  FlightInv'
  <1>1. FlightType'
    BY DEF FlightInv, FlightType
  <1>2. \A d \in Clients : caller'[d] = IF d = c THEN k ELSE caller[d]
    BY DEF FlightInv, FlightType
  <1>3. \A d \in Clients : Leading(d)' <=> Leading(d) /\ d # c
    BY <1>2 DEF Leading
  <1>4. Registering'
    BY <1>2, <1>3 DEF FlightInv, Registering
  <1>5. Led'
    BY <1>2, <1>3 DEF FlightInv, Led
  <1>6. Followed'
    BY <1>2 DEF FlightInv, Followed, Waiting
  <1> QED BY <1>1, <1>4, <1>5, <1>6 DEF FlightInv

(* A leader goes on leading, and a value it sends reaches its followers. *)
LEMMA LeaderMoves ==
    ASSUME FlightInv, NEW c \in Clients, Leading(c),
           NEW step \in {"recheck", "fetch", "publish", "drop"}, Move(c, step), entries' = entries
    PROVE  FlightInv'
  <1>1. FlightType'
    BY DEF FlightInv, FlightType, Move, Leading
  <1>2. \A d \in Clients : caller'[d] = IF d = c THEN [caller[c] EXCEPT !.at = step] ELSE caller[d]
    BY DEF FlightInv, FlightType, Move
  <1>3. \A d \in Clients : /\ caller'[d].did = caller[d].did
                           /\ Leading(d)' <=> Leading(d)
    BY <1>2 DEF FlightInv, FlightType, Leading
  <1>4. Registering'
    <2> SUFFICES ASSUME NEW x \in Clients, Leading(x)'
                 PROVE  entries[caller'[x].did] # Nil /\ entries[caller'[x].did].leader = x
      BY DEF Registering
    <2>1. Leading(x) /\ caller'[x].did = caller[x].did
      BY <1>3
    <2> QED BY <2>1 DEF FlightInv, Registering
  <1>5. Led'
    BY <1>3 DEF FlightInv, Led
  <1>6. Followed'
    BY <1>2 DEF FlightInv, FlightType, Followed, Waiting
  <1> QED BY <1>1, <1>4, <1>5, <1>6 DEF FlightInv

(* The first caller to miss takes the entry. *)
LEMMA JoinKeeps == ASSUME FlightInv, NEW c \in Clients, join(c) PROVE FlightInv'
  <1> DEFINE d == caller[c].did
  <1>0. caller[c].at = "join" /\ d \in DIDs /\ ~ Leading(c)
    BY DEF join, FlightInv, FlightType, Leading
  <1>1. CASE entries[d] # Nil
    <2> DEFINE k == [caller[c] EXCEPT !.at = "wait", !.heard = entries[d].value]
    <2>1. entries[d].value \in {Nil, "result"}
      BY <1>0, <1>1 DEF FlightInv, FlightType, Entries
    <2>2. k \in [at : {"idle", "lookup", "join", "wait"}, did : DIDs \cup {Nil},
                 heard : {Nil, "result", "closed"}]
      BY Zenon, <2>1 DEF FlightInv, FlightType
    <2>3. k.did = d /\ k.at = "wait"
      BY DEF FlightInv, FlightType
    <2>4. caller' = [caller EXCEPT ![c] = k] /\ entries' = entries
      BY Zenon, <1>1 DEF join
    <2> HIDE DEF k
    <2> QED BY Zenon, <1>0, <1>1, <2>2, <2>3, <2>4, FollowerMoves
  <1>2. CASE entries[d] = Nil
    <2> DEFINE e == [leader |-> c, value |-> Nil]
    <2>1. entries' = [entries EXCEPT ![d] = e] /\ caller' = [caller EXCEPT ![c].at = "recheck"]
      BY <1>2 DEF join, Move
    <2>2. e \in Entries /\ e # Nil /\ e.leader = c
      BY EntryNotNil DEF Entries
    <2> HIDE DEF e
    <2>3. FlightType'
      BY <1>0, <2>1, <2>2 DEF FlightInv, FlightType
    <2>4. \A x \in DIDs : entries'[x] = IF x = d THEN e ELSE entries[x]
      BY <2>1 DEF FlightInv, FlightType
    <2>5. /\ caller'[c].did = d /\ caller'[c].at = "recheck"
          /\ \A x \in Clients : x # c => caller'[x] = caller[x]
      BY <2>1 DEF FlightInv, FlightType
    <2>6. Leading(c)' /\ \A x \in Clients : x # c => (Leading(x)' <=> Leading(x))
      BY <2>5 DEF Leading
    <2>7. \A x \in Clients : Leading(x) => caller[x].did \in DIDs
      BY DEF FlightInv, FlightType, Leading
    <2> HIDE DEF d
    <2>8. Registering'
      <3> SUFFICES ASSUME NEW x \in Clients, Leading(x)'
                   PROVE  entries'[caller'[x].did] # Nil /\ entries'[caller'[x].did].leader = x
        BY DEF Registering
      <3>1. CASE x = c
        BY <1>0, <2>2, <2>4, <2>5, <3>1
      <3>2. CASE x # c
        <4>1. Leading(x) /\ caller'[x].did = caller[x].did /\ caller[x].did \in DIDs
          BY <2>5, <2>6, <2>7, <3>2
        <4>2. entries[caller[x].did] # Nil /\ entries[caller[x].did].leader = x
          BY <4>1 DEF FlightInv, Registering
        <4> QED BY <1>2, <2>4, <4>1, <4>2
      <3> QED BY <3>1, <3>2
    <2>9. Led'
      <3> SUFFICES ASSUME NEW x \in DIDs, NEW y \in Clients, entries'[x] # Nil, entries'[x].leader = y
                   PROVE  Leading(y)' /\ caller'[y].did = x
        BY DEF Led
      <3>1. CASE x = d
        BY <2>2, <2>4, <2>5, <2>6, <3>1
      <3>2. CASE x # d
        <4>1. entries[x] # Nil /\ entries[x].leader = y
          BY <2>4, <3>2
        <4>2. Leading(y) /\ caller[y].did = x
          BY <4>1 DEF FlightInv, Led
        <4> QED BY <1>0, <2>5, <2>6, <4>2
      <3> QED BY <3>1, <3>2
    <2>10. Followed'
      BY <2>2, <2>4, <2>5 DEF FlightInv, Followed, Waiting
    <2> QED BY <2>3, <2>8, <2>9, <2>10 DEF FlightInv
  <1> QED BY <1>1, <1>2

(* The result is sent: the entry stays, and who waited has heard it. *)
LEMMA FinishKeeps == ASSUME FlightInv, NEW c \in Clients, finish(c) PROVE FlightInv'
  <1> DEFINE d == caller[c].did
  <1>0. Leading(c) /\ d \in DIDs /\ entries[d] # Nil
    BY DEF finish, FlightInv, FlightType, Registering, Leading
  <1>1. \A x \in Clients :
            /\ caller'[x].did = caller[x].did
            /\ Leading(x)' <=> Leading(x)
            /\ caller'[x].at = IF x = c THEN "drop" ELSE caller[x].at
            /\ caller'[x].heard \in {caller[x].heard, "result"}
    BY DEF finish, FlightInv, FlightType, Leading
  <1>2. \A x \in DIDs : /\ entries'[x] # Nil <=> entries[x] # Nil
                        /\ entries[x] # Nil => entries'[x].leader = entries[x].leader
    <2>1. entries' = [entries EXCEPT ![d].value = "result"]
      BY DEF finish
    <2>2. entries[d] \in Entries /\ [entries[d] EXCEPT !.value = "result"] \in Entries
      BY <1>0 DEF FlightInv, FlightType, Entries
    <2>3. entries'[d] = [entries[d] EXCEPT !.value = "result"] /\ \A x \in DIDs \ {d} : entries'[x] = entries[x]
      BY <1>0, <2>1 DEF FlightInv, FlightType
    <2>4. entries'[d].leader = entries[d].leader
      BY <2>2, <2>3 DEF Entries
    <2> HIDE DEF d
    <2> QED BY Zenon, <1>0, <2>2, <2>3, <2>4, EntryNotNil
  <1>3. FlightType'
    <2>1. caller' \in [Clients -> [at : {"idle", "lookup", "join", "wait", "recheck", "fetch", "publish", "drop"},
                               did : DIDs \cup {Nil}, heard : {Nil, "result", "closed"}]]
      BY DEF finish, FlightInv, FlightType
    <2>2. entries' \in [DIDs -> Entries \cup {Nil}]
      BY <1>0 DEF finish, FlightInv, FlightType, Entries
    <2> QED BY <1>0, <1>1, <2>1, <2>2 DEF FlightInv, FlightType, Leading
  <1>4. Registering'
    BY <1>1, <1>2 DEF FlightInv, FlightType, Registering, Leading
  <1>5. Led'
    <2> SUFFICES ASSUME NEW x \in DIDs, NEW y \in Clients, entries'[x] # Nil, entries'[x].leader = y
                 PROVE  Leading(y)' /\ caller'[y].did = x
      BY DEF Led
    <2> QED BY <1>1, <1>2 DEF FlightInv, Led
  <1>6. Followed'
    <2> SUFFICES ASSUME NEW x \in DIDs, NEW f \in Clients, Waiting(f, x)' PROVE entries'[x] # Nil
      BY DEF Followed
    <2>1. Waiting(f, x)
      BY <1>1, FlightAssumption DEF Waiting
    <2> QED BY <1>2, <2>1 DEF FlightInv, Followed
  <1> QED BY <1>3, <1>4, <1>5, <1>6 DEF FlightInv

(* The entry goes with its leader, and nobody waits on it any longer. *)
LEMMA LeaderDropKeeps == ASSUME FlightInv, NEW c \in Clients, Leading(c), LeaderDrop(c) PROVE FlightInv'
  <1> DEFINE d == caller[c].did
  <1>0. d \in DIDs /\ entries[d] # Nil /\ entries[d].leader = c
    BY DEF FlightInv, FlightType, Registering, Leading
  <1>1. caller'[c] = Resting /\ ~ Leading(c)'
    BY DEF LeaderDrop, Resting, Leading
  <1>2. \A x \in Clients \ {c} :
            /\ caller'[x].did = caller[x].did
            /\ caller'[x].at = caller[x].at
            /\ Leading(x)' <=> Leading(x)
            /\ Waiting(x, d) => caller'[x].heard = "closed"
            /\ ~ Waiting(x, d) => caller'[x] = caller[x]
    BY DEF LeaderDrop, FlightInv, FlightType, Leading
  <1>3. \A x \in DIDs : entries'[x] = IF x = d THEN Nil ELSE entries[x]
    BY DEF LeaderDrop, FlightInv, FlightType
  <1>4. FlightType'
    <2>1. caller' \in [Clients -> [at : {"idle", "lookup", "join", "wait", "recheck", "fetch", "publish", "drop"},
                               did : DIDs \cup {Nil}, heard : {Nil, "result", "closed"}]]
      BY DEF LeaderDrop, FlightInv, FlightType, Resting
    <2>2. entries' \in [DIDs -> Entries \cup {Nil}]
      BY <1>0 DEF LeaderDrop, FlightInv, FlightType
    <2> QED BY <1>1, <1>2, <2>1, <2>2 DEF FlightInv, FlightType, Resting
  <1> HIDE DEF d
  <1>5. Registering'
    <2> SUFFICES ASSUME NEW x \in Clients, Leading(x)'
                 PROVE  entries'[caller'[x].did] # Nil /\ entries'[caller'[x].did].leader = x
      BY DEF Registering
    <2>1. x # c /\ Leading(x) /\ caller'[x].did = caller[x].did
      BY <1>1, <1>2
    <2>2. caller[x].did \in DIDs /\ entries[caller[x].did] # Nil /\ entries[caller[x].did].leader = x
      BY <2>1 DEF FlightInv, FlightType, Registering, Leading
    <2> QED BY <1>0, <1>3, <2>1, <2>2
  <1>6. Led'
    <2> SUFFICES ASSUME NEW x \in DIDs, NEW y \in Clients, entries'[x] # Nil, entries'[x].leader = y
                 PROVE  Leading(y)' /\ caller'[y].did = x
      BY DEF Led
    <2>1. x # d /\ entries[x] # Nil /\ entries[x].leader = y
      BY <1>3
    <2>2. Leading(y) /\ caller[y].did = x
      BY <2>1 DEF FlightInv, Led
    <2>3. y # c
      BY <2>1, <2>2 DEF d
    <2> QED BY <1>2, <2>2, <2>3
  <1>7. Followed'
    <2> SUFFICES ASSUME NEW x \in DIDs, NEW f \in Clients, Waiting(f, x)' PROVE entries'[x] # Nil
      BY DEF Followed
    <2>1. f # c
      BY <1>1 DEF Waiting, Resting
    <2>2. ~ Waiting(f, d)
      BY <1>2, <2>1, FlightAssumption DEF Waiting
    <2>3. Waiting(f, x) /\ x # d
      BY <1>2, <2>1, <2>2 DEF Waiting
    <2> QED BY <1>3, <2>3 DEF FlightInv, Followed
  <1> QED BY <1>4, <1>5, <1>6, <1>7 DEF FlightInv

LEMMA FlightStep == FlightInv /\ [FlightNext]_flightVars => FlightInv'
  <1> SUFFICES ASSUME FlightInv, [FlightNext]_flightVars PROVE FlightInv'
    OBVIOUS
  <1> DEFINE Ks == [at : {"idle", "lookup", "join", "wait"}, did : DIDs \cup {Nil},
                    heard : {Nil, "result", "closed"}]
  <1>r. Resting \in Ks /\ Resting.at = "idle"
    BY DEF Resting
  <1>u. CASE UNCHANGED <<entries, caller>>
    BY <1>u DEF FlightInv, FlightType, Registering, Led, Followed, Leading, Waiting
  <1>a. ASSUME NEW c \in Clients, ~ Leading(c), Answer(c), entries' = entries PROVE FlightInv'
    <2> HIDE DEF Ks
    <2>1. caller' = [caller EXCEPT ![c] = Resting]
      BY <1>a DEF Answer
    <2> QED BY Zenon, <1>a, <1>r, <2>1, FollowerMoves DEF Ks
  <1>1. ASSUME NEW c \in Clients, NEW d \in DIDs, resolve_single_flight(c, d) PROVE FlightInv'
    <2> DEFINE k == [at |-> "lookup", did |-> d, heard |-> Nil]
    <2>1. k \in Ks /\ k.at = "lookup" /\ k.did = d
      OBVIOUS
    <2>2. caller' = [caller EXCEPT ![c] = k] /\ entries' = entries /\ ~ Leading(c)
      BY <1>1 DEF resolve_single_flight, Leading, Resting
    <2> HIDE DEF k
    <2> QED BY Zenon, <2>1, <2>2, FollowerMoves
  <1>2. ASSUME NEW c \in Clients, Lookup(c) PROVE FlightInv'
    <2>0. ~ Leading(c) /\ entries' = entries
      BY <1>2 DEF Lookup, Leading
    <2>1. CASE Answer(c)
      BY <1>a, <2>0, <2>1
    <2>2. CASE Move(c, "join")
      <3> DEFINE k == [caller[c] EXCEPT !.at = "join"]
      <3>1. k \in Ks /\ k.at = "join" /\ k.did \in DIDs
        BY <1>2 DEF FlightInv, FlightType, Lookup
      <3>2. caller' = [caller EXCEPT ![c] = k]
        BY <2>2 DEF Move
      <3> HIDE DEF k
      <3> QED BY Zenon, <2>0, <3>1, <3>2, FollowerMoves
    <2> QED BY <1>2, <2>1, <2>2 DEF Lookup, cached_resolution
  <1>3. ASSUME NEW c \in Clients, join(c) PROVE FlightInv'
    BY <1>3, JoinKeeps
  <1>4. ASSUME NEW c \in Clients, Recheck(c) PROVE FlightInv'
    <2>1. Leading(c) /\ entries' = entries /\ (Move(c, "publish") \/ Move(c, "fetch"))
      BY <1>4 DEF Recheck, Leading, cached_resolution
    <2> QED BY <2>1, LeaderMoves
  <1>5. ASSUME NEW c \in Clients, resolve_and_cache(c) PROVE FlightInv'
    <2>1. Leading(c) /\ entries' = entries /\ Move(c, "publish")
      BY <1>5 DEF resolve_and_cache, Leading
    <2> QED BY <2>1, LeaderMoves
  <1>6. ASSUME NEW c \in Clients, finish(c) PROVE FlightInv'
    BY <1>6, FinishKeeps
  <1>7. ASSUME NEW c \in Clients, EndLead(c) PROVE FlightInv'
    BY <1>7, LeaderDropKeeps DEF EndLead, Leading
  <1>8. ASSUME NEW c \in Clients, wait(c) PROVE FlightInv'
    <2>0. ~ Leading(c) /\ entries' = entries /\ caller[c].did \in DIDs
      BY <1>8 DEF wait, Leading, FlightInv, FlightType
    <2>1. CASE caller[c].heard = "result"
      BY Zenon, <1>8, <1>a, <2>0, <2>1 DEF wait, Answer
    <2>2. CASE caller[c].heard # "result"
      <3> DEFINE k == [at |-> "lookup", did |-> caller[c].did, heard |-> Nil]
      <3>1. k \in Ks /\ k.at = "lookup" /\ k.did \in DIDs
        BY <2>0
      <3>2. caller' = [caller EXCEPT ![c] = k]
        BY <1>8, <2>2 DEF wait
      <3> HIDE DEF k
      <3> QED BY Zenon, <2>0, <3>1, <3>2, FollowerMoves
    <2> QED BY <2>1, <2>2
  <1>9. ASSUME NEW c \in Clients, Cancel(c) PROVE FlightInv'
    <2>1. CASE caller[c].at \in {"recheck", "fetch"}
      BY <1>9, <2>1, LeaderDropKeeps DEF Cancel, Leading
    <2>2. CASE caller[c].at \notin {"recheck", "fetch"}
      BY <1>9, <1>a, <2>2 DEF Cancel, Leading
    <2> QED BY <2>1, <2>2
  <1>10. CASE Tick
    BY <1>10, <1>u DEF Tick
  <1>11. CASE UNCHANGED flightVars
    BY <1>11, <1>u DEF flightVars
  <1> QED BY <1>1, <1>2, <1>3, <1>4, <1>5, <1>6, <1>7, <1>8, <1>9, <1>10, <1>11 DEF FlightNext

(* Whoever leads for d is the leader of d's entry: there is at most one. *)
LEMMA FlightInvMeans == FlightInv => OneFlight
  <1> SUFFICES ASSUME FlightInv, NEW d \in DIDs
               PROVE  /\ Cardinality({c \in Clients : Leading(c) /\ caller[c].did = d}) =< 1
                      /\ \A f \in Clients : Waiting(f, d) =>
                           \E c \in Clients : Leading(c) /\ caller[c].did = d /\ entries[d].leader = c
    BY DEF OneFlight
  <1> DEFINE S == {c \in Clients : Leading(c) /\ caller[c].did = d}
  <1>1. S \subseteq {entries[d].leader}
    BY DEF FlightInv, Registering
  <1>2. IsFiniteSet({entries[d].leader}) /\ Cardinality({entries[d].leader}) = 1
    BY Zenon, FS_Singleton
  <1>3. Cardinality(S) =< 1
    <2> HIDE DEF S
    <2>1. IsFiniteSet(S) /\ Cardinality(S) =< Cardinality({entries[d].leader})
      BY <1>1, <1>2, FS_Subset
    <2> QED BY <1>2, <2>1
  <1>4. ASSUME NEW f \in Clients, Waiting(f, d)
        PROVE  \E c \in Clients : Leading(c) /\ caller[c].did = d /\ entries[d].leader = c
    BY <1>4 DEF FlightInv, FlightType, Entries, Followed, Led
  <1> QED BY <1>3, <1>4

(* For any number of callers and DIDs, and however leaders are cancelled:  *)
(* concurrent misses of one DID make one request, and who waits for        *)
(* another's request waits for one that is being made (join, finish and    *)
(* InFlightLeader::drop).                                                  *)
THEOREM ResolverSingleFlight == FlightSpec => []OneFlight
  <1>1. FlightSpec => []FlightInv
    BY FlightStart, FlightStep, PTL DEF FlightSpec
  <1> QED BY <1>1, FlightInvMeans, PTL

(***************************************************************************)
(* The mobile runtime                                                      *)
(***************************************************************************)
Purposes == {"unlock", "lock", "process", "sync", "background"}

MobileType ==
    /\ state \in [initialized : BOOLEAN, refresh : BOOLEAN, active_background_tasks : SUBSET TaskIds]
    /\ waiting \in [AppCalls -> {NoWait} \cup [op : Purposes, id : TaskIds \cup {NoWait}]]

Runs(c, id) == waiting[c] # NoWait /\ waiting[c].op = "background" /\ waiting[c].id = id

MobileInv ==
    /\ MobileType
    /\ \A id \in state.active_background_tasks : \E c \in AppCalls : Runs(c, id)

LEMMA MobileStart == MobileInit => MobileInv
  BY DEF MobileInit, MobileInv, MobileType

(* A call that was not running a task starts waiting for something, or     *)
(* ends: the others run what they ran.                                     *)
LEMMA OthersRun ==
    ASSUME MobileInv, NEW c \in AppCalls, NEW w \in {NoWait} \cup [op : Purposes, id : TaskIds \cup {NoWait}],
           waiting' = [waiting EXCEPT ![c] = w]
    PROVE  /\ waiting' \in [AppCalls -> {NoWait} \cup [op : Purposes, id : TaskIds \cup {NoWait}]]
           /\ \A d \in AppCalls, id \in TaskIds : d # c /\ Runs(d, id) => Runs(d, id)'
  BY DEF MobileInv, MobileType, Runs

LEMMA QuietMoves ==
    ASSUME MobileInv, NEW c \in AppCalls, NEW w \in {NoWait} \cup [op : Purposes, id : TaskIds \cup {NoWait}],
           waiting' = [waiting EXCEPT ![c] = w], state' = state,
           \A id \in TaskIds : ~ Runs(c, id)
    PROVE  MobileInv'
  <1>1. MobileType'
    BY OthersRun DEF MobileInv, MobileType
  <1>2. ASSUME NEW id \in state.active_background_tasks PROVE \E d \in AppCalls : Runs(d, id)'
    <2>1. id \in TaskIds
      BY DEF MobileInv, MobileType
    <2>2. PICK d \in AppCalls : Runs(d, id)
      BY DEF MobileInv
    <2> QED BY Zenon, <2>1, <2>2, OthersRun
  <1> QED BY <1>1, <1>2 DEF MobileInv

LEMMA MobileStep == MobileInv /\ [MobileNext]_mobileVars => MobileInv'
  <1> SUFFICES ASSUME MobileInv, [MobileNext]_mobileVars PROVE MobileInv'
    OBVIOUS
  <1> DEFINE Ws == {NoWait} \cup [op : Purposes, id : TaskIds \cup {NoWait}]
  <1>1. ASSUME NEW refresh \in BOOLEAN, initialize_core(refresh) PROVE MobileInv'
    <2>1. MobileType' /\ state'.active_background_tasks = state.active_background_tasks /\ waiting' = waiting
      BY Zenon, <1>1 DEF initialize_core, MobileInv, MobileType
    <2> QED BY <2>1 DEF MobileInv, Runs
  <1>2. ASSUME NEW c \in AppCalls, unlock_core(c) \/ lock_core(c) \/ forward_message(c) \/ sync_once(c)
        PROVE  MobileInv'
    <2>1. PICK op \in Purposes : Wait(c, op, NoWait)
      BY <1>2 DEF Purposes, unlock_core, lock_core, forward_message, sync_once
    <2>2. waiting[c] = NoWait /\ state' = state
      BY <1>2 DEF unlock_core, lock_core, forward_message, sync_once
    <2> DEFINE w == [op |-> op, id |-> NoWait]
    <2>3. w \in Ws /\ waiting' = [waiting EXCEPT ![c] = w]
      BY <2>1 DEF Wait
    <2>4. \A id \in TaskIds : ~ Runs(c, id)
      BY <2>2 DEF Runs
    <2> HIDE DEF w
    <2> QED BY Zenon, <2>2, <2>3, <2>4, QuietMoves
  <1>3. ASSUME NEW c \in AppCalls, BiometricVault(c) PROVE MobileInv'
    <2>1. waiting' = [waiting EXCEPT ![c] = NoWait] /\ state' = state /\ \A id \in TaskIds : ~ Runs(c, id)
      BY <1>3 DEF BiometricVault, Leave, Runs
    <2> QED BY Zenon, <2>1, QuietMoves
  <1>4. ASSUME NEW c \in AppCalls, NEW id \in TaskIds, background_sync(c, id) PROVE MobileInv'
    <2> DEFINE w == [op |-> "background", id |-> id]
    <2>0. w # NoWait
      BY MobileAssumption
    <2>1. w \in Ws /\ w # NoWait /\ w.op = "background" /\ w.id = id
      BY <2>0 DEF Purposes
    <2>2. waiting[c] = NoWait /\ waiting' = [waiting EXCEPT ![c] = w]
      BY <1>4 DEF background_sync, Wait
    <2>3. /\ state' \in [initialized : BOOLEAN, refresh : BOOLEAN, active_background_tasks : SUBSET TaskIds]
          /\ state'.active_background_tasks = state.active_background_tasks \cup {id}
      BY <1>4 DEF background_sync, track_background_task, MobileInv, MobileType
    <2> HIDE DEF w
    <2>4. MobileType' /\ Runs(c, id)'
      BY SMTT(30), <2>1, <2>2, <2>3 DEF MobileInv, MobileType, Runs
    <2>5. ASSUME NEW x \in state'.active_background_tasks PROVE \E d \in AppCalls : Runs(d, x)'
      <3>1. CASE x = id
        BY <2>4, <3>1
      <3>2. CASE x # id
        <4>1. x \in state.active_background_tasks /\ x \in TaskIds
          BY <2>3, <2>5, <3>2 DEF MobileInv, MobileType
        <4>2. PICK d \in AppCalls : Runs(d, x)
          BY <4>1 DEF MobileInv
        <4>3. d # c
          BY <2>2, <4>2 DEF Runs
        <4> QED BY Zenon, <2>1, <2>2, <4>1, <4>2, <4>3, OthersRun
      <3> QED BY <3>1, <3>2
    <2> QED BY <2>4, <2>5 DEF MobileInv
  <1>5. ASSUME NEW c \in AppCalls, NEW completed \in BOOLEAN, EndCall(c, completed) PROVE MobileInv'
    <2>1. waiting[c] # NoWait /\ waiting' = [waiting EXCEPT ![c] = NoWait] /\ guard_drop(c, completed)
      BY <1>5 DEF EndCall, Leave
    <2>2. CASE waiting[c].op # "background"
      <3>1. state' = state /\ \A id \in TaskIds : ~ Runs(c, id)
        BY <2>1, <2>2 DEF guard_drop, Runs
      <3> QED BY Zenon, <2>1, <3>1, QuietMoves
    <2>3. CASE waiting[c].op = "background"
      <3>1. /\ state' \in [initialized : BOOLEAN, refresh : BOOLEAN, active_background_tasks : SUBSET TaskIds]
            /\ state'.active_background_tasks = state.active_background_tasks \ {waiting[c].id}
        BY <2>1, <2>3 DEF guard_drop, MobileInv, MobileType
      <3>2. MobileType'
        BY Zenon, <2>1, <3>1, OthersRun DEF MobileType
      <3>3. ASSUME NEW x \in state'.active_background_tasks PROVE \E d \in AppCalls : Runs(d, x)'
        <4>1. x \in state.active_background_tasks /\ x \in TaskIds /\ x # waiting[c].id
          BY <3>1, <3>3 DEF MobileInv, MobileType
        <4>2. PICK d \in AppCalls : Runs(d, x)
          BY <4>1 DEF MobileInv
        <4>3. d # c
          BY <4>1, <4>2 DEF Runs
        <4> QED BY Zenon, <2>1, <4>1, <4>2, <4>3, OthersRun
      <3> QED BY <3>2, <3>3 DEF MobileInv
    <2> QED BY <2>2, <2>3
  <1>6. CASE UNCHANGED mobileVars
    BY <1>6 DEF mobileVars, MobileInv, MobileType, Runs
  <1> QED BY <1>1, <1>2, <1>3, <1>4, <1>5, <1>6 DEF MobileNext

(* For any number of calls and task ids, and however calls are cancelled:  *)
(* a task that status() lists is running (BackgroundTaskGuard::drop).      *)
THEOREM MobileTasksEnd == MobileSpec => []NoLeakedTask
  <1>1. MobileSpec => []MobileInv
    BY MobileStart, MobileStep, PTL DEF MobileSpec
  <1>2. MobileInv => NoLeakedTask
    BY DEF MobileInv, NoLeakedTask, RunningTask, Runs
  <1> QED BY <1>1, <1>2, PTL

(***************************************************************************)
(* The bindings' core                                                      *)
(***************************************************************************)
CallSites == [at : {"idle", "processing", "registering", "working"}]
Scopes == Checkpoints \cup {build_sync_once_request(q) : q \in Requests}
SyncSites == [at : {"load", "set", "running", "done"}, todo : SUBSET Scopes,
              last : Scopes \cup {Nothing}, q : Requests, resume : BOOLEAN]

CoreType ==
    /\ core \in [locked : BOOLEAN, reason : BOOLEAN, node : BOOLEAN, signer : BOOLEAN,
                 inProgress : BOOLEAN, last : Scopes \cup {Nothing}, tasks : SUBSET CoreTasks]
    /\ ledger \subseteq Scopes
    /\ entered \in [Threads -> CallSites \cup SyncSites]

(* Who keeps the state mutex over its block_on holds it. *)
Holding == \A c \in Threads : entered[c].at \in {"processing", "registering"} => mutex = c

CoreInv == CoreType /\ Holding /\ CoreGates

LEMMA CoreStart == CoreInit => CoreInv
  <1> SUFFICES ASSUME CoreInit PROVE CoreInv
    OBVIOUS
  <1>1. core \in [locked : BOOLEAN, reason : BOOLEAN, node : BOOLEAN, signer : BOOLEAN,
                  inProgress : BOOLEAN, last : Scopes \cup {Nothing}, tasks : SUBSET CoreTasks]
    BY DEF CoreInit
  <1>2. ~core.inProgress
    BY DEF CoreInit
  <1>3. \A c \in Threads : entered[c].at = "idle"
    BY DEF CoreInit, Idle
  <1>4. entered \in [Threads -> CallSites \cup SyncSites]
    BY DEF CoreInit, Idle, CallSites
  <1>5. ledger \subseteq Scopes
    BY DEF CoreInit, Scopes
  <1> QED BY <1>1, <1>2, <1>3, <1>4, <1>5 DEF CoreInv, CoreType, Holding, CoreGates

(* One critical section of a caller that is in no call. *)
LEMMA SectionKeeps ==
    ASSUME CoreInv, Free, UNCHANGED <<mutex, ledger, entered>>,
           core' \in [locked : BOOLEAN, reason : BOOLEAN, node : BOOLEAN, signer : BOOLEAN,
                      inProgress : BOOLEAN, last : Scopes \cup {Nothing}, tasks : SUBSET CoreTasks],
           core'.inProgress = core.inProgress
    PROVE  CoreInv'
  <1>1. CoreType'
    BY DEF CoreInv, CoreType
  <1>2. Holding'
    BY DEF CoreInv, Holding
  <1>3. \A c \in Threads : entered[c].at # "processing"
    BY CoreAssumption DEF CoreInv, Holding, Free
  <1>4. CoreGates'
    BY <1>3 DEF CoreInv, CoreGates, Syncing
  <1> QED BY <1>1, <1>2, <1>4 DEF CoreInv

(* The call of c moves on: it stays in a sync it was in, and it is not one *)
(* that keeps the mutex.                                                   *)
LEMMA CallMoves ==
    ASSUME CoreInv, NEW c \in Threads, NEW k \in CallSites \cup SyncSites,
           entered' = [entered EXCEPT ![c] = k], core' = core, ledger' \subseteq Scopes,
           Syncing(c) => k.at \in {"running", "done"},
           \/ mutex' = mutex /\ k.at \notin {"processing", "registering"}
           \/ mutex' = mutex /\ entered[c].at \in {"processing", "registering"} /\ k.at = entered[c].at
           \/ mutex' = c /\ Free /\ (k.at = "processing" => ~core.locked)
           \/ mutex' = Nothing /\ mutex = c /\ k.at \notin {"processing", "registering"}
    PROVE  CoreInv'
  <1>1. CoreType'
    BY DEF CoreInv, CoreType
  <1>2. \A d \in Threads : entered'[d] = IF d = c THEN k ELSE entered[d]
    BY DEF CoreInv, CoreType
  <1>3. Holding'
    BY <1>2, CoreAssumption DEF CoreInv, Holding, Free
  <1>4. ASSUME core.inProgress PROVE \E d \in Threads : Syncing(d)'
    <2>1. PICK d \in Threads : Syncing(d)
      BY <1>4 DEF CoreInv, CoreGates
    <2>2. Syncing(d)'
      BY <1>2, <2>1 DEF Syncing
    <2> QED BY <2>2
  <1>5. \A d \in Threads : entered'[d].at = "processing" => ~core.locked
    BY <1>2 DEF CoreInv, CoreGates
  <1> QED BY <1>1, <1>3, <1>4, <1>5 DEF CoreInv, CoreGates

LEMMA IdleSite == Idle \in CallSites \cup SyncSites /\ Idle.at = "idle"
  BY DEF Idle, CallSites

LEMMA SyncFields ==
    ASSUME CoreInv, NEW c \in Threads, entered[c].at \in {"load", "set", "running", "done"}
    PROVE  entered[c] \in SyncSites
  BY DEF CoreInv, CoreType, CallSites

(* A call that is not a sync ends, and the mutex it kept is free. *)
LEMMA CallEnds ==
    ASSUME CoreInv, NEW c \in Threads, Answered(c), UNCHANGED <<core, ledger>>, ~ Syncing(c),
           \/ mutex' = mutex
           \/ mutex' = Nothing /\ entered[c].at \in {"processing", "registering"}
    PROVE  CoreInv'
  <1>1. entered' = [entered EXCEPT ![c] = Idle] /\ core' = core /\ ledger' \subseteq Scopes
    BY DEF Answered, CoreInv, CoreType
  <1>2. mutex' = mutex \/ (mutex' = Nothing /\ mutex = c)
    BY DEF CoreInv, Holding
  <1> QED BY Zenon, <1>1, <1>2, IdleSite, CallMoves

LEMMA CoreStep == CoreInv /\ [CoreNext]_coreVars => CoreInv'
  <1> SUFFICES ASSUME CoreInv, [CoreNext]_coreVars PROVE CoreInv'
    OBVIOUS
  <1> DEFINE Sites == CallSites \cup SyncSites
             Cores == [locked : BOOLEAN, reason : BOOLEAN, node : BOOLEAN, signer : BOOLEAN,
                       inProgress : BOOLEAN, last : Scopes \cup {Nothing}, tasks : SUBSET CoreTasks]
  <1>c. core \in Cores /\ ledger \subseteq Scopes
    BY DEF CoreInv, CoreType
  <1>1. CASE lock \/ unlock \/ unlock_with_reason \/ configure_sync_signer
    <2>1. Free /\ UNCHANGED <<mutex, ledger, entered>> /\ core' \in Cores /\ core'.inProgress = core.inProgress
      BY Zenon, <1>1, <1>c DEF lock, unlock, unlock_with_reason, configure_sync_signer
    <2> QED BY <2>1, SectionKeeps
  <1>2. ASSUME NEW id \in CoreTasks, begin_background_task(id) \/ end_background_task(id) PROVE CoreInv'
    <2>1. Free /\ UNCHANGED <<mutex, ledger, entered>> /\ core' \in Cores /\ core'.inProgress = core.inProgress
      BY <1>2, <1>c DEF begin_background_task, end_background_task
    <2> QED BY <2>1, SectionKeeps
  <1>3. CASE drop
    <2>1. UNCHANGED <<mutex, ledger, entered>> /\ core' \in Cores /\ core'.inProgress = core.inProgress
      BY Zenon, <1>3, <1>c DEF drop
    <2>2. \A c \in Threads : entered[c].at = "idle"
      BY <1>3, IdleSite DEF drop
    <2> QED BY <2>1, <2>2 DEF CoreInv, CoreType, Holding, CoreGates, Syncing
  <1>4. ASSUME NEW c \in Threads, process_message(c) \/ register_sync_identity(c) PROVE CoreInv'
    <2>1. PICK where \in {"processing", "registering"} :
            entered' = [entered EXCEPT ![c] = [at |-> where]] /\ (where = "processing" => ~core.locked)
      BY <1>4 DEF process_message, register_sync_identity
    <2> DEFINE k == [at |-> where]
    <2>2. k \in Sites /\ k.at = where
      BY DEF CallSites
    <2>3. Free /\ mutex' = c /\ core' = core /\ ledger' = ledger /\ ~ Syncing(c)
      BY <1>4, IdleSite DEF process_message, register_sync_identity, Syncing
    <2> HIDE DEF k
    <2> QED BY Zenon, <1>c, <2>1, <2>2, <2>3, CallMoves DEF k
  <1>5. ASSUME NEW c \in Threads, Processed(c) \/ Registered(c) PROVE CoreInv'
    BY <1>5, CallEnds DEF Processed, Registered, Syncing
  <1>6. ASSUME NEW c \in Threads, NEW q \in Requests, run_sync_request(c, q) \/ resume_pending(c, q)
        PROVE  CoreInv'
    <2>1. PICK k \in SyncSites : entered' = [entered EXCEPT ![c] = k] /\ k.at \in {"set", "load"}
      <3>1. CASE run_sync_request(c, q)
        <4> DEFINE k == [at |-> "set", todo |-> {build_sync_once_request(q)},
                         last |-> Nothing, q |-> q, resume |-> FALSE]
        <4>1. {build_sync_once_request(q)} \subseteq Scopes
          BY DEF Scopes
        <4>2. k \in SyncSites /\ k.at = "set"
          BY <4>1 DEF SyncSites
        <4>3. entered' = [entered EXCEPT ![c] = k]
          BY <3>1 DEF run_sync_request
        <4> HIDE DEF k
        <4> QED BY Zenon, <4>2, <4>3
      <3>2. CASE resume_pending(c, q)
        <4> DEFINE k == [at |-> "load", todo |-> {}, last |-> Nothing, q |-> q, resume |-> TRUE]
        <4>1. k \in SyncSites /\ k.at = "load"
          BY DEF SyncSites
        <4>2. entered' = [entered EXCEPT ![c] = k]
          BY <3>2 DEF resume_pending
        <4> HIDE DEF k
        <4> QED BY Zenon, <4>1, <4>2
      <3> QED BY <1>6, <3>1, <3>2
    <2>2. UNCHANGED <<core, mutex, ledger>> /\ ~ Syncing(c)
      BY <1>6, IdleSite DEF run_sync_request, resume_pending, Gate, Syncing
    <2> QED BY Zenon, <1>c, <2>1, <2>2, CallMoves
  <1>7. ASSUME NEW c \in Threads, LoadPending(c) PROVE CoreInv'
    <2>1. entered[c] \in SyncSites /\ entered[c].at = "load" /\ ~ Syncing(c)
      BY <1>7, SyncFields DEF LoadPending, Syncing
    <2>2. CASE Answered(c)
      BY <1>7, <2>1, <2>2, CallEnds DEF LoadPending
    <2>3. CASE ~ Answered(c)
      <3> DEFINE k == [entered[c] EXCEPT !.at = "set", !.todo = pending_scopes(entered[c].q)]
      <3>1. pending_scopes(entered[c].q) \subseteq Scopes
        BY <1>c DEF pending_scopes
      <3>2. k \in SyncSites /\ k.at = "set"
        BY Zenon, <2>1, <3>1 DEF SyncSites
      <3>3. entered' = [entered EXCEPT ![c] = k] /\ UNCHANGED <<core, mutex, ledger>>
        BY Zenon, <1>7, <2>3 DEF LoadPending
      <3> HIDE DEF k
      <3> QED BY Zenon, <1>c, <2>1, <3>2, <3>3, CallMoves
    <2> QED BY <2>2, <2>3
  <1>8. ASSUME NEW c \in Threads, SetInProgress(c) PROVE CoreInv'
    <2> DEFINE k == [entered[c] EXCEPT !.at = "running"]
    <2>1. entered[c] \in SyncSites
      BY <1>8, SyncFields DEF SetInProgress
    <2>2. k \in SyncSites /\ k.at = "running"
      BY <2>1 DEF SyncSites
    <2>3. /\ entered' = [entered EXCEPT ![c] = k] /\ UNCHANGED <<mutex, ledger>> /\ Free
          /\ core' \in Cores /\ core'.locked = core.locked
      BY Zenon, <1>8, <1>c DEF SetInProgress
    <2> HIDE DEF k
    <2>4. \A d \in Threads : entered'[d] = IF d = c THEN k ELSE entered[d]
      BY <2>3 DEF CoreInv, CoreType
    <2>5. CoreType'
      BY <2>2, <2>3 DEF CoreInv, CoreType
    <2>6. Holding'
      BY <2>2, <2>3, <2>4 DEF CoreInv, Holding
    <2>7. CoreGates'
      BY <2>2, <2>3, <2>4 DEF CoreInv, CoreGates, Syncing
    <2> QED BY <2>5, <2>6, <2>7 DEF CoreInv
  <1>9. ASSUME NEW c \in Threads, SyncNext(c) PROVE CoreInv'
    <2> DEFINE x == CHOOSE x \in entered[c].todo : TRUE
               rest == entered[c].todo \ {x}
               where == IF rest = {} THEN "done" ELSE "running"
               k == [entered[c] EXCEPT !.todo = rest, !.last = x, !.at = where]
    <2>1. entered[c] \in SyncSites /\ entered[c].at = "running" /\ entered[c].todo # {}
      BY Zenon, <1>9, SyncFields DEF SyncNext
    <2>2. x \in entered[c].todo
      BY <2>1
    <2>3. x \in Scopes /\ rest \subseteq Scopes /\ where \in {"running", "done"}
      BY SMTT(30), <2>1, <2>2 DEF SyncSites
    <2>4. entered' = [entered EXCEPT ![c] = k] /\ UNCHANGED <<core, mutex>>
      BY Zenon, <1>9 DEF SyncNext
    <2>5. ledger' \subseteq ledger \cup {x}
      BY Zenon, <1>9 DEF SyncNext
    <2> HIDE DEF x, rest, where
    <2>6. k \in SyncSites /\ k.at = where
      BY Zenon, <2>1, <2>3 DEF SyncSites
    <2> HIDE DEF k
    <2> QED BY Zenon, <1>c, <2>3, <2>4, <2>5, <2>6, CallMoves
  <1>10. ASSUME NEW c \in Threads, SyncDeadline(c) PROVE CoreInv'
    <2> DEFINE l == IF entered[c].resume THEN Nothing ELSE build_sync_once_request(entered[c].q)
               k == [entered[c] EXCEPT !.at = "done", !.last = l]
    <2>1. entered[c] \in SyncSites
      BY <1>10, SyncFields DEF SyncDeadline
    <2>2. entered[c].q \in Requests
      BY <2>1 DEF SyncSites
    <2>3. l \in Scopes \cup {Nothing}
      BY <2>2 DEF Scopes
    <2>4. entered' = [entered EXCEPT ![c] = k] /\ UNCHANGED <<core, mutex, ledger>>
      BY Zenon, <1>10 DEF SyncDeadline
    <2> HIDE DEF l
    <2>5. k \in SyncSites /\ k.at = "done"
      BY Zenon, <2>1, <2>3 DEF SyncSites
    <2> HIDE DEF k
    <2> QED BY Zenon, <1>c, <2>4, <2>5, CallMoves
  <1>11. ASSUME NEW c \in Threads, FinishSync(c) PROVE CoreInv'
    <2>1. entered[c] \in SyncSites
      BY <1>11, SyncFields DEF FinishSync
    <2> DEFINE l == IF entered[c].last = Nothing THEN core.last ELSE entered[c].last
    <2>a. l \in Scopes \cup {Nothing}
      BY <1>c, <2>1 DEF SyncSites
    <2>b. core' = [core EXCEPT !.inProgress = FALSE, !.last = l]
      BY <1>11, Zenon DEF FinishSync
    <2> HIDE DEF l
    <2>2. core' \in Cores /\ ~core'.inProgress /\ core'.locked = core.locked
      BY <1>c, <2>a, <2>b
    <2>3. UNCHANGED <<mutex, ledger>> /\ entered' = [entered EXCEPT ![c] = Idle]
      BY <1>11 DEF FinishSync, Answered
    <2>4. \A d \in Threads : entered'[d] = IF d = c THEN Idle ELSE entered[d]
      BY <2>3 DEF CoreInv, CoreType
    <2>5. CoreType'
      BY <2>2, <2>3, IdleSite DEF CoreInv, CoreType
    <2>6. Holding'
      BY <2>2, <2>3, <2>4, IdleSite DEF CoreInv, Holding
    <2>7. CoreGates'
      BY <2>2, <2>3, <2>4, IdleSite DEF CoreInv, CoreGates
    <2> QED BY <2>5, <2>6, <2>7 DEF CoreInv
  <1>12. ASSUME NEW c \in Threads, Require(c) PROVE CoreInv'
    <2> DEFINE k == [at |-> "working"]
    <2>1. k \in Sites /\ k.at = "working"
      BY DEF CallSites
    <2>2. entered' = [entered EXCEPT ![c] = k] /\ UNCHANGED <<core, mutex, ledger>> /\ ~ Syncing(c)
      BY <1>12, IdleSite DEF Require, Syncing
    <2> HIDE DEF k
    <2> QED BY Zenon, <1>c, <2>1, <2>2, CallMoves
  <1>13. ASSUME NEW c \in Threads, Worked(c) PROVE CoreInv'
    BY <1>13, CallEnds DEF Worked, Syncing
  <1>14. CASE UNCHANGED coreVars
    BY <1>14 DEF coreVars, CoreInv, CoreType, Holding, CoreGates, Syncing
  <1> QED BY <1>1, <1>2, <1>3, <1>4, <1>5, <1>6, <1>7, <1>8, <1>9, <1>10, <1>11, <1>12, <1>13, <1>14
          DEF CoreNext

(* For any number of host threads and tenants: no message is processed     *)
(* while the core is locked, and the in-progress flag never outlives the   *)
(* sync calls, whichever deadline passes (process_message keeps the mutex; *)
(* run_sync_request and resume_pending reset the flag on every way out).   *)
THEOREM CoreGatesHold == CoreSpec => []CoreGates
  <1>1. CoreSpec => []CoreInv
    BY CoreStart, CoreStep, PTL DEF CoreSpec
  <1>2. CoreInv => CoreGates
    BY DEF CoreInv
  <1> QED BY <1>1, <1>2, PTL

================================================================================
