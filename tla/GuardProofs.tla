----------------------------- MODULE GuardProofs -----------------------------
(***************************************************************************)
(* Proofs about guarded subscriptions: the contract of the guard holds for *)
(* any number of events and any decisions of the processor.                *)
(***************************************************************************)
EXTENDS GuardedSubscription, TLAPS

Positions(q) == 1 .. Len(q)

(* The events of a queue q, Flush aside, are in feed order, *)
Ordered(q) == \A i, j \in Positions(q) : i < j /\ q[i] # 0 /\ q[j] # 0 => q[i] < q[j]

(* and all beyond e. *)
Beyond(q, e) == \A j \in Positions(q) : q[j] # 0 => e < q[j]

HasFlush(q) == \E i \in Positions(q) : q[i] = 0
OneFlush(q) == \A i, j \in Positions(q) : q[i] = 0 /\ q[j] = 0 => i = j

(* Event e is before the marker. *)
AheadOfFlush(q, e) == \E i, j \in Positions(q) : i < j /\ q[i] = e /\ q[j] = 0

(* What Append does, position by position. *)
LEMMA Appended ==
    ASSUME NEW q \in Seq(Nat), NEW x \in Nat
    PROVE  /\ Append(q, x) \in Seq(Nat)
           /\ Len(Append(q, x)) = Len(q) + 1 /\ Len(q) \in Nat
           /\ Append(q, x)[Len(q) + 1] = x
           /\ \A i \in 1 .. Len(q) : Append(q, x)[i] = q[i] /\ q[i] \in Nat
  OBVIOUS

(* What recv does to the queue: the head leaves, the others move up. *)
LEMMA Received ==
    ASSUME NEW q \in Seq(Nat), q # <<>>
    PROVE  /\ Tail(q) \in Seq(Nat)
           /\ Len(Tail(q)) = Len(q) - 1 /\ Len(q) \in Nat \ {0}
           /\ Head(q) = q[1]
           /\ \A i \in 1 .. Len(q) : q[i] \in Nat
           /\ \A i \in 1 .. Len(q) - 1 : Tail(q)[i] = q[i + 1]
  OBVIOUS

(* Range, position by position. *)
LEMMA Members ==
    ASSUME NEW q \in Seq(Nat)
    PROVE  \A x : x \in Range(q) <=> \E i \in Positions(q) : q[i] = x
  BY DEF Range, Positions

(* The event log's call of the listener: the event is beyond all earlier   *)
(* ones, and behind a marker that is in the queue.                         *)
LEMMA EventAppended ==
    ASSUME NEW q \in Seq(Nat), NEW x \in Nat \ {0}, \A i \in Positions(q) : q[i] < x
    PROVE  /\ Ordered(q) => Ordered(Append(q, x))
           /\ \A e \in Nat : Beyond(q, e) /\ e < x => Beyond(Append(q, x), e)
           /\ OneFlush(q) => OneFlush(Append(q, x))
           /\ HasFlush(Append(q, x)) <=> HasFlush(q)
           /\ \A e : AheadOfFlush(q, e) => AheadOfFlush(Append(q, x), e)
           /\ \A i \in Positions(Append(q, x)) : Append(q, x)[i] <= x
           /\ Range(q) \subseteq Range(Append(q, x)) /\ x \in Range(Append(q, x))
  <1> DEFINE a == Append(q, x)
  <1>1. /\ a \in Seq(Nat) /\ Len(a) = Len(q) + 1 /\ Len(q) \in Nat /\ a[Len(q) + 1] = x
        /\ \A i \in 1 .. Len(q) : a[i] = q[i] /\ q[i] \in Nat
    BY Appended
  <1> HIDE DEF a
  <1>2. Positions(a) = Positions(q) \cup {Len(q) + 1}
    BY <1>1 DEF Positions
  <1>3. \A i \in Positions(q) : i \in Positions(a) /\ a[i] = q[i] /\ q[i] \in Nat /\ i \in Nat /\ i < Len(q) + 1
    BY <1>1, <1>2 DEF Positions
  <1>4. ASSUME Ordered(q) PROVE Ordered(a)
    <2> SUFFICES ASSUME NEW i \in Positions(a), NEW j \in Positions(a), i < j, a[i] # 0, a[j] # 0
                 PROVE  a[i] < a[j]
      BY DEF Ordered
    <2>1. i \in Positions(q)
      BY <1>1, <1>2, <1>3
    <2>2. CASE j \in Positions(q)
      BY <1>3, <1>4, <2>1, <2>2 DEF Ordered
    <2>3. CASE j = Len(q) + 1
      BY <1>1, <1>3, <2>1, <2>3
    <2> QED BY <1>2, <2>2, <2>3
  <1>5. \A e \in Nat : Beyond(q, e) /\ e < x => Beyond(a, e)
    BY <1>1, <1>2, <1>3 DEF Beyond
  <1>6. /\ OneFlush(q) => OneFlush(a)
        /\ HasFlush(a) <=> HasFlush(q)
    BY Zenon, <1>1, <1>2, <1>3 DEF OneFlush, HasFlush
  <1>7. \A e : AheadOfFlush(q, e) => AheadOfFlush(a, e)
    BY <1>3 DEF AheadOfFlush
  <1>8. ASSUME NEW i \in Positions(a) PROVE a[i] <= x
    <2>1. CASE i \in Positions(q)
      BY <1>3, <2>1
    <2>2. CASE i = Len(q) + 1
      BY <1>1, <2>2
    <2> QED BY <1>2, <2>1, <2>2
  <1>9. Range(q) \subseteq Range(a) /\ x \in Range(a)
    <2>1. /\ \A y : y \in Range(q) <=> \E i \in Positions(q) : q[i] = y
          /\ \A y : y \in Range(a) <=> \E i \in Positions(a) : a[i] = y
      BY SMTT(30), <1>1, Members
    <2> QED BY SMTT(30), <1>1, <1>2, <1>3, <2>1
  <1> QED BY Zenon, <1>4, <1>5, <1>6, <1>7, <1>8, <1>9 DEF a

(* flush: all that is in the queue is before the marker. *)
LEMMA FlushAppended ==
    ASSUME NEW q \in Seq(Nat)
    PROVE  /\ Append(q, 0) \in Seq(Nat)
           /\ Ordered(q) => Ordered(Append(q, 0))
           /\ \A e \in Nat : Beyond(q, e) => Beyond(Append(q, 0), e)
           /\ ~ HasFlush(q) => OneFlush(Append(q, 0))
           /\ HasFlush(Append(q, 0))
           /\ \A e \in Range(q) : AheadOfFlush(Append(q, 0), e)
           /\ \A i \in Positions(Append(q, 0)) : Append(q, 0)[i] = 0 \/ \E j \in Positions(q) : Append(q, 0)[i] = q[j]
           /\ Range(q) \subseteq Range(Append(q, 0))
  <1> DEFINE a == Append(q, 0)
  <1>1. /\ a \in Seq(Nat) /\ Len(a) = Len(q) + 1 /\ Len(q) \in Nat /\ a[Len(q) + 1] = 0
        /\ \A i \in 1 .. Len(q) : a[i] = q[i] /\ q[i] \in Nat
    BY Appended
  <1> HIDE DEF a
  <1>2. Positions(a) = Positions(q) \cup {Len(q) + 1}
    BY <1>1 DEF Positions
  <1>3. \A i \in Positions(q) : i \in Positions(a) /\ a[i] = q[i] /\ q[i] \in Nat /\ i \in Nat /\ i < Len(q) + 1
    BY <1>1, <1>2 DEF Positions
  <1>4. Ordered(q) => Ordered(a)
    BY Zenon, <1>1, <1>2, <1>3 DEF Ordered
  <1>5. \A e \in Nat : Beyond(q, e) => Beyond(a, e)
    BY <1>1, <1>2, <1>3 DEF Beyond
  <1>6. /\ ~ HasFlush(q) => OneFlush(a)
        /\ HasFlush(a)
    BY SMTT(30), <1>1, <1>2, <1>3 DEF OneFlush, HasFlush
  <1>7. \A e \in Range(q) : AheadOfFlush(a, e)
    BY <1>1, <1>2, <1>3, Members DEF AheadOfFlush
  <1>8. \A i \in Positions(a) : a[i] = 0 \/ \E j \in Positions(q) : a[i] = q[j]
    BY <1>1, <1>2, <1>3
  <1>9. Range(q) \subseteq Range(a)
    BY SMTT(30), <1>1, <1>2, <1>3, Members
  <1> QED BY Zenon, <1>1, <1>4, <1>5, <1>6, <1>7, <1>8, <1>9 DEF a

(* recv: the order is kept and the rest is beyond the event received; the  *)
(* marker is received when nothing is before it.                           *)
LEMMA HeadReceived ==
    ASSUME NEW q \in Seq(Nat), q # <<>>
    PROVE  /\ Tail(q) \in Seq(Nat) /\ Head(q) \in Nat
           /\ \E i \in Positions(q) : Head(q) = q[i]
           /\ \A i \in Positions(Tail(q)) : \E j \in Positions(q) : Tail(q)[i] = q[j]
           /\ Ordered(q) => Ordered(Tail(q))
           /\ \A e \in Nat : Beyond(q, e) => Beyond(Tail(q), e)
           /\ \A e \in Nat : Beyond(q, e) /\ Head(q) # 0 => e < Head(q)
           /\ Ordered(q) /\ Head(q) # 0 => Beyond(Tail(q), Head(q))
           /\ OneFlush(q) => OneFlush(Tail(q))
           /\ Head(q) # 0 => (HasFlush(Tail(q)) <=> HasFlush(q))
           /\ Head(q) # 0 => \A e : AheadOfFlush(q, e) => e = Head(q) \/ AheadOfFlush(Tail(q), e)
           /\ Head(q) = 0 => HasFlush(q)
           /\ Head(q) = 0 /\ OneFlush(q) => ~ HasFlush(Tail(q)) /\ \A e : ~ AheadOfFlush(q, e)
           /\ Range(q) = Range(Tail(q)) \cup {Head(q)}
  <1> DEFINE t == Tail(q)
             h == Head(q)
  <1>1. /\ t \in Seq(Nat) /\ Len(t) = Len(q) - 1 /\ Len(q) \in Nat \ {0} /\ h = q[1]
        /\ \A i \in 1 .. Len(q) : q[i] \in Nat
        /\ \A i \in 1 .. Len(q) - 1 : t[i] = q[i + 1]
    BY Received
  <1> HIDE DEF t, h
  <1>2. 1 \in Positions(q) /\ h \in Nat
    BY <1>1 DEF Positions
  <1>3. ASSUME NEW i \in Positions(t)
        PROVE  i \in Nat /\ i + 1 \in Positions(q) /\ t[i] = q[i + 1] /\ t[i] \in Nat /\ i >= 1
    <2>1. i \in Nat /\ i >= 1 /\ i \in 1 .. Len(q) - 1 /\ i + 1 \in 1 .. Len(q)
      BY <1>1 DEF Positions
    <2> QED BY SMTT(30), <1>1, <2>1 DEF Positions
  <1>4. ASSUME NEW j \in Positions(q)
        PROVE  j \in Nat /\ q[j] \in Nat /\ (j # 1 => j - 1 \in Positions(t) /\ t[j - 1] = q[j] /\ j > 1)
    <2>1. j \in Nat /\ q[j] \in Nat
      BY <1>1 DEF Positions
    <2>2. j # 1 => j > 1 /\ j - 1 \in 1 .. Len(q) - 1 /\ (j - 1) + 1 = j
      BY <1>1 DEF Positions
    <2> QED BY SMTT(30), <1>1, <2>1, <2>2 DEF Positions
  <1>5. Ordered(q) => Ordered(t)
    BY SMTT(30), <1>3 DEF Ordered
  <1>6. /\ \A e \in Nat : Beyond(q, e) => Beyond(t, e)
        /\ \A e \in Nat : Beyond(q, e) /\ h # 0 => e < h
    BY Zenon, <1>1, <1>2, <1>3 DEF Beyond
  <1>7. ASSUME Ordered(q), h # 0 PROVE Beyond(t, h)
    <2> SUFFICES ASSUME NEW j \in Positions(t), t[j] # 0 PROVE h < t[j]
      BY DEF Beyond
    <2>1. 1 < j + 1 /\ j + 1 \in Positions(q) /\ q[j + 1] # 0 /\ q[1] # 0
      BY SMTT(30), <1>1, <1>3, <1>7
    <2> QED BY Zenon, <1>1, <1>2, <1>3, <1>7, <2>1 DEF Ordered
  <1>8. OneFlush(q) => OneFlush(t)
    BY <1>3 DEF OneFlush
  <1>9. h # 0 => (HasFlush(t) <=> HasFlush(q))
    BY Zenon, <1>1, <1>2, <1>3, <1>4 DEF HasFlush
  <1>10. ASSUME h # 0, NEW e, AheadOfFlush(q, e) PROVE e = h \/ AheadOfFlush(t, e)
    <2>1. PICK i, j \in Positions(q) : i < j /\ q[i] = e /\ q[j] = 0
      BY <1>10 DEF AheadOfFlush
    <2>2. CASE i = 1
      BY <1>1, <2>1, <2>2
    <2>3. CASE i # 1
      <3>1. i - 1 \in Positions(t) /\ j - 1 \in Positions(t) /\ i - 1 < j - 1 /\ t[i - 1] = e /\ t[j - 1] = 0
        BY <1>4, <2>1, <2>3
      <3> QED BY <3>1 DEF AheadOfFlush
    <2> QED BY <2>2, <2>3
  <1>11. h = 0 => HasFlush(q)
    BY Zenon, <1>1, <1>2 DEF HasFlush
  <1>12. ASSUME h = 0, OneFlush(q) PROVE ~ HasFlush(t) /\ \A e : ~ AheadOfFlush(q, e)
    <2>1. \A j \in Positions(q) : q[j] = 0 => j = 1
      BY Zenon, <1>1, <1>2, <1>12 DEF OneFlush
    <2>2. ~ HasFlush(t)
      BY <1>3, <2>1 DEF HasFlush
    <2>3. \A e : ~ AheadOfFlush(q, e)
      BY <2>1 DEF AheadOfFlush, Positions
    <2> QED BY <2>2, <2>3
  <1>13. \A x : x \in Range(q) <=> x \in Range(t) \/ x = h
    <2>1. /\ \A x : x \in Range(q) <=> \E i \in Positions(q) : q[i] = x
          /\ \A x : x \in Range(t) <=> \E i \in Positions(t) : t[i] = x
      BY Zenon, <1>1, Members
    <2> QED BY Zenon, <1>1, <1>2, <1>3, <1>4, <2>1
  <1> QED BY Zenon, <1>1, <1>2, <1>3, <1>5, <1>6, <1>7, <1>8, <1>9, <1>10, <1>11, <1>12, <1>13 DEF t, h

-----------------------------------------------------------------------------
Closing == {"lock", "close", "report"}

Reported == \E i \in Positions(delivered) : delivered[i] = Error

CountsOK == feed \in Nat /\ feed <= MaxEvents /\ sent \in Nat /\ sent <= feed /\ snapshot \in Nat
QueueOK == queue \in Seq(Nat) /\ \A i \in Positions(queue) : queue[i] <= sent
DeliveredOK ==
    /\ delivered \in Seq(Nat)
    /\ \A i \in Positions(delivered) : delivered[i] = Error \/ delivered[i] <= sent
WorkerOK ==
    /\ worker \in [at : {"recv", "project"} \cup Closing, event : Nat] /\ worker.event <= sent
    /\ worker.at = "recv" <=> worker.event = 0
FlagsOK == guard \in [close : BOOLEAN, close_requested : BOOLEAN] /\ terminal \in BOOLEAN

GuardType == CountsOK /\ QueueOK /\ DeliveredOK /\ WorkerOK /\ FlagsOK

(* Events pass through the queue and the worker in feed order, behind the  *)
(* last one delivered.                                                     *)
InFeedOrder ==
    /\ Ordered(queue) /\ Beyond(queue, worker.event)
    /\ \A i \in Positions(delivered) : delivered[i] # Error =>
          /\ worker.event # 0 => delivered[i] < worker.event
          /\ Beyond(queue, delivered[i])

(* The terminal flag, the close that was asked for and the error reported  *)
(* follow each other.                                                      *)
FailureInOrder ==
    /\ terminal <=> worker.at \in Closing \/ Reported
    /\ worker.at # "recv" => ~ Reported
    /\ guard.close_requested <=> worker.at \in {"close", "report"} \/ Reported
    /\ guard.close <=> handler \notin {"subscribe", "install"}
    /\ worker.at = "report" \/ Reported =>
          handler \in {"subscribe", "install", "invoke"} \/ subscription = "closed"

(* There is one marker, while the handler waits for it, and what was due   *)
(* when it was enqueued is done, in the worker, or before it.              *)
FlushInOrder ==
    /\ OneFlush(queue) /\ (HasFlush(queue) <=> handler = "flushing")
    /\ 0 \notin due
    /\ handler = "flushing" =>
          \A e \in due : e \in projected \cup dropped \cup {worker.event} \/ AheadOfFlush(queue, e)

GuardInv ==
    /\ GuardType /\ InFeedOrder /\ FailureInOrder /\ FlushInOrder
    /\ ErrorIsLast /\ NoOrphan /\ FlushWaits /\ NoGap

(* A subscribe starts with nothing queued and nothing delivered. *)
LEMMA GuardStarts == GuardInit => GuardInv
  <1> SUFFICES ASSUME GuardInit PROVE GuardInv
    OBVIOUS
  <1>1. Positions(queue) = {} /\ Positions(delivered) = {} /\ queue \in Seq(Nat) /\ delivered \in Seq(Nat)
    BY DEF GuardInit, Positions
  <1>2. worker.at = "recv" /\ worker.event = 0 /\ ~ guard.close /\ ~ guard.close_requested
    BY DEF GuardInit, Waiting
  <1>3. CountsOK
    BY GuardAssumption DEF GuardInit, CountsOK
  <1>4. QueueOK /\ DeliveredOK
    BY <1>1 DEF QueueOK, DeliveredOK
  <1>5. WorkerOK /\ FlagsOK
    <2>1. worker \in [at : {"recv", "project"} \cup Closing, event : Nat]
      BY DEF GuardInit, Waiting
    <2>2. FlagsOK
      BY Zenon DEF GuardInit, FlagsOK
    <2> QED BY <1>2, <2>1, <2>2 DEF GuardInit, WorkerOK
  <1>6. GuardType
    BY <1>3, <1>4, <1>5 DEF GuardType
  <1>7. InFeedOrder
    BY <1>1 DEF InFeedOrder, Ordered, Beyond
  <1>8. FlushInOrder
    BY <1>1 DEF GuardInit, FlushInOrder, OneFlush, HasFlush
  <1>9. ErrorIsLast
    BY <1>1 DEF ErrorIsLast, Positions
  <1>10. ~ Reported
    BY <1>1 DEF Reported
  <1>11. FailureInOrder /\ NoOrphan /\ FlushWaits /\ NoGap
    BY <1>2, <1>10 DEF GuardInit, FailureInOrder, NoOrphan, FlushWaits, NoGap, Closing
  <1> QED BY <1>6, <1>7, <1>8, <1>9, <1>11 DEF GuardInv

(* The positions and the record fields, one by one. *)
LEMMA GuardTypes ==
    GuardType => /\ MaxEvents \in Nat /\ Error = MaxEvents + 1
                 /\ feed \in Nat /\ feed <= MaxEvents /\ sent \in Nat /\ sent <= feed /\ snapshot \in Nat
                 /\ \A i \in Positions(queue) : queue[i] \in Nat /\ queue[i] <= sent
                 /\ \A i \in Positions(delivered) : delivered[i] \in Nat
                 /\ \A i \in Positions(delivered) : delivered[i] # Error => delivered[i] <= sent
                 /\ worker.event \in Nat /\ worker.event <= sent
  <1> SUFFICES ASSUME GuardType
               PROVE  /\ MaxEvents \in Nat /\ Error = MaxEvents + 1
                      /\ feed \in Nat /\ feed <= MaxEvents /\ sent \in Nat /\ sent <= feed /\ snapshot \in Nat
                      /\ \A i \in Positions(queue) : queue[i] \in Nat /\ queue[i] <= sent
                      /\ \A i \in Positions(delivered) : delivered[i] \in Nat
                      /\ \A i \in Positions(delivered) : delivered[i] # Error => delivered[i] <= sent
                      /\ worker.event \in Nat /\ worker.event <= sent
    OBVIOUS
  <1>1. MaxEvents \in Nat /\ Error = MaxEvents + 1
    BY GuardAssumption DEF Error
  <1>2. \A i \in Positions(queue) : queue[i] \in Nat /\ queue[i] <= sent
    BY DEF GuardType, QueueOK, Positions
  <1>3. \A i \in Positions(delivered) : delivered[i] \in Nat
    BY DEF GuardType, DeliveredOK, Positions
  <1>4. worker.event \in Nat /\ worker.event <= sent
    BY DEF GuardType, WorkerOK
  <1> QED BY <1>1, <1>2, <1>3, <1>4 DEF GuardType, CountsOK, DeliveredOK

-----------------------------------------------------------------------------
(* A commit only moves the head of the feed. *)
LEMMA CommitKeeps == GuardInv /\ CommitEvent => GuardInv'
  <1> SUFFICES ASSUME GuardInv, CommitEvent PROVE GuardInv'
    OBVIOUS
  <1>1. GuardType'
    BY GuardAssumption DEF GuardInv, GuardType, CommitEvent, CountsOK, QueueOK, DeliveredOK, WorkerOK, FlagsOK
  <1>2. (InFeedOrder /\ FlushInOrder)'
    BY DEF GuardInv, CommitEvent, InFeedOrder, FlushInOrder
  <1>3. (FailureInOrder /\ ErrorIsLast /\ NoOrphan /\ FlushWaits)'
    BY DEF GuardInv, CommitEvent, FailureInOrder, Reported, ErrorIsLast, NoOrphan, FlushWaits
  <1>4. NoGap'
    BY DEF GuardInv, GuardType, CountsOK, CommitEvent, NoGap
  <1> QED BY <1>1, <1>2, <1>3, <1>4 DEF GuardInv

(* The event log hands over the next event, beyond all the earlier ones. *)
LEMMA DeliverKeeps == GuardInv /\ Deliver => GuardInv'
  <1> SUFFICES ASSUME GuardInv, Deliver PROVE GuardInv'
    OBVIOUS
  <1>1. GuardType /\ InFeedOrder /\ FlushInOrder /\ NoGap
    BY DEF GuardInv
  <1>t. /\ MaxEvents \in Nat /\ feed \in Nat /\ sent \in Nat /\ snapshot \in Nat
        /\ \A i \in Positions(queue) : queue[i] \in Nat /\ queue[i] <= sent
        /\ \A i \in Positions(delivered) : delivered[i] \in Nat
        /\ \A i \in Positions(delivered) : delivered[i] # Error => delivered[i] <= sent
        /\ worker.event \in Nat /\ worker.event <= sent
    BY <1>1, GuardTypes
  <1>2. queue \in Seq(Nat) /\ sent + 1 \in Nat \ {0} /\ \A i \in Positions(queue) : queue[i] < sent + 1
    BY <1>1, <1>t DEF GuardType, QueueOK
  <1>3. /\ sent' = sent + 1 /\ sent + 1 <= feed /\ queue' = Append(queue, sent + 1)
        /\ UNCHANGED <<feed, subscription, worker, terminal, guard, handler, snapshot, delivered, projected, dropped, due>>
    BY <1>t DEF Deliver
  <1>4. GuardType'
    <2>1. CountsOK'
      BY <1>1, <1>3, <1>t DEF GuardType, CountsOK
    <2>2. QueueOK'
      BY Zenon, <1>2, <1>3, EventAppended, Appended DEF QueueOK
    <2>3. DeliveredOK'
      BY <1>1, <1>3, <1>t DEF GuardType, DeliveredOK
    <2>4. WorkerOK'
      BY <1>1, <1>3, <1>t DEF GuardType, WorkerOK
    <2>5. FlagsOK'
      BY <1>1, <1>3 DEF GuardType, FlagsOK
    <2> QED BY <2>1, <2>2, <2>3, <2>4, <2>5 DEF GuardType
  <1>5. InFeedOrder'
    <2>1. /\ Ordered(queue')
          /\ \A e \in Nat : Beyond(queue, e) /\ e < sent + 1 => Beyond(queue', e)
      BY <1>1, <1>2, <1>3, EventAppended DEF InFeedOrder
    <2>2. \A e \in Nat : e <= sent => e < sent + 1
      BY <1>t
    <2> QED BY <1>1, <1>3, <1>t, <2>1, <2>2 DEF InFeedOrder
  <1>6. FlushInOrder'
    <2>1. /\ OneFlush(queue') /\ (HasFlush(queue') <=> HasFlush(queue))
          /\ \A e : AheadOfFlush(queue, e) => AheadOfFlush(queue', e)
      BY <1>1, <1>2, <1>3, EventAppended DEF FlushInOrder
    <2> QED BY <1>1, <1>3, <2>1 DEF FlushInOrder
  <1>7. (FailureInOrder /\ ErrorIsLast /\ NoOrphan /\ FlushWaits)'
    BY <1>3 DEF GuardInv, FailureInOrder, Reported, ErrorIsLast, NoOrphan, FlushWaits
  <1>8. NoGap'
    <2>1. Range(queue) \subseteq Range(queue') /\ sent + 1 \in Range(queue')
      BY <1>2, <1>3, EventAppended
    <2>2. \A e \in Nat : e > sent => e = sent + 1 \/ e > sent + 1
      BY <1>t
    <2>3. \A e \in (snapshot + 1) .. feed : e \in Nat
      BY <1>t
    <2> QED BY <1>1, <1>3, <2>1, <2>2, <2>3 DEF NoGap
  <1> QED BY <1>4, <1>5, <1>6, <1>7, <1>8 DEF GuardInv

(* Subscribing: everything before the head of the feed counts as sent.     *)
LEMMA SubscribeKeeps == GuardInv /\ Subscribe => GuardInv'
  <1> SUFFICES ASSUME GuardInv, Subscribe PROVE GuardInv'
    OBVIOUS
  <1>1. GuardType /\ InFeedOrder /\ FlushInOrder /\ FailureInOrder
    BY DEF GuardInv
  <1>t. /\ feed \in Nat /\ sent \in Nat /\ sent <= feed
        /\ \A i \in Positions(queue) : queue[i] \in Nat /\ queue[i] <= sent
        /\ \A i \in Positions(delivered) : delivered[i] \in Nat
        /\ \A i \in Positions(delivered) : delivered[i] # Error => delivered[i] <= sent
        /\ worker.event \in Nat /\ worker.event <= sent
    BY <1>1, GuardTypes
  <1>2. /\ sent' = feed /\ handler = "subscribe" /\ handler' = "install"
        /\ UNCHANGED <<feed, queue, worker, terminal, guard, snapshot, delivered, projected, dropped, due>>
    BY DEF Subscribe
  <1>3. GuardType'
    <2>1. CountsOK'
      BY <1>1, <1>2, <1>t DEF GuardType, CountsOK
    <2>2. QueueOK' /\ DeliveredOK'
      BY <1>1, <1>2, <1>t DEF GuardType, QueueOK, DeliveredOK
    <2>3. WorkerOK' /\ FlagsOK'
      BY <1>1, <1>2, <1>t DEF GuardType, WorkerOK, FlagsOK
    <2> QED BY <2>1, <2>2, <2>3 DEF GuardType
  <1>4. (InFeedOrder /\ FlushInOrder)'
    BY <1>1, <1>2 DEF InFeedOrder, FlushInOrder
  <1>5. (FailureInOrder /\ ErrorIsLast /\ NoOrphan /\ FlushWaits /\ NoGap)'
    BY <1>1, <1>2 DEF GuardInv, FailureInOrder, Reported, ErrorIsLast, NoOrphan, FlushWaits, NoGap
  <1> QED BY <1>3, <1>4, <1>5 DEF GuardInv

(* The handler's steps on the close callback and after the flush leave     *)
(* queue and worker alone.                                                 *)
LEMMA QueueAlone ==
    ASSUME GuardInv, UNCHANGED <<feed, sent, queue, worker, terminal, delivered, projected, dropped, due>>,
           snapshot' \in Nat, guard' \in [close : BOOLEAN, close_requested : BOOLEAN],
           handler' = handler \/ "flushing" \notin {handler, handler'}
    PROVE  (GuardType /\ InFeedOrder /\ FlushInOrder /\ ErrorIsLast)' /\ (Reported' <=> Reported)
  <1>1. GuardType'
    BY DEF GuardInv, GuardType, CountsOK, QueueOK, DeliveredOK, WorkerOK, FlagsOK
  <1>2. (InFeedOrder /\ FlushInOrder)'
    BY DEF GuardInv, InFeedOrder, FlushInOrder
  <1>3. ErrorIsLast' /\ (Reported' <=> Reported)
    BY DEF GuardInv, ErrorIsLast, Reported
  <1> QED BY <1>1, <1>2, <1>3

(* install_close sees the request of a close that came first. *)
LEMMA InstallKeeps == GuardInv /\ InstallClose => GuardInv'
  <1> SUFFICES ASSUME GuardInv, InstallClose PROVE GuardInv'
    OBVIOUS
  <1>1. /\ guard \in [close : BOOLEAN, close_requested : BOOLEAN] /\ snapshot \in Nat
        /\ FailureInOrder /\ NoOrphan /\ FlushWaits /\ NoGap
    BY DEF GuardInv, GuardType, FlagsOK, CountsOK
  <1>2. /\ guard' \in [close : BOOLEAN, close_requested : BOOLEAN]
        /\ guard'.close = TRUE /\ guard'.close_requested = guard.close_requested
    BY Zenon, <1>1 DEF InstallClose
  <1>3. /\ handler = "install" /\ handler' = IF guard.close_requested THEN "invoke" ELSE "flush"
        /\ UNCHANGED <<feed, subscription, sent, queue, worker, terminal, snapshot, delivered, projected, dropped, due>>
    BY DEF InstallClose
  <1>4. (GuardType /\ InFeedOrder /\ FlushInOrder /\ ErrorIsLast)' /\ (Reported' <=> Reported)
    BY <1>1, <1>2, <1>3, QueueAlone
  <1>5. FailureInOrder'
    BY <1>1, <1>2, <1>3, <1>4 DEF FailureInOrder
  <1>6. (NoOrphan /\ FlushWaits /\ NoGap)'
    BY <1>3 DEF NoOrphan, FlushWaits, NoGap
  <1> QED BY <1>4, <1>5, <1>6 DEF GuardInv

LEMMA InvokeKeeps == GuardInv /\ InvokeClose => GuardInv'
  <1> SUFFICES ASSUME GuardInv, InvokeClose PROVE GuardInv'
    OBVIOUS
  <1>1. /\ guard \in [close : BOOLEAN, close_requested : BOOLEAN] /\ snapshot \in Nat
        /\ FailureInOrder
    BY DEF GuardInv, GuardType, FlagsOK, CountsOK
  <1>2. /\ handler = "invoke" /\ handler' = "flush" /\ subscription' = "closed"
        /\ UNCHANGED <<feed, sent, queue, worker, terminal, guard, snapshot, delivered, projected, dropped, due>>
    BY DEF InvokeClose
  <1>3. (GuardType /\ InFeedOrder /\ FlushInOrder /\ ErrorIsLast)' /\ (Reported' <=> Reported)
    BY <1>1, <1>2, QueueAlone
  <1>4. (FailureInOrder /\ NoOrphan /\ FlushWaits /\ NoGap)'
    BY <1>1, <1>2, <1>3 DEF FailureInOrder, NoOrphan, FlushWaits, NoGap
  <1> QED BY <1>3, <1>4 DEF GuardInv

(* What is in the queue when flush is called is before the marker. *)
LEMMA StartFlushKeeps == GuardInv /\ StartFlush => GuardInv'
  <1> SUFFICES ASSUME GuardInv, StartFlush PROVE GuardInv'
    OBVIOUS
  <1>1. GuardType /\ InFeedOrder /\ FlushInOrder /\ FailureInOrder /\ ErrorIsLast
    BY DEF GuardInv
  <1>t. /\ sent \in Nat
        /\ \A i \in Positions(queue) : queue[i] \in Nat /\ queue[i] <= sent
        /\ \A i \in Positions(delivered) : delivered[i] \in Nat
        /\ worker.event \in Nat
    BY <1>1, GuardTypes
  <1>2. /\ queue' = Append(queue, 0) /\ handler = "flush" /\ handler' = "flushing"
        /\ due' = (Range(queue) \cup {worker.event}) \ {0}
        /\ UNCHANGED <<feed, subscription, sent, worker, terminal, guard, snapshot, delivered, projected, dropped>>
    BY DEF StartFlush, EnqueueFlush, AfterFlush, Flush
  <1>3. queue \in Seq(Nat) /\ ~ HasFlush(queue)
    BY <1>1, <1>2 DEF GuardType, QueueOK, FlushInOrder
  <1>4. /\ queue' \in Seq(Nat) /\ Ordered(queue') /\ OneFlush(queue') /\ HasFlush(queue')
        /\ \A e \in Nat : Beyond(queue, e) => Beyond(queue', e)
        /\ \A e \in Range(queue) : AheadOfFlush(queue', e)
        /\ \A i \in Positions(queue') : queue'[i] = 0 \/ \E j \in Positions(queue) : queue'[i] = queue[j]
    <2> DEFINE a == Append(queue, 0)
    <2>1. /\ a \in Seq(Nat) /\ (Ordered(queue) => Ordered(a)) /\ OneFlush(a) /\ HasFlush(a)
          /\ \A e \in Nat : Beyond(queue, e) => Beyond(a, e)
          /\ \A e \in Range(queue) : AheadOfFlush(a, e)
          /\ \A i \in Positions(a) : a[i] = 0 \/ \E j \in Positions(queue) : a[i] = queue[j]
      BY Zenon, <1>3, FlushAppended
    <2>2. a = queue'
      BY <1>2
    <2> HIDE DEF a
    <2> QED BY <1>1, <2>1, <2>2 DEF InFeedOrder
  <1>5. GuardType'
    <2>1. QueueOK'
      <3> SUFFICES ASSUME NEW i \in Positions(queue') PROVE queue'[i] <= sent'
        BY <1>4 DEF QueueOK
      <3>0. sent' = sent /\ sent \in Nat
        BY <1>2, <1>t
      <3>1. CASE queue'[i] = 0
        BY <3>0, <3>1
      <3>2. CASE \E j \in Positions(queue) : queue'[i] = queue[j]
        BY Zenon, <1>2, <1>t, <3>2
      <3> QED BY <1>4, <3>1, <3>2
    <2> QED BY <1>1, <1>2, <2>1 DEF GuardType, CountsOK, DeliveredOK, WorkerOK, FlagsOK
  <1>6. InFeedOrder'
    BY <1>1, <1>2, <1>4, <1>t DEF InFeedOrder
  <1>7. FlushInOrder'
    BY <1>2, <1>4 DEF FlushInOrder
  <1>8. (FailureInOrder /\ ErrorIsLast /\ NoOrphan /\ FlushWaits /\ NoGap)'
    BY <1>1, <1>2 DEF FailureInOrder, Reported, ErrorIsLast, NoOrphan, FlushWaits, NoGap
  <1> QED BY <1>5, <1>6, <1>7, <1>8 DEF GuardInv

(* Nothing is newer than the snapshot when it is read; a query that fails  *)
(* closes the subscription.                                                *)
LEMMA SnapshotKeeps == GuardInv /\ (ReadSnapshot \/ SnapshotFails) => GuardInv'
  <1> SUFFICES ASSUME GuardInv, ReadSnapshot \/ SnapshotFails PROVE GuardInv'
    OBVIOUS
  <1>1. /\ guard \in [close : BOOLEAN, close_requested : BOOLEAN] /\ snapshot \in Nat /\ feed \in Nat
        /\ FailureInOrder /\ FlushWaits
    BY DEF GuardInv, GuardType, FlagsOK, CountsOK
  <1>2. /\ handler = "snapshot" /\ snapshot' \in Nat
        /\ \/ handler' = "done" /\ snapshot' = feed /\ subscription' = subscription
           \/ handler' = "failed" /\ subscription' = "closed"
        /\ UNCHANGED <<feed, sent, queue, worker, terminal, guard, delivered, projected, dropped, due>>
    BY <1>1 DEF ReadSnapshot, SnapshotFails, ClosedOnError
  <1>3. (GuardType /\ InFeedOrder /\ FlushInOrder /\ ErrorIsLast)' /\ (Reported' <=> Reported)
    BY <1>1, <1>2, QueueAlone
  <1>4. (FailureInOrder /\ NoOrphan /\ FlushWaits)'
    BY <1>1, <1>2, <1>3 DEF FailureInOrder, NoOrphan, FlushWaits
  <1>5. NoGap'
    <2>1. (feed + 1) .. feed = {}
      BY <1>1
    <2> QED BY <1>2, <2>1 DEF NoGap
  <1> QED BY <1>3, <1>4, <1>5 DEF GuardInv

LEMMA CallerClosesKeeps == GuardInv /\ CallerCloses => GuardInv'
  <1> SUFFICES ASSUME GuardInv, CallerCloses PROVE GuardInv'
    OBVIOUS
  <1>1. /\ guard \in [close : BOOLEAN, close_requested : BOOLEAN] /\ snapshot \in Nat
        /\ FailureInOrder /\ FlushWaits
    BY DEF GuardInv, GuardType, FlagsOK, CountsOK
  <1>2. /\ subscription' = "closed"
        /\ UNCHANGED <<feed, sent, queue, worker, terminal, guard, handler, snapshot, delivered, projected, dropped, due>>
    BY DEF CallerCloses
  <1>3. (GuardType /\ InFeedOrder /\ FlushInOrder /\ ErrorIsLast)' /\ (Reported' <=> Reported)
    BY <1>1, <1>2, QueueAlone
  <1>4. (FailureInOrder /\ NoOrphan /\ FlushWaits /\ NoGap)'
    BY <1>1, <1>2, <1>3 DEF FailureInOrder, NoOrphan, FlushWaits, NoGap
  <1> QED BY <1>3, <1>4 DEF GuardInv

-----------------------------------------------------------------------------
(* recv hands the next event to the processor, drops it after a failure,   *)
(* and answers the marker once all before it is done.                      *)
LEMMA ReceiveKeeps == GuardInv /\ Receive => GuardInv'
  <1> SUFFICES ASSUME GuardInv, Receive PROVE GuardInv'
    OBVIOUS
  <1>1. GuardType /\ InFeedOrder /\ FlushInOrder /\ FailureInOrder /\ ErrorIsLast /\ NoOrphan /\ FlushWaits /\ NoGap
    BY DEF GuardInv
  <1>t. /\ sent \in Nat
        /\ \A i \in Positions(queue) : queue[i] \in Nat /\ queue[i] <= sent
        /\ \A i \in Positions(delivered) : delivered[i] \in Nat
    BY <1>1, GuardTypes
  <1>2. /\ worker.at = "recv" /\ queue # <<>> /\ queue \in Seq(Nat) /\ queue' = Tail(queue)
        /\ UNCHANGED <<feed, subscription, sent, terminal, guard, snapshot, delivered, projected, due>>
    BY <1>1 DEF Receive, GuardType, QueueOK
  <1> DEFINE h == Head(queue)
  <1>3. /\ queue' \in Seq(Nat) /\ h \in Nat
        /\ \E i \in Positions(queue) : h = queue[i]
        /\ \A i \in Positions(queue') : \E j \in Positions(queue) : queue'[i] = queue[j]
        /\ Ordered(queue) => Ordered(queue')
        /\ \A e \in Nat : Beyond(queue, e) => Beyond(queue', e)
        /\ \A e \in Nat : Beyond(queue, e) /\ h # 0 => e < h
        /\ Ordered(queue) /\ h # 0 => Beyond(queue', h)
        /\ OneFlush(queue) => OneFlush(queue')
        /\ h # 0 => (HasFlush(queue') <=> HasFlush(queue))
        /\ h # 0 => \A e : AheadOfFlush(queue, e) => e = h \/ AheadOfFlush(queue', e)
        /\ h = 0 => HasFlush(queue)
        /\ h = 0 /\ OneFlush(queue) => ~ HasFlush(queue') /\ \A e : ~ AheadOfFlush(queue, e)
        /\ Range(queue) = Range(queue') \cup {h}
    <2> DEFINE t == Tail(queue)
    <2>1. /\ t \in Seq(Nat) /\ h \in Nat
          /\ \E i \in Positions(queue) : h = queue[i]
          /\ \A i \in Positions(t) : \E j \in Positions(queue) : t[i] = queue[j]
          /\ Ordered(queue) => Ordered(t)
          /\ \A e \in Nat : Beyond(queue, e) => Beyond(t, e)
          /\ \A e \in Nat : Beyond(queue, e) /\ h # 0 => e < h
          /\ Ordered(queue) /\ h # 0 => Beyond(t, h)
          /\ OneFlush(queue) => OneFlush(t)
          /\ h # 0 => (HasFlush(t) <=> HasFlush(queue))
          /\ h # 0 => \A e : AheadOfFlush(queue, e) => e = h \/ AheadOfFlush(t, e)
          /\ h = 0 => HasFlush(queue)
          /\ h = 0 /\ OneFlush(queue) => ~ HasFlush(t) /\ \A e : ~ AheadOfFlush(queue, e)
          /\ Range(queue) = Range(t) \cup {h}
      BY Zenon, <1>2, HeadReceived
    <2>2. t = queue'
      BY <1>2
    <2> HIDE DEF t, h
    <2> QED BY <2>1, <2>2
  <1>4. /\ h = 0 => /\ handler' = IF handler = "flushing" THEN "snapshot" ELSE handler
                    /\ UNCHANGED <<worker, dropped>>
        /\ h # 0 /\ terminal => /\ dropped' = dropped \cup {h}
                                /\ UNCHANGED <<worker, handler>>
        /\ h # 0 /\ ~ terminal => /\ worker' = [at |-> "project", event |-> h]
                                  /\ UNCHANGED <<dropped, handler>>
    <2>1. IF h = 0
          THEN /\ handler' = IF handler = "flushing" THEN "snapshot" ELSE handler
               /\ UNCHANGED <<worker, dropped>>
          ELSE /\ UNCHANGED handler
               /\ IF terminal
                  THEN dropped' = dropped \cup {h} /\ UNCHANGED worker
                  ELSE worker' = [at |-> "project", event |-> h] /\ UNCHANGED dropped
      BY Zenon DEF Receive, Flush, Fenced
    <2> HIDE DEF h
    <2> QED BY <2>1
  <1> HIDE DEF h
  <1>5. worker.event = 0 /\ worker.at \notin Closing /\ (terminal <=> Reported)
    BY <1>1, <1>2 DEF GuardType, WorkerOK, FailureInOrder, Closing
  <1>6. h <= sent
    BY <1>3, <1>t
  <1>q. QueueOK'
    BY Zenon, <1>2, <1>3, <1>t DEF QueueOK
  <1>r. (CountsOK /\ DeliveredOK /\ FlagsOK /\ ErrorIsLast)' /\ (Reported' <=> Reported)
    BY <1>1, <1>2 DEF GuardType, CountsOK, DeliveredOK, FlagsOK, ErrorIsLast, Reported
  <1>7. CASE h = 0
    <2>1. handler = "flushing" /\ handler' = "snapshot" /\ UNCHANGED <<worker, dropped>>
      BY <1>1, <1>3, <1>4, <1>7 DEF FlushInOrder
    <2>2. WorkerOK'
      BY <1>1, <1>2, <2>1 DEF GuardType, WorkerOK
    <2>3. InFeedOrder'
      BY <1>1, <1>2, <1>3, <1>5, <1>t, <2>1 DEF InFeedOrder
    <2>4. FailureInOrder'
      BY <1>1, <1>2, <1>r, <2>1 DEF FailureInOrder
    <2>5. (FlushInOrder /\ FlushWaits)'
      BY <1>1, <1>2, <1>3, <1>5, <1>7, <2>1 DEF FlushInOrder, FlushWaits
    <2>6. (NoOrphan /\ NoGap)'
      BY <2>1 DEF NoOrphan, NoGap
    <2> QED BY <1>q, <1>r, <2>2, <2>3, <2>4, <2>5, <2>6 DEF GuardInv, GuardType
  <1>8. CASE h # 0 /\ terminal
    <2>1. dropped' = dropped \cup {h} /\ UNCHANGED <<worker, handler>> /\ Reported
      BY <1>4, <1>5, <1>8
    <2>2. WorkerOK'
      BY <1>1, <1>2, <2>1 DEF GuardType, WorkerOK
    <2>3. InFeedOrder'
      BY <1>1, <1>2, <1>3, <1>5, <1>t, <2>1 DEF InFeedOrder
    <2>4. FailureInOrder'
      BY <1>1, <1>2, <1>r, <2>1 DEF FailureInOrder
    <2>5. (FlushInOrder /\ FlushWaits)'
      BY <1>1, <1>2, <1>3, <1>8, <2>1 DEF FlushInOrder, FlushWaits
    <2>6. (NoOrphan /\ NoGap)'
      BY <1>1, <1>2, <2>1 DEF NoOrphan, NoGap, FailureInOrder
    <2> QED BY <1>q, <1>r, <2>2, <2>3, <2>4, <2>5, <2>6 DEF GuardInv, GuardType
  <1>9. CASE h # 0 /\ ~ terminal
    <2>1. /\ worker' = [at |-> "project", event |-> h] /\ worker'.at = "project" /\ worker'.event = h
          /\ UNCHANGED <<dropped, handler>> /\ ~ Reported
      BY <1>4, <1>5, <1>9
    <2>2. WorkerOK'
      <3>1. worker' \in [at : {"recv", "project"} \cup Closing, event : Nat]
        BY <1>3, <2>1
      <3> QED BY <1>2, <1>6, <1>9, <2>1, <3>1 DEF WorkerOK
    <2>3. InFeedOrder'
      BY <1>1, <1>2, <1>3, <1>9, <1>t, <2>1 DEF InFeedOrder
    <2>4. FailureInOrder'
      BY <1>1, <1>2, <1>5, <1>9, <1>r, <2>1 DEF FailureInOrder, Closing
    <2>5. (FlushInOrder /\ FlushWaits)'
      BY <1>1, <1>2, <1>3, <1>5, <1>9, <2>1 DEF FlushInOrder, FlushWaits
    <2>6. (NoOrphan /\ NoGap)'
      <3>1. \A e \in (snapshot + 1) .. feed : e # 0
        BY <1>1 DEF GuardType, CountsOK
      <3> QED BY <1>1, <1>2, <1>3, <1>5, <2>1, <3>1 DEF NoOrphan, NoGap
    <2> QED BY <1>q, <1>r, <2>2, <2>3, <2>4, <2>5, <2>6 DEF GuardInv, GuardType
  <1> QED BY <1>7, <1>8, <1>9

(* The processor's decision: an event is delivered behind the earlier      *)
(* ones, or not at all, or the worker starts to close.                     *)
LEMMA ProjectKeeps == ASSUME GuardInv, NEW d \in Decisions, Project(d) PROVE GuardInv'
  <1>1. GuardType /\ InFeedOrder /\ FlushInOrder /\ FailureInOrder /\ ErrorIsLast /\ NoOrphan /\ FlushWaits /\ NoGap
    BY DEF GuardInv
  <1>t. /\ MaxEvents \in Nat /\ Error = MaxEvents + 1 /\ sent \in Nat /\ sent <= feed /\ feed <= MaxEvents /\ feed \in Nat
        /\ \A i \in Positions(delivered) : delivered[i] \in Nat
        /\ worker.event \in Nat /\ worker.event <= sent
    BY <1>1, GuardTypes
  <1>2. /\ worker.at = "project"
        /\ UNCHANGED <<feed, subscription, sent, queue, guard, handler, snapshot, dropped, due>>
    BY DEF Project
  <1>3. worker.event # 0 /\ ~ Reported /\ ~ terminal
    BY <1>1, <1>2 DEF GuardType, WorkerOK, FailureInOrder, Closing
  <1>4. CASE d = "fail"
    <2>1. terminal' = TRUE /\ worker' = [worker EXCEPT !.at = "lock"] /\ UNCHANGED <<delivered, projected>>
      BY <1>4 DEF Project
    <2>2. /\ worker' \in [at : {"recv", "project"} \cup Closing, event : Nat]
          /\ worker'.at = "lock" /\ worker'.event = worker.event
      BY <1>1, <2>1 DEF GuardType, WorkerOK, Closing
    <2>3. GuardType'
      <3>1. (CountsOK /\ QueueOK /\ DeliveredOK)'
        BY <1>1, <1>2, <2>1 DEF GuardType, CountsOK, QueueOK, DeliveredOK
      <3>2. WorkerOK'
        BY <1>2, <1>3, <1>t, <2>2 DEF WorkerOK
      <3>3. FlagsOK'
        BY <1>1, <1>2, <2>1 DEF GuardType, FlagsOK
      <3> QED BY <3>1, <3>2, <3>3 DEF GuardType
    <2>4. (InFeedOrder /\ FlushInOrder /\ ErrorIsLast /\ NoOrphan /\ FlushWaits /\ NoGap)'
      BY <1>1, <1>2, <2>1, <2>2 DEF InFeedOrder, FlushInOrder, ErrorIsLast, NoOrphan, FlushWaits, NoGap
    <2>5. Reported' <=> Reported
      BY <2>1 DEF Reported
    <2>6. FailureInOrder'
      BY <1>1, <1>2, <1>3, <2>1, <2>2, <2>5 DEF FailureInOrder, Closing
    <2> QED BY <2>3, <2>4, <2>6 DEF GuardInv
  <1>5. CASE d # "fail"
    <2>1. /\ delivered' = (IF d = "forward" THEN Append(delivered, worker.event) ELSE delivered)
          /\ projected' = projected \cup {worker.event}
          /\ worker' = [at |-> "recv", event |-> 0] /\ worker'.at = "recv" /\ worker'.event = 0
          /\ UNCHANGED terminal
      BY <1>5 DEF Project, Waiting
    <2>2. delivered \in Seq(Nat)
      BY <1>1 DEF GuardType, DeliveredOK
    <2>3. \A i \in Positions(delivered) : delivered[i] # Error /\ delivered[i] < worker.event
      BY <1>1, <1>3 DEF InFeedOrder, Reported
    <2>4. /\ delivered' \in Seq(Nat)
          /\ \A i \in Positions(delivered') : delivered'[i] = worker.event \/ \E j \in Positions(delivered) : delivered'[i] = delivered[j]
      BY <1>t, <2>1, <2>2, Appended DEF Positions
    <2>5. ErrorIsLast'
      <3>1. CASE d # "forward"
        BY <1>1, <2>1, <3>1 DEF ErrorIsLast
      <3>2. CASE d = "forward"
        <4> SUFFICES ASSUME NEW i \in 1 .. Len(delivered'), NEW j \in 1 .. Len(delivered'), i < j
                     PROVE  delivered'[i] < delivered'[j]
          BY DEF ErrorIsLast
        <4>1. /\ Len(delivered') = Len(delivered) + 1 /\ Len(delivered) \in Nat
              /\ delivered'[Len(delivered) + 1] = worker.event
              /\ \A k \in 1 .. Len(delivered) : delivered'[k] = delivered[k]
          BY <1>t, <2>1, <2>2, <3>2, Appended
        <4>2. i \in 1 .. Len(delivered)
          BY <4>1
        <4>3. CASE j \in 1 .. Len(delivered)
          BY <1>1, <4>1, <4>2, <4>3 DEF ErrorIsLast
        <4>4. CASE j = Len(delivered) + 1
          BY <2>3, <4>1, <4>2, <4>4 DEF Positions
        <4> QED BY <4>1, <4>3, <4>4
      <3> QED BY <3>1, <3>2
    <2>6. GuardType'
      <3>1. (CountsOK /\ QueueOK)'
        BY <1>1, <1>2 DEF GuardType, CountsOK, QueueOK
      <3>2. DeliveredOK'
        BY SMTT(30), <1>1, <1>2, <1>t, <2>4 DEF GuardType, DeliveredOK
      <3>3. worker' \in [at : {"recv", "project"} \cup Closing, event : Nat]
        BY <2>1
      <3>4. WorkerOK'
        BY <1>2, <1>t, <2>1, <3>3 DEF WorkerOK
      <3>5. FlagsOK'
        BY <1>1, <1>2, <2>1 DEF GuardType, FlagsOK
      <3> QED BY <3>1, <3>2, <3>4, <3>5 DEF GuardType
    <2>7. InFeedOrder'
      <3>1. \A j \in Positions(queue) : queue[j] \in Nat
        BY <1>1, GuardTypes
      <3>2. Ordered(queue') /\ Beyond(queue', worker'.event)
        BY <1>1, <1>2, <2>1, <3>1 DEF InFeedOrder, Beyond
      <3>3. \A i \in Positions(delivered') : Beyond(queue', delivered'[i])
        BY <1>1, <1>2, <2>3, <2>4 DEF InFeedOrder
      <3> QED BY Zenon, <2>1, <3>2, <3>3 DEF InFeedOrder
    <2>8. ~ Reported'
      BY <1>t, <2>3, <2>4 DEF Reported
    <2>9. FailureInOrder'
      BY <1>1, <1>2, <1>3, <2>1, <2>8 DEF FailureInOrder, Closing
    <2>10. (FlushInOrder /\ NoOrphan /\ FlushWaits /\ NoGap)'
      BY <1>1, <1>2, <2>1 DEF FlushInOrder, NoOrphan, FlushWaits, NoGap
    <2> QED BY <2>5, <2>6, <2>7, <2>9, <2>10 DEF GuardInv
  <1> QED BY <1>4, <1>5

(* GuardedSubscription::close: the request is on record, and the close     *)
(* called, before the error is reported.                                   *)
LEMMA CloseKeeps == GuardInv /\ (RequestClose \/ CallClose) => GuardInv'
  <1> SUFFICES ASSUME GuardInv, RequestClose \/ CallClose PROVE GuardInv'
    OBVIOUS
  <1>1. GuardType /\ InFeedOrder /\ FlushInOrder /\ FailureInOrder /\ ErrorIsLast /\ NoOrphan /\ FlushWaits /\ NoGap
    BY DEF GuardInv
  <1>t. worker.event \in Nat /\ worker.event <= sent
    BY <1>1, GuardTypes
  <1>2. UNCHANGED <<feed, sent, queue, terminal, handler, snapshot, delivered, projected, dropped, due>>
    BY DEF RequestClose, CallClose
  <1>3. /\ worker.at \in {"lock", "close"} /\ worker'.at \in {"close", "report"} /\ worker'.event = worker.event
        /\ worker' \in [at : {"recv", "project"} \cup Closing, event : Nat]
        /\ guard' \in [close : BOOLEAN, close_requested : BOOLEAN]
        /\ guard'.close = guard.close
    BY Zenon, <1>1 DEF GuardType, WorkerOK, FlagsOK, RequestClose, CallClose, CloseRequested, Closing
  <1>4. guard'.close_requested = TRUE
    BY <1>1 DEF GuardType, WorkerOK, FlagsOK, FailureInOrder, RequestClose, CallClose, CloseRequested
  <1>5. /\ subscription' = subscription \/ subscription' = "closed"
        /\ worker'.at = "report" => ~ guard.close \/ subscription' = "closed"
    BY <1>1 DEF GuardType, WorkerOK, RequestClose, CallClose
  <1>6. GuardType'
    <2>1. (CountsOK /\ QueueOK /\ DeliveredOK)'
      BY <1>1, <1>2 DEF GuardType, CountsOK, QueueOK, DeliveredOK
    <2>2. WorkerOK'
      BY <1>1, <1>2, <1>3, <1>t DEF GuardType, WorkerOK
    <2>3. FlagsOK'
      BY <1>1, <1>2, <1>3 DEF GuardType, FlagsOK
    <2> QED BY <2>1, <2>2, <2>3 DEF GuardType
  <1>7. (InFeedOrder /\ FlushInOrder /\ ErrorIsLast /\ FlushWaits)'
    BY <1>1, <1>2, <1>3 DEF InFeedOrder, FlushInOrder, ErrorIsLast, FlushWaits
  <1>8. (NoOrphan /\ NoGap)'
    BY <1>1, <1>2, <1>3, <1>5 DEF NoOrphan, NoGap
  <1>9. (Reported' <=> Reported) /\ ~ Reported
    BY <1>1, <1>2, <1>3 DEF Reported, FailureInOrder
  <1>10. FailureInOrder'
    BY <1>1, <1>2, <1>3, <1>4, <1>5, <1>9 DEF FailureInOrder, Closing
  <1> QED BY <1>6, <1>7, <1>8, <1>10 DEF GuardInv

(* The error is reported behind every event delivered. *)
LEMMA ReportKeeps == GuardInv /\ Report => GuardInv'
  <1> SUFFICES ASSUME GuardInv, Report PROVE GuardInv'
    OBVIOUS
  <1>1. GuardType /\ InFeedOrder /\ FlushInOrder /\ FailureInOrder /\ ErrorIsLast /\ NoOrphan /\ FlushWaits /\ NoGap
    BY DEF GuardInv
  <1>t. /\ MaxEvents \in Nat /\ Error = MaxEvents + 1 /\ sent \in Nat /\ sent <= feed /\ feed <= MaxEvents /\ feed \in Nat
        /\ \A i \in Positions(delivered) : delivered[i] \in Nat
        /\ \A i \in Positions(delivered) : delivered[i] # Error => delivered[i] <= sent
        /\ \A j \in Positions(queue) : queue[j] \in Nat
    BY <1>1, GuardTypes
  <1>2. /\ worker.at = "report" /\ delivered' = Append(delivered, Error)
        /\ projected' = projected \cup {worker.event}
        /\ worker' = [at |-> "recv", event |-> 0] /\ worker'.at = "recv" /\ worker'.event = 0
        /\ UNCHANGED <<feed, subscription, sent, queue, terminal, guard, handler, snapshot, dropped, due>>
    BY DEF Report, Waiting
  <1>3. /\ delivered' \in Seq(Nat)
        /\ Len(delivered') = Len(delivered) + 1 /\ Len(delivered) \in Nat
        /\ delivered'[Len(delivered) + 1] = Error
        /\ \A i \in 1 .. Len(delivered) : delivered'[i] = delivered[i]
    <2>1. delivered \in Seq(Nat) /\ Error \in Nat
      BY <1>1, <1>t DEF GuardType, DeliveredOK
    <2> QED BY <1>2, <2>1, Appended
  <1>4. \A i \in Positions(delivered) : delivered[i] # Error
    BY <1>1, <1>2 DEF FailureInOrder, Reported
  <1>5. \A i \in Positions(delivered') : i \in Positions(delivered) \/ i = Len(delivered) + 1
    BY <1>3 DEF Positions
  <1>6. ErrorIsLast'
    <2> SUFFICES ASSUME NEW i \in 1 .. Len(delivered'), NEW j \in 1 .. Len(delivered'), i < j
                 PROVE  delivered'[i] < delivered'[j]
      BY DEF ErrorIsLast
    <2>1. i \in 1 .. Len(delivered)
      BY <1>3
    <2>2. CASE j \in 1 .. Len(delivered)
      BY <1>1, <1>3, <2>1, <2>2 DEF ErrorIsLast
    <2>3. CASE j = Len(delivered) + 1
      <3>1. delivered[i] \in Nat /\ delivered[i] <= sent
        BY <1>4, <1>t, <2>1 DEF Positions
      <3> QED BY <1>3, <1>t, <2>1, <2>3, <3>1
    <2> QED BY <1>3, <2>2, <2>3
  <1>7. GuardType'
    <2>1. (CountsOK /\ QueueOK /\ FlagsOK)'
      BY <1>1, <1>2 DEF GuardType, CountsOK, QueueOK, FlagsOK
    <2>2. DeliveredOK'
      BY <1>2, <1>3, <1>4, <1>5, <1>t DEF DeliveredOK, Positions
    <2>3. worker' \in [at : {"recv", "project"} \cup Closing, event : Nat]
      BY <1>2
    <2>4. WorkerOK'
      BY <1>2, <1>t, <2>3 DEF WorkerOK
    <2> QED BY <2>1, <2>2, <2>4 DEF GuardType
  <1>8. InFeedOrder'
    <2>1. Ordered(queue') /\ Beyond(queue', worker'.event)
      BY <1>1, <1>2, <1>t DEF InFeedOrder, Beyond
    <2>2. \A i \in Positions(delivered') : delivered'[i] # Error => Beyond(queue', delivered'[i])
      BY <1>1, <1>2, <1>3, <1>5 DEF InFeedOrder, Positions
    <2> QED BY Zenon, <1>2, <2>1, <2>2 DEF InFeedOrder
  <1>9. Reported'
    BY <1>3 DEF Reported, Positions
  <1>10. FailureInOrder'
    BY <1>1, <1>2, <1>9 DEF FailureInOrder, Closing
  <1>11. (FlushInOrder /\ NoOrphan /\ FlushWaits /\ NoGap)'
    BY <1>1, <1>2 DEF FlushInOrder, NoOrphan, FlushWaits, NoGap
  <1> QED BY <1>6, <1>7, <1>8, <1>10, <1>11 DEF GuardInv

-----------------------------------------------------------------------------
(* The guard keeps its contract with any number of events, whatever the    *)
(* processor decides and however handler, worker and event log interleave: *)
(* events come in order and an error last, the error closes the            *)
(* subscription, a failed subscribe leaves none open, the flush waits for  *)
(* all that was enqueued before it, and snapshot and stream leave no gap   *)
(* (guarded_subscription_listener, flush, install_close, handle_subscribe).*)
THEOREM GuardKeepsContract == GuardSpec => []GuardContract
  <1>1. GuardInit => GuardInv
    BY GuardStarts
  <1>2. GuardInv /\ [GuardNext]_guardVars => GuardInv'
    <2> SUFFICES ASSUME GuardInv, [GuardNext]_guardVars PROVE GuardInv'
      OBVIOUS
    <2>1. CASE UNCHANGED guardVars
      <3>1. (GuardType /\ InFeedOrder /\ FlushInOrder)'
        BY SMTT(30), <2>1 DEF guardVars, GuardInv, GuardType, CountsOK, QueueOK, DeliveredOK, WorkerOK, FlagsOK, InFeedOrder, FlushInOrder
      <3>2. (FailureInOrder /\ ErrorIsLast /\ NoOrphan /\ FlushWaits /\ NoGap)'
        BY <2>1 DEF guardVars, GuardInv, FailureInOrder, Reported, ErrorIsLast, NoOrphan, FlushWaits, NoGap
      <3> QED BY SMTT(30), <3>1, <3>2 DEF GuardInv
    <2> QED BY <2>1, CommitKeeps, DeliverKeeps, SubscribeKeeps, InstallKeeps, InvokeKeeps, StartFlushKeeps,
               SnapshotKeeps, CallerClosesKeeps, ReceiveKeeps, ProjectKeeps, CloseKeeps, ReportKeeps
            DEF GuardNext, Handle, Work
  <1>3. GuardInv => GuardContract
    <2> SUFFICES ASSUME GuardInv PROVE ErrorCloses
      BY DEF GuardInv, GuardContract
    <2>1. Error \in Range(delivered) => Reported
      BY Members DEF GuardInv, GuardType, DeliveredOK, Reported
    <2> QED BY <2>1 DEF GuardInv, FailureInOrder, ErrorCloses
  <1> QED BY <1>1, <1>2, <1>3, PTL DEF GuardSpec
=============================================================================
