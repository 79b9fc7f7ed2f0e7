---------------------------- MODULE RecordsProofs ----------------------------
(***************************************************************************)
(* Proofs about the record handlers: whatever handlers race, and wherever  *)
(* they are cut short, the winner of every record is kept, and a record no *)
(* purge can reach only advances and keeps its initial write.              *)
(***************************************************************************)
EXTENDS RecordsHandlers, TLAPS

(* A record no purge can reach has messages of its author alone. *)
OneAuthor == \A m, n \in Messages : m.record \in Roots /\ m.record = n.record => m.author = n.author

-----------------------------------------------------------------------------
(* The lattice orders the messages totally, by class, timestamp and CID.   *)
LEMMA OrderTotal ==
    ASSUME NEW m \in Messages, NEW n \in Messages
    PROVE  m = n \/ compare_order(m, n) \/ compare_order(n, m)
  BY MessagesAssumption DEF compare_order, compare_messages

LEMMA OrderStrict ==
    ASSUME NEW m \in Messages, NEW n \in Messages
    PROVE  ~ (compare_order(m, n) /\ compare_order(n, m)) /\ ~ compare_order(m, m)
  BY MessagesAssumption DEF compare_order, compare_messages

LEMMA OrderTransitive ==
    ASSUME NEW m \in Messages, NEW n \in Messages, NEW o \in Messages,
           compare_order(m, n), compare_order(n, o)
    PROVE  compare_order(m, o)
  BY MessagesAssumption DEF compare_order, compare_messages

(* w is the greatest of S. *)
IsGreatest(w, S) == w \in S /\ \A x \in S : x = w \/ compare_order(x, w)

LEMMA WinnerGreatest ==
    ASSUME NEW S \in SUBSET Messages, NEW w, IsGreatest(w, S)
    PROVE  Winner(S) = w
  <1>1. w \in S /\ \A n \in S \ {w} : compare_order(n, w)
    BY DEF IsGreatest
  <1>2. Winner(S) \in S /\ \A n \in S \ {Winner(S)} : compare_order(n, Winner(S))
    BY <1>1 DEF Winner
  <1> QED BY <1>1, <1>2, OrderStrict

(* Adding a message to S leaves its greatest element or becomes it. *)
LEMMA GreatestAdded ==
    ASSUME NEW S \in SUBSET Messages, NEW m \in Messages, NEW w, IsGreatest(w, S)
    PROVE  IF compare_order(w, m) THEN IsGreatest(m, S \cup {m}) ELSE IsGreatest(w, S \cup {m})
  <1>1. w \in Messages /\ w \in S /\ \A x \in S : x \in Messages /\ (x = w \/ compare_order(x, w))
    BY DEF IsGreatest
  <1>2. CASE compare_order(w, m)
    BY <1>1, <1>2, OrderTransitive DEF IsGreatest
  <1>3. CASE ~ compare_order(w, m)
    BY <1>1, <1>3, OrderTotal DEF IsGreatest
  <1> QED BY <1>2, <1>3

-----------------------------------------------------------------------------
Pcs == {"idle", "write", "admit", "decide", "data", "delete", "commit", "work"}
WithSnapshot == {"admit", "decide", "data", "commit"}

(* Work left to a call: what it will drop is of no root. *)
Tasks ==
    {t \in [op : {"clean", "children", "siblings", "purge", "drop"}, of : SUBSET (Messages \cup Records)] :
        /\ t.of # {}
        /\ t.op \in {"purge", "drop"} => \A x \in t.of : x \in Messages /\ x.record \notin Roots}

CallRecs ==
    [pc : Pcs, msg : Messages \cup {None}, stream : BOOLEAN, existing : SUBSET Messages,
     encoded : SUBSET Messages, latest : BOOLEAN, todo : Seq(Tasks)]

Stores == [retained : SUBSET Messages, latest : SUBSET Messages, encoded : SUBSET Messages]

(* What a call relies on: its snapshot is of its record, and what it       *)
(* commits will be the latest state or is an initial write.                *)
CallOK(k) ==
    /\ k.pc \notin {"idle", "work"} => k.msg \in Messages
    /\ k.pc = "delete" => k.msg.class # WriteClass
    /\ k.pc = "work" => k.todo # <<>>
    /\ k.pc \in WithSnapshot => \A x \in k.existing : x.record = k.msg.record
    /\ k.pc = "commit" => k.msg.class # WriteClass \/ k.latest \/ is_initial_write(k.msg, k.msg.author)

(* The initial write it saw stays, and an update or a delete saw one. *)
InitialSeen(k, retained) ==
    k.pc \in WithSnapshot /\ k.msg.record \in Roots =>
        /\ Initials(k.existing) \subseteq retained
        /\ k.pc \in {"data", "commit"} => is_initial_write(k.msg, k.msg.author) \/ Initials(k.existing) # {}

(* Every retained message is indexed as latest or an initial write, *)
Indexed == store.retained \subseteq store.latest \cup Initials(store.retained)

(* the greatest settled message of a record is retained, *)
GreatestKept ==
    \A r \in Records : OfRecord(settled, r) # {} =>
        \E w \in store.retained : IsGreatest(w, OfRecord(settled, r))

(* and what a root retains is settled. *)
RootsSettled == \A m \in store.retained : m.record \in Roots => m \in settled

StoreInv ==
    /\ store \in Stores /\ settled \in SUBSET Messages
    /\ Indexed /\ GreatestKept /\ RootsSettled
    /\ OneAuthor => InitialKept

CallsInv ==
    /\ call \in [Calls -> CallRecs]
    /\ \A c \in Calls : CallOK(call[c]) /\ (OneAuthor => InitialSeen(call[c], store.retained))

HandlersInv == StoreInv /\ CallsInv

(* A step takes the initial write of no root away. *)
RootInitialsStay ==
    OneAuthor => \A x \in store.retained :
        x.record \in Roots /\ is_initial_write(x, x.author) => x \in store'.retained

-----------------------------------------------------------------------------
(* Work put before other work is work. *)
LEMMA ThenTasks ==
    ASSUME NEW op \in {"clean", "children", "siblings", "purge", "drop"},
           NEW S \in SUBSET (Messages \cup Records), NEW rest \in Seq(Tasks),
           op \in {"purge", "drop"} => \A x \in S : x \in Messages /\ x.record \notin Roots
    PROVE  Then(op, S, rest) \in Seq(Tasks)
  <1>1. CASE S = {}
    BY <1>1 DEF Then
  <1>2. CASE S # {}
    <2> DEFINE t == [op |-> op, of |-> S]
    <2>1. t \in Tasks
      BY <1>2 DEF Tasks
    <2>2. Then(op, S, rest) = <<t>> \o rest
      BY <1>2 DEF Then
    <2> HIDE DEF t
    <2>3. <<t>> \in Seq(Tasks)
      BY <2>1
    <2> QED BY <2>2, <2>3
  <1> QED BY <1>1, <1>2

(* A handler starts, and ends, idle. *)
LEMMA IdleOK == Idle \in CallRecs /\ CallOK(Idle) /\ \A R : InitialSeen(Idle, R)
  <1>1. Idle \in CallRecs
    BY DEF Idle, CallRecs, Pcs
  <1>2. Idle.pc = "idle"
    BY DEF Idle
  <1> QED BY <1>1, <1>2 DEF CallOK, InitialSeen, WithSnapshot

(* Nothing is stored and no handler runs at the start. *)
LEMMA HandlersStart == HandlersInit => HandlersInv
  <1> SUFFICES ASSUME HandlersInit PROVE HandlersInv
    OBVIOUS
  <1>1. store.retained = {} /\ store.latest = {} /\ store \in Stores /\ settled = {}
    BY DEF HandlersInit, Stores
  <1>2. call \in [Calls -> CallRecs] /\ \A c \in Calls : call[c] = Idle
    BY IdleOK DEF HandlersInit
  <1>3. Indexed /\ GreatestKept /\ RootsSettled /\ InitialKept
    BY <1>1 DEF Indexed, GreatestKept, RootsSettled, InitialKept, OfRecord
  <1>4. StoreInv
    BY <1>1, <1>3 DEF StoreInv
  <1>5. CallsInv
    BY <1>2, IdleOK DEF CallsInv
  <1> QED BY <1>4, <1>5 DEF HandlersInv

-----------------------------------------------------------------------------
(* The store is as good as it was when it and the history stay, *)
LEMMA StoreStays == StoreInv /\ UNCHANGED <<store, settled>> => StoreInv'
  BY DEF StoreInv, Indexed, GreatestKept, RootsSettled, InitialKept

(* when a message is settled that is retained or below a settled one, *)
LEMMA StoreSettles ==
    ASSUME StoreInv, store' = store, NEW m \in Messages, settled' = settled \cup {m},
           m \in store.retained \/ \E w \in settled : w.record = m.record /\ ~ compare_order(w, m)
    PROVE  StoreInv'
  <1>1. store \in Stores /\ settled \in SUBSET Messages /\ store.retained \subseteq Messages
    BY DEF StoreInv, Stores
  <1>2. GreatestKept'
    <2> SUFFICES ASSUME NEW r \in Records, OfRecord(settled', r) # {}
                 PROVE  \E w \in store.retained : IsGreatest(w, OfRecord(settled', r))
      BY DEF GreatestKept
    <2>1. CASE m.record # r
      <3>1. OfRecord(settled', r) = OfRecord(settled, r)
        BY <2>1 DEF OfRecord
      <3> QED BY <3>1 DEF StoreInv, GreatestKept
    <2>2. CASE m.record = r
      <3>1. OfRecord(settled', r) = OfRecord(settled, r) \cup {m} /\ OfRecord(settled, r) \in SUBSET Messages
        BY <1>1, <2>2 DEF OfRecord
      <3>2. CASE OfRecord(settled, r) = {}
        <4>1. m \in store.retained
          BY <2>2, <3>2 DEF OfRecord
        <4> QED BY <3>1, <3>2, <4>1 DEF IsGreatest
      <3>3. CASE OfRecord(settled, r) # {}
        <4>1. PICK w \in store.retained : IsGreatest(w, OfRecord(settled, r))
          BY <3>3 DEF StoreInv, GreatestKept
        <4>2. CASE compare_order(w, m)
          <5>1. m \in store.retained
            <6> SUFFICES ASSUME NEW v \in settled, v.record = m.record, ~ compare_order(v, m) PROVE FALSE
              OBVIOUS
            <6>1. v = w \/ compare_order(v, w)
              BY <2>2, <4>1 DEF IsGreatest, OfRecord
            <6>2. v \in Messages /\ w \in Messages
              BY <1>1
            <6> QED BY <4>2, <6>1, <6>2, OrderTransitive
          <5>2. IsGreatest(m, OfRecord(settled', r))
            BY <3>1, <4>1, <4>2, GreatestAdded
          <5> QED BY <5>1, <5>2
        <4>3. CASE ~ compare_order(w, m)
          <5>1. IsGreatest(w, OfRecord(settled', r))
            BY Zenon, <3>1, <4>1, <4>3, GreatestAdded
          <5> QED BY <5>1
        <4> QED BY <4>2, <4>3
      <3> QED BY <3>2, <3>3
    <2> QED BY <2>1, <2>2
  <1>3. (Indexed /\ RootsSettled /\ (OneAuthor => InitialKept))'
    BY DEF StoreInv, Indexed, RootsSettled, InitialKept
  <1>4. (store \in Stores /\ settled \in SUBSET Messages)'
    BY <1>1
  <1> QED BY <1>2, <1>3, <1>4 DEF StoreInv

(* The calls are as good as they were when one of them moves to a good     *)
(* place and no root loses its initial write.                              *)
LEMMA CallMoves ==
    ASSUME CallsInv, NEW c \in Calls, NEW k, k \in CallRecs, call' = [call EXCEPT ![c] = k],
           CallOK(k), OneAuthor => InitialSeen(k, store'.retained),
           RootInitialsStay
    PROVE  CallsInv'
  <1>1. call' \in [Calls -> CallRecs]
    BY DEF CallsInv
  <1>2. ASSUME NEW d \in Calls
        PROVE  CallOK(call'[d]) /\ (OneAuthor => InitialSeen(call'[d], store'.retained))
    <2>1. CASE d = c
      BY <2>1 DEF CallsInv
    <2>2. CASE d # c
      <3>1. call'[d] = call[d] /\ call[d] \in CallRecs
        BY <2>2 DEF CallsInv
      <3>2. CallOK(call[d]) /\ (OneAuthor => InitialSeen(call[d], store.retained))
        BY DEF CallsInv
      <3>3. ASSUME OneAuthor PROVE InitialSeen(call[d], store'.retained)
        <4> SUFFICES ASSUME call[d].pc \in WithSnapshot, call[d].msg.record \in Roots,
                            NEW x \in Initials(call[d].existing)
                     PROVE  x \in store'.retained
          BY <3>2, <3>3 DEF InitialSeen
        <4>1. x \in call[d].existing /\ is_initial_write(x, x.author) /\ x \in store.retained
          BY <3>2, <3>3 DEF InitialSeen, Initials
        <4>2. x \in Messages /\ x.record = call[d].msg.record
          BY <3>1, <3>2, <4>1 DEF CallRecs, CallOK
        <4> QED BY <3>3, <4>1, <4>2 DEF RootInitialsStay
      <3> QED BY <3>1, <3>2, <3>3
    <2> QED BY <2>1, <2>2
  <1> QED BY <1>1, <1>2 DEF CallsInv

(* A call that moves while the store stays, *)
LEMMA CallOnly ==
    ASSUME CallsInv, NEW c \in Calls, NEW k, k \in CallRecs, Becomes(c, k), store' = store,
           CallOK(k), OneAuthor => InitialSeen(k, store.retained)
    PROVE  CallsInv'
  <1>1. call' = [call EXCEPT ![c] = k]
    BY DEF Becomes
  <1>2. OneAuthor => InitialSeen(k, store'.retained)
    OBVIOUS
  <1>3. RootInitialsStay
    BY DEF RootInitialsStay
  <1>4. CallsInv /\ c \in Calls /\ k \in CallRecs /\ CallOK(k)
    OBVIOUS
  <1> QED BY ONLY Zenon, <1>1, <1>2, <1>3, <1>4, CallMoves

(* a call that returns, *)
LEMMA CallReturns ==
    ASSUME CallsInv, NEW c \in Calls, Return(c), store' = store
    PROVE  CallsInv'
  <1>1. Becomes(c, Idle)
    BY DEF Return
  <1>2. Idle \in CallRecs /\ CallOK(Idle) /\ InitialSeen(Idle, store.retained)
    BY IdleOK
  <1> QED BY <1>1, <1>2, CallOnly

(* and a call with work left, or none: no root loses its initial write. *)
LEMMA CallContinues ==
    ASSUME CallsInv, NEW c \in Calls, NEW todo \in Seq(Tasks), Continue(c, todo),
           RootInitialsStay
    PROVE  CallsInv'
  <1> DEFINE work == [Idle EXCEPT !.pc = "work", !.msg = call[c].msg, !.todo = todo]
             k == IF todo = <<>> THEN Idle ELSE work
  <1>1. call' = [call EXCEPT ![c] = k]
    BY DEF Continue, Return, Becomes
  <1>2. call[c].msg \in Messages \cup {None}
    BY DEF CallsInv, CallRecs
  <1>3. work \in CallRecs
    BY Zenon, <1>2 DEF Idle, CallRecs, Pcs
  <1>4. work.pc = "work" /\ work.todo = todo
    BY DEF Idle
  <1>5. k \in CallRecs /\ CallOK(k) /\ InitialSeen(k, store'.retained)
    <2>1. CASE todo = <<>>
      BY <2>1, IdleOK
    <2>2. CASE todo # <<>>
      BY <1>3, <1>4, <2>2 DEF CallOK, InitialSeen, WithSnapshot
    <2> QED BY <2>1, <2>2
  <1> HIDE DEF k, work
  <1> QED BY Zenon, <1>1, <1>5, CallMoves

-----------------------------------------------------------------------------
(* What a commit of m from the snapshot existing keeps: m, and all but     *)
(* what the snapshot holds below m and is no initial write of the author.  *)
Keeps(s, t, m, latest, existing) ==
    /\ t \in Stores
    /\ m \in t.retained /\ t.retained \subseteq s.retained \cup {m}
    /\ \A x \in s.retained \ t.retained :
          x \in existing /\ compare_order(x, m) /\ x \notin Retains(m, existing)
    /\ latest => m \in t.latest
    /\ \A x \in t.retained : x \in s.latest => x = m \/ x \in t.latest \/ is_initial_write(x, x.author)

(* A commit keeps that. *)
LEMMA CommitKeeps ==
    ASSUME NEW s \in Stores, NEW m \in Messages, NEW existing \in SUBSET Messages,
           NEW latest \in BOOLEAN, NEW encoded \in BOOLEAN
    PROVE  Keeps(s, Committed(s, m, latest, encoded, existing), m, latest, existing)
  <1> DEFINE t == Committed(s, m, latest, encoded, existing)
             D == Deletes(m, existing)
             R == Retains(m, existing)
             keep(S, add) == ((S \ {m}) \cup (IF add THEN {m} ELSE {})) \ D
  <1>1. \A x \in D : x \in existing /\ compare_order(x, m) /\ x \notin R
    BY DEF Deletes, outranked_cids
  <1>2. \A x \in R : x \in existing /\ compare_order(x, m) /\ is_initial_write(x, x.author)
    BY DEF Retains, outranked_cids, is_initial_write
  <1>3. m \notin D /\ m \notin R
    BY <1>1, <1>2, OrderStrict
  <1>4. t = [retained |-> keep(s.retained, TRUE), latest |-> keep(s.latest, latest) \ R,
             encoded |-> keep(s.encoded, encoded) \ R]
    BY DEF Committed
  <1>5. s.retained \in SUBSET Messages /\ s.latest \in SUBSET Messages /\ s.encoded \in SUBSET Messages
    BY DEF Stores
  <1>6. /\ t.retained = keep(s.retained, TRUE) /\ t.latest = keep(s.latest, latest) \ R
        /\ keep(s.encoded, encoded) \in SUBSET Messages /\ keep(s.retained, TRUE) \in SUBSET Messages
        /\ keep(s.latest, latest) \in SUBSET Messages
    BY <1>4, <1>5
  <1> HIDE DEF D, R, t
  <1>7. t \in Stores
    BY <1>4, <1>6 DEF Stores
  <1>8. m \in t.retained /\ t.retained \subseteq s.retained \cup {m} /\ s.retained \ t.retained \subseteq D
    BY <1>3, <1>6
  <1>9. latest => m \in t.latest
    BY <1>3, <1>6
  <1>10. \A x \in t.retained : x \in s.latest => x = m \/ x \in t.latest \/ x \in R
    BY <1>6
  <1> QED BY <1>1, <1>2, <1>7, <1>8, <1>9, <1>10 DEF R, t, Keeps

(* A commit keeps the store as good as it was. *)
LEMMA StoreCommits ==
    ASSUME StoreInv, NEW m \in Messages, NEW existing \in SUBSET Messages,
           \A x \in existing : x.record = m.record,
           NEW latest \in BOOLEAN, NEW encoded \in BOOLEAN,
           latest \/ is_initial_write(m, m.author),
           OneAuthor /\ m.record \in Roots =>
               /\ Initials(existing) \subseteq store.retained
               /\ is_initial_write(m, m.author) \/ Initials(existing) # {},
           store' = Committed(store, m, latest, encoded, existing), settled' = settled \cup {m}
    PROVE  /\ StoreInv'
           /\ RootInitialsStay
  <1>1. store \in Stores /\ settled \in SUBSET Messages /\ store.retained \subseteq Messages
    BY DEF StoreInv, Stores
  <1>2. /\ store' \in Stores
        /\ m \in store'.retained /\ store'.retained \subseteq store.retained \cup {m}
        /\ \A x \in store.retained \ store'.retained :
              x \in existing /\ compare_order(x, m) /\ x \notin Retains(m, existing)
        /\ latest => m \in store'.latest
        /\ \A x \in store'.retained :
              x \in store.latest => x = m \/ x \in store'.latest \/ is_initial_write(x, x.author)
    <2>1. Keeps(store, store', m, latest, existing)
      BY <1>1, CommitKeeps
    <2> QED BY <2>1 DEF Keeps
  <1>3. ASSUME OneAuthor, NEW x \in store.retained, x.record \in Roots, is_initial_write(x, x.author)
        PROVE  x \in store'.retained
    <2> SUFFICES ASSUME x \notin store'.retained PROVE FALSE
      OBVIOUS
    <2>1. x \in existing /\ compare_order(x, m) /\ x \notin Retains(m, existing)
      BY <1>2
    <2>2. x.author = m.author
      BY <1>1, <1>3, <2>1 DEF OneAuthor
    <2> QED BY <1>3, <2>1, <2>2 DEF Retains, outranked_cids
  <1>4. Indexed'
    <2> SUFFICES ASSUME NEW x \in store'.retained
                 PROVE  x \in store'.latest \/ is_initial_write(x, x.author)
      BY DEF Indexed, Initials
    <2>1. CASE x = m
      BY <1>2, <2>1
    <2>2. CASE x # m
      <3>1. x \in store.latest \/ is_initial_write(x, x.author)
        BY <1>2, <2>2 DEF StoreInv, Indexed, Initials
      <3> QED BY <1>2, <2>2, <3>1
    <2> QED BY <2>1, <2>2
  <1>5. GreatestKept'
    <2> SUFFICES ASSUME NEW r \in Records, OfRecord(settled', r) # {}
                 PROVE  \E w \in store'.retained : IsGreatest(w, OfRecord(settled', r))
      BY Zenon DEF GreatestKept
    <2>1. CASE m.record # r
      <3>1. OfRecord(settled', r) = OfRecord(settled, r)
        BY <2>1 DEF OfRecord
      <3>2. PICK w \in store.retained : IsGreatest(w, OfRecord(settled, r))
        BY <3>1 DEF StoreInv, GreatestKept
      <3>3. w.record = r
        BY <3>2 DEF IsGreatest, OfRecord
      <3>4. w \in store'.retained
        BY <1>2, <2>1, <3>3
      <3> QED BY <3>1, <3>2, <3>4
    <2>2. CASE m.record = r
      <3>1. OfRecord(settled', r) = OfRecord(settled, r) \cup {m} /\ OfRecord(settled, r) \in SUBSET Messages
        BY <1>1, <2>2 DEF OfRecord
      <3>2. CASE OfRecord(settled, r) = {}
        BY Zenon, <1>2, <3>1, <3>2 DEF IsGreatest
      <3>3. CASE OfRecord(settled, r) # {}
        <4>1. PICK w \in store.retained : IsGreatest(w, OfRecord(settled, r))
          BY <3>3 DEF StoreInv, GreatestKept
        <4>2. CASE compare_order(w, m)
          <5>1. IsGreatest(m, OfRecord(settled', r))
            BY <3>1, <4>1, <4>2, GreatestAdded
          <5> QED BY <1>2, <5>1
        <4>3. CASE ~ compare_order(w, m)
          <5>1. IsGreatest(w, OfRecord(settled', r))
            BY <3>1, <4>1, <4>3, GreatestAdded
          <5>2. w \in store'.retained
            BY <1>2, <4>3
          <5> QED BY <5>1, <5>2
        <4> QED BY Zenon, <4>2, <4>3
      <3> QED BY Zenon, <3>2, <3>3
    <2> QED BY <2>1, <2>2
  <1>6. RootsSettled'
    BY <1>2 DEF StoreInv, RootsSettled
  <1>7. ASSUME OneAuthor PROVE InitialKept'
    <2> SUFFICES ASSUME NEW r \in Roots, OfRecord(store'.retained, r) # {}
                 PROVE  \E x \in store'.retained : x.record = r /\ is_initial_write(x, x.author)
      BY DEF InitialKept, Initials, OfRecord
    <2>1. CASE m.record # r
      <3>1. OfRecord(store.retained, r) # {}
        BY <1>2, <2>1 DEF OfRecord
      <3>2. PICK x \in store.retained : x.record = r /\ is_initial_write(x, x.author)
        BY <1>7, <3>1 DEF StoreInv, InitialKept, Initials, OfRecord
      <3> QED BY <1>3, <1>7, <3>2
    <2>2. CASE m.record = r
      <3>1. CASE is_initial_write(m, m.author)
        BY <1>2, <2>2, <3>1
      <3>2. CASE ~ is_initial_write(m, m.author)
        <4>1. PICK x \in Initials(existing) : x \in store.retained
          BY <1>7, <2>2, <3>2
        <4>2. x.record = r /\ is_initial_write(x, x.author)
          BY <2>2, <4>1 DEF Initials
        <4> QED BY <1>3, <1>7, <4>1, <4>2
      <3> QED BY <3>1, <3>2
    <2> QED BY <2>1, <2>2
  <1>8. StoreInv'
    BY <1>1, <1>2, <1>4, <1>5, <1>6, <1>7 DEF StoreInv
  <1> QED BY <1>3, <1>8 DEF RootInitialsStay

(* A message of no root is dropped, and its record starts again. *)
LEMMA StoreDrops ==
    ASSUME StoreInv, NEW m \in Messages, m.record \notin Roots,
           store' = [retained |-> store.retained \ {m}, latest |-> store.latest \ {m},
                     encoded |-> store.encoded \ {m}],
           settled' = settled \ OfRecord(settled, m.record)
    PROVE  /\ StoreInv'
           /\ RootInitialsStay
  <1>1. /\ store \in Stores /\ settled \in SUBSET Messages /\ store.retained \in SUBSET Messages
        /\ store.latest \in SUBSET Messages /\ store.encoded \in SUBSET Messages
    BY DEF StoreInv, Stores
  <1>2. store'.retained = store.retained \ {m} /\ store'.latest = store.latest \ {m}
    OBVIOUS
  <1>3. store' \in Stores /\ settled' \in SUBSET Messages
    BY <1>1 DEF Stores
  <1>4. Indexed'
    BY <1>2 DEF StoreInv, Indexed, Initials
  <1>5. GreatestKept'
    <2> SUFFICES ASSUME NEW r \in Records, OfRecord(settled', r) # {}
                 PROVE  \E w \in store'.retained : IsGreatest(w, OfRecord(settled', r))
      BY SMTT(30) DEF GreatestKept
    <2>1. m.record # r
      BY DEF OfRecord
    <2>2. OfRecord(settled', r) = OfRecord(settled, r)
      BY <2>1 DEF OfRecord
    <2>3. PICK w \in store.retained : IsGreatest(w, OfRecord(settled, r))
      BY <2>2 DEF StoreInv, GreatestKept
    <2>4. w.record = r
      BY <2>3 DEF IsGreatest, OfRecord
    <2> QED BY Zenon, <1>2, <2>1, <2>2, <2>3, <2>4
  <1>6. RootsSettled'
    BY <1>2 DEF StoreInv, RootsSettled, OfRecord
  <1>7. ASSUME OneAuthor PROVE InitialKept'
    <2> SUFFICES ASSUME NEW r \in Roots, OfRecord(store'.retained, r) # {}
                 PROVE  Initials(OfRecord(store'.retained, r)) # {}
      BY Zenon DEF InitialKept
    <2>1. OfRecord(store'.retained, r) = OfRecord(store.retained, r)
      BY <1>2 DEF OfRecord
    <2> QED BY Zenon, <1>7, <2>1 DEF StoreInv, InitialKept
  <1>8. RootInitialsStay
    BY SMTT(30), <1>2 DEF RootInitialsStay
  <1> QED BY <1>3, <1>4, <1>5, <1>6, <1>7, <1>8 DEF StoreInv

-----------------------------------------------------------------------------
(* What is known of a call. *)
LEMMA CallFacts ==
    ASSUME HandlersInv, NEW c \in Calls
    PROVE  /\ call[c] \in CallRecs /\ CallOK(call[c])
           /\ OneAuthor => InitialSeen(call[c], store.retained)
           /\ call[c].pc \notin {"idle", "work"} => call[c].msg \in Messages
           /\ call[c].existing \in SUBSET Messages /\ call[c].encoded \in SUBSET Messages
           /\ call[c].latest \in BOOLEAN
  <1>1. /\ call[c] \in CallRecs /\ CallOK(call[c])
        /\ OneAuthor => InitialSeen(call[c], store.retained)
    BY DEF HandlersInv, CallsInv
  <1> QED BY <1>1 DEF CallRecs, CallOK

(* A call that works has a task. *)
LEMMA WorkFacts ==
    ASSUME HandlersInv, NEW c \in Calls, NEW op, Doing(c, op)
    PROVE  /\ Rest(c) \in Seq(Tasks)
           /\ Work(c) \in SUBSET (Messages \cup Records) /\ Work(c) # {}
           /\ op \in {"purge", "drop"} => \A x \in Work(c) : x \in Messages /\ x.record \notin Roots
  <1>1. call[c] \in CallRecs /\ CallOK(call[c]) /\ call[c].pc = "work"
    BY CallFacts DEF Doing, At
  <1>2. call[c].todo \in Seq(Tasks) /\ call[c].todo # <<>>
    BY <1>1 DEF CallRecs, CallOK
  <1>3. Head(call[c].todo) \in Tasks /\ Tail(call[c].todo) \in Seq(Tasks)
    BY <1>2
  <1>4. Head(call[c].todo).op = op
    BY DEF Doing
  <1> QED BY <1>3, <1>4 DEF Tasks, Work, Rest

(* The handler returns, and nothing else happens. *)
LEMMA ReturnStep ==
    ASSUME HandlersInv, NEW c \in Calls, Return(c), UNCHANGED <<store, settled>>
    PROVE  HandlersInv'
  BY CallReturns, StoreStays DEF HandlersInv

(* The handler goes on, and nothing else happens to the messages. *)
LEMMA ContinueStep ==
    ASSUME HandlersInv, NEW c \in Calls, NEW todo \in Seq(Tasks), Continue(c, todo),
           UNCHANGED <<store, settled>>
    PROVE  HandlersInv'
  <1>1. RootInitialsStay
    BY DEF RootInitialsStay
  <1>2. StoreInv' 
    BY StoreStays DEF HandlersInv
  <1>3. CallsInv'
    BY <1>1, CallContinues DEF HandlersInv
  <1> QED BY <1>2, <1>3 DEF HandlersInv

LEMMA RequestStep == ASSUME HandlersInv, NEW c \in Calls, Request(c) PROVE HandlersInv'
  <1>1. PICK q \in Requests :
           Becomes(c, [Idle EXCEPT !.pc = IF q[1].class = WriteClass THEN "write" ELSE "delete",
                                   !.msg = q[1], !.stream = q[2]])
    BY Zenon DEF Request
  <1> DEFINE k == [Idle EXCEPT !.pc = IF q[1].class = WriteClass THEN "write" ELSE "delete",
                               !.msg = q[1], !.stream = q[2]]
  <1>2. q[1] \in Messages /\ q[2] \in BOOLEAN
    BY MessagesAssumption
  <1>3. k \in CallRecs
    <2> DEFINE pc == IF q[1].class = WriteClass THEN "write" ELSE "delete"
               msg == q[1]
               stream == q[2]
    <2>1. pc \in Pcs /\ msg \in Messages \cup {None} /\ stream \in BOOLEAN
      BY <1>2 DEF Pcs
    <2> HIDE DEF pc, msg, stream
    <2>2. [Idle EXCEPT !.pc = pc, !.msg = msg, !.stream = stream] \in CallRecs
      BY Zenon, <2>1, IdleOK DEF CallRecs
    <2> QED BY <2>2 DEF pc, msg, stream
  <1>4. k.pc \in {"write", "delete"} /\ k.msg = q[1] /\ (k.pc = "delete" => k.msg.class # WriteClass)
    BY DEF Idle
  <1>5. Becomes(c, k)
    BY <1>1
  <1> HIDE DEF k
  <1>6. CallOK(k) /\ InitialSeen(k, store.retained)
    BY <1>2, <1>4 DEF CallOK, InitialSeen, WithSnapshot
  <1>7. UNCHANGED <<store, settled>>
    BY DEF Request
  <1>8. StoreInv'
    BY <1>7, StoreStays DEF HandlersInv
  <1>9. CallsInv'
    BY <1>3, <1>5, <1>6, <1>7, CallOnly DEF HandlersInv
  <1> QED BY SMTT(30), <1>8, <1>9 DEF HandlersInv

(* A snapshot is of the call's record and holds its initial writes. *)
LEMMA SnapshotStep ==
    ASSUME HandlersInv, NEW c \in Calls, NEW pc \in {"admit", "commit"}, Snapshot(c, pc),
           UNCHANGED <<store, settled>>, call[c].msg \in Messages,
           pc = "commit" => /\ call[c].msg.class # WriteClass
                            /\ \E x \in OfRecord(store.retained, call[c].msg.record) : x.class = WriteClass
    PROVE  HandlersInv'
  <1> DEFINE m == call[c].msg
             existing == OfRecord(store.retained, m.record)
             k == [call[c] EXCEPT !.pc = pc, !.existing = existing, !.encoded = existing \cap store.encoded]
  <1>1. call[c] \in CallRecs /\ store \in Stores
    BY CallFacts DEF HandlersInv, StoreInv
  <1>2. existing \in SUBSET Messages /\ \A x \in existing : x \in store.retained /\ x.record = m.record
    BY <1>1 DEF Stores, OfRecord
  <1>3. k \in CallRecs
    <2> DEFINE e == existing \cap store.encoded
    <2>1. e \in SUBSET Messages /\ pc \in Pcs
      BY <1>2 DEF Pcs
    <2> HIDE DEF existing, e
    <2> QED BY Zenon, <1>1, <1>2, <2>1 DEF CallRecs
  <1>4. k.pc = pc /\ k.msg = m /\ k.existing = existing
    BY <1>1 DEF CallRecs
  <1>5. CallOK(k)
    BY <1>2, <1>4 DEF CallOK
  <1>6. ASSUME OneAuthor PROVE InitialSeen(k, store.retained)
    <2> SUFFICES ASSUME m.record \in Roots
                 PROVE  /\ Initials(existing) \subseteq store.retained
                        /\ pc = "commit" => Initials(existing) # {}
      BY <1>4 DEF InitialSeen
    <2>1. Initials(existing) \subseteq store.retained
      BY <1>2 DEF Initials
    <2>2. existing # {} => Initials(existing) # {}
      BY <1>6 DEF HandlersInv, StoreInv, InitialKept
    <2> QED BY <2>1, <2>2
  <1>7. Becomes(c, k)
    BY DEF Snapshot
  <1> HIDE DEF k
  <1>8. StoreInv'
    BY StoreStays DEF HandlersInv
  <1>9. CallsInv'
    BY <1>3, <1>5, <1>6, <1>7, CallOnly DEF HandlersInv
  <1> QED BY <1>8, <1>9 DEF HandlersInv

(* A write moves on with the snapshot it has. *)
LEMMA MoveStep ==
    ASSUME HandlersInv, NEW c \in Calls, call[c].pc \in WithSnapshot, NEW k, k \in CallRecs,
           k.pc \in {"decide", "data", "commit"}, k.msg = call[c].msg, k.existing = call[c].existing,
           k.pc = "commit" => k.latest \/ is_initial_write(k.msg, k.msg.author),
           \/ k.pc = "decide" \/ call[c].pc = "data"
           \/ is_initial_write(k.msg, k.msg.author) \/ Initials(k.existing) # {},
           Becomes(c, k), UNCHANGED <<store, settled>>
    PROVE  HandlersInv'
  <1>1. CallOK(call[c]) /\ (OneAuthor => InitialSeen(call[c], store.retained)) /\ call[c].msg \in Messages
    BY SMTT(30), CallFacts DEF WithSnapshot
  <1>2. CallOK(k)
    BY SMTT(30), <1>1 DEF CallOK, WithSnapshot
  <1>3. OneAuthor => InitialSeen(k, store.retained)
    BY <1>1 DEF InitialSeen
  <1>4. StoreInv'
    BY StoreStays DEF HandlersInv
  <1>5. CallsInv'
    BY <1>2, <1>3, CallOnly DEF HandlersInv
  <1> QED BY <1>4, <1>5 DEF HandlersInv

LEMMA WriteAdmitStep == ASSUME HandlersInv, NEW c \in Calls, WriteAdmit(c) PROVE HandlersInv'
  <1>1. UNCHANGED <<store, settled>> /\ call[c].pc = "admit"
    BY DEF WriteAdmit, At
  <1>2. CASE Return(c)
    BY <1>1, <1>2, ReturnStep
  <1>3. CASE Goto(c, "decide")
    <2> DEFINE k == [call[c] EXCEPT !.pc = "decide"]
    <2>1. call[c] \in CallRecs
      BY CallFacts
    <2>2. k \in CallRecs /\ k.pc = "decide" /\ k.msg = call[c].msg /\ k.existing = call[c].existing
      BY <2>1 DEF CallRecs, Pcs
    <2>3. Becomes(c, k)
      BY <1>3 DEF Goto
    <2> HIDE DEF k
    <2> QED BY <1>1, <2>2, <2>3, MoveStep DEF WithSnapshot
  <1> QED BY <1>2, <1>3 DEF WriteAdmit

(* A message that is retained, or below one of the snapshot, is settled. *)
LEMMA SettleStep ==
    ASSUME HandlersInv, NEW c \in Calls, Return(c), store' = store,
           NEW m \in Messages, Settle(m), m \in store.retained
    PROVE  HandlersInv'
  <1>1. settled' = settled \cup {m}
    BY DEF Settle
  <1>2. StoreInv'
    BY <1>1, StoreSettles DEF HandlersInv
  <1>3. CallsInv'
    BY CallReturns DEF HandlersInv
  <1> QED BY <1>2, <1>3 DEF HandlersInv

LEMMA SettleBelowStep ==
    ASSUME HandlersInv, NEW c \in Calls, Return(c), store' = store,
           NEW m \in Messages, NEW existing, \A x \in existing : x.record = m.record, SettleBelow(m, existing)
    PROVE  HandlersInv'
  <1>1. CASE \E w \in existing \cap settled : ~ compare_order(w, m)
    <2>1. settled' = settled \cup {m} /\ \E w \in settled : w.record = m.record /\ ~ compare_order(w, m)
      BY <1>1 DEF SettleBelow
    <2>2. StoreInv'
      BY <2>1, StoreSettles DEF HandlersInv
    <2>3. CallsInv'
      BY CallReturns DEF HandlersInv
    <2> QED BY <2>2, <2>3 DEF HandlersInv
  <1>2. CASE ~ \E w \in existing \cap settled : ~ compare_order(w, m)
    <2>1. settled' = settled
      BY <1>2 DEF SettleBelow
    <2> QED BY <2>1, ReturnStep
  <1> QED BY <1>1, <1>2

LEMMA WriteReadStep == ASSUME HandlersInv, NEW c \in Calls, WriteRead(c) PROVE HandlersInv'
  <1> DEFINE m == call[c].msg
  <1>1. store' = store /\ m \in Messages
    BY CallFacts DEF WriteRead, At
  <1>2. CASE m \in OfRecord(store.retained, m.record)
    <2>1. m \in store.retained /\ Settle(m) /\ Return(c)
      BY <1>2 DEF WriteRead, OfRecord
    <2> QED BY <1>1, <2>1, SettleStep
  <1>3. CASE m \notin OfRecord(store.retained, m.record)
    <2>1. UNCHANGED settled /\ Snapshot(c, "admit")
      BY <1>3 DEF WriteRead
    <2> QED BY <1>1, <2>1, SnapshotStep
  <1> QED BY <1>2, <1>3

LEMMA WriteDecideStep == ASSUME HandlersInv, NEW c \in Calls, WriteDecide(c) PROVE HandlersInv'
  <1> DEFINE m == call[c].msg
             existing == call[c].existing
  <1>1. store' = store /\ m \in Messages /\ call[c].pc = "decide"
    BY CallFacts DEF WriteDecide, At
  <1>2. \A x \in existing : x.record = m.record
    BY <1>1, CallFacts DEF CallOK, WithSnapshot
  <1>3. \/ Return(c) /\ UNCHANGED settled
        \/ Return(c) /\ SettleBelow(m, existing)
        \/ /\ Goto(c, "data") /\ UNCHANGED settled
           /\ is_initial_write(m, m.author) \/ Initials(existing) # {}
    BY DEF WriteDecide
  <1>4. CASE Return(c) /\ UNCHANGED settled
    BY <1>1, <1>4, ReturnStep
  <1>5. CASE Return(c) /\ SettleBelow(m, existing)
    BY <1>1, <1>2, <1>5, SettleBelowStep
  <1>6. CASE /\ Goto(c, "data") /\ UNCHANGED settled
             /\ is_initial_write(m, m.author) \/ Initials(existing) # {}
    <2> DEFINE k == [call[c] EXCEPT !.pc = "data"]
    <2>1. call[c] \in CallRecs
      BY CallFacts
    <2>2. k \in CallRecs /\ k.pc = "data" /\ k.msg = m /\ k.existing = existing
      BY <2>1 DEF CallRecs, Pcs
    <2>3. Becomes(c, k)
      BY <1>6 DEF Goto
    <2> HIDE DEF k
    <2> QED BY <1>1, <1>6, <2>2, <2>3, MoveStep DEF WithSnapshot
  <1> QED BY <1>3, <1>4, <1>5, <1>6

(* The write is ready to commit: the latest state, or an initial write.    *)
LEMMA CommitReady ==
    ASSUME HandlersInv, NEW c \in Calls, call[c].pc = "data", NEW latest \in BOOLEAN,
           NEW encoded \in SUBSET Messages, latest \/ is_initial_write(call[c].msg, call[c].msg.author),
           Becomes(c, [call[c] EXCEPT !.pc = "commit", !.latest = latest, !.encoded = encoded]),
           UNCHANGED <<store, settled>>
    PROVE  HandlersInv'
  <1> DEFINE k == [call[c] EXCEPT !.pc = "commit", !.latest = latest, !.encoded = encoded]
  <1>1. call[c] \in CallRecs
    BY CallFacts
  <1>2. k \in CallRecs
    BY Zenon, <1>1 DEF CallRecs, Pcs
  <1>3. k.pc = "commit" /\ k.msg = call[c].msg /\ k.existing = call[c].existing /\ k.latest = latest
    BY <1>1 DEF CallRecs
  <1>4. Becomes(c, k)
    OBVIOUS
  <1> HIDE DEF k
  <1> QED BY <1>2, <1>3, <1>4, MoveStep DEF WithSnapshot

LEMMA WriteWithDataStep == ASSUME HandlersInv, NEW c \in Calls, WriteWithData(c) PROVE HandlersInv'
  <1> DEFINE m == call[c].msg
             encoded == IF m.data \in LargeData THEN {} ELSE {m}
  <1>1. UNCHANGED <<store, settled>> /\ call[c].pc = "data" /\ encoded \in SUBSET Messages
    BY CallFacts DEF WriteWithData, At
  <1>2. Becomes(c, [call[c] EXCEPT !.pc = "commit", !.latest = TRUE, !.encoded = encoded])
    BY DEF WriteWithData
  <1> HIDE DEF encoded
  <1> QED BY Zenon, <1>1, <1>2, CommitReady

LEMMA WriteWithoutDataStep == ASSUME HandlersInv, NEW c \in Calls, WriteWithoutData(c) PROVE HandlersInv'
  <1> DEFINE m == call[c].msg
             encoded == IF m.data \in LargeData THEN {} ELSE {m}
  <1>1. UNCHANGED <<store, settled>> /\ call[c].pc = "data" /\ encoded \in SUBSET Messages
    BY CallFacts DEF WriteWithoutData, At
  <1>2. \/ Return(c)
        \/ is_initial_write(m, m.author) /\ Becomes(c, [call[c] EXCEPT !.pc = "commit", !.encoded = {}])
        \/ Becomes(c, [call[c] EXCEPT !.pc = "commit", !.latest = TRUE, !.encoded = encoded])
    BY DEF WriteWithoutData
  <1> HIDE DEF encoded
  <1>3. CASE Return(c)
    BY <1>1, <1>3, ReturnStep
  <1>4. CASE is_initial_write(m, m.author) /\ Becomes(c, [call[c] EXCEPT !.pc = "commit", !.encoded = {}])
    <2> DEFINE latest == call[c].latest
    <2>1. call[c] \in CallRecs /\ latest \in BOOLEAN
      BY CallFacts
    <2>2. [call[c] EXCEPT !.pc = "commit", !.encoded = {}]
            = [call[c] EXCEPT !.pc = "commit", !.latest = latest, !.encoded = {}]
      BY Zenon, <2>1 DEF CallRecs
    <2>3. Becomes(c, [call[c] EXCEPT !.pc = "commit", !.latest = latest, !.encoded = {}])
      BY <1>4, <2>2
    <2>4. {} \in SUBSET Messages /\ (latest \/ is_initial_write(m, m.author))
      BY <1>4
    <2> HIDE DEF latest
    <2> QED BY <1>1, <2>1, <2>3, <2>4, CommitReady, Zenon
  <1>5. CASE Becomes(c, [call[c] EXCEPT !.pc = "commit", !.latest = TRUE, !.encoded = encoded])
    BY Zenon, <1>1, <1>5, CommitReady
  <1> QED BY <1>2, <1>3, <1>4, <1>5

LEMMA DeleteReadStep == ASSUME HandlersInv, NEW c \in Calls, DeleteRead(c) PROVE HandlersInv'
  <1> DEFINE m == call[c].msg
             existing == OfRecord(store.retained, m.record)
  <1>1. store' = store /\ m \in Messages /\ m.class # WriteClass
    BY CallFacts DEF DeleteRead, At, CallOK
  <1>2. \A x \in existing : x.record = m.record
    BY DEF OfRecord
  <1>3. \/ Return(c) /\ UNCHANGED settled
        \/ Return(c) /\ SettleBelow(m, existing)
        \/ /\ Snapshot(c, "commit") /\ UNCHANGED settled
           /\ \E x \in existing : x.class = WriteClass
    BY DEF DeleteRead
  <1>4. CASE Return(c) /\ UNCHANGED settled
    BY SMTT(30), <1>1, <1>4, ReturnStep
  <1>5. CASE Return(c) /\ SettleBelow(m, existing)
    BY <1>1, <1>2, <1>5, SettleBelowStep
  <1>6. CASE /\ Snapshot(c, "commit") /\ UNCHANGED settled
             /\ \E x \in existing : x.class = WriteClass
    BY <1>1, <1>6, SnapshotStep
  <1> QED BY SMTT(30), <1>3, <1>4, <1>5, <1>6

-----------------------------------------------------------------------------
(* A commit with any work after it. *)
LEMMA CommitStep ==
    ASSUME HandlersInv, NEW c \in Calls, NEW latest \in BOOLEAN, NEW encoded \in BOOLEAN,
           NEW todo \in Seq(Tasks), Commit(c, latest, encoded, todo),
           latest \/ is_initial_write(call[c].msg, call[c].msg.author)
    PROVE  HandlersInv'
  <1> DEFINE m == call[c].msg
             existing == call[c].existing
  <1>1. m \in Messages /\ existing \in SUBSET Messages /\ call[c].pc = "commit"
    BY CallFacts DEF Commit, At
  <1>2. CallOK(call[c]) /\ (OneAuthor => InitialSeen(call[c], store.retained))
    BY SMTT(30), CallFacts
  <1>3. \A x \in existing : x.record = m.record
    BY <1>1, <1>2 DEF CallOK, WithSnapshot
  <1>4. OneAuthor /\ m.record \in Roots =>
            /\ Initials(existing) \subseteq store.retained
            /\ is_initial_write(m, m.author) \/ Initials(existing) # {}
    BY <1>1, <1>2 DEF InitialSeen, WithSnapshot
  <1>5. /\ store' = Committed(store, m, latest, encoded, existing)
        /\ settled' = settled \cup {m} /\ Continue(c, todo)
    BY DEF Commit, Settle
  <1>6. StoreInv /\ CallsInv
    BY DEF HandlersInv
  <1> HIDE DEF m, existing
  <1>7. latest \/ is_initial_write(m, m.author)
    BY SMTT(30) DEF m
  <1>8. StoreInv' /\ RootInitialsStay
    BY Zenon, <1>1, <1>3, <1>4, <1>5, <1>6, <1>7, StoreCommits
  <1>9. CallsInv'
    BY <1>5, <1>6, <1>8, CallContinues
  <1> QED BY SMTT(30), <1>8, <1>9 DEF HandlersInv

LEMMA NoTasks == <<>> \in Seq(Tasks)
  OBVIOUS

LEMMA WriteCommitStep == ASSUME HandlersInv, NEW c \in Calls, WriteCommit(c) PROVE HandlersInv'
  <1> DEFINE m == call[c].msg
             squashed == IF m.squash THEN {m.record} ELSE {}
             cleaned == Cleanup(m, call[c].existing)
             todo == Then("clean", cleaned, Then("siblings", squashed, <<>>))
  <1>1. call[c].pc = "commit" /\ Commit(c, call[c].latest, call[c].encoded # {}, todo) /\ m.class = WriteClass
    BY DEF WriteCommit, Commit, At
  <1>2. m \in Messages /\ call[c].existing \in SUBSET Messages /\ call[c].latest \in BOOLEAN
    BY <1>1, CallFacts
  <1>3. squashed \in SUBSET (Messages \cup Records)
    BY <1>2, MessagesAssumption
  <1>4. cleaned \in SUBSET (Messages \cup Records)
    BY SMTT(30), <1>2 DEF Cleanup, outranked_cids
  <1>5. call[c].latest \/ is_initial_write(m, m.author)
    BY <1>1, CallFacts DEF CallOK
  <1> HIDE DEF squashed, cleaned
  <1>6. todo \in Seq(Tasks)
    BY Zenon, <1>3, <1>4, NoTasks, ThenTasks
  <1>7. PICK latest \in BOOLEAN, encoded \in BOOLEAN : latest = call[c].latest /\ encoded = (call[c].encoded # {})
    BY Zenon, <1>2
  <1> HIDE DEF todo
  <1>8. Commit(c, latest, encoded, todo)
    BY <1>1, <1>7
  <1>9. latest \/ is_initial_write(call[c].msg, call[c].msg.author)
    BY <1>5, <1>7
  <1> QED BY <1>6, <1>8, <1>9, CommitStep

LEMMA DeleteCommitStep == ASSUME HandlersInv, NEW c \in Calls, DeleteCommit(c) PROVE HandlersInv'
  <1> DEFINE m == call[c].msg
             pruned == IF m.class = PruneClass THEN {m.record} ELSE {}
             cleaned == Cleanup(m, call[c].existing)
             todo == Then("children", pruned, Then("clean", cleaned, <<>>))
  <1>1. call[c].pc = "commit" /\ Commit(c, TRUE, FALSE, todo)
    BY DEF DeleteCommit, Commit, At
  <1>2. m \in Messages /\ call[c].existing \in SUBSET Messages
    BY <1>1, CallFacts
  <1>3. pruned \in SUBSET (Messages \cup Records)
    BY <1>2, MessagesAssumption
  <1>4. cleaned \in SUBSET (Messages \cup Records)
    BY <1>2 DEF Cleanup, outranked_cids
  <1> HIDE DEF pruned, cleaned
  <1>5. todo \in Seq(Tasks)
    BY Zenon, <1>3, <1>4, NoTasks, ThenTasks
  <1> HIDE DEF todo
  <1> QED BY Zenon, <1>1, <1>5, CommitStep

LEMMA DeleteDataStep == ASSUME HandlersInv, NEW c \in Calls, DeleteData(c) PROVE HandlersInv'
  <1>1. PICK m \in Work(c) : Continue(c, Then("clean", Work(c) \ {m}, Rest(c)))
    BY SMTT(30) DEF DeleteData
  <1>2. Work(c) \in SUBSET (Messages \cup Records) /\ Rest(c) \in Seq(Tasks)
    BY WorkFacts DEF DeleteData
  <1>3. Work(c) \ {m} \in SUBSET (Messages \cup Records)
    BY <1>2
  <1>4. Then("clean", Work(c) \ {m}, Rest(c)) \in Seq(Tasks)
    BY <1>2, <1>3, ThenTasks
  <1>5. UNCHANGED <<store, settled>>
    BY DEF DeleteData
  <1> QED BY <1>1, <1>4, <1>5, ContinueStep

LEMMA PurgeChildrenStep == ASSUME HandlersInv, NEW c \in Calls, PurgeChildren(c) PROVE HandlersInv'
  <1> DEFINE r == CHOOSE x \in Work(c) : TRUE
             below == {m \in store.retained : Parent[m.record] = r}
             records == {m.record : m \in below}
             next == Then("children", Work(c) \ {r}, Rest(c))
             then == Then("purge", below, next)
  <1>1. Work(c) \in SUBSET (Messages \cup Records) /\ Work(c) # {} /\ Rest(c) \in Seq(Tasks)
    BY WorkFacts DEF PurgeChildren
  <1>2. r \in Work(c)
    BY <1>1
  <1>3. r # None
    BY <1>1, <1>2, MessagesAssumption
  <1>4. store.retained \in SUBSET Messages
    BY DEF HandlersInv, StoreInv, Stores
  <1>5. below \in SUBSET (Messages \cup Records) /\ \A x \in below : x \in Messages /\ x.record \notin Roots
    BY <1>3, <1>4 DEF Roots
  <1>6. records \in SUBSET (Messages \cup Records)
    BY <1>5, MessagesAssumption
  <1>7. Work(c) \ {r} \in SUBSET (Messages \cup Records)
    BY <1>1
  <1>8. Continue(c, Then("children", records, then)) /\ UNCHANGED <<store, settled>>
    BY DEF PurgeChildren, purge_record_descendants
  <1> HIDE DEF r, below, records
  <1>9. next \in Seq(Tasks)
    BY <1>1, <1>7, ThenTasks
  <1> HIDE DEF next
  <1>10. then \in Seq(Tasks)
    BY <1>5, <1>9, ThenTasks
  <1> HIDE DEF then
  <1>11. Then("children", records, then) \in Seq(Tasks)
    BY <1>6, <1>10, ThenTasks
  <1> QED BY SMTT(30), <1>8, <1>11, ContinueStep

LEMMA PurgeSiblingsStep == ASSUME HandlersInv, NEW c \in Calls, PurgeSiblings(c) PROVE HandlersInv'
  <1> DEFINE siblings == {m \in store.retained : m.record \in SquashRecords}
             S == perform_records_squash(call[c].msg, siblings)
  <1>1. Rest(c) \in Seq(Tasks)
    BY WorkFacts DEF PurgeSiblings
  <1>2. store.retained \in SUBSET Messages
    BY DEF HandlersInv, StoreInv, Stores
  <1>3. S \in SUBSET (Messages \cup Records) /\ \A x \in S : x \in Messages /\ x.record \notin Roots
    BY SMTT(30), <1>2 DEF Roots, perform_records_squash
  <1>4. Continue(c, Then("purge", S, Rest(c))) /\ UNCHANGED <<store, settled>>
    BY DEF PurgeSiblings
  <1> HIDE DEF S
  <1>5. Then("purge", S, Rest(c)) \in Seq(Tasks)
    BY <1>1, <1>3, ThenTasks
  <1> QED BY SMTT(30), <1>4, <1>5, ContinueStep

LEMMA PurgeRecordMessagesStep ==
    ASSUME HandlersInv, NEW c \in Calls, PurgeRecordMessages(c) PROVE HandlersInv'
  <1> DEFINE r == (CHOOSE x \in Work(c) : TRUE).record
             S == OfRecord(Work(c), r)
             next == Then("purge", Work(c) \ S, Rest(c))
  <1>1. /\ Work(c) \in SUBSET (Messages \cup Records) /\ Rest(c) \in Seq(Tasks)
        /\ \A x \in Work(c) : x \in Messages /\ x.record \notin Roots
    BY WorkFacts DEF PurgeRecordMessages
  <1>2. S \in SUBSET (Messages \cup Records) /\ \A x \in S : x \in Work(c)
    BY SMTT(30), <1>1 DEF OfRecord
  <1>3. Continue(c, Then("drop", S, next)) /\ UNCHANGED <<store, settled>>
    BY DEF PurgeRecordMessages
  <1> HIDE DEF S
  <1>4. Work(c) \ S \in SUBSET (Messages \cup Records) /\ \A x \in Work(c) \ S : x \in Work(c)
    BY <1>1
  <1>5. next \in Seq(Tasks)
    BY <1>1, <1>4, ThenTasks
  <1> HIDE DEF next
  <1>6. Then("drop", S, next) \in Seq(Tasks)
    BY <1>1, <1>2, <1>5, ThenTasks
  <1> QED BY SMTT(30), <1>3, <1>6, ContinueStep

LEMMA DropMessageStep == ASSUME HandlersInv, NEW c \in Calls, DropMessage(c) PROVE HandlersInv'
  <1>1. PICK m \in Work(c) :
           /\ store' = [retained |-> store.retained \ {m}, latest |-> store.latest \ {m},
                        encoded |-> store.encoded \ {m}]
           /\ settled' = settled \ OfRecord(settled, m.record)
           /\ Continue(c, Then("drop", Work(c) \ {m}, Rest(c)))
    BY Zenon DEF DropMessage
  <1>2. /\ Work(c) \in SUBSET (Messages \cup Records) /\ Rest(c) \in Seq(Tasks)
        /\ \A x \in Work(c) : x \in Messages /\ x.record \notin Roots
    BY WorkFacts DEF DropMessage
  <1>3. Work(c) \ {m} \in SUBSET (Messages \cup Records) /\ \A x \in Work(c) \ {m} : x \in Work(c)
    BY <1>2
  <1>4. Then("drop", Work(c) \ {m}, Rest(c)) \in Seq(Tasks)
    BY <1>2, <1>3, ThenTasks
  <1>5. StoreInv' /\ RootInitialsStay
    BY Zenon, <1>1, <1>2, StoreDrops DEF HandlersInv
  <1>6. CallsInv'
    BY Zenon, <1>1, <1>4, <1>5, CallContinues DEF HandlersInv
  <1> QED BY SMTT(30), <1>5, <1>6 DEF HandlersInv

-----------------------------------------------------------------------------
(* Every step of every handler preserves the invariant. *)
LEMMA HandlersInductive == HandlersInv /\ [HandlersNext]_handlersVars => HandlersInv'
  <1> SUFFICES ASSUME HandlersInv, [HandlersNext]_handlersVars PROVE HandlersInv'
    OBVIOUS
  <1>1. CASE UNCHANGED handlersVars
    <2>1. StoreInv'
      BY <1>1, StoreStays DEF HandlersInv, handlersVars
    <2>2. CallsInv'
      BY <1>1 DEF HandlersInv, CallsInv, handlersVars
    <2> QED BY <2>1, <2>2 DEF HandlersInv
  <1>2. CASE HandlersNext
    <2>1. PICK c \in Calls : Request(c) \/ Refuse(c) \/ Step(c) \/ Fault(c)
      BY <1>2 DEF HandlersNext
    <2>2. CASE Request(c)
      BY <2>2, RequestStep
    <2>3. CASE Refuse(c) \/ Fault(c) \/ RetainMissing(c)
      <3>1. Return(c) /\ UNCHANGED <<store, settled>>
        BY <2>3 DEF Refuse, Fault, RetainMissing
      <3> QED BY <3>1, ReturnStep
    <2>4. CASE WriteRead(c) \/ WriteAdmit(c) \/ WriteDecide(c)
      BY <2>4, WriteReadStep, WriteAdmitStep, WriteDecideStep
    <2>5. CASE WriteWithData(c) \/ WriteWithoutData(c) \/ WriteCommit(c)
      BY <2>5, WriteWithDataStep, WriteWithoutDataStep, WriteCommitStep
    <2>6. CASE DeleteRead(c) \/ DeleteCommit(c)
      BY <2>6, DeleteReadStep, DeleteCommitStep
    <2>7. CASE DeleteData(c) \/ PurgeChildren(c) \/ PurgeSiblings(c)
      BY <2>7, DeleteDataStep, PurgeChildrenStep, PurgeSiblingsStep
    <2>8. CASE PurgeRecordMessages(c) \/ DropMessage(c)
      BY <2>8, PurgeRecordMessagesStep, DropMessageStep
    <2> QED BY <2>1, <2>2, <2>3, <2>4, <2>5, <2>6, <2>7, <2>8 DEF Step
  <1> QED BY <1>1, <1>2

(* The greatest settled message of a record is its winner, so it is kept.  *)
LEMMA InvariantKeepsWinner == HandlersInv => WinnerKept
  <1> SUFFICES ASSUME HandlersInv, NEW r \in Records, OfRecord(settled, r) # {}
               PROVE  /\ Winner(OfRecord(settled, r)) \in store.retained
                      /\ Winner(OfRecord(settled, r)) \in store.latest \cup Initials(OfRecord(settled, r))
    BY DEF WinnerKept
  <1>1. PICK w \in store.retained : IsGreatest(w, OfRecord(settled, r))
    BY DEF HandlersInv, StoreInv, GreatestKept
  <1>2. OfRecord(settled, r) \in SUBSET Messages
    BY DEF HandlersInv, StoreInv, OfRecord
  <1>3. Winner(OfRecord(settled, r)) = w /\ w \in OfRecord(settled, r)
    BY <1>1, <1>2, WinnerGreatest DEF IsGreatest
  <1>4. w \in store.latest \/ is_initial_write(w, w.author)
    BY DEF HandlersInv, StoreInv, Indexed, Initials
  <1> QED BY <1>3, <1>4 DEF Initials

LEMMA HandlersInvariant == HandlersSpec => []HandlersInv
  BY HandlersStart, HandlersInductive, PTL DEF HandlersSpec

(* Whatever handlers race on a record, are cut short or fail, the greatest *)
(* message the node settled stays retained and is indexed as the latest    *)
(* state, unless it is an initial write (plan_records_transition,          *)
(* commit_latest_state).                                                   *)
THEOREM RacesKeepWinner == HandlersSpec => []WinnerKept
  BY HandlersInvariant, InvariantKeepsWinner, PTL

(* If the messages of a record come from its author alone, no race loses   *)
(* its initial write either.                                               *)
THEOREM RacesAreSafe == ASSUME OneAuthor PROVE HandlersSpec => []RaceSafe
  <1>1. HandlersInv => RaceSafe
    BY InvariantKeepsWinner DEF RaceSafe, HandlersInv, StoreInv
  <1> QED BY <1>1, HandlersInvariant, PTL

-----------------------------------------------------------------------------
(* What is settled of a root stays settled, *)
LEMMA RootsStaySettled ==
    ASSUME HandlersInv, [HandlersNext]_handlersVars, NEW r \in Roots
    PROVE  OfRecord(settled, r) \subseteq OfRecord(settled', r)
  <1>1. CASE UNCHANGED handlersVars
    BY <1>1 DEF handlersVars
  <1>2. CASE HandlersNext
    <2>1. PICK c \in Calls : Request(c) \/ Refuse(c) \/ Step(c) \/ Fault(c)
      BY <1>2 DEF HandlersNext
    <2>2. CASE DropMessage(c)
      <3>1. PICK m \in Work(c) : settled' = settled \ OfRecord(settled, m.record)
        BY SMTT(30), <2>2 DEF DropMessage
      <3>2. m.record # r
        BY <2>2, WorkFacts DEF DropMessage
      <3> QED BY SMTT(30), <3>1, <3>2 DEF OfRecord
    <2>3. CASE ~ DropMessage(c)
      <3>1. settled \subseteq settled'
        <4>1. CASE Request(c) \/ Refuse(c) \/ Fault(c) \/ RetainMissing(c) \/ WriteAdmit(c)
          BY Zenon, <4>1 DEF Request, Refuse, Fault, RetainMissing, WriteAdmit
        <4>2. CASE WriteRead(c) \/ WriteDecide(c) \/ DeleteRead(c)
          BY Zenon, <4>2 DEF WriteRead, WriteDecide, DeleteRead, Settle, SettleBelow
        <4>3. CASE WriteWithData(c) \/ WriteWithoutData(c) \/ WriteCommit(c) \/ DeleteCommit(c)
          BY Zenon, <4>3 DEF WriteWithData, WriteWithoutData, WriteCommit, DeleteCommit, Commit, Settle
        <4>4. CASE DeleteData(c) \/ PurgeChildren(c) \/ PurgeSiblings(c) \/ PurgeRecordMessages(c)
          BY Zenon, <4>4 DEF DeleteData, PurgeChildren, PurgeSiblings, PurgeRecordMessages
        <4> QED BY SMTT(30), <2>1, <2>3, <4>1, <4>2, <4>3, <4>4 DEF Step
      <3> QED BY <3>1 DEF OfRecord
    <2> QED BY <2>2, <2>3
  <1> QED BY <1>1, <1>2

(* and the winner of what a root retains is the greatest of it. *)
RootsGreatest ==
    \A r \in Roots : OfRecord(settled, r) # {} =>
        LET w == Winner(OfRecord(store.retained, r))
        IN  w \in Messages /\ w \in OfRecord(store.retained, r) /\ IsGreatest(w, OfRecord(settled, r))

LEMMA RootWinner == HandlersInv => RootsGreatest
  <1> SUFFICES ASSUME HandlersInv, NEW r \in Roots, OfRecord(settled, r) # {}
               PROVE  LET w == Winner(OfRecord(store.retained, r))
                      IN  /\ w \in Messages /\ w \in OfRecord(store.retained, r)
                          /\ IsGreatest(w, OfRecord(settled, r))
    BY DEF RootsGreatest
  <1>1. r \in Records
    BY SMTT(30) DEF Roots
  <1>2. PICK w \in store.retained : IsGreatest(w, OfRecord(settled, r))
    BY <1>1 DEF HandlersInv, StoreInv, GreatestKept
  <1>3. store.retained \in SUBSET Messages
    BY DEF HandlersInv, StoreInv, Stores
  <1>4. OfRecord(store.retained, r) \in SUBSET Messages /\ w \in OfRecord(store.retained, r)
    BY <1>2, <1>3 DEF IsGreatest, OfRecord
  <1>5. OfRecord(store.retained, r) \subseteq OfRecord(settled, r)
    BY DEF HandlersInv, StoreInv, RootsSettled, OfRecord
  <1>6. IsGreatest(w, OfRecord(store.retained, r))
    BY <1>2, <1>4, <1>5 DEF IsGreatest
  <1>7. Winner(OfRecord(store.retained, r)) = w
    BY <1>4, <1>6, WinnerGreatest
  <1> QED BY <1>2, <1>4, <1>7

(* The state of a record no purge can reach only moves up the lattice, in  *)
(* every interleaving of handlers: no late commit undoes a delete or a     *)
(* newer write (plan_records_transition plans from a snapshot that may be  *)
(* stale when commit_latest_state runs).                                   *)
THEOREM RootsOnlyAdvance == HandlersSpec => StateOnlyAdvances
  <1>1. HandlersInv /\ RootsGreatest /\ RootsGreatest' /\ [HandlersNext]_handlersVars => [Advances]_handlersVars
    <2> SUFFICES ASSUME HandlersInv, RootsGreatest, RootsGreatest', [HandlersNext]_handlersVars,
                        NEW r \in Roots, OfRecord(store.retained, r) # {}
                 PROVE  /\ OfRecord(store'.retained, r) # {}
                        /\ ~ compare_order(Winner(OfRecord(store'.retained, r)),
                                           Winner(OfRecord(store.retained, r)))
      BY DEF Advances
    <2> DEFINE w == Winner(OfRecord(store.retained, r))
               v == Winner(OfRecord(store'.retained, r))
    <2>1. OfRecord(settled, r) # {}
      BY DEF HandlersInv, StoreInv, RootsSettled, OfRecord
    <2>2. OfRecord(settled, r) \subseteq OfRecord(settled', r)
      BY RootsStaySettled
    <2>3. w \in Messages /\ IsGreatest(w, OfRecord(settled, r))
      BY <2>1 DEF RootsGreatest
    <2>4. (OfRecord(settled, r) # {})'
      BY SMTT(30), <2>1, <2>2
    <2>5. v \in Messages /\ v \in OfRecord(store'.retained, r) /\ IsGreatest(v, OfRecord(settled', r))
      BY SMTT(30), <2>4 DEF RootsGreatest
    <2> HIDE DEF w, v
    <2>6. w = v \/ compare_order(w, v)
      BY SMTT(30), <2>2, <2>3, <2>5 DEF IsGreatest
    <2>7. ~ compare_order(v, w)
      BY <2>3, <2>5, <2>6, OrderStrict
    <2> QED BY SMTT(30), <2>5, <2>7 DEF w, v
  <1> QED BY <1>1, HandlersInvariant, RootWinner, PTL DEF HandlersSpec, StateOnlyAdvances
=============================================================================
