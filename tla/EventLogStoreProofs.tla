------------------------ MODULE EventLogStoreProofs ------------------------
(***************************************************************************)
(* Proofs about the event log beside the message store, for every number   *)
(* of emitters, subscribers, events and retained entries.                  *)
(*                                                                         *)
(* Three invariants are carried together.  ListenersServed needs only that *)
(* an event in the log was emitted.  The other two hold while emits do not *)
(* overlap; what they need then is Sole: one emit at a time, whose         *)
(* sequence is the one after the persisted one, and no entry, row or       *)
(* page cursor beyond the sequence given out last.                         *)
(***************************************************************************)
EXTENDS EventLogStore, FiniteSetTheorems, WellFoundedInduction, TLAPS

Paging(s) == sub[s].pc \in {"read", "more", "drained"} /\ sub[s].cursor # NoCursor

Busy(e) == emitting[e].pc # "idle"

EmitRecord == [pc : {"idle"}] \cup [pc : {"deliver", "persist"}, seq : Nat, event : Nat, to : SUBSET Subscribers]

SubRecord ==
    [pc : {"idle", "register", "replay", "failed", "closed", "read", "more", "drained"},
     cursor : Nat \cup {NoCursor}, on : BOOLEAN, got : SUBSET Nat, since : Nat]

(* No sequence and no event is beyond the number of emits. *)
Table(f) == f \in [DOMAIN f -> 1 .. emitted] /\ DOMAIN f \in SUBSET (1 .. emitted)

LogType ==
    /\ emitted \in Nat /\ tenant_seq \in 0 .. emitted /\ seq_row \in 0 .. emitted
    /\ Table(log) /\ Table(event_rows)
    /\ emitting \in [Emitters -> EmitRecord]
    /\ \A e \in Emitters : Busy(e) => emitting[e].event \in 1 .. emitted /\ emitting[e].seq \in 1 .. emitted
    /\ sub \in [Subscribers -> SubRecord]
    /\ \A s \in Subscribers : sub[s].pc = "replay" => sub[s].cursor # NoCursor

Sole ==
    /\ \A e, f \in Emitters : Busy(e) /\ Busy(f) => e = f
    /\ (\A e \in Emitters : ~ Busy(e)) => tenant_seq = seq_row
    /\ \A e \in Emitters : Busy(e) =>
          /\ emitting[e].seq = tenant_seq /\ tenant_seq = seq_row + 1
          /\ \/ emitting[e].event \in trimmed
             \/ tenant_seq \in DOMAIN log /\ log[tenant_seq] = emitting[e].event
    /\ DOMAIN log \subseteq 1 .. tenant_seq
    /\ DOMAIN event_rows \subseteq 1 .. seq_row
    /\ \A s \in Subscribers : Paging(s) => sub[s].cursor <= tenant_seq

LogInv ==
    /\ LogType
    /\ ~ overlapped => Sole
    /\ ListenersServed
    /\ PagesComplete
    /\ ReturnedEventsSurvive
-----------------------------------------------------------------------------
(* Facts about natural numbers and pages. *)

(* A non-empty set of natural numbers has a least element. *)
LEMMA LeastNatural ==
    ASSUME NEW T \in SUBSET Nat, T # {}
    PROVE  \E x \in T : \A y \in T : x <= y
<1> DEFINE R == OpToRel(<, Nat)
<1>1. IsWellFoundedOn(R, Nat)
  BY NatLessThanWellFounded
<1>2. \A x, y \in Nat : x < y => <<x, y>> \in R
  BY DEF OpToRel
<1> HIDE DEF R
<1>3. PICK x \in T : \A y \in T : <<y, x>> \notin R
  BY Zenon, <1>1, WFMin
<1>4. \A y \in T : ~ (y < x) /\ y \in Nat /\ x \in Nat
  BY Zenon, <1>2, <1>3
<1> QED BY <1>4

(* A bounded one has a greatest element: the least of its bounds. *)
LEMMA GreatestNatural ==
    ASSUME NEW T \in SUBSET Nat, T # {}, NEW b \in Nat, \A y \in T : y <= b
    PROVE  \E x \in T : \A y \in T : y <= x
<1> DEFINE Bounds == {k \in Nat : \A y \in T : y <= k}
<1>1. PICK k \in Bounds : \A j \in Bounds : k <= j
  BY Zenon, LeastNatural
<1>2. PICK y \in T : TRUE
  BY Zenon
<1>3. CASE k = 0
  BY <1>1, <1>2, <1>3
<1>4. CASE k > 0
  <2>1. k - 1 \in Nat /\ ~ (k <= k - 1)
    BY <1>4
  <2>2. PICK z \in T : ~ (z <= k - 1)
    BY <1>1, <2>1
  <2> QED BY <1>1, <2>1, <2>2
<1> QED BY <1>1, <1>3, <1>4

(* A page is the beginning of what is left: with an entry it holds every   *)
(* earlier one.                                                            *)
LEMMA PageIsPrefix ==
    ASSUME NEW S \in SUBSET Nat, IsFiniteSet(S), NEW n \in S, NEW m \in S, n <= m,
           Cardinality({k \in S : k < m}) < limit
    PROVE  Cardinality({k \in S : k < n}) < limit
<1> DEFINE A == {k \in S : k < n}
           B == {k \in S : k < m}
<1>0. \A k \in S : k < n => k < m
  OBVIOUS
<1>1. A \in SUBSET B /\ B \in SUBSET S
  BY Zenon, <1>0
<1> HIDE DEF A, B
<1>2. IsFiniteSet(B) /\ IsFiniteSet(A)
  BY Zenon, <1>1, FS_Subset
<1>3. Cardinality(A) <= Cardinality(B)
  BY Zenon, <1>1, <1>2, FS_Subset
<1>4. Cardinality(A) \in Nat /\ Cardinality(B) \in Nat
  BY <1>2, FS_CardinalityType
<1>5. Cardinality(B) < limit
  BY DEF B
<1>6. Cardinality(A) < limit
  BY <1>3, <1>4, <1>5, LimitAssumption
<1> QED BY <1>6 DEF A

-----------------------------------------------------------------------------
(* Steps of subscribers and readers change sub only. *)

(* One such step keeps the invariant when the new record is well formed    *)
(* and makes no claim that the log does not back.                          *)
LEMMA SubStep ==
    ASSUME LogInv, NEW s \in Subscribers, NEW r \in SubRecord, sub' = [sub EXCEPT ![s] = r],
           r.pc = "replay" => r.cursor # NoCursor,
           UNCHANGED <<log, tenant_seq, event_rows, seq_row, emitting, emitted, returned, trimmed, overlapped>>,
           ~ overlapped => (r.pc \in {"read", "more", "drained"} /\ r.cursor # NoCursor => r.cursor <= tenant_seq),
           \A n \in DOMAIN log :
              r.on /\ r.pc = "idle" /\ (IF r.cursor = NoCursor THEN log[n] > r.since ELSE n > r.cursor) =>
                 \/ log[n] \in r.got
                 \/ \E e \in Emitters : emitting[e].pc = "deliver" /\ emitting[e].event = log[n] /\ s \in emitting[e].to,
           ~ overlapped => \A n \in DOMAIN log :
              r.pc \in {"read", "more", "drained"} /\ r.cursor # NoCursor /\ n > r.since /\ n <= r.cursor
                 => log[n] \in r.got
    PROVE  LogInv'
<1>1. LogType'
  BY DEF LogInv, LogType, Table, Busy
<1>2. \A t \in Subscribers : sub'[t] = IF t = s THEN r ELSE sub[t]
  BY DEF LogInv, LogType
<1>3. (~ overlapped => Sole)'
  BY <1>2 DEF LogInv, Sole, Paging, Busy
<1>4. ListenersServed'
  BY <1>2 DEF LogInv, ListenersServed
<1>5. PagesComplete'
  BY <1>2 DEF LogInv, PagesComplete
<1>6. ReturnedEventsSurvive'
  BY DEF LogInv, ReturnedEventsSurvive, Held
<1> QED BY <1>1, <1>3, <1>4, <1>5, <1>6 DEF LogInv
-----------------------------------------------------------------------------
(* Steps of emitters, trims and restarts. *)

(* The new entry has the next sequence and a new event, so nobody's claim  *)
(* speaks of it but the listeners', whom the emit is about to serve.       *)
LEMMA EmitOK ==
    ASSUME LogInv, NEW e \in Emitters, Emit(e)
    PROVE  LogInv'
<1> DEFINE n    == tenant_seq + 1
           x    == emitted + 1
           full == Insert(log, n, x)
           kept == IF Cardinality(DOMAIN full) > max_events_per_tenant
                   THEN DOMAIN full \ {Least(DOMAIN full)} ELSE DOMAIN full
           r    == [pc |-> "deliver", seq |-> n, event |-> x, to |-> {s \in Subscribers : sub[s].on}]
<1>0. LogType /\ emitting[e].pc = "idle"
  BY DEF LogInv, Emit
<1>1. /\ tenant_seq' = n /\ emitted' = x
      /\ log' = Keep(full, kept)
      /\ trimmed' = trimmed \cup Held(Keep(full, DOMAIN full \ kept))
      /\ emitting' = [emitting EXCEPT ![e] = r]
      /\ overlapped' = (overlapped \/ \E f \in Emitters : emitting[f].pc # "idle")
      /\ UNCHANGED <<event_rows, seq_row, sub, returned>>
  BY DEF Emit
<1>2. kept \subseteq DOMAIN full
  OBVIOUS
<1>3. /\ DOMAIN full = DOMAIN log \cup {n} /\ full[n] = x
      /\ \A m \in DOMAIN log \ {n} : full[m] = log[m]
  BY DEF Insert
<1>4. n \in 1 .. x /\ x \in Nat /\ x \in 1 .. x /\ 1 .. emitted \subseteq 1 .. x /\ 0 .. emitted \subseteq 0 .. x
  BY <1>0 DEF LogType
<1>5. r \in EmitRecord /\ r.pc = "deliver" /\ r.seq = n /\ r.event = x /\ r.to = {s \in Subscribers : sub[s].on}
  BY <1>4 DEF EmitRecord
<1> HIDE DEF n, x, full, kept, r
<1>6. DOMAIN log' = kept /\ \A m \in kept : log'[m] = full[m]
  BY <1>1, <1>2 DEF Keep
<1>7. trimmed' = trimmed \cup {full[m] : m \in DOMAIN full \ kept}
  BY <1>1 DEF Keep, Held
<1>8. \A f \in Emitters : emitting'[f] = IF f = e THEN r ELSE emitting[f]
  BY <1>0, <1>1 DEF LogType
<1>9. LogType'
  <2>1. \A m \in DOMAIN full : full[m] \in 1 .. x /\ m \in 1 .. x
    BY <1>0, <1>3, <1>4 DEF LogType, Table
  <2>2. Table(log)'
    BY <1>1, <1>2, <1>6, <2>1 DEF Keep, Table
  <2>3. Table(event_rows)'
    BY <1>0, <1>1, <1>4 DEF LogType, Table
  <2>4. \A f \in Emitters : Busy(f)' => emitting'[f].event \in 1 .. emitted' /\ emitting'[f].seq \in 1 .. emitted'
    BY Zenon, <1>0, <1>1, <1>4, <1>5, <1>8 DEF LogType, Busy
  <2>5. emitting' \in [Emitters -> EmitRecord]
    BY <1>0, <1>1, <1>5 DEF LogType
  <2>6. emitted' \in Nat /\ tenant_seq' \in 0 .. emitted' /\ seq_row' \in 0 .. emitted'
    <3>1. seq_row \in 0 .. x
      BY <1>0, <1>4 DEF LogType
    <3>2. n \in 0 .. x
      BY <1>4
    <3> QED BY <1>1, <1>4, <3>1, <3>2
  <2> QED BY <1>0, <1>1, <2>2, <2>3, <2>4, <2>5, <2>6 DEF LogType
<1>10. ASSUME ~ overlapped'
       PROVE  Sole' /\ ~ overlapped /\ Sole /\ \A f \in Emitters : ~ Busy(f)
  <2>1. ~ overlapped /\ Sole /\ \A f \in Emitters : ~ Busy(f)
    BY Zenon, <1>1, <1>10 DEF LogInv, Busy
  <2>2. n = seq_row + 1 /\ tenant_seq = seq_row
    BY <2>1 DEF Sole, n
  <2>3. \A f \in Emitters : Busy(f)' => f = e
    BY <1>8, <2>1 DEF Busy
  <2>4. x \in trimmed' \/ (n \in DOMAIN log' /\ log'[n] = x)
    BY <1>3, <1>6, <1>7
  <2>5. DOMAIN log' \subseteq 1 .. n
    BY <1>0, <1>2, <1>3, <1>6, <2>1 DEF Sole, LogType, n
  <2>6. \A s \in Subscribers : Paging(s)' => sub'[s].cursor <= tenant_seq'
    BY <1>0, <1>1, <2>1 DEF Sole, LogType, n, Paging, SubRecord
  <2>7. Busy(e)'
    BY <1>5, <1>8 DEF Busy
  <2>8. emitting'[e].seq = n /\ emitting'[e].event = x
    BY <1>5, <1>8
  <2>9. DOMAIN event_rows' \subseteq 1 .. seq_row'
    BY <1>1, <2>1 DEF Sole
  <2> QED BY <1>1, <2>1, <2>2, <2>3, <2>4, <2>5, <2>6, <2>7, <2>8, <2>9 DEF Sole
<1>11. ListenersServed'
  <2> SUFFICES ASSUME NEW s \in Subscribers, NEW m \in DOMAIN log',
                      sub[s].on, sub[s].pc = "idle",
                      IF sub[s].cursor = NoCursor THEN log'[m] > sub[s].since ELSE m > sub[s].cursor
               PROVE  \/ log'[m] \in sub[s].got
                      \/ \E f \in Emitters : /\ emitting'[f].pc = "deliver" /\ emitting'[f].event = log'[m]
                                             /\ s \in emitting'[f].to
    BY <1>1 DEF ListenersServed
  <2>1. CASE m = n
    BY <1>3, <1>5, <1>6, <1>8, <2>1
  <2>2. CASE m # n
    <3>1. m \in DOMAIN log /\ log'[m] = log[m]
      BY <1>2, <1>3, <1>6, <2>2
    <3>2. \/ log[m] \in sub[s].got
          \/ \E f \in Emitters : emitting[f].pc = "deliver" /\ emitting[f].event = log[m] /\ s \in emitting[f].to
      BY <3>1 DEF LogInv, ListenersServed
    <3> QED BY <1>0, <1>8, <3>1, <3>2
  <2> QED BY <2>1, <2>2
<1>12. PagesComplete'
  <2> SUFFICES ASSUME ~ overlapped', NEW s \in Subscribers, NEW m \in DOMAIN log',
                      Paging(s), m > sub[s].since, m <= sub[s].cursor
               PROVE  log'[m] \in sub[s].got
    BY <1>1 DEF PagesComplete, Paging
  <2>1. sub[s].cursor <= tenant_seq /\ sub[s].cursor \in Nat
    BY <1>0, <1>10 DEF Sole, Paging, LogType, SubRecord
  <2>2. m # n /\ m \in DOMAIN log
    BY <1>0, <1>2, <1>3, <1>6, <2>1 DEF n, LogType
  <2>3. log'[m] = log[m]
    BY <1>3, <1>6, <2>2
  <2> QED BY <1>10, <2>2, <2>3 DEF LogInv, PagesComplete, Paging
<1>13. ReturnedEventsSurvive'
  <2> SUFFICES ASSUME ~ overlapped', NEW y \in returned, y \notin trimmed'
               PROVE  y \in Held(event_rows) /\ y \in Held(log')
    BY SMTT(30), <1>1 DEF ReturnedEventsSurvive, Held
  <2>1. y \in Held(event_rows) /\ y \in Held(log)
    BY <1>7, <1>10 DEF LogInv, ReturnedEventsSurvive
  <2>2. PICK m \in DOMAIN log : log[m] = y
    BY <2>1 DEF Held
  <2>3. m # n
    BY <1>0, <1>10 DEF Sole, n, LogType
  <2>4. m \in kept /\ log'[m] = y
    BY <1>3, <1>6, <1>7, <2>2, <2>3
  <2> QED BY <1>6, <2>1, <2>4 DEF Held
<1> QED BY <1>9, <1>10, <1>11, <1>12, <1>13 DEF LogInv

(* A delivery moves a listener from those to serve to those served. *)
LEMMA DeliverOK ==
    ASSUME LogInv, NEW e \in Emitters, Deliver(e)
    PROVE  LogInv'
<1>0. /\ LogType /\ emitting[e].pc = "deliver" /\ emitting[e] \in EmitRecord /\ Busy(e)
      /\ UNCHANGED <<log, tenant_seq, event_rows, seq_row, emitted, returned, trimmed, overlapped>>
  BY DEF LogInv, LogType, Deliver, Busy
<1>1. /\ \A f \in Emitters : /\ f # e => emitting'[f] = emitting[f]
                             /\ Busy(f)' <=> Busy(f)
                             /\ Busy(f) => emitting'[f].seq = emitting[f].seq /\ emitting'[f].event = emitting[f].event
      /\ emitting' \in [Emitters -> EmitRecord]
  BY <1>0 DEF Deliver, LogType, EmitRecord, Busy
<1>2. /\ sub' \in [Subscribers -> SubRecord]
      /\ \A s \in Subscribers :
            /\ sub'[s].pc = sub[s].pc /\ sub'[s].cursor = sub[s].cursor
            /\ sub'[s].on = sub[s].on /\ sub'[s].since = sub[s].since
            /\ sub[s].got \subseteq sub'[s].got
  <2>1. CASE UNCHANGED sub
    BY <1>0, <2>1 DEF LogType
  <2>2. CASE \E s \in emitting[e].to : sub' = [sub EXCEPT ![s].got = @ \cup {emitting[e].event}]
    <3>1. PICK s \in emitting[e].to : sub' = [sub EXCEPT ![s].got = @ \cup {emitting[e].event}]
      BY Zenon, <2>2
    <3>2. s \in Subscribers /\ emitting[e].event \in Nat
      BY <1>0 DEF EmitRecord
    <3> QED BY <1>0, <3>1, <3>2 DEF LogType, SubRecord
  <2> QED BY <2>1, <2>2 DEF Deliver
<1>3. LogType'
  BY <1>0, <1>1, <1>2 DEF LogType, Table
<1>4. (~ overlapped => Sole)'
  BY SMTT(30), <1>0, <1>1, <1>2 DEF LogInv, Sole, Paging
<1>5. ListenersServed'
  <2> SUFFICES ASSUME NEW s \in Subscribers, NEW m \in DOMAIN log,
                      sub[s].on, sub[s].pc = "idle",
                      IF sub[s].cursor = NoCursor THEN log[m] > sub[s].since ELSE m > sub[s].cursor
               PROVE  \/ log[m] \in sub'[s].got
                      \/ \E f \in Emitters : /\ emitting'[f].pc = "deliver" /\ emitting'[f].event = log[m]
                                             /\ s \in emitting'[f].to
    BY <1>0, <1>2 DEF ListenersServed
  <2>1. CASE log[m] \in sub[s].got
    BY <1>2, <2>1
  <2>2. ASSUME NEW f \in Emitters, emitting[f].pc = "deliver", emitting[f].event = log[m], s \in emitting[f].to
        PROVE  \/ log[m] \in sub'[s].got
               \/ emitting'[f].pc = "deliver" /\ emitting'[f].event = log[m] /\ s \in emitting'[f].to
    <3>1. CASE f # e
      BY <1>1, <2>2, <3>1
    <3>2. CASE f = e
      <4>1. PICK t \in emitting[e].to : /\ sub' = [sub EXCEPT ![t].got = @ \cup {emitting[e].event}]
                                        /\ emitting' = [emitting EXCEPT ![e].to = @ \ {t}]
        BY <2>2, <3>2 DEF Deliver
      <4>2. t = s => emitting[e].event \in sub'[s].got
        BY <1>0, <4>1 DEF LogType, SubRecord
      <4>3. /\ emitting'[e].pc = "deliver" /\ emitting'[e].event = emitting[e].event
            /\ emitting'[e].to = emitting[e].to \ {t}
        BY SMTT(30), <1>0, <4>1 DEF LogType, EmitRecord
      <4> QED BY <2>2, <3>2, <4>2, <4>3
    <3> QED BY <3>1, <3>2
  <2> QED BY <2>1, <2>2 DEF LogInv, ListenersServed
<1>6. PagesComplete'
  BY <1>0, <1>2 DEF LogInv, PagesComplete
<1>7. ReturnedEventsSurvive'
  BY <1>0 DEF LogInv, ReturnedEventsSurvive, Held
<1> QED BY <1>3, <1>4, <1>5, <1>6, <1>7 DEF LogInv

(* The row persisted is that of the entry in the log, or of one trimmed    *)
(* meanwhile.                                                              *)
LEMMA PersistEmitOK ==
    ASSUME LogInv, NEW e \in Emitters, persist_emit(e)
    PROVE  LogInv'
<1> DEFINE q == emitting[e].seq
           x == emitting[e].event
<1>0. /\ LogType /\ emitting[e].pc = "persist" /\ emitting[e] \in EmitRecord /\ Busy(e)
      /\ UNCHANGED <<log, tenant_seq, sub, emitted, trimmed, overlapped>>
      /\ seq_row' = q /\ returned' = returned \cup {x} /\ event_rows' = Insert(event_rows, q, x)
      /\ emitting' = [emitting EXCEPT ![e] = NotEmitting]
  BY SMTT(30) DEF LogInv, LogType, persist_emit, Busy
<1>1. q \in 1 .. emitted /\ x \in 1 .. emitted
  BY <1>0 DEF LogType, EmitRecord
<1> HIDE DEF q, x
<1>2. /\ emitting' \in [Emitters -> EmitRecord]
      /\ \A f \in Emitters : Busy(f)' <=> Busy(f) /\ f # e
      /\ \A f \in Emitters : f # e => emitting'[f] = emitting[f]
  BY <1>0 DEF LogType, EmitRecord, Busy, NotEmitting
<1>3. /\ DOMAIN event_rows' = DOMAIN event_rows \cup {q} /\ event_rows'[q] = x
      /\ \A m \in DOMAIN event_rows \ {q} : event_rows'[m] = event_rows[m]
      /\ event_rows' = [m \in DOMAIN event_rows' |-> event_rows'[m]]
  BY <1>0 DEF Insert
<1>4. LogType'
  <2>1. Table(event_rows)'
    BY <1>0, <1>1, <1>3 DEF LogType, Table
  <2> QED BY <1>0, <1>1, <1>2, <2>1 DEF LogType, Table
<1>5. ASSUME ~ overlapped'
      PROVE  /\ Sole' /\ Sole /\ ~ overlapped /\ q = tenant_seq /\ q = seq_row + 1
             /\ x \in trimmed \/ (q \in DOMAIN log /\ log[q] = x)
  <2>1. Sole /\ ~ overlapped
    BY SMTT(30), <1>0, <1>5 DEF LogInv
  <2>2. q = tenant_seq /\ q = seq_row + 1 /\ (x \in trimmed \/ (q \in DOMAIN log /\ log[q] = x))
    BY SMTT(30), <1>0, <2>1 DEF Sole, q, x
  <2>3. \A f \in Emitters : ~ Busy(f)'
    BY <1>0, <1>2, <2>1 DEF Sole
  <2>4. DOMAIN event_rows' \subseteq 1 .. seq_row'
    BY <1>0, <1>1, <1>3, <2>1, <2>2 DEF Sole, LogType
  <2>5. \A s \in Subscribers : Paging(s)' => sub'[s].cursor <= tenant_seq'
    BY <1>0, <2>1 DEF Sole, Paging
  <2>6. DOMAIN log' \subseteq 1 .. tenant_seq' /\ tenant_seq' = seq_row'
    BY <1>0, <1>1, <2>1, <2>2 DEF Sole
  <2> QED BY <2>1, <2>2, <2>3, <2>4, <2>5, <2>6 DEF Sole
<1>6. ListenersServed'
  BY <1>0, <1>2 DEF LogInv, ListenersServed
<1>7. PagesComplete'
  BY <1>0 DEF LogInv, PagesComplete
<1>8. ReturnedEventsSurvive'
  <2> SUFFICES ASSUME ~ overlapped', NEW y \in returned', y \notin trimmed
               PROVE  y \in Held(event_rows') /\ y \in Held(log)
    BY <1>0 DEF ReturnedEventsSurvive, Held
  <2>1. CASE y = x
    BY <1>3, <1>5, <2>1 DEF Held
  <2>2. CASE y # x
    <3>1. y \in Held(event_rows) /\ y \in Held(log)
      BY <1>0, <1>5, <2>2 DEF LogInv, ReturnedEventsSurvive
    <3>2. q \notin DOMAIN event_rows
      BY <1>0, <1>5 DEF Sole, LogType
    <3> QED BY <1>3, <3>1, <3>2 DEF Held
  <2> QED BY <2>1, <2>2
<1> QED BY <1>4, <1>5, <1>6, <1>7, <1>8 DEF LogInv

(* A trim only removes entries, and records which. *)
LEMMA TrimOK ==
    ASSUME LogInv, NEW n \in Nat, trim(n)
    PROVE  LogInv'
<1>0. /\ LogType
      /\ UNCHANGED <<tenant_seq, seq_row, emitting, sub, emitted, returned, overlapped>>
      /\ log' = Keep(log, {m \in DOMAIN log : m >= n})
      /\ event_rows' = Keep(event_rows, {m \in DOMAIN event_rows : m >= n})
      /\ trimmed' = trimmed \cup Held(Keep(log, {m \in DOMAIN log : m < n}))
                            \cup Held(Keep(event_rows, {m \in DOMAIN event_rows : m < n}))
  BY DEF LogInv, trim
<1>1. ASSUME NEW m, m \in DOMAIN log \/ m \in DOMAIN event_rows
      PROVE  m \in Nat /\ (m >= n <=> ~ (m < n))
  BY <1>0, <1>1 DEF LogType, Table
<1>2. /\ DOMAIN log' = {m \in DOMAIN log : m >= n}
      /\ \A m \in DOMAIN log' : log'[m] = log[m]
      /\ log' = [m \in DOMAIN log' |-> log'[m]]
  BY <1>0 DEF Keep
<1>3. /\ DOMAIN event_rows' = {m \in DOMAIN event_rows : m >= n}
      /\ \A m \in DOMAIN event_rows' : event_rows'[m] = event_rows[m]
      /\ event_rows' = [m \in DOMAIN event_rows' |-> event_rows'[m]]
  BY <1>0 DEF Keep
<1>4. /\ trimmed \subseteq trimmed'
      /\ \A m \in DOMAIN log : log[m] \in trimmed' \/ m \in DOMAIN log'
      /\ \A m \in DOMAIN event_rows : event_rows[m] \in trimmed' \/ m \in DOMAIN event_rows'
  <2>1. ASSUME NEW f, NEW m \in DOMAIN f, m < n
        PROVE  f[m] \in Held(Keep(f, {k \in DOMAIN f : k < n}))
    BY <2>1 DEF Keep, Held
  <2>2. \A m \in DOMAIN log : log[m] \in trimmed' \/ m \in DOMAIN log'
    BY <1>0, <1>1, <1>2, <2>1
  <2>3. \A m \in DOMAIN event_rows : event_rows[m] \in trimmed' \/ m \in DOMAIN event_rows'
    BY <1>0, <1>1, <1>3, <2>1
  <2> QED BY <1>0, <2>2, <2>3
<1>5. LogType'
  <2>1. Table(log)' /\ Table(event_rows)'
    BY Zenon, <1>0, <1>2, <1>3 DEF LogType, Table
  <2> QED BY <1>0, <2>1 DEF LogType, Busy
<1>6. (~ overlapped => Sole)'
  <2> SUFFICES ASSUME Sole PROVE Sole'
    BY <1>0 DEF LogInv
  <2>1. \A e \in Emitters : Busy(e) =>
          emitting[e].event \in trimmed' \/ (tenant_seq \in DOMAIN log' /\ log'[tenant_seq] = emitting[e].event)
    BY <1>2, <1>4 DEF Sole
  <2> QED BY Zenon, <1>0, <1>2, <1>3, <2>1 DEF Sole, Busy, Paging
<1>7. ListenersServed'
  <2> SUFFICES ASSUME NEW s \in Subscribers, NEW m \in DOMAIN log',
                      sub[s].on, sub[s].pc = "idle",
                      IF sub[s].cursor = NoCursor THEN log'[m] > sub[s].since ELSE m > sub[s].cursor
               PROVE  \/ log'[m] \in sub[s].got
                      \/ \E f \in Emitters : /\ emitting[f].pc = "deliver" /\ emitting[f].event = log'[m]
                                             /\ s \in emitting[f].to
    BY <1>0 DEF ListenersServed
  <2>1. m \in DOMAIN log /\ log'[m] = log[m]
    BY <1>2
  <2> QED BY <2>1 DEF LogInv, ListenersServed
<1>8. PagesComplete'
  BY <1>0, <1>2 DEF LogInv, PagesComplete
<1>9. ReturnedEventsSurvive'
  <2> SUFFICES ASSUME ~ overlapped, NEW y \in returned, y \notin trimmed'
               PROVE  y \in Held(event_rows') /\ y \in Held(log')
    BY Zenon, <1>0 DEF ReturnedEventsSurvive, Held
  <2>1. y \in Held(event_rows) /\ y \in Held(log)
    BY <1>4 DEF LogInv, ReturnedEventsSurvive
  <2>2. y \in Held(log')
    BY <1>2, <1>4, <2>1 DEF Held
  <2>3. y \in Held(event_rows')
    BY <1>3, <1>4, <2>1 DEF Held
  <2> QED BY <2>2, <2>3
<1> QED BY <1>5, <1>6, <1>7, <1>8, <1>9 DEF LogInv

(* After a restart nobody is registered, and the log is what the rows say. *)
LEMMA ReopenOK ==
    ASSUME LogInv, Reopen
    PROVE  LogInv'
<1>0. /\ LogType
      /\ log' = event_rows /\ tenant_seq' = seq_row
      /\ emitting' = [e \in Emitters |-> NotEmitting]
      /\ sub' = [s \in Subscribers |-> NotSubscribed]
      /\ UNCHANGED <<event_rows, seq_row, emitted, returned, trimmed, overlapped>>
  BY DEF LogInv, Reopen
<1>1. NotEmitting \in EmitRecord /\ NotEmitting.pc = "idle"
  BY DEF NotEmitting, EmitRecord
<1>2. NotSubscribed \in SubRecord /\ NotSubscribed.pc = "idle" /\ NotSubscribed.on = FALSE
  BY DEF NotSubscribed, SubRecord
<1>3. LogType'
  BY <1>0, <1>1, <1>2 DEF LogType, Table, Busy
<1>4. (~ overlapped => Sole)'
  BY <1>0, <1>1, <1>2 DEF LogInv, Sole, Busy, Paging
<1>5. ListenersServed' /\ PagesComplete'
  BY <1>0, <1>2 DEF ListenersServed, PagesComplete
<1>6. ReturnedEventsSurvive'
  BY <1>0 DEF LogInv, ReturnedEventsSurvive, Held
<1> QED BY <1>3, <1>4, <1>5, <1>6 DEF LogInv
-----------------------------------------------------------------------------
(* A listener registers before its replay: it claims only what is emitted  *)
(* afterwards.                                                             *)
LEMMA RegisterOK ==
    ASSUME LogInv, NEW s \in Subscribers, AddListener(s)
    PROVE  LogInv'
<1> DEFINE r == [sub[s] EXCEPT !.on = TRUE, !.since = emitted,
                               !.pc = IF sub[s].cursor = NoCursor THEN "idle" ELSE "replay"]
<1>1. LogType /\ sub[s] \in SubRecord /\ emitted \in Nat
  BY DEF LogInv, LogType
<1>2. sub' = [sub EXCEPT ![s] = r]
  BY Zenon DEF AddListener
<1>3. /\ r \in SubRecord /\ r.since = emitted /\ r.cursor = sub[s].cursor
      /\ r.pc = IF sub[s].cursor = NoCursor THEN "idle" ELSE "replay"
  BY Zenon, <1>1 DEF SubRecord
<1>4. \A n \in DOMAIN log : ~ (log[n] > emitted)
  BY <1>1 DEF LogType, Table
<1> HIDE DEF r
<1> QED BY Zenon, <1>2, <1>3, <1>4, SubStep DEF AddListener

(* The replay delivers what is retained after the cursor. *)
LEMMA ReplayOK ==
    ASSUME LogInv, NEW s \in Subscribers, Replay(s)
    PROVE  LogInv'
<1>1. LogType /\ sub[s] \in SubRecord
  BY DEF LogInv, LogType
<1>2. \A n \in DOMAIN log : log[n] \in Nat
  BY <1>1 DEF LogType, Table
<1>3. CASE validate_cursor(sub[s].cursor)
  <2> DEFINE r == [sub[s] EXCEPT !.pc = "idle", !.got = @ \cup read_events(sub[s].cursor)]
  <2>1. sub' = [sub EXCEPT ![s] = r]
    BY Zenon, <1>3 DEF Replay
  <2>2. read_events(sub[s].cursor) \subseteq Nat
    BY <1>2 DEF read_events
  <2>3. /\ r \in SubRecord /\ r.cursor = sub[s].cursor /\ r.pc = "idle"
        /\ r.got = sub[s].got \cup read_events(sub[s].cursor)
    BY Zenon, <1>1, <2>2 DEF SubRecord
  <2>4. \A n \in DOMAIN log : n > sub[s].cursor => log[n] \in read_events(sub[s].cursor)
    BY DEF read_events
  <2>5. sub[s].cursor # NoCursor
    BY <1>1 DEF LogType, Replay
  <2> HIDE DEF r
  <2> QED BY Zenon, <2>1, <2>3, <2>4, <2>5, SubStep DEF Replay
<1>4. CASE ~ validate_cursor(sub[s].cursor)
  <2> DEFINE r == [sub[s] EXCEPT !.pc = "failed"]
  <2>1. sub' = [sub EXCEPT ![s] = r] /\ r \in SubRecord /\ r.pc = "failed"
    BY <1>1, <1>4 DEF Replay, SubRecord
  <2> HIDE DEF r
  <2> QED BY Zenon, <2>1, SubStep DEF Replay
<1> QED BY <1>3, <1>4

(* A page is the retained entries up to its last, so following the cursor  *)
(* skips none.                                                             *)
LEMMA ReadPageOK ==
    ASSUME LogInv, NEW s \in Subscribers, ReadPage(s)
    PROVE  LogInv'
<1> DEFINE after == {n \in DOMAIN log : sub[s].cursor = NoCursor \/ n > sub[s].cursor}
           page  == {n \in after : Cardinality({m \in after : m < n}) < limit}
           last  == CHOOSE n \in page : \A m \in page : m <= n
           r     == [sub[s] EXCEPT !.pc = IF Cardinality(page) < limit THEN "drained" ELSE "more",
                                   !.cursor = IF page = {} THEN sub[s].cursor ELSE last,
                                   !.got = sub[s].got \cup {log[n] : n \in page}]
<1>1. LogType /\ sub[s] \in SubRecord /\ sub[s].pc = "read"
  BY DEF LogInv, LogType, ReadPage
<1>2. /\ sub' = [sub EXCEPT ![s] = r]
      /\ UNCHANGED <<log, tenant_seq, event_rows, seq_row, emitting, emitted, returned, trimmed, overlapped>>
  BY DEF ReadPage
<1>3. /\ after \in SUBSET (1 .. emitted) /\ after \subseteq DOMAIN log /\ page \in SUBSET after
      /\ emitted \in Nat /\ 1 .. emitted \in SUBSET Nat
  BY <1>1 DEF LogType, Table
<1>4. \A n \in DOMAIN log : log[n] \in Nat
  BY <1>1 DEF LogType, Table
<1>5. IsFiniteSet(after)
  <2> HIDE DEF after, page
  <2>1. IsFiniteSet(1 .. emitted)
    BY SMTT(30), <1>3, FS_Interval
  <2> QED BY Zenon, <1>3, <2>1, FS_Subset
<1>6. ASSUME NEW n \in after, NEW m \in page, n <= m
      PROVE  n \in page
  BY <1>3, <1>5, <1>6, PageIsPrefix
<1>7. \A n \in DOMAIN log : sub[s].cursor = NoCursor \/ n > sub[s].cursor => n \in after
  OBVIOUS
<1>8. /\ r.pc = (IF Cardinality(page) < limit THEN "drained" ELSE "more")
      /\ r.cursor = (IF page = {} THEN sub[s].cursor ELSE last)
      /\ r.got = sub[s].got \cup {log[n] : n \in page}
      /\ r.on = sub[s].on /\ r.since = sub[s].since
  BY <1>1 DEF SubRecord
<1>9. page # {} => last \in page /\ \A m \in page : m <= last
  <2> HAVE page # {}
  <2> HIDE DEF page
  <2>1. \A y \in page : y <= emitted
    BY <1>3
  <2>2. \E n \in page : \A m \in page : m <= n
    BY Zenon, <1>3, <2>1, GreatestNatural
  <2> QED BY SMTT(30), <2>2
<1>10. {log[n] : n \in page} \subseteq Nat
  BY Zenon, <1>3, <1>4
<1>11. r \in SubRecord
  <2> HIDE DEF page, last
  <2> QED BY Zenon, <1>1, <1>3, <1>9, <1>10 DEF SubRecord
<1> HIDE DEF after, page, last, r
<1>12. ASSUME ~ overlapped, r.cursor # NoCursor
       PROVE  r.cursor <= tenant_seq
  <2>1. Sole
    BY <1>12 DEF LogInv
  <2>2. CASE page = {}
    BY <1>1, <1>8, <1>12, <2>1, <2>2 DEF Sole, Paging
  <2>3. CASE page # {}
    <3>1. last \in 1 .. tenant_seq /\ r.cursor = last
      BY Zenon, <1>3, <1>8, <1>9, <2>1, <2>3 DEF Sole
    <3> QED BY <1>1, <3>1 DEF LogType
  <2> QED BY <2>2, <2>3
<1>13. ASSUME ~ overlapped, NEW n \in DOMAIN log, r.cursor # NoCursor, n > r.since, n <= r.cursor
       PROVE  log[n] \in r.got
  <2>1. CASE n \in after
    <3>1. CASE page = {}
      <4>1. r.cursor = sub[s].cursor /\ sub[s].cursor \in Nat
        BY <1>1, <1>8, <1>13, <3>1 DEF SubRecord
      <4> QED BY <1>1, <1>3, <1>8, <1>13, <2>1, <4>1 DEF after
    <3>2. CASE page # {}
      <4>1. n <= last /\ last \in page
        BY <1>8, <1>9, <1>13, <3>2
      <4> QED BY <1>6, <1>8, <2>1, <4>1
    <3> QED BY <3>1, <3>2
  <2>2. CASE n \notin after
    <3>1. sub[s].cursor # NoCursor /\ ~ (n > sub[s].cursor)
      BY <1>7, <2>2
    <3>2. n \in Nat /\ sub[s].cursor \in Nat
      BY SMTT(30), <1>1, <3>1 DEF SubRecord, LogType, Table
    <3>3. log[n] \in sub[s].got
      BY <1>1, <1>8, <1>13, <3>1, <3>2 DEF LogInv, PagesComplete
    <3> QED BY <1>8, <3>3
  <2> QED BY <2>1, <2>2
<1>14. r.pc # "idle" /\ r.pc # "replay"
  BY <1>8
<1> QED BY Zenon, <1>2, <1>11, <1>12, <1>13, <1>14, SubStep

(* The other steps of a subscriber or a reader leave it without a claim, or *)
(* with the one it had.                                                     *)
LEMMA OtherSubStepsOK ==
    ASSUME LogInv, NEW s \in Subscribers,
           \/ \E c \in {NoCursor} \cup 0 .. tenant_seq : Subscribe(s, c) \/ ReadFrom(s, c)
           \/ subscription_close(s) \/ NextPage(s)
    PROVE  LogInv'
<1>0. LogType /\ sub[s] \in SubRecord /\ tenant_seq \in Nat
  BY DEF LogInv, LogType
<1>1. ASSUME NEW c \in {NoCursor} \cup 0 .. tenant_seq, Subscribe(s, c)
      PROVE  LogInv'
  <2> DEFINE r == [pc |-> "register", cursor |-> c, on |-> FALSE, got |-> {}, since |-> 0]
  <2>1. sub' = [sub EXCEPT ![s] = r]
    BY Zenon, <1>1 DEF Subscribe
  <2>2. r.pc = "register"
    OBVIOUS
  <2>3. r \in SubRecord
    BY <1>0 DEF SubRecord
  <2> HIDE DEF r
  <2> QED BY Zenon, <1>1, <2>1, <2>2, <2>3, SubStep DEF Subscribe
<1>2. ASSUME NEW c \in {NoCursor} \cup 0 .. tenant_seq, ReadFrom(s, c)
      PROVE  LogInv'
  <2> DEFINE r == [pc |-> "read", cursor |-> c, on |-> FALSE, got |-> {},
                   since |-> IF c = NoCursor THEN 0 ELSE c]
  <2>1. sub' = [sub EXCEPT ![s] = r]
    BY SMTT(30), <1>2 DEF ReadFrom
  <2>2. r \in SubRecord /\ r.pc = "read" /\ r.cursor = c /\ (c # NoCursor => r.since = c /\ c <= tenant_seq)
    BY <1>0 DEF SubRecord
  <2>3. c # NoCursor => \A n \in DOMAIN log : ~ (n > r.since /\ n <= r.cursor)
    BY <1>0, <2>2 DEF LogType, Table
  <2> HIDE DEF r
  <2> QED BY Zenon, <1>2, <2>1, <2>2, <2>3, SubStep DEF ReadFrom
<1>3. CASE subscription_close(s)
  <2> DEFINE r == [sub[s] EXCEPT !.on = FALSE, !.pc = "closed"]
  <2>1. sub' = [sub EXCEPT ![s] = r] /\ r \in SubRecord /\ r.pc = "closed"
    BY Zenon, <1>0, <1>3 DEF subscription_close, SubRecord
  <2> HIDE DEF r
  <2> QED BY Zenon, <1>3, <2>1, SubStep DEF subscription_close
<1>4. CASE NextPage(s)
  <2> DEFINE r == [sub[s] EXCEPT !.pc = IF sub[s].cursor # NoCursor /\ ~ validate_cursor(sub[s].cursor)
                                        THEN "failed" ELSE "read"]
  <2>1. sub' = [sub EXCEPT ![s] = r] /\ sub[s].pc \in {"more", "drained"}
    BY <1>4 DEF NextPage
  <2>2. /\ r \in SubRecord /\ r.pc \in {"failed", "read"} /\ r.cursor = sub[s].cursor
        /\ r.got = sub[s].got /\ r.since = sub[s].since
    BY <1>0 DEF SubRecord
  <2> HIDE DEF r
  <2>3. ~ overlapped => (r.cursor # NoCursor => r.cursor <= tenant_seq)
    BY <2>1, <2>2 DEF LogInv, Sole, Paging
  <2>4. ~ overlapped => \A n \in DOMAIN log :
           r.cursor # NoCursor /\ n > r.since /\ n <= r.cursor => log[n] \in r.got
    BY <2>1, <2>2 DEF LogInv, PagesComplete
  <2> QED BY Zenon, <1>4, <2>1, <2>2, <2>3, <2>4, SubStep DEF NextPage
<1> QED BY <1>1, <1>2, <1>3, <1>4

(* LogInv is inductive. *)
LEMMA LogInvInductive == LogInv /\ [LogNext]_logVars => LogInv'
<1> SUFFICES ASSUME LogInv, [LogNext]_logVars
             PROVE  LogInv'
  BY Zenon
<1>1. CASE UNCHANGED logVars
  BY <1>1 DEF logVars, LogInv, LogType, Table, Busy, Sole, Paging, ListenersServed, PagesComplete,
              ReturnedEventsSurvive, Held
<1>2. ASSUME NEW n \in 1 .. MaxEvents, trim(n) PROVE LogInv'
  BY <1>2, TrimOK
<1> QED
  BY <1>1, <1>2, EmitOK, DeliverOK, PersistEmitOK, ReopenOK, RegisterOK, ReplayOK, ReadPageOK, OtherSubStepsOK
     DEF LogNext

(* It holds of an empty log. *)
LEMMA LogInvInit == LogInit => LogInv
<1> SUFFICES ASSUME LogInit PROVE LogInv
  OBVIOUS
<1>1. NotEmitting \in EmitRecord /\ NotEmitting.pc = "idle"
  BY DEF NotEmitting, EmitRecord
<1>2. NotSubscribed \in SubRecord /\ NotSubscribed.pc = "idle" /\ NotSubscribed.on = FALSE
  BY DEF NotSubscribed, SubRecord
<1>3. log = Empty /\ event_rows = Empty /\ DOMAIN Empty = {} /\ Empty \in [{} -> 1 .. 0]
  BY DEF LogInit, Empty
<1>4. LogType
  BY <1>1, <1>2, <1>3 DEF LogInit, LogType, Table, Busy
<1>5. Sole
  BY SMTT(30), <1>1, <1>2, <1>3 DEF LogInit, Sole, Busy, Paging
<1>6. ListenersServed /\ PagesComplete /\ ReturnedEventsSurvive
  BY <1>3 DEF LogInit, ListenersServed, PagesComplete, ReturnedEventsSurvive
<1> QED BY <1>4, <1>5, <1>6 DEF LogInv

(* A subscriber misses nothing once its replay is over; and as long as     *)
(* emits do not overlap, pages read by following the cursor skip nothing   *)
(* and an event whose emit returned survives restarts until it is trimmed  *)
(* (emit, persist_emit, trim, subscribe, read, SqliteEventLog::open).      *)
THEOREM NothingEverMissed == LogSpec => []NothingMissed
<1>1. LogInv => NothingMissed
  BY DEF LogInv, NothingMissed
<1> QED BY <1>1, LogInvInit, LogInvInductive, PTL DEF LogSpec

=============================================================================
