------------------------ MODULE ReplicationFeedProofs ------------------------
(***************************************************************************)
(* Proofs about ReplicationFeed for every set of tenants, messages,        *)
(* protocols and projections and for every limit on positions.             *)
(*                                                                         *)
(* FeedOK, the conjunction of the three state invariants and the type of   *)
(* one tenant's tables, is inductive: each store operation is a function   *)
(* of the tables, so there is one lemma per operation and the temporal     *)
(* theorem only lifts them to tenants.                                     *)
(*                                                                         *)
(* That the store implements the feed reader's contract is shown step by   *)
(* step.  The initial tables are an empty view; an operation on the        *)
(* reader's own tables moves the head by at most one and leaves every      *)
(* entry at or below it (FeedOK); an operation on another tenant's tables  *)
(* is a stuttering step of the view.                                       *)
(***************************************************************************)
EXTENDS ReplicationFeed, TLAPS

FeedOK(st) ==
    /\ st \in FeedState
    /\ PositionsAgreeIn(st)
    /\ FeedMatchesMessagesIn(st)
    /\ FingerprintsExactIn(st)

(* fingerprint_scopes only produces scopes. *)
LEMMA ScopesType ==
    ASSUME NEW c \in Cids, NEW i \in Indexes
    PROVE  fingerprint_scopes(c, i) \subseteq Scopes
<1> DEFINE tagged == IF i.tag # Absent THEN i.tag ELSE TagProtocol[c]
<1>1. i.protocol \in Protocols \cup {Absent} /\ tagged \in Protocols \cup {Absent}
  BY FeedAssumption
<1>2. GlobalScope \in Scopes
  BY DEF GlobalScope, Scopes
<1>3. \A p \in Protocols : [kind |-> "protocol", of |-> p] \in Scopes /\ [kind |-> "perm", of |-> p] \in Scopes
  BY DEF Scopes
<1> QED
  BY Zenon, <1>1, <1>2, <1>3 DEF fingerprint_scopes

(* An empty store is consistent: the state of a new tenant, and of every   *)
(* tenant after clear().                                                   *)
LEMMA EmptyFeedOK == FeedOK(EmptyFeed)
<1>1. EmptyFeed \in FeedState
  BY FeedAssumption DEF EmptyFeed, FeedState
<1>2. PositionsAgreeIn(EmptyFeed) /\ FeedMatchesMessagesIn(EmptyFeed) /\ FingerprintsExactIn(EmptyFeed)
  BY DEF EmptyFeed, PositionsAgreeIn, FeedMatchesMessagesIn, FingerprintsExactIn, InFeed, Cids
<1> QED
  BY <1>1, <1>2 DEF FeedOK

(* Appending a message that is not yet in the feed. *)
LEMMA AppendOK ==
    ASSUME NEW st, FeedOK(st), NEW m \in Mutation, is_feed_message(m.cid),
           ~ InFeed(st, m.cid), st.head < MaxPosition
    PROVE  FeedOK(append_message(st, m))
<1> DEFINE next == st.head + 1
           sc   == fingerprint_scopes(m.cid, m.indexes)
           e    == [message_cid |-> m.cid, indexes |-> m.indexes, fingerprint_scopes |-> sc]
           new  == append_message(st, m)
<1>1. st \in FeedState /\ m.cid \in FeedCids /\ m.cid \in Cids /\ m.indexes \in Indexes
  BY DEF FeedOK, Mutation, is_feed_message
<1>2. next \in Positions /\ next \in 0 .. MaxPosition /\ next # 0
  BY <1>1, FeedAssumption DEF FeedState, Positions
<1>3. e \in FeedEntry /\ e # Absent
  BY <1>1, ScopesType, FeedAssumption DEF FeedEntry
<1>4. new.fingerprints = [s \in Scopes |-> SymmetricDifference(st.fingerprints[s],
                            {c \in {m.cid} : s \in [x \in {m.cid} |-> sc][c]})]
  BY DEF append_message, fold_cid_into_domain
<1>5. new.fingerprints \in [Scopes -> SUBSET FeedCids]
  BY <1>1, <1>4 DEF FeedState, SymmetricDifference
<1>6. new \in FeedState
  <2>1. new.messages \in [Cids -> Indexes \cup {Absent}]
    BY <1>1 DEF append_message, FeedState
  <2>2. new.entries \in [Positions -> FeedEntry \cup {Absent}]
    BY <1>1, <1>2, <1>3 DEF append_message, FeedState
  <2>3. new.positions_by_cid \in [Cids -> 0 .. MaxPosition]
    BY <1>1, <1>2 DEF append_message, FeedState
  <2> QED
    BY Zenon, <1>2, <1>5, <2>1, <2>2, <2>3 DEF append_message, FeedState
<1>7. /\ new.head = next
      /\ new.entries = [st.entries EXCEPT ![next] = e]
      /\ new.positions_by_cid = [st.positions_by_cid EXCEPT ![m.cid] = next]
      /\ new.messages = [st.messages EXCEPT ![m.cid] = m.indexes]
  BY DEF append_message
<1>8. \A c \in Cids : InFeed(st, c) => st.positions_by_cid[c] \in Positions /\ st.positions_by_cid[c] # next
  BY <1>1, FeedAssumption DEF FeedOK, FeedState, PositionsAgreeIn, InFeed, EntryOf, Positions
<1> HIDE DEF new, e, next
<1>9. PositionsAgreeIn(new)
  <2>1. ASSUME NEW c \in Cids, InFeed(new, c)
        PROVE  is_feed_message(c) /\ EntryOf(new, c) # Absent /\ EntryOf(new, c).message_cid = c
    <3>1. CASE c = m.cid
      BY <3>1, <1>1, <1>2, <1>3, <1>7 DEF EntryOf, FeedState, e, is_feed_message
    <3>2. CASE c # m.cid
      BY <3>2, <2>1, <1>1, <1>2, <1>7, <1>8 DEF EntryOf, FeedState, InFeed, FeedOK, PositionsAgreeIn
    <3> QED BY <3>1, <3>2
  <2>2. ASSUME NEW p \in Positions, new.entries[p] # Absent
        PROVE  p <= new.head /\ new.positions_by_cid[new.entries[p].message_cid] = p
    <3>1. CASE p = next
      BY <3>1, <1>1, <1>2, <1>7, FeedAssumption DEF FeedState, e, Positions
    <3>2. CASE p # next
      <4>1. st.entries[p] # Absent /\ new.entries[p] = st.entries[p]
        BY <3>2, <2>2, <1>1, <1>2, <1>7 DEF FeedState
      <4>2. p <= st.head /\ st.positions_by_cid[st.entries[p].message_cid] = p
        BY <4>1 DEF FeedOK, PositionsAgreeIn
      <4>3. st.entries[p].message_cid \in Cids
        BY <4>1, <1>1 DEF FeedState, FeedEntry, Cids
      <4>4. st.entries[p].message_cid # m.cid
        BY <4>2, FeedAssumption DEF InFeed, Positions
      <4> QED
        BY <4>1, <4>2, <4>3, <4>4, <1>1, <1>7, FeedAssumption DEF FeedState, next, Positions
    <3> QED BY <3>1, <3>2
  <2> QED BY <2>1, <2>2 DEF PositionsAgreeIn
<1>10. ASSUME NEW c \in Cids, c # m.cid
       PROVE  /\ InFeed(new, c) <=> InFeed(st, c)
              /\ InFeed(st, c) => EntryOf(new, c) = EntryOf(st, c)
  BY <1>1, <1>2, <1>7, <1>8, <1>10 DEF EntryOf, FeedState, InFeed
<1>11. InFeed(new, m.cid) /\ EntryOf(new, m.cid) = e
  BY <1>1, <1>2, <1>7 DEF EntryOf, FeedState, InFeed
<1>12. FeedMatchesMessagesIn(new)
  <2> SUFFICES ASSUME NEW c \in FeedCids
               PROVE  /\ (new.messages[c] # Absent) <=> InFeed(new, c)
                      /\ InFeed(new, c) =>
                           /\ EntryOf(new, c).indexes = new.messages[c]
                           /\ EntryOf(new, c).fingerprint_scopes = fingerprint_scopes(c, new.messages[c])
    BY DEF FeedMatchesMessagesIn
  <2>1. CASE c = m.cid
    BY <2>1, <1>1, <1>7, <1>11, FeedAssumption DEF FeedState, e
  <2>2. CASE c # m.cid
    <3>1. new.messages[c] = st.messages[c]
      BY <2>2, <1>1, <1>7 DEF FeedState
    <3>2. /\ InFeed(new, c) <=> InFeed(st, c)
          /\ InFeed(st, c) => EntryOf(new, c) = EntryOf(st, c)
      BY <2>2, <1>10 DEF Cids, InFeed
    <3>3. /\ (st.messages[c] # Absent) <=> InFeed(st, c)
          /\ InFeed(st, c) =>
                /\ EntryOf(st, c).indexes = st.messages[c]
                /\ EntryOf(st, c).fingerprint_scopes = fingerprint_scopes(c, st.messages[c])
      BY DEF FeedOK, FeedMatchesMessagesIn
    <3> QED BY <3>1, <3>2, <3>3
  <2> QED BY <2>1, <2>2
<1>13. FingerprintsExactIn(new)
  <2> SUFFICES ASSUME NEW s \in Scopes
               PROVE  new.fingerprints[s] =
                        {c \in FeedCids : InFeed(new, c) /\ s \in EntryOf(new, c).fingerprint_scopes}
    BY DEF FingerprintsExactIn
  <2>1. st.fingerprints[s] = {c \in FeedCids : InFeed(st, c) /\ s \in EntryOf(st, c).fingerprint_scopes}
    BY DEF FeedOK, FingerprintsExactIn
  <2>2. m.cid \notin st.fingerprints[s]
    BY <2>1
  <2>3. new.fingerprints[s] = st.fingerprints[s] \cup (IF s \in sc THEN {m.cid} ELSE {})
    BY <1>4, <2>2 DEF SymmetricDifference
  <2>4. s \in EntryOf(new, m.cid).fingerprint_scopes <=> s \in sc
    BY <1>11 DEF e
  <2>5. ASSUME NEW c \in FeedCids
        PROVE  c \in new.fingerprints[s] <=> InFeed(new, c) /\ s \in EntryOf(new, c).fingerprint_scopes
    <3>1. CASE c = m.cid
      BY <3>1, <1>11, <2>2, <2>3, <2>4
    <3>2. CASE c # m.cid
      <4>1. c \in new.fingerprints[s] <=> c \in st.fingerprints[s]
        BY <3>2, <2>3
      <4> QED BY <3>2, <4>1, <1>10, <2>1 DEF Cids, InFeed
    <3> QED BY <3>1, <3>2
  <2>6. new.fingerprints[s] \subseteq FeedCids
    BY <1>1, <2>1, <2>3
  <2> QED
    BY <2>5, <2>6
<1> QED
  BY <1>6, <1>9, <1>12, <1>13 DEF FeedOK, new

(* Replacing the index projection of messages that are stored: the fate of *)
(* every retained message of a transition and of a message put again.      *)
LEMMA ReindexOK ==
    ASSUME NEW st, FeedOK(st), NEW D \in SUBSET Cids, NEW r \in [D -> Indexes],
           \A c \in D : ReindexAccepted(st, c, r[c]) /\ (is_feed_message(c) => InFeed(st, c))
    PROVE  FeedOK(reindex_messages(st, r))
<1> DEFINE new == reindex_messages(st, r)
<1>1. st \in FeedState /\ DOMAIN r = D
  BY DEF FeedOK
<1>2. /\ new.head = st.head
      /\ new.positions_by_cid = st.positions_by_cid
      /\ new.fingerprints = st.fingerprints
      /\ new.messages = [c \in Cids |-> IF c \in D THEN r[c] ELSE st.messages[c]]
      /\ new.entries = [p \in Positions |->
                          IF \E c \in D \cap FeedCids : st.positions_by_cid[c] = p
                          THEN [st.entries[p] EXCEPT !.indexes = r[st.entries[p].message_cid]]
                          ELSE st.entries[p]]
  BY <1>1 DEF reindex_messages, FeedState
<1>3. ASSUME NEW c \in Cids
      PROVE  InFeed(new, c) <=> InFeed(st, c)
  BY <1>2 DEF InFeed
<1>4. ASSUME NEW c \in Cids, InFeed(st, c)
      PROVE  /\ st.positions_by_cid[c] \in Positions
             /\ EntryOf(st, c) \in FeedEntry
             /\ EntryOf(st, c).message_cid = c
             /\ c \in FeedCids
  BY <1>1, <1>4, FeedAssumption
     DEF FeedOK, FeedState, PositionsAgreeIn, InFeed, EntryOf, Positions, is_feed_message
(* The entry of a retained CID changes its projection only, the others not at all. *)
<1>5. ASSUME NEW c \in Cids, InFeed(st, c), c \in D
      PROVE  EntryOf(new, c) = [EntryOf(st, c) EXCEPT !.indexes = r[c]]
  <2> DEFINE p == st.positions_by_cid[c]
  <2>1. p \in Positions /\ c \in D \cap FeedCids /\ st.entries[p].message_cid = c
    BY <1>4, <1>5 DEF EntryOf
  <2>2. new.positions_by_cid[c] = p
    BY <1>2
  <2> HIDE DEF p
  <2>3. \E d \in D \cap FeedCids : st.positions_by_cid[d] = p
    BY <2>1 DEF p
  <2>4. new.entries[p] = [st.entries[p] EXCEPT !.indexes = r[c]]
    BY SMTT(30), <1>2, <2>1, <2>3
  <2> QED BY <2>2, <2>4 DEF EntryOf, p
<1>6. ASSUME NEW c \in Cids, InFeed(st, c), c \notin D
      PROVE  EntryOf(new, c) = EntryOf(st, c)
  <2>1. \A d \in D \cap FeedCids : st.positions_by_cid[d] # st.positions_by_cid[c]
    <3> SUFFICES ASSUME NEW d \in D \cap FeedCids, st.positions_by_cid[d] = st.positions_by_cid[c]
                 PROVE  FALSE
      OBVIOUS
    <3>1. InFeed(st, d) /\ d \in Cids
      BY DEF is_feed_message, Cids
    <3>2. EntryOf(st, d).message_cid = d /\ EntryOf(st, c).message_cid = c
      BY <1>4, <1>6, <3>1
    <3> QED BY <1>6, <3>2 DEF EntryOf
  <2> QED BY <1>2, <1>4, <1>6, <2>1 DEF EntryOf
<1>7. ASSUME NEW p \in Positions
      PROVE  /\ new.entries[p] # Absent <=> st.entries[p] # Absent
             /\ st.entries[p] # Absent => /\ new.entries[p] \in FeedEntry
                                          /\ new.entries[p].message_cid = st.entries[p].message_cid
  <2>1. CASE \E c \in D \cap FeedCids : st.positions_by_cid[c] = p
    <3>1. PICK c \in D \cap FeedCids : st.positions_by_cid[c] = p
      BY <2>1
    <3>2. InFeed(st, c) /\ c \in Cids /\ st.entries[p] \in FeedEntry /\ st.entries[p].message_cid = c
      BY <3>1, <1>4 DEF is_feed_message, Cids, EntryOf
    <3>3. new.entries[p] = [st.entries[p] EXCEPT !.indexes = r[c]] /\ r[c] \in Indexes
      BY <2>1, <3>1, <3>2, <1>2
    <3> QED
      BY <3>2, <3>3, FeedAssumption DEF FeedEntry
  <2>2. CASE ~ \E c \in D \cap FeedCids : st.positions_by_cid[c] = p
    BY SMTT(30), <2>2, <1>1, <1>2 DEF FeedState
  <2> QED BY <2>1, <2>2
<1>8. new \in FeedState
  <2>1. new.entries \in [Positions -> FeedEntry \cup {Absent}]
    BY <1>1, <1>2, <1>7
  <2>2. new.messages \in [Cids -> Indexes \cup {Absent}]
    BY <1>1, <1>2 DEF FeedState
  <2> QED
    BY Zenon, <1>1, <1>2, <2>1, <2>2 DEF FeedState, reindex_messages
<1> HIDE DEF new
<1>9. PositionsAgreeIn(new)
  <2>1. ASSUME NEW c \in Cids, InFeed(new, c)
        PROVE  is_feed_message(c) /\ EntryOf(new, c) # Absent /\ EntryOf(new, c).message_cid = c
    <3>1. /\ st.positions_by_cid[c] \in Positions /\ c \in FeedCids
          /\ EntryOf(st, c) \in FeedEntry /\ EntryOf(st, c).message_cid = c
      BY <2>1, <1>3, <1>4
    <3>2. st.entries[st.positions_by_cid[c]] # Absent
      BY <3>1, FeedAssumption DEF EntryOf
    <3>3. EntryOf(new, c) = new.entries[st.positions_by_cid[c]]
      BY <1>2 DEF EntryOf
    <3> QED BY <3>1, <3>2, <3>3, <1>7 DEF EntryOf, is_feed_message
  <2>2. ASSUME NEW p \in Positions, new.entries[p] # Absent
        PROVE  p <= new.head /\ new.positions_by_cid[new.entries[p].message_cid] = p
    BY <2>2, <1>2, <1>7 DEF FeedOK, PositionsAgreeIn
  <2> QED BY <2>1, <2>2 DEF PositionsAgreeIn
<1>10. FeedMatchesMessagesIn(new)
  <2> SUFFICES ASSUME NEW c \in FeedCids
               PROVE  /\ (new.messages[c] # Absent) <=> InFeed(new, c)
                      /\ InFeed(new, c) =>
                           /\ EntryOf(new, c).indexes = new.messages[c]
                           /\ EntryOf(new, c).fingerprint_scopes = fingerprint_scopes(c, new.messages[c])
    BY DEF FeedMatchesMessagesIn
  <2>0. c \in Cids
    BY DEF Cids
  <2>1. /\ (st.messages[c] # Absent) <=> InFeed(st, c)
        /\ InFeed(st, c) =>
              /\ EntryOf(st, c).indexes = st.messages[c]
              /\ EntryOf(st, c).fingerprint_scopes = fingerprint_scopes(c, st.messages[c])
    BY DEF FeedOK, FeedMatchesMessagesIn
  <2>2. CASE c \in D
    <3>1. InFeed(st, c) /\ InFeed(new, c)
      BY <2>0, <2>2, <1>3 DEF is_feed_message
    <3>2. new.messages[c] = r[c] /\ r[c] \in Indexes /\ r[c] # Absent
      BY <2>0, <2>2, <1>2, FeedAssumption
    <3>3. EntryOf(new, c) = [EntryOf(st, c) EXCEPT !.indexes = r[c]] /\ EntryOf(st, c) \in FeedEntry
      BY <2>0, <2>2, <3>1, <1>4, <1>5
    <3>4. EntryOf(st, c).fingerprint_scopes = fingerprint_scopes(c, r[c])
      BY <2>2 DEF ReindexAccepted, is_feed_message
    <3> QED BY <3>1, <3>2, <3>3, <3>4 DEF FeedEntry
  <2>3. CASE c \notin D
    <3>1. new.messages[c] = st.messages[c]
      BY <2>0, <2>3, <1>2
    <3>2. InFeed(st, c) => EntryOf(new, c) = EntryOf(st, c)
      BY <2>0, <2>3, <1>6
    <3> QED BY <2>0, <2>1, <3>1, <3>2, <1>3
  <2> QED BY <2>2, <2>3
<1>11. FingerprintsExactIn(new)
  <2> SUFFICES ASSUME NEW s \in Scopes, NEW c \in FeedCids
               PROVE  InFeed(new, c) /\ s \in EntryOf(new, c).fingerprint_scopes
                        <=> InFeed(st, c) /\ s \in EntryOf(st, c).fingerprint_scopes
    BY <1>2 DEF FeedOK, FingerprintsExactIn
  <2>1. c \in Cids
    BY DEF Cids
  <2>2. InFeed(st, c) => EntryOf(new, c).fingerprint_scopes = EntryOf(st, c).fingerprint_scopes
    BY <2>1, <1>4, <1>5, <1>6 DEF FeedEntry
  <2> QED BY <2>1, <2>2, <1>3
<1> QED
  BY <1>8, <1>9, <1>10, <1>11 DEF FeedOK, new

(* put_message_state, whichever of its branches is taken. *)
LEMMA PutOK ==
    ASSUME NEW st, FeedOK(st), NEW m \in Mutation, PutAccepted(st, m)
    PROVE  FeedOK(put_message_state(st, m))
<1>1. m.cid \in Cids /\ m.indexes \in Indexes
  BY DEF Mutation
<1>2. CASE is_feed_message(m.cid) /\ ~ InFeed(st, m.cid)
  BY <1>2, AppendOK DEF PutAccepted, put_message_state
<1>3. CASE ~ (is_feed_message(m.cid) /\ ~ InFeed(st, m.cid))
  <2> DEFINE r == [c \in {m.cid} |-> m.indexes]
  <2>1. {m.cid} \in SUBSET Cids /\ r \in [{m.cid} -> Indexes]
    BY <1>1
  <2>2. \A c \in {m.cid} : ReindexAccepted(st, c, r[c]) /\ (is_feed_message(c) => InFeed(st, c))
    BY <1>3 DEF PutAccepted, ReindexAccepted
  <2> HIDE DEF r
  <2>3. FeedOK(reindex_messages(st, r))
    BY <2>1, <2>2, ReindexOK
  <2> QED BY <1>3, <2>3 DEF put_message_state, r
<1> QED BY <1>2, <1>3

(* delete_message_state: head and the entries of other messages stay. *)
LEMMA DeleteOK ==
    ASSUME NEW st, FeedOK(st), NEW D \in SUBSET Cids
    PROVE  FeedOK(delete_message_state(st, D))
<1> DEFINE new  == delete_message_state(st, D)
           gone == {c \in D : InFeed(st, c)}
           scopesOf == [c \in gone |-> EntryOf(st, c).fingerprint_scopes]
<1>1. st \in FeedState
  BY SMTT(30) DEF FeedOK
<1>2. /\ new.head = st.head
      /\ new.messages = [c \in Cids |-> IF c \in D THEN Absent ELSE st.messages[c]]
      /\ new.entries = [p \in Positions |->
                          IF \E c \in gone : st.positions_by_cid[c] = p THEN Absent ELSE st.entries[p]]
      /\ new.positions_by_cid = [c \in Cids |-> IF c \in gone THEN 0 ELSE st.positions_by_cid[c]]
      /\ new.fingerprints = [s \in Scopes |->
            SymmetricDifference(st.fingerprints[s], {c \in gone : s \in scopesOf[c]})]
  BY DEF delete_message_state, fold_cid_into_domain
<1>3. ASSUME NEW c \in Cids, InFeed(st, c)
      PROVE  /\ st.positions_by_cid[c] \in Positions
             /\ EntryOf(st, c) \in FeedEntry
             /\ EntryOf(st, c).message_cid = c
             /\ c \in FeedCids
  BY <1>1, <1>3, FeedAssumption
     DEF FeedOK, FeedState, PositionsAgreeIn, InFeed, EntryOf, Positions, is_feed_message
<1>4. gone \subseteq FeedCids /\ gone \subseteq Cids
  BY SMTT(30), <1>3
<1>5. new \in FeedState
  <2>1. new.messages \in [Cids -> Indexes \cup {Absent}]
    BY <1>1, <1>2 DEF FeedState
  <2>2. new.entries \in [Positions -> FeedEntry \cup {Absent}]
    BY <1>1, <1>2 DEF FeedState
  <2>3. new.positions_by_cid \in [Cids -> 0 .. MaxPosition]
    BY SMTT(30), <1>1, <1>2, FeedAssumption DEF FeedState
  <2>4. new.fingerprints \in [Scopes -> SUBSET FeedCids]
    BY <1>1, <1>2, <1>4 DEF FeedState, SymmetricDifference
  <2> QED
    BY Zenon, <1>1, <1>2, <2>1, <2>2, <2>3, <2>4 DEF FeedState, delete_message_state
<1>6. ASSUME NEW c \in Cids
      PROVE  InFeed(new, c) <=> InFeed(st, c) /\ c \notin D
  BY SMTT(30), <1>1, <1>2 DEF InFeed
<1> HIDE DEF new
<1>7. ASSUME NEW c \in Cids, InFeed(new, c)
      PROVE  EntryOf(new, c) = EntryOf(st, c)
  <2>1. InFeed(st, c) /\ c \notin gone
    BY <1>6, <1>7
  <2>2. new.positions_by_cid[c] = st.positions_by_cid[c] /\ st.positions_by_cid[c] \in Positions
    BY <2>1, <1>2, <1>3
  <2>3. \A d \in gone : st.positions_by_cid[d] # st.positions_by_cid[c]
    BY <2>1, <1>3, <1>4 DEF EntryOf
  <2> QED BY <2>2, <2>3, <1>2 DEF EntryOf
<1>8. PositionsAgreeIn(new)
  <2>1. ASSUME NEW c \in Cids, InFeed(new, c)
        PROVE  is_feed_message(c) /\ EntryOf(new, c) # Absent /\ EntryOf(new, c).message_cid = c
    BY <2>1, <1>3, <1>6, <1>7, FeedAssumption DEF is_feed_message
  <2>2. ASSUME NEW p \in Positions, new.entries[p] # Absent
        PROVE  p <= new.head /\ new.positions_by_cid[new.entries[p].message_cid] = p
    <3>1. new.entries[p] = st.entries[p] /\ \A c \in gone : st.positions_by_cid[c] # p
      BY <2>2, <1>2
    <3>2. p <= st.head /\ st.positions_by_cid[st.entries[p].message_cid] = p
      BY <2>2, <3>1 DEF FeedOK, PositionsAgreeIn
    <3>3. st.entries[p].message_cid \in Cids
      BY <2>2, <3>1, <1>1 DEF FeedState, FeedEntry, Cids
    <3> QED BY <3>1, <3>2, <3>3, <1>2
  <2> QED BY <2>1, <2>2 DEF PositionsAgreeIn
<1>9. FeedMatchesMessagesIn(new)
  <2> SUFFICES ASSUME NEW c \in FeedCids
               PROVE  /\ (new.messages[c] # Absent) <=> InFeed(new, c)
                      /\ InFeed(new, c) =>
                           /\ EntryOf(new, c).indexes = new.messages[c]
                           /\ EntryOf(new, c).fingerprint_scopes = fingerprint_scopes(c, new.messages[c])
    BY DEF FeedMatchesMessagesIn
  <2>1. c \in Cids
    BY DEF Cids
  <2>2. /\ (st.messages[c] # Absent) <=> InFeed(st, c)
        /\ InFeed(st, c) =>
              /\ EntryOf(st, c).indexes = st.messages[c]
              /\ EntryOf(st, c).fingerprint_scopes = fingerprint_scopes(c, st.messages[c])
    BY DEF FeedOK, FeedMatchesMessagesIn
  <2>3. CASE c \in D
    BY <2>1, <2>3, <1>2, <1>6
  <2>4. CASE c \notin D
    <3>1. new.messages[c] = st.messages[c]
      BY <2>1, <2>4, <1>2
    <3>2. InFeed(new, c) <=> InFeed(st, c)
      BY <2>1, <2>4, <1>6 DEF InFeed
    <3> QED BY <2>1, <2>2, <3>1, <3>2, <1>7
  <2> QED BY <2>3, <2>4
<1>10. FingerprintsExactIn(new)
  <2> SUFFICES ASSUME NEW s \in Scopes
               PROVE  new.fingerprints[s] =
                        {c \in FeedCids : InFeed(new, c) /\ s \in EntryOf(new, c).fingerprint_scopes}
    BY DEF FingerprintsExactIn
  <2>1. st.fingerprints[s] = {c \in FeedCids : InFeed(st, c) /\ s \in EntryOf(st, c).fingerprint_scopes}
    BY DEF FeedOK, FingerprintsExactIn
  <2>2. {c \in gone : s \in scopesOf[c]} \subseteq st.fingerprints[s]
    BY <2>1, <1>4
  <2>3. new.fingerprints[s] = st.fingerprints[s] \ {c \in gone : s \in scopesOf[c]}
    BY <1>2, <2>2 DEF SymmetricDifference
  <2>4. ASSUME NEW c \in FeedCids
        PROVE  c \in new.fingerprints[s] <=> InFeed(new, c) /\ s \in EntryOf(new, c).fingerprint_scopes
    <3>1. c \in Cids
      BY DEF Cids
    <3>2. c \in new.fingerprints[s] <=>
             InFeed(st, c) /\ s \in EntryOf(st, c).fingerprint_scopes /\ c \notin D
      BY <2>1, <2>3
    <3> QED BY <3>1, <3>2, <1>6, <1>7
  <2>5. new.fingerprints[s] \subseteq FeedCids
    BY SMTT(30), <2>1, <2>3
  <2> QED BY <2>4, <2>5
<1> QED
  BY <1>5, <1>8, <1>9, <1>10 DEF FeedOK, new

(* A put leaves the messages and entries of other CIDs alone. *)
LEMMA PutFrame ==
    ASSUME NEW st, FeedOK(st), NEW m \in Mutation, PutAccepted(st, m),
           NEW c \in Cids, c # m.cid
    PROVE  LET new == put_message_state(st, m)
           IN  /\ new.messages[c] = st.messages[c]
               /\ InFeed(new, c) <=> InFeed(st, c)
               /\ InFeed(st, c) => EntryOf(new, c) = EntryOf(st, c)
<1> DEFINE new == put_message_state(st, m)
<1>1. st \in FeedState /\ m.cid \in Cids /\ m.indexes \in Indexes
  BY SMTT(30) DEF FeedOK, Mutation
<1>2. InFeed(st, c) => /\ st.positions_by_cid[c] \in Positions
                       /\ st.positions_by_cid[c] <= st.head
                       /\ EntryOf(st, c).message_cid = c
                       /\ EntryOf(st, c) # Absent
  BY SMTT(30), <1>1, FeedAssumption DEF FeedOK, FeedState, PositionsAgreeIn, InFeed, EntryOf, Positions
<1>3. CASE is_feed_message(m.cid) /\ ~ InFeed(st, m.cid)
  <2>1. new = append_message(st, m)
    BY SMTT(30), <1>3 DEF put_message_state
  <2>2. /\ new.messages[c] = st.messages[c]
        /\ new.positions_by_cid[c] = st.positions_by_cid[c]
    BY <1>1, <2>1 DEF append_message, FeedState
  <2>3. InFeed(st, c) => new.entries[st.positions_by_cid[c]] = st.entries[st.positions_by_cid[c]]
    <3>1. InFeed(st, c) => st.positions_by_cid[c] # st.head + 1
      BY SMTT(30), <1>1, <1>2, FeedAssumption DEF FeedState, Positions
    <3>2. \A p \in Positions : p # st.head + 1 => new.entries[p] = st.entries[p]
      BY SMTT(30), <1>1, <2>1 DEF append_message, FeedState
    <3> QED BY <1>2, <3>1, <3>2
  <2> QED BY <2>2, <2>3 DEF InFeed, EntryOf
<1>4. CASE ~ (is_feed_message(m.cid) /\ ~ InFeed(st, m.cid))
  <2> DEFINE r == [d \in {m.cid} |-> m.indexes]
  <2>1. new = reindex_messages(st, r) /\ DOMAIN r = {m.cid}
    BY <1>4 DEF put_message_state
  <2>2. /\ new.positions_by_cid[c] = st.positions_by_cid[c]
        /\ new.messages[c] = st.messages[c]
    BY <1>1, <2>1 DEF reindex_messages, FeedState
  <2>3. ASSUME InFeed(st, c)
        PROVE  new.entries[st.positions_by_cid[c]] = st.entries[st.positions_by_cid[c]]
    <3>1. ~ \E d \in DOMAIN r \cap FeedCids : st.positions_by_cid[d] = st.positions_by_cid[c]
      <4> SUFFICES ASSUME m.cid \in FeedCids, st.positions_by_cid[m.cid] = st.positions_by_cid[c]
                   PROVE  FALSE
        BY <2>1
      <4>1. InFeed(st, m.cid)
        BY <1>4 DEF is_feed_message
      <4>2. EntryOf(st, m.cid).message_cid = m.cid
        BY <1>1, <4>1 DEF FeedOK, PositionsAgreeIn
      <4> QED BY <1>2, <2>3, <4>2 DEF EntryOf
    <3>2. new.entries = [p \in Positions |->
                          IF \E d \in DOMAIN r \cap FeedCids : st.positions_by_cid[d] = p
                          THEN [st.entries[p] EXCEPT !.indexes = r[st.entries[p].message_cid]]
                          ELSE st.entries[p]]
      BY <1>1, <2>1 DEF reindex_messages, FeedState
    <3> QED BY <1>2, <2>3, <3>1, <3>2
  <2> QED BY <2>2, <2>3 DEF InFeed, EntryOf
<1> QED BY <1>3, <1>4

(* The retained messages of an accepted transition may be reindexed in the *)
(* state the put leaves, which is where commit_latest_state reindexes them.*)
LEMMA RetainsAccepted ==
    ASSUME NEW st, FeedOK(st), NEW t \in Transition, CommitAccepted(st, t),
           NEW c \in DOMAIN t.retains
    PROVE  LET new == put_message_state(st, t.put)
           IN  ReindexAccepted(new, c, t.retains[c]) /\ (is_feed_message(c) => InFeed(new, c))
<1> DEFINE new == put_message_state(st, t.put)
<1>1. t.put \in Mutation /\ c \in Cids /\ c # t.put.cid
  BY DEF Transition
<1>2. PutAccepted(st, t.put) /\ st.messages[c] # Absent /\ ReindexAccepted(st, c, t.retains[c])
  BY DEF CommitAccepted
<1>3. /\ InFeed(new, c) <=> InFeed(st, c)
      /\ InFeed(st, c) => EntryOf(new, c) = EntryOf(st, c)
  BY <1>1, <1>2, PutFrame
<1>4. is_feed_message(c) => InFeed(st, c)
  BY <1>2 DEF FeedOK, FeedMatchesMessagesIn, is_feed_message
<1> QED
  BY <1>2, <1>3, <1>4 DEF ReindexAccepted

(* A latest-state transition keeps the tables consistent. *)
LEMMA CommitOK ==
    ASSUME NEW st, FeedOK(st), NEW t \in Transition, CommitAccepted(st, t)
    PROVE  FeedOK(commit_latest_state(st, t))
<1> DEFINE put == put_message_state(st, t.put)
           D   == DOMAIN t.retains
           kept == reindex_messages(put, t.retains)
<1>1. t.put \in Mutation /\ D \in SUBSET Cids /\ t.retains \in [D -> Indexes] /\ t.deletes \in SUBSET Cids
  BY DEF Transition
<1>2. FeedOK(put)
  BY <1>1, PutOK DEF CommitAccepted
<1>3. \A c \in D : ReindexAccepted(put, c, t.retains[c]) /\ (is_feed_message(c) => InFeed(put, c))
  BY RetainsAccepted
<1> HIDE DEF put, D
<1>4. FeedOK(kept)
  BY <1>1, <1>2, <1>3, ReindexOK
<1> HIDE DEF kept
<1>5. FeedOK(delete_message_state(kept, t.deletes))
  BY <1>1, <1>4, DeleteOK
<1> QED
  BY <1>5 DEF commit_latest_state, kept, put

(* The inductive invariant: every tenant's tables are consistent. *)
FeedInv == epoch \in Nat /\ feed \in [Tenants -> FeedState] /\ \A t \in Tenants : FeedOK(feed[t])

(* Every operation of the store keeps every tenant's tables consistent. *)
LEMMA FeedInvInductive == FeedInv /\ [Next]_vars => FeedInv'
<1> SUFFICES ASSUME FeedInv, [Next]_vars
             PROVE  FeedInv'
  OBVIOUS
<1> USE DEF FeedInv
<1>1. ASSUME NEW tenant \in Tenants, Put(tenant)
      PROVE  FeedInv'
  <2>1. PICK m \in Mutation : /\ PutAccepted(feed[tenant], m)
                              /\ feed' = [feed EXCEPT ![tenant] = put_message_state(@, m)]
                              /\ epoch' = epoch
    BY Zenon, <1>1 DEF Put
  <2>2. FeedOK(put_message_state(feed[tenant], m))
    BY <2>1, PutOK
  <2> QED BY <2>1, <2>2 DEF FeedOK
<1>2. ASSUME NEW tenant \in Tenants, CommitLatestState(tenant)
      PROVE  FeedInv'
  <2>1. PICK t \in Transition : /\ CommitAccepted(feed[tenant], t)
                                /\ feed' = [feed EXCEPT ![tenant] = commit_latest_state(@, t)]
                                /\ epoch' = epoch
    BY Zenon, <1>2 DEF CommitLatestState
  <2>2. FeedOK(commit_latest_state(feed[tenant], t))
    BY <2>1, CommitOK
  <2> QED BY <2>1, <2>2 DEF FeedOK
<1>3. ASSUME NEW tenant \in Tenants, Delete(tenant)
      PROVE  FeedInv'
  <2>1. PICK c \in Cids : /\ feed' = [feed EXCEPT ![tenant] = delete_message_state(@, {c})]
                          /\ epoch' = epoch
    BY Zenon, <1>3 DEF Delete
  <2>2. FeedOK(delete_message_state(feed[tenant], {c}))
    BY <2>1, DeleteOK
  <2> QED BY <2>1, <2>2 DEF FeedOK
<1>4. CASE Clear
  BY <1>4, EmptyFeedOK DEF Clear, FeedOK
<1>5. CASE UNCHANGED vars
  BY <1>5 DEF vars
<1> QED
  BY <1>1, <1>2, <1>3, <1>4, <1>5 DEF Next

(* The store starts with empty, consistent tables. *)
LEMMA FeedInvInit == Init => FeedInv
  BY EmptyFeedOK DEF Init, FeedInv, FeedOK

(* The inductive invariant contains the four invariants of the store. *)
LEMMA FeedInvImplies ==
    FeedInv => TypeOK /\ PositionsAgree /\ FeedMatchesMessages /\ FingerprintsExact
  BY DEF FeedInv, FeedOK, TypeOK, PositionsAgree, FeedMatchesMessages, FingerprintsExact

(* Tables keep their types under every sequence of store operations; in    *)
(* particular put_message_state's overflow check keeps positions in range. *)
THEOREM TypeCorrect == Spec => []TypeOK
<1> QED BY FeedInvInit, FeedInvInductive, FeedInvImplies, PTL DEF Spec

(* put_message_state and delete_message_state never meet a CID index that  *)
(* disagrees with the feed.                                                *)
THEOREM PositionsAlwaysAgree == Spec => []PositionsAgree
<1> QED BY FeedInvInit, FeedInvInductive, FeedInvImplies, PTL DEF Spec

(* Every feed message that is stored has exactly its entry, and every      *)
(* entry its message, with one projection.                                 *)
THEOREM FeedAlwaysMatchesMessages == Spec => []FeedMatchesMessages
<1> QED BY FeedInvInit, FeedInvInductive, FeedInvImplies, PTL DEF Spec

(* The incrementally folded XOR fingerprints are the fingerprints of what  *)
(* is in the feed.                                                         *)
THEOREM FingerprintsAlwaysExact == Spec => []FingerprintsExact
<1> QED BY FeedInvInit, FeedInvInductive, FeedInvImplies, PTL DEF Spec

(* After any sequence of puts, transitions, deletes and clears the tables   *)
(* of the store describe one feed.                                          *)
THEOREM FeedAlwaysSound == Spec => []FeedSound
<1> QED
  BY TypeCorrect, PositionsAlwaysAgree, FeedAlwaysMatchesMessages, FingerprintsAlwaysExact, PTL
     DEF FeedSound

-----------------------------------------------------------------------------
(* Positions are never reused.  The relation is shown for each operation   *)
(* on the tables and composed for transitions.                             *)

(* Two table changes that reuse no position compose to one that does not. *)
LEMMA NoReuseTransitive ==
    ASSUME NEW a, NEW b, NEW c, FeedOK(a), FeedOK(b), FeedOK(c),
           PositionsNeverReusedIn(a, b), PositionsNeverReusedIn(b, c)
    PROVE  PositionsNeverReusedIn(a, c)
<1>1. a.head \in Nat /\ b.head \in Nat /\ c.head \in Nat
  BY FeedAssumption DEF FeedOK, FeedState
<1>2. a.head <= c.head
  BY <1>1 DEF PositionsNeverReusedIn
<1>3. ASSUME NEW p \in Positions, c.entries[p] # Absent
      PROVE  IF a.entries[p] # Absent
             THEN c.entries[p].message_cid = a.entries[p].message_cid
             ELSE p > a.head
  <2>1. a.entries[p] # Absent => p <= a.head
    BY DEF FeedOK, PositionsAgreeIn
  <2>2. p \in Nat
    BY FeedAssumption DEF Positions
  <2> QED BY SMTT(30), <1>1, <1>3, <2>1, <2>2 DEF PositionsNeverReusedIn
<1> QED BY <1>2, <1>3 DEF PositionsNeverReusedIn

(* Reindexing retained messages moves no entry. *)
LEMMA ReindexNoReuse ==
    ASSUME NEW st, FeedOK(st), NEW D \in SUBSET Cids, NEW r \in [D -> Indexes],
           \A c \in D : is_feed_message(c) => InFeed(st, c)
    PROVE  PositionsNeverReusedIn(st, reindex_messages(st, r))
<1> DEFINE new == reindex_messages(st, r)
<1>1. /\ st \in FeedState
      /\ new.head = st.head
      /\ new.entries = [p \in Positions |->
                          IF \E c \in D \cap FeedCids : st.positions_by_cid[c] = p
                          THEN [st.entries[p] EXCEPT !.indexes = r[st.entries[p].message_cid]]
                          ELSE st.entries[p]]
  BY DEF FeedOK, reindex_messages, FeedState
<1> HIDE DEF new
<1>2. ASSUME NEW p \in Positions, new.entries[p] # Absent
      PROVE  st.entries[p] # Absent /\ new.entries[p].message_cid = st.entries[p].message_cid
  <2>1. CASE \E c \in D \cap FeedCids : st.positions_by_cid[c] = p
    <3>1. PICK c \in D \cap FeedCids : st.positions_by_cid[c] = p
      BY <2>1
    <3>2. st.entries[p] # Absent /\ st.entries[p] \in FeedEntry
      BY <1>1, <3>1 DEF FeedOK, PositionsAgreeIn, FeedState, EntryOf, Cids, is_feed_message
    <3>3. new.entries[p] = [st.entries[p] EXCEPT !.indexes = r[st.entries[p].message_cid]]
      BY <1>1, <2>1
    <3> QED BY <3>2, <3>3 DEF FeedEntry
  <2>2. CASE ~ \E c \in D \cap FeedCids : st.positions_by_cid[c] = p
    BY <1>1, <1>2, <2>2
  <2> QED BY <2>1, <2>2
<1>3. st.head <= new.head
  BY <1>1, FeedAssumption DEF FeedState
<1> QED BY <1>2, <1>3 DEF PositionsNeverReusedIn, new

(* put_message_state only adds an entry above the head. *)
LEMMA PutNoReuse ==
    ASSUME NEW st, FeedOK(st), NEW m \in Mutation, PutAccepted(st, m)
    PROVE  PositionsNeverReusedIn(st, put_message_state(st, m))
<1>1. st \in FeedState /\ m.cid \in Cids /\ m.indexes \in Indexes
  BY DEF FeedOK, Mutation
<1>2. CASE is_feed_message(m.cid) /\ ~ InFeed(st, m.cid)
  <2> DEFINE new == append_message(st, m)
  <2>1. new.head = st.head + 1
    BY Zenon DEF append_message
  <2>0. st.head \in Nat
    BY SMTT(30), <1>1, FeedAssumption DEF FeedState
  <2>2. \A p \in Positions : p # st.head + 1 => new.entries[p] = st.entries[p]
    BY <1>1 DEF append_message, FeedState
  <2>3. \A p \in Positions : p \in Nat /\ (st.entries[p] # Absent => p <= st.head)
    BY FeedAssumption DEF FeedOK, PositionsAgreeIn, Positions
  <2> HIDE DEF new
  <2>4. PositionsNeverReusedIn(st, new)
    BY <2>0, <2>1, <2>2, <2>3 DEF PositionsNeverReusedIn
  <2> QED BY <1>2, <2>4 DEF put_message_state, new
<1>3. CASE ~ (is_feed_message(m.cid) /\ ~ InFeed(st, m.cid))
  <2> DEFINE r == [c \in {m.cid} |-> m.indexes]
  <2>1. {m.cid} \in SUBSET Cids /\ r \in [{m.cid} -> Indexes]
    BY <1>1
  <2>2. \A c \in {m.cid} : is_feed_message(c) => InFeed(st, c)
    BY <1>3
  <2> HIDE DEF r
  <2>3. PositionsNeverReusedIn(st, reindex_messages(st, r))
    BY <2>1, <2>2, ReindexNoReuse
  <2> QED BY <1>3, <2>3 DEF put_message_state, r
<1> QED BY <1>2, <1>3

(* delete_message_state removes an entry and keeps the head. *)
LEMMA DeleteNoReuse ==
    ASSUME NEW st, FeedOK(st), NEW D \in SUBSET Cids
    PROVE  PositionsNeverReusedIn(st, delete_message_state(st, D))
<1> DEFINE new == delete_message_state(st, D)
<1>0. st.head <= st.head
  BY FeedAssumption DEF FeedOK, FeedState
<1>1. new.head = st.head
  BY Zenon DEF delete_message_state
<1>2. \A p \in Positions : new.entries[p] # Absent => new.entries[p] = st.entries[p]
  BY SMTT(30) DEF delete_message_state
<1> HIDE DEF new
<1>3. PositionsNeverReusedIn(st, new)
  BY <1>0, <1>1, <1>2 DEF PositionsNeverReusedIn
<1> QED BY <1>3 DEF new

(* A latest-state transition is a put, reindexings and deletions. *)
LEMMA CommitNoReuse ==
    ASSUME NEW st, FeedOK(st), NEW t \in Transition, CommitAccepted(st, t)
    PROVE  PositionsNeverReusedIn(st, commit_latest_state(st, t))
<1> DEFINE put  == put_message_state(st, t.put)
           D    == DOMAIN t.retains
           kept == reindex_messages(put, t.retains)
           done == delete_message_state(kept, t.deletes)
<1>1. t.put \in Mutation /\ D \in SUBSET Cids /\ t.retains \in [D -> Indexes] /\ t.deletes \in SUBSET Cids
  BY DEF Transition
<1>2. FeedOK(put) /\ PositionsNeverReusedIn(st, put)
  BY <1>1, PutOK, PutNoReuse DEF CommitAccepted
<1>3. \A c \in D : ReindexAccepted(put, c, t.retains[c]) /\ (is_feed_message(c) => InFeed(put, c))
  BY RetainsAccepted
<1> HIDE DEF put, D
<1>4. FeedOK(kept) /\ PositionsNeverReusedIn(put, kept)
  BY <1>1, <1>2, <1>3, ReindexOK, ReindexNoReuse
<1> HIDE DEF kept
<1>5. FeedOK(done) /\ PositionsNeverReusedIn(kept, done)
  BY <1>1, <1>4, DeleteOK, DeleteNoReuse
<1> HIDE DEF done
<1>6. PositionsNeverReusedIn(st, kept)
  BY <1>2, <1>4, NoReuseTransitive
<1>7. PositionsNeverReusedIn(st, done)
  BY <1>4, <1>5, <1>6, NoReuseTransitive
<1> QED
  BY <1>7 DEF commit_latest_state, done, kept, put

(* No step of the store within an epoch reuses a position. *)
LEMMA NoReuseStep ==
    FeedInv /\ [Next]_vars =>
        [epoch' = epoch => \A t \in Tenants : PositionsNeverReusedIn(feed[t], feed'[t])]_vars
<1> SUFFICES ASSUME FeedInv, Next, epoch' = epoch, NEW u \in Tenants
             PROVE  PositionsNeverReusedIn(feed[u], feed'[u])
  BY DEF vars
<1>0. PositionsNeverReusedIn(feed[u], feed[u])
  <2>1. feed[u].head \in Nat
    BY FeedAssumption DEF FeedInv, FeedState
  <2>2. feed[u].head <= feed[u].head
    BY <2>1
  <2> QED BY <2>2, Zenon DEF PositionsNeverReusedIn
<1> USE DEF FeedInv
<1>1. ASSUME NEW tenant \in Tenants, Put(tenant)
      PROVE  PositionsNeverReusedIn(feed[u], feed'[u])
  BY <1>0, <1>1, PutNoReuse DEF Put
<1>2. ASSUME NEW tenant \in Tenants, CommitLatestState(tenant)
      PROVE  PositionsNeverReusedIn(feed[u], feed'[u])
  BY <1>0, <1>2, CommitNoReuse DEF CommitLatestState
<1>3. ASSUME NEW tenant \in Tenants, Delete(tenant)
      PROVE  PositionsNeverReusedIn(feed[u], feed'[u])
  BY <1>0, <1>3, DeleteNoReuse DEF Delete
<1>4. CASE Clear
  BY <1>4 DEF Clear
<1> QED
  BY <1>1, <1>2, <1>3, <1>4 DEF Next

(* Within an epoch a feed position denotes one message forever, so a       *)
(* reader's cursor never skips an entry that was inserted behind it.       *)
THEOREM PositionsAreNeverReused == Spec => PositionsNeverReused
<1> QED BY FeedInvInit, FeedInvInductive, NoReuseStep, PTL DEF Spec, PositionsNeverReused

-----------------------------------------------------------------------------
(* The refinement of FeedView. *)

(* put_message_state allocates at most one position, the next one. *)
LEMMA PutHead ==
    ASSUME NEW st, NEW m, st \in FeedState, PutAccepted(st, m)
    PROVE  LET new == put_message_state(st, m)
           IN  new.head = st.head \/ (new.head = st.head + 1 /\ st.head < MaxPosition)
<1>1. CASE is_feed_message(m.cid) /\ ~ InFeed(st, m.cid)
  <2>1. append_message(st, m).head = st.head + 1
    BY Zenon DEF append_message
  <2> QED BY <1>1, <2>1 DEF put_message_state, PutAccepted
<1>2. CASE ~ (is_feed_message(m.cid) /\ ~ InFeed(st, m.cid))
  <2>1. \A r : reindex_messages(st, r).head = st.head
    BY DEF reindex_messages, FeedState
  <2> QED BY <1>2, <2>1 DEF put_message_state
<1> QED BY <1>1, <1>2

(* Deletions leave the head alone. *)
LEMMA DeleteHead ==
    ASSUME NEW st, NEW D
    PROVE  delete_message_state(st, D).head = st.head
  BY Zenon DEF delete_message_state

(* A transition allocates what its put allocates: reindexing the retained  *)
(* messages and deleting the displaced ones leave the head alone.          *)
LEMMA CommitHead ==
    ASSUME NEW st, FeedOK(st), NEW t \in Transition, CommitAccepted(st, t)
    PROVE  LET new == commit_latest_state(st, t)
           IN  new.head = st.head \/ (new.head = st.head + 1 /\ st.head < MaxPosition)
<1> DEFINE put  == put_message_state(st, t.put)
           kept == reindex_messages(put, t.retains)
<1>1. t.put \in Mutation /\ PutAccepted(st, t.put)
  BY DEF Transition, CommitAccepted
<1>2. put \in FeedState
  BY <1>1, PutOK DEF FeedOK
<1>3. put.head = st.head \/ (put.head = st.head + 1 /\ st.head < MaxPosition)
  BY <1>1, PutHead DEF FeedOK
<1> HIDE DEF put
<1>4. kept.head = put.head
  BY <1>2 DEF reindex_messages, FeedState
<1> HIDE DEF kept
<1>5. delete_message_state(kept, t.deletes).head = kept.head
  BY DeleteHead
<1> QED BY <1>3, <1>4, <1>5 DEF commit_latest_state, kept, put

(* What consistent tables show a reader lies at or below their head. *)
LEMMA VisibleBelowHead ==
    ASSUME NEW st, FeedOK(st)
    PROVE  VisibleIn(st) \subseteq 1 .. st.head
<1>1. st.head \in Nat
  BY FeedAssumption DEF FeedOK, FeedState
<1>2. ASSUME NEW p \in VisibleIn(st) PROVE p \in 1 .. st.head
  BY <1>1, FeedAssumption DEF VisibleIn, FeedOK, PositionsAgreeIn, Positions
<1> QED BY <1>2

(* Any change of the reader's tables that keeps them consistent and moves  *)
(* the head by at most one is one step of the view.                        *)
LEMMA TablesStep ==
    ASSUME FeedInv, FeedInv', epoch' = epoch,
           LET old == feed[Reader].head
           IN  feed'[Reader].head = old \/ (feed'[Reader].head = old + 1 /\ old < MaxPosition)
    PROVE  View!NextFeed
<1> DEFINE appended == feed'[Reader].head # feed[Reader].head
           after    == VisibleIn(feed'[Reader])
<1>1. FeedOK(feed[Reader]) /\ FeedOK(feed'[Reader])
  BY ReaderAssumption DEF FeedInv
<1>2. feed[Reader].head \in Nat /\ feed'[Reader].head \in Nat
  BY <1>1, FeedAssumption DEF FeedOK, FeedState
<1>3. appended \in BOOLEAN /\ after \in SUBSET Positions
  BY DEF VisibleIn
<1>4. after \subseteq 1 .. feed'[Reader].head
  BY <1>1, VisibleBelowHead
<1>5. View!CommitFeed(appended, after)
  BY <1>2, <1>4 DEF View!CommitFeed
<1> HIDE DEF appended, after
<1>6. after \in SUBSET View!Positions
  BY <1>3 DEF Positions, View!Positions
<1> QED BY <1>3, <1>5, <1>6 DEF View!NextFeed

(* Every operation of the store is a step of the reader's view or leaves   *)
(* it alone.                                                               *)
LEMMA ViewStep == FeedInv /\ FeedInv' /\ [Next]_vars => [View!NextFeed]_(View!feedVars)
<1> SUFFICES ASSUME FeedInv, FeedInv', [Next]_vars
             PROVE  View!NextFeed \/ UNCHANGED View!feedVars
  OBVIOUS
<1>0. FeedOK(feed[Reader]) /\ feed \in [Tenants -> FeedState]
  BY ReaderAssumption DEF FeedInv
<1>1. ASSUME NEW tenant \in Tenants, Put(tenant)
      PROVE  View!NextFeed \/ UNCHANGED View!feedVars
  <2>1. PICK m \in Mutation : /\ PutAccepted(feed[tenant], m)
                              /\ feed' = [feed EXCEPT ![tenant] = put_message_state(@, m)]
                              /\ epoch' = epoch
    BY Zenon, <1>1 DEF Put
  <2>2. CASE tenant = Reader
    <3>1. feed'[Reader] = put_message_state(feed[Reader], m)
      BY <1>0, <2>1, <2>2
    <3> QED BY <1>0, <2>1, <2>2, <3>1, PutHead, TablesStep DEF FeedOK
  <2>3. CASE tenant # Reader
    BY <1>0, <2>1, <2>3 DEF View!feedVars, VisibleIn
  <2> QED BY <2>2, <2>3
<1>2. ASSUME NEW tenant \in Tenants, CommitLatestState(tenant)
      PROVE  View!NextFeed \/ UNCHANGED View!feedVars
  <2>1. PICK t \in Transition : /\ CommitAccepted(feed[tenant], t)
                                /\ feed' = [feed EXCEPT ![tenant] = commit_latest_state(@, t)]
                                /\ epoch' = epoch
    BY Zenon, <1>2 DEF CommitLatestState
  <2>2. CASE tenant = Reader
    <3>1. feed'[Reader] = commit_latest_state(feed[Reader], t)
      BY <1>0, <2>1, <2>2
    <3> QED BY <1>0, <2>1, <2>2, <3>1, CommitHead, TablesStep
  <2>3. CASE tenant # Reader
    BY <1>0, <2>1, <2>3 DEF View!feedVars, VisibleIn
  <2> QED BY <2>2, <2>3
<1>3. ASSUME NEW tenant \in Tenants, Delete(tenant)
      PROVE  View!NextFeed \/ UNCHANGED View!feedVars
  <2>1. PICK c \in Cids : /\ feed' = [feed EXCEPT ![tenant] = delete_message_state(@, {c})]
                          /\ epoch' = epoch
    BY Zenon, <1>3 DEF Delete
  <2>2. CASE tenant = Reader
    <3>1. feed'[Reader] = delete_message_state(feed[Reader], {c})
      BY <1>0, <2>1, <2>2
    <3>2. feed'[Reader].head = feed[Reader].head
      BY <3>1, DeleteHead
    <3> QED BY <2>1, <3>2, TablesStep
  <2>3. CASE tenant # Reader
    BY <1>0, <2>1, <2>3 DEF View!feedVars, VisibleIn
  <2> QED BY <2>2, <2>3
<1>4. CASE Clear
  <2>1. feed'[Reader] = EmptyFeed /\ epoch < MaxEpoch /\ epoch' = epoch + 1
    BY <1>4, ReaderAssumption DEF Clear
  <2>2. EmptyFeed.head = 0 /\ VisibleIn(EmptyFeed) = {}
    BY DEF EmptyFeed, VisibleIn
  <2>3. View!ClearFeed
    BY <2>1, <2>2 DEF View!ClearFeed
  <2> QED BY <2>3 DEF View!NextFeed
<1>5. CASE UNCHANGED vars
  BY <1>5 DEF vars, View!feedVars, VisibleIn
<1> QED BY <1>1, <1>2, <1>3, <1>4, <1>5 DEF Next

(* A new store shows its reader an empty feed. *)
LEMMA ViewInit == Init => View!InitFeed
<1> SUFFICES ASSUME Init PROVE View!InitFeed
  OBVIOUS
<1>1. epoch = 0 /\ feed[Reader] = EmptyFeed
  BY ReaderAssumption DEF Init
<1>2. EmptyFeed.head = 0 /\ VisibleIn(EmptyFeed) = {}
  BY DEF EmptyFeed, VisibleIn
<1> QED BY <1>1, <1>2 DEF View!InitFeed

(* Whatever filter a reader has, the message store it reads is a           *)
(* ReplicationFeedReader as DurableEventLog assumes one: entries appear    *)
(* only right after the head, and the head moves back only with the epoch. *)
THEOREM StoreImplementsFeedView == Spec => ImplementsFeedView
<1>1. FeedInv /\ [Next]_vars => FeedInv'
  BY FeedInvInductive
<1> QED BY <1>1, FeedInvInit, ViewInit, ViewStep, PTL DEF Spec, ImplementsFeedView, View!SpecFeed
=============================================================================
