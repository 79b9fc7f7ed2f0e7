--------------------------- MODULE ReplicationFeed ---------------------------
(***************************************************************************)
(* The message store of dwn-rs-core and the replication feed it keeps      *)
(* beside the messages (stores/memory.rs, stores/replication_feed_reader.rs*)
(* and the types of stores/mod.rs).                                        *)
(*                                                                         *)
(* Each tenant owns a table of messages keyed by CID, a feed of entries    *)
(* keyed by position, an index from CID to position, the highest position  *)
(* ever allocated and one XOR fingerprint per scope.  The five tables are  *)
(* changed together under one lock, so every store operation is one step.  *)
(* All tenants share the epoch, which clear() replaces.                    *)
(*                                                                         *)
(* A message is its CID: the content is immutable, and the query           *)
(* projection ("indexes") stored with it is not.  An XOR fingerprint of    *)
(* SHA-256 digests is the set of the CIDs folded in an odd number of       *)
(* times, which is exact as long as no set of digests XORs to zero.        *)
(***************************************************************************)
EXTENDS Naturals, FiniteSets

CONSTANTS
    Tenants,
    FeedCids,        \* CIDs of RecordsWrite, RecordsDelete, ProtocolsConfigure
    OtherCids,       \* CIDs of every other stored message
    Protocols,       \* protocol URIs
    Permissions,     \* PERMISSIONS_PROTOCOL_URI, one of Protocols
    TagProtocol,     \* CID -> the tag.protocol of its descriptor, or Absent
    Indexes,         \* the index projections messages are stored with
    MaxPosition,     \* FeedPosition::MAX
    MaxEpoch,        \* bound on the number of clear() calls explored
    Reader,          \* the tenant whose feed is read
    MatchingIndexes, \* the projections the reader's filter accepts
    Absent           \* no value

Cids == FeedCids \cup OtherCids

Positions == 1 .. MaxPosition

Scopes == [kind : {"global", "protocol", "perm"}, of : Protocols \cup {Absent}]

FeedEntry == [message_cid : FeedCids, indexes : Indexes, fingerprint_scopes : SUBSET Scopes]

ASSUME FeedAssumption ==
    /\ MaxPosition \in Nat
    /\ MaxEpoch \in Nat
    /\ Permissions \in Protocols
    /\ Absent \notin Protocols \cup Indexes \cup FeedEntry
    /\ FeedCids \cap OtherCids = {}
    /\ TagProtocol \in [Cids -> Protocols \cup {Absent}]
    /\ \A i \in Indexes : i.protocol \in Protocols \cup {Absent} /\ i.tag \in Protocols \cup {Absent}

VARIABLES
    epoch,           \* MemoryMessageState.epoch
    feed             \* tenant -> the tenant's share of the five tables

vars == <<epoch, feed>>

-----------------------------------------------------------------------------
(* One tenant's tables.  position 0 is never allocated: it stands for      *)
(* "not in the feed" in positions_by_cid, and for the empty feed in head.  *)

FeedState ==
    [messages         : [Cids -> Indexes \cup {Absent}],
     head             : 0 .. MaxPosition,
     entries          : [Positions -> FeedEntry \cup {Absent}],
     positions_by_cid : [Cids -> 0 .. MaxPosition],
     fingerprints     : [Scopes -> SUBSET FeedCids]]

EmptyFeed ==
    [messages         |-> [c \in Cids |-> Absent],
     head             |-> 0,
     entries          |-> [p \in Positions |-> Absent],
     positions_by_cid |-> [c \in Cids |-> 0],
     fingerprints     |-> [s \in Scopes |-> {}]]

Mutation == [cid : Cids, indexes : Indexes]

is_feed_message(cid) == cid \in FeedCids

GlobalScope == [kind |-> "global", of |-> Absent]

(* Every message is in the global scope; a protocol index adds the         *)
(* protocol's scope; a message of the permissions protocol adds the scope  *)
(* of the protocol it is tagged with, the index winning over the           *)
(* descriptor.                                                             *)
fingerprint_scopes(cid, indexes) ==
    LET tagged == IF indexes.tag # Absent THEN indexes.tag ELSE TagProtocol[cid]
    IN  {GlobalScope}
        \cup {[kind |-> "protocol", of |-> p] : p \in {indexes.protocol} \ {Absent}}
        \cup {[kind |-> "perm", of |-> p] :
                p \in IF indexes.protocol = Permissions THEN {tagged} \ {Absent} ELSE {}}

SymmetricDifference(A, B) == (A \ B) \cup (B \ A)

(* XOR is its own inverse, so the same fold adds a CID and removes it, and *)
(* commutative, so distinct CIDs are folded in one go.                     *)
fold_cid_into_domain(fingerprints, cids, scopesOf) ==
    [s \in Scopes |->
        SymmetricDifference(fingerprints[s], {c \in cids : s \in scopesOf[c]})]

-----------------------------------------------------------------------------
InFeed(st, cid) == st.positions_by_cid[cid] # 0

EntryOf(st, cid) == st.entries[st.positions_by_cid[cid]]

(* put_message_state on a message that already has a feed position, for    *)
(* every CID of the function r: message and entry take the new projection, *)
(* position, head and fingerprints stay.                                   *)

ReindexAccepted(st, cid, indexes) ==
    is_feed_message(cid) =>
        /\ EntryOf(st, cid) # Absent
        /\ EntryOf(st, cid).fingerprint_scopes = fingerprint_scopes(cid, indexes)

reindex_messages(st, r) ==
    [st EXCEPT
       !.messages = [c \in Cids |-> IF c \in DOMAIN r THEN r[c] ELSE st.messages[c]],
       !.entries  = [p \in Positions |->
                       IF \E c \in DOMAIN r \cap FeedCids : st.positions_by_cid[c] = p
                       THEN [st.entries[p] EXCEPT !.indexes = r[st.entries[p].message_cid]]
                       ELSE st.entries[p]]]

(* put_message_state.  The mutation is rejected, and the tables are left   *)
(* alone, when it would change the scopes of a CID already in the feed or  *)
(* when the position counter is exhausted.                                 *)

PutAccepted(st, m) ==
    is_feed_message(m.cid) =>
        IF InFeed(st, m.cid) THEN ReindexAccepted(st, m.cid, m.indexes)
                             ELSE st.head < MaxPosition

append_message(st, m) ==
    LET next   == st.head + 1
        scopes == fingerprint_scopes(m.cid, m.indexes)
    IN  [messages         |-> [st.messages EXCEPT ![m.cid] = m.indexes],
         head             |-> next,
         entries          |-> [st.entries EXCEPT ![next] =
                                 [message_cid |-> m.cid, indexes |-> m.indexes,
                                  fingerprint_scopes |-> scopes]],
         positions_by_cid |-> [st.positions_by_cid EXCEPT ![m.cid] = next],
         fingerprints     |-> fold_cid_into_domain(st.fingerprints, {m.cid},
                                                   [c \in {m.cid} |-> scopes])]

put_message_state(st, m) ==
    IF is_feed_message(m.cid) /\ ~ InFeed(st, m.cid)
    THEN append_message(st, m)
    ELSE reindex_messages(st, [c \in {m.cid} |-> m.indexes])

(* delete_message_state for every CID of a set.  Deleting an absent        *)
(* message is not an error; the head keeps the positions of what is gone.  *)

DeleteAccepted(st, cids) ==
    \A c \in cids : InFeed(st, c) => EntryOf(st, c) # Absent /\ EntryOf(st, c).message_cid = c

(* Variants with a fault: the fingerprints keep the deleted CIDs; the head *)
(* falls back to the last live entry.                                      *)
delete_message_state_NoFold(st, cids) ==
    [st EXCEPT !.messages = [c \in Cids |-> IF c \in cids THEN Absent ELSE @[c]],
               !.entries  = [p \in Positions |->
                               IF \E c \in cids : st.positions_by_cid[c] = p THEN Absent ELSE @[p]],
               !.positions_by_cid = [c \in Cids |-> IF c \in cids THEN 0 ELSE @[c]]]

delete_message_state_HeadFallsBack(st, cids) ==
    LET after == delete_message_state_NoFold(st, cids)
    IN  [after EXCEPT !.head =
           CHOOSE p \in 0 .. MaxPosition :
              /\ p = 0 \/ after.entries[p] # Absent
              /\ \A q \in Positions : after.entries[q] # Absent => q <= p]

delete_message_state(st, cids) ==
    LET gone == {c \in cids : InFeed(st, c)}
    IN  [messages         |-> [c \in Cids |-> IF c \in cids THEN Absent ELSE st.messages[c]],
         head             |-> st.head,
         entries          |-> [p \in Positions |->
                                 IF \E c \in gone : st.positions_by_cid[c] = p
                                 THEN Absent ELSE st.entries[p]],
         positions_by_cid |-> [c \in Cids |-> IF c \in gone THEN 0
                                              ELSE st.positions_by_cid[c]],
         fingerprints     |-> fold_cid_into_domain(st.fingerprints, gone,
                                [c \in gone |-> EntryOf(st, c).fingerprint_scopes])]

-----------------------------------------------------------------------------
(* A LatestStateTransition: the new winner, the retained messages with     *)
(* their new projections, and the displaced CIDs.  validate() rejects one  *)
(* that names a CID twice.                                                 *)

Transition ==
    {t \in [put : Mutation, retains : UNION {[D -> Indexes] : D \in SUBSET Cids},
            deletes : SUBSET Cids] :
        /\ t.put.cid \notin DOMAIN t.retains
        /\ t.put.cid \notin t.deletes
        /\ DOMAIN t.retains \cap t.deletes = {}}

CommitAccepted(st, t) ==
    /\ PutAccepted(st, t.put)
    /\ \A c \in DOMAIN t.retains :
          /\ st.messages[c] # Absent
          /\ ReindexAccepted(st, c, t.retains[c])
    /\ DeleteAccepted(st, t.deletes)

commit_latest_state(st, t) ==
    delete_message_state(reindex_messages(put_message_state(st, t.put), t.retains), t.deletes)

-----------------------------------------------------------------------------
Init ==
    /\ epoch = 0
    /\ feed = [t \in Tenants |-> EmptyFeed]

Put(tenant) ==
    \E m \in Mutation :
        /\ PutAccepted(feed[tenant], m)
        /\ feed' = [feed EXCEPT ![tenant] = put_message_state(@, m)]
        /\ UNCHANGED epoch

CommitLatestState(tenant) ==
    \E t \in Transition :
        /\ CommitAccepted(feed[tenant], t)
        /\ feed' = [feed EXCEPT ![tenant] = commit_latest_state(@, t)]
        /\ UNCHANGED epoch

Delete(tenant) ==
    \E c \in Cids :
        /\ DeleteAccepted(feed[tenant], {c})
        /\ feed' = [feed EXCEPT ![tenant] = delete_message_state(@, {c})]
        /\ UNCHANGED epoch

(* clear() wipes every tenant and opens a fresh position namespace. *)
Clear ==
    /\ epoch < MaxEpoch
    /\ epoch' = epoch + 1
    /\ feed' = [t \in Tenants |-> EmptyFeed]

Next ==
    \/ \E tenant \in Tenants : Put(tenant) \/ CommitLatestState(tenant) \/ Delete(tenant)
    \/ Clear

Spec == Init /\ [][Next]_vars

-----------------------------------------------------------------------------
(* The tables stay within their types through every put, commit and        *)
(* delete: heads and positions within the limit put_message_state checks,  *)
(* fingerprints over feed messages only.                                   *)
TypeOK ==
    /\ epoch \in Nat
    /\ feed \in [Tenants -> FeedState]

(* The CID index and the feed name each other: an indexed position holds   *)
(* the entry of that CID, an entry's CID is indexed at its position, and   *)
(* no entry lies beyond the head.  The internal errors put_message_state   *)
(* and delete_message_state raise for an index that points nowhere or at   *)
(* another message are therefore unreachable.                              *)
PositionsAgreeIn(st) ==
    /\ \A c \in Cids : InFeed(st, c) =>
          /\ is_feed_message(c)
          /\ EntryOf(st, c) # Absent
          /\ EntryOf(st, c).message_cid = c
    /\ \A p \in Positions : st.entries[p] # Absent =>
          /\ p <= st.head
          /\ st.positions_by_cid[st.entries[p].message_cid] = p

(* PositionsAgreeIn for every tenant of the store. *)
PositionsAgree == \A t \in Tenants : PositionsAgreeIn(feed[t])

(* Messages and feed describe the same state: a feed message is stored     *)
(* exactly when it has an entry, with the same index projection, and the   *)
(* entry's scopes are the ones its projection implies.  log_read's         *)
(* MissingMessage error is therefore unreachable.                          *)
FeedMatchesMessagesIn(st) ==
    \A c \in FeedCids :
        /\ (st.messages[c] # Absent) <=> InFeed(st, c)
        /\ InFeed(st, c) =>
             /\ EntryOf(st, c).indexes = st.messages[c]
             /\ EntryOf(st, c).fingerprint_scopes = fingerprint_scopes(c, st.messages[c])

(* FeedMatchesMessagesIn for every tenant of the store. *)
FeedMatchesMessages == \A t \in Tenants : FeedMatchesMessagesIn(feed[t])

(* Each scope's fingerprint covers exactly the CIDs of the scope's live    *)
(* entries, however often a message was put again, reindexed, displaced or *)
(* deleted.  Two stores with equal fingerprints hold the same messages,    *)
(* which is what fingerprint-driven synchronisation rests on.              *)
FingerprintsExactIn(st) ==
    \A s \in Scopes :
        st.fingerprints[s] =
            {c \in FeedCids : InFeed(st, c) /\ s \in EntryOf(st, c).fingerprint_scopes}

(* FingerprintsExactIn for every tenant of the store. *)
FingerprintsExact == \A t \in Tenants : FingerprintsExactIn(feed[t])

(* The tables of the store describe one feed, for every tenant and after    *)
(* any puts, transitions, deletes and clears: positions and CIDs name each  *)
(* other, a message is stored exactly when it has an entry with its own     *)
(* projection, and every fingerprint is the fold of the live entries.       *)
FeedSound == TypeOK /\ PositionsAgree /\ FeedMatchesMessages /\ FingerprintsExact

(* "positions are not reused after deletion": within an epoch the head     *)
(* never goes back, a position never changes hands, and an entry appears   *)
(* only beyond every position allocated before.                            *)
PositionsNeverReusedIn(old, new) ==
    /\ old.head <= new.head
    /\ \A p \in Positions : new.entries[p] # Absent =>
          IF old.entries[p] # Absent
          THEN new.entries[p].message_cid = old.entries[p].message_cid
          ELSE p > old.head

(* PositionsNeverReusedIn for every tenant and every step of the store     *)
(* except clear(), which opens a new epoch.                                *)
PositionsNeverReused ==
    [][epoch' = epoch => \A t \in Tenants : PositionsNeverReusedIn(feed[t], feed'[t])]_vars

-----------------------------------------------------------------------------
(* The store implements the reader's contract: each operation is, for one  *)
(* tenant and one filter, a step of FeedView or leaves the view alone.     *)

ASSUME ReaderAssumption == Reader \in Tenants

VisibleIn(st) ==
    {p \in Positions : st.entries[p] # Absent /\ st.entries[p].indexes \in MatchingIndexes}

View == INSTANCE FeedView WITH
            head    <- feed[Reader].head,
            visible <- VisibleIn(feed[Reader])

(* Every store operation a reader can observe appends at most one entry,   *)
(* directly after the head, never moves the head back within an epoch and  *)
(* shows nothing beyond it (MemoryMessageStore::put, commit_latest_state,  *)
(* delete and clear against the ReplicationFeedReader contract).           *)
ImplementsFeedView == View!SpecFeed
=============================================================================
