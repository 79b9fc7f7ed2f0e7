----------------------------- MODULE StateIndex -----------------------------
(***************************************************************************)
(* The state index: a sparse Merkle tree over the CIDs a tenant holds,     *)
(* kept in memory (core stores/state_index.rs) with rows in SQLite to      *)
(* reload it from (sqlite/state_index.rs), and the MessagesSync handler    *)
(* that answers a peer's diff from it (handlers/messages/sync.rs).         *)
(*                                                                         *)
(* The handler awaits between the hashes of a diff and between the leaves, *)
(* so inserts and deletes happen while it is answered.  The peer's side    *)
(* of a diff is not in the repository: it sends the hashes of its own set. *)
(***************************************************************************)
EXTENDS Naturals, Sequences, FiniteSets

CONSTANTS
    Cids,
    Protocols,
    NoProtocol,
    KeyBits,         \* CID -> the bits of its key hash, all of one length
    MaxChanges       \* inserts and deletes made

VARIABLES
    index,           \* the tenant's global, protocols and metadata
    rows,            \* state_index_entries: CID -> protocol
    pending,         \* persists to come: [n, op, cid, protocol]
    overtaken,       \* a persist overtook an earlier one
    changes,         \* inserts and deletes so far
    diff             \* the diff being answered

indexVars == <<index, rows, pending, overtaken, changes, diff>>

SMT_DEPTH == Len(KeyBits[CHOOSE c \in Cids : TRUE])

-----------------------------------------------------------------------------
(* The tree.  A hash is the term it was computed from, so that two hashes  *)
(* are equal exactly when the inputs are.                                  *)

hash_leaf(c) == <<"leaf", c>>

hash_children(l, r) == <<"(">> \o l \o r \o <<")">>

RECURSIVE default_hashes(_)
default_hashes(depth) ==
    IF depth = SMT_DEPTH THEN <<"zero">>
    ELSE hash_children(default_hashes(depth + 1), default_hashes(depth + 1))

get_bit(c, depth) == KeyBits[c][depth + 1]

leaf_matches_prefix(c, prefix) == \A d \in 1 .. Len(prefix) : KeyBits[c][d] = prefix[d]

RECURSIVE node_hash(_, _)
node_hash(leaves, depth) ==
    IF leaves = {} THEN default_hashes(depth)
    ELSE IF Cardinality(leaves) = 1 \/ depth >= SMT_DEPTH THEN hash_leaf(CHOOSE c \in leaves : TRUE)
    ELSE hash_children(node_hash({c \in leaves : get_bit(c, depth) = 0}, depth + 1),
                       node_hash({c \in leaves : get_bit(c, depth) = 1}, depth + 1))

LeavesUnder(cids, prefix) == {c \in cids : leaf_matches_prefix(c, prefix)}

subtree_hash(cids, prefix) == node_hash(LeavesUnder(cids, prefix), Len(prefix))

(* The set a request is about: everything, or one protocol's. *)
SetFor(ix, p) == IF p = NoProtocol THEN ix.global ELSE ix.protocols[p]

-----------------------------------------------------------------------------
(* insert and delete of the in-memory index. *)

remove_protocol_cid(protocols, p, c) ==
    IF p = NoProtocol THEN protocols ELSE [protocols EXCEPT ![p] = @ \ {c}]

IndexInsert(ix, c, p) ==
    LET previous == IF c \in DOMAIN ix.metadata THEN ix.metadata[c] ELSE NoProtocol
        kept     == IF previous = p THEN ix.protocols ELSE remove_protocol_cid(ix.protocols, previous, c)
    IN  [global    |-> ix.global \cup {c},
         protocols |-> IF p = NoProtocol THEN kept ELSE [kept EXCEPT ![p] = @ \cup {c}],
         metadata  |-> [d \in DOMAIN ix.metadata \cup {c} |-> IF d = c THEN p ELSE ix.metadata[d]]]

IndexDelete(ix, c) ==
    IF c \notin DOMAIN ix.metadata THEN [ix EXCEPT !.global = @ \ {c}]
    ELSE [global    |-> ix.global \ {c},
          protocols |-> remove_protocol_cid(ix.protocols, ix.metadata[c], c),
          metadata  |-> [d \in DOMAIN ix.metadata \ {c} |-> ix.metadata[d]]]

NoDiff == [pc |-> "none"]

(* kept and ever: what the server held all through the diff and what it    *)
(* held at some time of it.                                                *)
Watched(ix) ==
    IF diff.pc \in {"none", "done"} THEN diff
    ELSE [diff EXCEPT !.kept = @ \cap SetFor(ix, diff.protocol), !.ever = @ \cup SetFor(ix, diff.protocol)]

(* open(): the tree is cleared and the rows inserted. *)
Rebuilt == [global    |-> DOMAIN rows,
            protocols |-> [p \in Protocols |-> {c \in DOMAIN rows : rows[c] = p}],
            metadata  |-> rows]

IndexInit ==
    /\ \E held \in SUBSET Cids : rows \in [held -> Protocols \cup {NoProtocol}]
    /\ index = Rebuilt
    /\ pending = {}
    /\ overtaken = FALSE
    /\ changes = 0
    /\ diff = NoDiff

(* SqliteStateIndex changes the memory first and persists in a second      *)
(* step, which other calls may overtake.                                   *)
Change(op, c, p) ==
    /\ changes < MaxChanges
    /\ index' = IF op = "insert" THEN IndexInsert(index, c, p) ELSE IndexDelete(index, c)
    /\ changes' = changes + 1
    /\ pending' = pending \cup {[n |-> changes, op |-> op, cid |-> c, protocol |-> p]}
    /\ diff' = Watched(index')
    /\ UNCHANGED <<rows, overtaken>>

Insert(c, p) == Change("insert", c, p)

Delete(c) == Change("delete", c, NoProtocol)

Persist(w) ==
    /\ w \in pending
    /\ rows' = IF w.op = "insert"
               THEN [d \in DOMAIN rows \cup {w.cid} |-> IF d = w.cid THEN w.protocol ELSE rows[d]]
               ELSE [d \in DOMAIN rows \ {w.cid} |-> rows[d]]
    /\ pending' = pending \ {w}
    /\ overtaken' = (overtaken \/ \E v \in pending : v.n < w.n)
    /\ UNCHANGED <<index, changes, diff>>

(* The process ends and the index is opened again. *)
Restart ==
    /\ pending # {} \/ diff # NoDiff
    /\ index' = Rebuilt
    /\ pending' = {}
    /\ diff' = NoDiff
    /\ UNCHANGED <<rows, overtaken, changes>>

-----------------------------------------------------------------------------
(* MessagesSync, action diff: the hashes of the subtrees at a depth, then, *)
(* per prefix whose hashes differ, the leaves.                             *)

Prefixes(depth) == [1 .. depth -> {0, 1}]

StartDiff(peer, p, depth) ==
    /\ diff = NoDiff
    /\ diff' = [pc |-> "collect", peer |-> peer, protocol |-> p, depth |-> depth,
                kept |-> SetFor(index, p), ever |-> SetFor(index, p),
                todo |-> Prefixes(depth), server |-> {}, client |-> {},
                only_remote |-> {}, only_local |-> {}]
    /\ UNCHANGED <<index, rows, pending, overtaken, changes>>

(* collect_subtree_hashes, one subtree: the ones that are not empty are    *)
(* compared with the client's hash, and the equal ones left alone.         *)
collect_subtree_hashes ==
    /\ diff.pc = "collect" /\ diff.todo # {}
    /\ LET x    == CHOOSE x \in diff.todo : TRUE
           mine == subtree_hash(SetFor(index, diff.protocol), x)
           its  == subtree_hash(diff.peer, x)
           none == default_hashes(diff.depth)
       IN  diff' = [diff EXCEPT
             !.todo   = @ \ {x},
             !.server = IF mine \notin {none, its} THEN @ \cup {x} ELSE @,
             !.client = IF its \notin {none, mine} THEN @ \cup {x} ELSE @]
    /\ UNCHANGED <<index, rows, pending, overtaken, changes>>

Collected ==
    /\ diff.pc = "collect" /\ diff.todo = {}
    /\ diff' = [diff EXCEPT !.pc = "leaves", !.todo = diff.server \cup diff.client]
    /\ UNCHANGED <<index, rows, pending, overtaken, changes>>

(* Variant with a fault: a prefix both sides have something under is       *)
(* reported to one side only.                                              *)
handle_diff_OneSided ==
    /\ diff.pc = "leaves" /\ diff.todo # {}
    /\ LET x == CHOOSE x \in diff.todo : TRUE
       IN  diff' = [diff EXCEPT
             !.todo = @ \ {x},
             !.only_local  = IF x \in diff.server THEN @ ELSE @ \cup {x},
             !.only_remote = IF x \in diff.server
                             THEN @ \cup LeavesUnder(SetFor(index, diff.protocol), x) ELSE @]
    /\ UNCHANGED <<index, rows, pending, overtaken, changes>>

(* One prefix of handle_diff: the leaves the server has there now, and the *)
(* prefix itself when the client has something there to send.              *)
handle_diff ==
    /\ diff.pc = "leaves" /\ diff.todo # {}
    /\ LET x == CHOOSE x \in diff.todo : TRUE
       IN  diff' = [diff EXCEPT
             !.todo = @ \ {x},
             !.only_local  = IF x \in diff.client THEN @ \cup {x} ELSE @,
             !.only_remote = IF x \in diff.server
                             THEN @ \cup LeavesUnder(SetFor(index, diff.protocol), x) ELSE @]
    /\ UNCHANGED <<index, rows, pending, overtaken, changes>>

Answered == diff.pc = "leaves" /\ diff.todo = {}

Reply ==
    /\ Answered
    /\ diff' = [pc |-> "done"]
    /\ UNCHANGED <<index, rows, pending, overtaken, changes>>

IndexNext ==
    \/ \E c \in Cids, p \in Protocols \cup {NoProtocol} : Insert(c, p)
    \/ \E c \in Cids : Delete(c)
    \/ \E w \in pending : Persist(w)
    \/ Restart
    \/ \E peer \in SUBSET Cids, p \in Protocols \cup {NoProtocol}, d \in 0 .. SMT_DEPTH : StartDiff(peer, p, d)
    \/ collect_subtree_hashes \/ Collected \/ handle_diff \/ Reply

IndexSpec == IndexInit /\ [][IndexNext]_indexVars

-----------------------------------------------------------------------------
(* A diff answered while the index changes is complete for what did not    *)
(* change: it names every message the server held all along and the peer   *)
(* lacks, and a prefix for every message of the peer the server never had. *)
DiffComplete ==
    Answered =>
        /\ diff.kept \ diff.peer \subseteq diff.only_remote
        /\ \A c \in diff.peer \ diff.ever : \E x \in diff.only_local : leaf_matches_prefix(c, x)

(* The tree a restart rebuilds from the rows is the one in memory, its     *)
(* protocol subsets included, once the persists have landed, as long as    *)
(* none overtook another.                                                  *)
RebuildExact == pending = {} /\ ~ overtaken => Rebuilt = index

=============================================================================
