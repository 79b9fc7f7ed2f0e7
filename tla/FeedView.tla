------------------------------ MODULE FeedView ------------------------------
(***************************************************************************)
(* One tenant's replication feed as a reader with a filter sees it: the    *)
(* epoch, the head and the positions whose entry exists and matches the    *)
(* filter.  This is the contract of ReplicationFeedReader that             *)
(* DurableEventLog is built on.  ReplicationFeed states that the message   *)
(* store implements it; DurableEventLog takes its feed from here.          *)
(***************************************************************************)
EXTENDS Naturals, FiniteSets, FiniteSetsExt

CONSTANTS
    MaxPosition,     \* bound on the head explored
    MaxEpoch         \* bound on the number of clear() calls explored

Positions == 1 .. MaxPosition

ASSUME ViewAssumption == MaxPosition \in Nat /\ MaxEpoch \in Nat

VARIABLES
    epoch,
    head,            \* the highest position ever allocated in this epoch
    visible          \* positions of the live entries that match the filter

feedVars == <<epoch, head, visible>>

InitFeed ==
    /\ epoch = 0
    /\ head = 0
    /\ visible = {}

(* One store operation: at most one entry is appended, right after the     *)
(* head, and any older entry may be displaced or reindexed in or out of    *)
(* the filter.                                                             *)
CommitFeed(appended, after) ==
    /\ head < MaxPosition \/ ~ appended
    /\ head' = IF appended THEN head + 1 ELSE head
    /\ after \subseteq 1 .. head'
    /\ visible' = after
    /\ UNCHANGED epoch

(* clear(): a fresh epoch and an empty feed. *)
ClearFeed ==
    /\ epoch < MaxEpoch
    /\ epoch' = epoch + 1
    /\ head' = 0
    /\ visible' = {}

NextFeed ==
    \/ \E appended \in BOOLEAN, after \in SUBSET Positions : CommitFeed(appended, after)
    \/ ClearFeed

SpecFeed == InitFeed /\ [][NextFeed]_feedVars

-----------------------------------------------------------------------------
Token(e, p) == [epoch |-> e, position |-> p]

Tokens == [epoch : 0 .. MaxEpoch, position : 0 .. MaxPosition]

(* validate_feed_cursor for a token of this stream.  No entry is ever      *)
(* trimmed, so no token is too old, and a position never changes hands, so *)
(* no token names another message.                                         *)

CursorValid(cursor) == cursor.epoch = epoch /\ cursor.position <= head

(* log_read from a position: the events of one page, as their positions,   *)
(* and the token of the position scanned to.  The scan stops at the        *)
(* limit-th match and otherwise at the head.                               *)

(* Variant with a fault: the token is always the head's. *)
log_read_ToHead(position, limit) ==
    LET hits == {p \in visible : position < p}
    IN  [events  |-> {p \in hits : Cardinality({q \in hits : q <= p}) <= limit},
         cursor  |-> Token(epoch, head),
         drained |-> TRUE]

log_read(position, limit) ==
    LET hits == {p \in visible : position < p}
        page == {p \in hits : Cardinality({q \in hits : q <= p}) <= limit}
        scan == IF Cardinality(hits) >= limit THEN Max(page \cup {position}) ELSE head
    IN  [events |-> page, cursor |-> Token(epoch, scan), drained |-> scan >= head]
=============================================================================
