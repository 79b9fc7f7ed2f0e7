----------------------------- MODULE MessageQuery -----------------------------
(***************************************************************************)
(* Message queries over the two stores: the in-memory store sorts rows and *)
(* skips to the cursor (stores/memory.rs), the SQLite store renders the    *)
(* same query as a keyset predicate (sqlite/query.rs).  Both first resolve *)
(* which records occupy the slots of a $recordLimit (stores/occupancy.rs), *)
(* in a read of its own, so a write may come between the two reads, and    *)
(* between two pages of one client.                                        *)
(*                                                                         *)
(* A row's sort value, record, parent and creation date belong to its      *)
(* message and never change; what changes is whether it is stored and      *)
(* whether it is the latest state of its record.                           *)
(***************************************************************************)
EXTENDS Naturals, FiniteSets, FiniteSetsExt, Sequences, SequencesExt

CONSTANTS
    RowIds,          \* message CIDs, as numbers: their order breaks ties
    Shapes,          \* the tables of immutable row attributes explored
    PageLimit,       \* Pagination.limit
    MaxOccupants,    \* RecordLimitOccupancy.max
    NoRow            \* no value

VARIABLES
    shape,           \* the attributes of every row: value, record, parent, created
    stored,          \* row -> "latest", "old" or "absent"
    ascending,       \* the sort direction of the query
    client           \* one client paging through the query

queryVars == <<shape, stored, ascending, client>>

(* Two rows in the order of the query: the sort value, then the CID, both  *)
(* in the direction of the query (compare_indexes, apply_dir).             *)
KeyLess(a, b) == a[1] < b[1] \/ (a[1] = b[1] /\ a[2] < b[2])

Directed(a, b) == IF ascending THEN KeyLess(a, b) ELSE KeyLess(b, a)

KeyOf(r) == <<shape[r].value, r>>

Before(r, s) == Directed(KeyOf(r), KeyOf(s))

-----------------------------------------------------------------------------
(* $recordLimit: the latest writes of the path, grouped by direct parent   *)
(* and ranked by creation date and record.                                 *)

Rank(r) == <<shape[r].created, shape[r].record>>

occupancy_candidates == {r \in RowIds : stored[r] = "latest"}

RankedBefore(r, s) == KeyLess(Rank(r), Rank(s))

Group(r) == {s \in occupancy_candidates : shape[s].parent = shape[r].parent}

(* The first MaxOccupants candidates of every selected group, ... *)
select_occupants(parents) ==
    {r \in occupancy_candidates :
        /\ parents = NoRow \/ shape[r].parent \in parents
        /\ Cardinality({s \in Group(r) : RankedBefore(s, r)}) < MaxOccupants}

(* ... as the record IDs the in-memory store filters by, and as the last   *)
(* admitted rank of each group, which the SQLite store compares with.      *)
occupant_ids(parents) == {shape[r].record : r \in select_occupants(parents)}

occupancy_cutoffs(parents) ==
    [p \in {shape[r].parent : r \in select_occupants(parents)} |->
        LET group == {r \in select_occupants(parents) : shape[r].parent = p}
        IN  Rank(CHOOSE r \in group : \A s \in group : ~ RankedBefore(r, s))]

is_occupant(r, ids) == shape[r].record \in ids

WithinCutoff(r, cutoffs) ==
    /\ shape[r].parent \in DOMAIN cutoffs
    /\ ~ KeyLess(cutoffs[shape[r].parent], Rank(r))

-----------------------------------------------------------------------------
(* The rows of the query: latest states with a value for the sort key. *)
Matching == {r \in RowIds : stored[r] = "latest" /\ shape[r].value # NoRow}

FirstOf(rows, n) == SubSeq(rows, 1, IF Len(rows) < n THEN Len(rows) ELSE n)

Page(rows, next) == [rows |-> rows, cursor |-> next]

(* In memory: all rows in order, from the first one after the cursor.  A   *)
(* cursor is returned when rows are left over.                             *)

cursor_start(rows, cursor) ==
    Cardinality({i \in DOMAIN rows : ~ Directed(cursor, KeyOf(rows[i]))})

memory_query(population, cursor) ==
    LET rows == SetToSortSeq(population, Before)
        rest == IF cursor = NoRow THEN rows
                ELSE SubSeq(rows, cursor_start(rows, cursor) + 1, Len(rows))
        page == FirstOf(rest, PageLimit)
    IN  IF PageLimit = 0 THEN Page(<<>>, NoRow)
        ELSE Page(page, IF Len(rest) > PageLimit THEN KeyOf(Last(page)) ELSE NoRow)

(* In SQL: the sort value beyond the cursor's, or equal to it with a CID   *)
(* beyond the cursor's; one row more than the limit is fetched.            *)

(* Variant with a fault: rows with the cursor's sort value are passed over.*)
keyset_NoTies(r, cursor) ==
    \/ cursor = NoRow
    \/ IF ascending THEN shape[r].value > cursor[1] ELSE shape[r].value < cursor[1]

keyset(r, cursor) ==
    \/ cursor = NoRow
    \/ IF ascending THEN shape[r].value > cursor[1] ELSE shape[r].value < cursor[1]
    \/ shape[r].value = cursor[1] /\ (IF ascending THEN r > cursor[2] ELSE r < cursor[2])

sql_query(population, cursor) ==
    LET rows    == SetToSortSeq({r \in population : keyset(r, cursor)}, Before)
        fetched == FirstOf(rows, PageLimit + 1)
        page    == FirstOf(fetched, PageLimit)
    IN  IF PageLimit = 0 THEN Page(<<>>, NoRow)
        ELSE Page(page, IF Len(fetched) > PageLimit THEN KeyOf(Last(page)) ELSE NoRow)

(* Without a page limit, a query returns the population count() counts. *)
MemoryPopulation(ids) == {r \in Matching : is_occupant(r, ids)}

SqlPopulation(cutoffs) == {r \in Matching : WithinCutoff(r, cutoffs)}

-----------------------------------------------------------------------------
(* A client asks for pages until one comes without a cursor.  resolved is  *)
(* the occupancy of the call in progress, NoRow between calls; steady the  *)
(* rows that were visible to it from the first call on.                    *)

Visible == {r \in Matching : r \in select_occupants(NoRow)}

Idle == [backend |-> "memory", cursor |-> NoRow, ids |-> NoRow, cutoffs |-> NoRow,
         seen |-> <<>>, steady |-> {}, paging |-> FALSE, resolved |-> FALSE,
         written |-> FALSE]

QueryInit ==
    /\ shape \in Shapes
    /\ stored = [r \in RowIds |-> "absent"]
    /\ ascending \in BOOLEAN
    /\ client = Idle

(* A write by somebody else: stores a row as the latest state of its       *)
(* record, displacing the one before it, or reindexes or removes a row.    *)
Write(r, to) ==
    /\ stored[r] # to
    /\ stored' = [s \in RowIds |->
         IF s = r THEN to
         ELSE IF to = "latest" /\ shape[s].record = shape[r].record /\ stored[s] = "latest" THEN "old"
         ELSE stored[s]]
    /\ UNCHANGED <<shape, ascending>>
    /\ client' = [client EXCEPT !.steady = @ \cap Visible', !.written = @ \/ client.resolved]

(* The first read of a call: the occupancy. *)
Resolve(b) ==
    /\ ~ client.resolved
    /\ client.paging => b = client.backend
    /\ client' = [client EXCEPT !.backend = b, !.paging = TRUE, !.resolved = TRUE,
                                !.ids = occupant_ids(NoRow), !.cutoffs = occupancy_cutoffs(NoRow),
                                !.steady = IF client.paging THEN @ ELSE Visible,
                                !.seen = IF client.paging THEN @ ELSE <<>>,
                                !.written = FALSE]
    /\ UNCHANGED <<shape, stored, ascending>>

(* The page the call answers.  No occupant, no page. *)
Answer ==
    IF client.ids = {} THEN Page(<<>>, NoRow)
    ELSE IF client.backend = "memory" THEN memory_query(MemoryPopulation(client.ids), client.cursor)
    ELSE sql_query(SqlPopulation(client.cutoffs), client.cursor)

Fetch ==
    /\ client.resolved
    /\ client' = [client EXCEPT !.resolved = FALSE, !.ids = NoRow, !.cutoffs = NoRow,
                                !.seen = @ \o Answer.rows, !.cursor = Answer.cursor,
                                !.paging = Answer.cursor # NoRow, !.written = FALSE]
    /\ UNCHANGED <<shape, stored, ascending>>

QueryNext ==
    \/ \E r \in RowIds, to \in {"latest", "old", "absent"} : Write(r, to)
    \/ \E b \in {"memory", "sqlite"} : Resolve(b)
    \/ Fetch

QuerySpec == QueryInit /\ [][QueryNext]_queryVars

-----------------------------------------------------------------------------
(* The two stores answer a call alike: for the client's cursor and any     *)
(* state of the table, the record-ID filter and the rank cutoffs admit the *)
(* same rows, the page and its cursor are the same, and so is count().     *)
BackendsAgree ==
    LET ids     == occupant_ids(NoRow)
        cutoffs == occupancy_cutoffs(NoRow)
    IN  /\ MemoryPopulation(ids) = SqlPopulation(cutoffs)
        /\ memory_query(MemoryPopulation(ids), client.cursor)
             = sql_query(SqlPopulation(cutoffs), client.cursor)

(* A client that follows the cursors to the end has seen every row that    *)
(* was visible the whole time, and none twice, whatever was written        *)
(* between its pages.                                                      *)
PagingComplete ==
    /\ \A i, j \in DOMAIN client.seen : i # j => client.seen[i] # client.seen[j]
    /\ (~ client.paging /\ ~ client.resolved) => client.steady \subseteq ToSet(client.seen)

(* One page of a limited path never shows more records of one parent than  *)
(* the limit; over SQLite, when nothing was written between the two reads. *)
LimitHeld ==
    client.resolved /\ (client.backend = "sqlite" => ~ client.written) =>
        \A p \in {shape[r].parent : r \in RowIds} :
            Cardinality({shape[r].record : r \in
                {s \in ToSet(Answer.rows) : shape[s].parent = p}}) <= MaxOccupants

(* "Both derive from one grouping and ranking pass, so backends cannot     *)
(* disagree" (OccupancySelection): the rows a SQLite call shows after its  *)
(* occupancy was resolved are rows the in-memory store would show for the  *)
(* same selection.                                                         *)
SelectionsAgree ==
    client.resolved => SqlPopulation(client.cutoffs) = MemoryPopulation(client.ids)
=============================================================================
