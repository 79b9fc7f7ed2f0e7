------------------------------ MODULE SqliteFeed ------------------------------
(***************************************************************************)
(* The message store and replication feed of dwn-rs-stores, as SQLite      *)
(* tables (sqlite/message_store.rs, sqlite/replication_feed_reader.rs and  *)
(* the migrations).  A table is a set of rows.  Every write is one         *)
(* transaction on the single writer, so it is one step that either commits *)
(* or, when a statement of it fails, leaves the tables alone.  The wake    *)
(* published after the commit is not state of the store: DurableEventLog   *)
(* models what it does and what losing it costs.                           *)
(*                                                                         *)
(* The same calls are made to the in-memory store of ReplicationFeed,      *)
(* whose operators are its reference: FeedOf reads one out of the other.   *)
(***************************************************************************)
EXTENDS ReplicationFeed, FiniteSetsExt

VARIABLES
    db,              \* the tables
    opened,          \* the process has migrated and opened the database
    cursor           \* the last token Reader was given, or Absent

sqlVars == <<epoch, feed, db, opened, cursor>>

(* The five tables of V1__initial.sql and V2__durable_message_feed.sql     *)
(* that the feed uses, and the applied versions of V3__rust_migrations.sql.*)
EmptyTables ==
    [messages |-> {}, feed_entries |-> {}, feed_heads |-> {},
     feed_fingerprints |-> {}, feed_metadata |-> {}, migrations |-> {}]

(* A database written before the feed existed: a message, no epoch. *)
LegacyTables(t, c, i) ==
    [EmptyTables EXCEPT !.messages = {[tenant |-> t, message_cid |-> c, indexes |-> i]}]

-----------------------------------------------------------------------------
(* What a transaction reads. *)

RowsOf(table, t) == {r \in table : r.tenant = t}

(* SELECT ... WHERE tenant = ?1 AND message_cid = ?2 *)
select_feed_entry(tb, t, cid) == {r \in RowsOf(tb.feed_entries, t) : r.message_cid = cid}

select_feed_entry_by_position(tb, t, p) == {r \in RowsOf(tb.feed_entries, t) : r.position = p}

message_exists(tb, t, cid) == \E r \in RowsOf(tb.messages, t) : r.message_cid = cid

get_head(tb, t) == Max({0} \cup {r.head : r \in RowsOf(tb.feed_heads, t)})

epoch_tx(tb) == CHOOSE e \in tb.feed_metadata : TRUE

(* A scope without a row has the empty fingerprint. *)
get_single_feed_fingerprint(tb, t, s) ==
    UNION {r.value : r \in {x \in RowsOf(tb.feed_fingerprints, t) : x.domain = s}}

(* ReplicationFeed's state, read out of the rows. *)
TheOnly(S, default) == IF S = {} THEN default ELSE CHOOSE x \in S : TRUE

FeedOf(tb) ==
    [t \in Tenants |->
       [messages |-> [c \in Cids |->
           TheOnly({r.indexes : r \in {x \in RowsOf(tb.messages, t) : x.message_cid = c}}, Absent)],
        head |-> get_head(tb, t),
        entries |-> [p \in Positions |->
           TheOnly({[message_cid |-> r.message_cid, indexes |-> r.indexes,
                     fingerprint_scopes |-> r.scopes] :
                       r \in select_feed_entry_by_position(tb, t, p)}, Absent)],
        positions_by_cid |-> [c \in Cids |->
           TheOnly({r.position : r \in select_feed_entry(tb, t, c)}, 0)],
        fingerprints |-> [s \in Scopes |-> get_single_feed_fingerprint(tb, t, s)]]]

-----------------------------------------------------------------------------
(* What its statements write.  Each takes the tables and returns them.     *)

(* INSERT OR REPLACE INTO messages *)
insert_message(tb, t, m) ==
    [tb EXCEPT !.messages = {r \in @ : r.tenant # t \/ r.message_cid # m.cid}
                 \cup {[tenant |-> t, message_cid |-> m.cid, indexes |-> m.indexes]}]

(* UPDATE feed_entries SET indexes_json ... WHERE tenant AND message_cid *)
update_feed_entry_indexes(tb, t, m) ==
    [tb EXCEPT !.feed_entries =
        {IF r.tenant = t /\ r.message_cid = m.cid THEN [r EXCEPT !.indexes = m.indexes] ELSE r : r \in @}]

insert_feed_entry(tb, t, m, p, scopes) ==
    [tb EXCEPT !.feed_entries = @ \cup {[tenant |-> t, position |-> p, message_cid |-> m.cid,
                                         indexes |-> m.indexes, scopes |-> scopes]}]

update_feed_head(tb, t, p) ==
    [tb EXCEPT !.feed_heads = {r \in @ : r.tenant # t} \cup {[tenant |-> t, head |-> p]}]

(* Reads the rows of the scopes, folds the CID into each and writes them   *)
(* all back.                                                               *)
upsert_feed_fingerprint(tb, t, cid, scopes) ==
    [tb EXCEPT !.feed_fingerprints =
        {r \in @ : r.tenant # t \/ r.domain \notin scopes}
        \cup {[tenant |-> t, domain |-> s,
               value |-> SymmetricDifference(get_single_feed_fingerprint(tb, t, s), {cid})] :
                  s \in scopes}]

(* put_message_tx: its three paths, and the conditions it fails under. *)
put_fails(tb, t, m) ==
    /\ m.cid \in FeedCids
    /\ IF select_feed_entry(tb, t, m.cid) = {}
       THEN get_head(tb, t) = MaxPosition
       ELSE \E e \in select_feed_entry(tb, t, m.cid) :
               e.scopes # fingerprint_scopes(m.cid, m.indexes)

put_message_tx(tb, t, m) ==
    LET next   == get_head(tb, t) + 1
        scopes == fingerprint_scopes(m.cid, m.indexes)
    IN  CASE m.cid \notin FeedCids -> insert_message(tb, t, m)
          [] m.cid \in FeedCids /\ select_feed_entry(tb, t, m.cid) # {} ->
                update_feed_entry_indexes(insert_message(tb, t, m), t, m)
          [] OTHER ->
                upsert_feed_fingerprint(
                    update_feed_head(insert_feed_entry(insert_message(tb, t, m), t, m, next, scopes),
                                     t, next),
                    t, m.cid, scopes)

(* Variant with a fault: the fingerprint keeps the deleted message. *)
delete_message_tx_NoFold(tb, t, cid) ==
    [tb EXCEPT !.messages     = {r \in @ : r.tenant # t \/ r.message_cid # cid},
               !.feed_entries = {r \in @ : r.tenant # t \/ r.message_cid # cid}]

(* delete_message_tx: both deletes, then the entry's own scopes are folded *)
(* out.                                                                    *)
delete_message_tx(tb, t, cid) ==
    LET gone  == select_feed_entry(tb, t, cid)
        after == [tb EXCEPT !.messages     = {r \in @ : r.tenant # t \/ r.message_cid # cid},
                            !.feed_entries = {r \in @ : r.tenant # t \/ r.message_cid # cid}]
    IN  IF gone = {} THEN after
        ELSE upsert_feed_fingerprint(after, t, cid, (CHOOSE e \in gone : TRUE).scopes)

-----------------------------------------------------------------------------
SqlInit ==
    /\ Init
    /\ db \in {EmptyTables} \cup {LegacyTables(t, c, i) : t \in Tenants, c \in Cids, i \in Indexes}
    /\ opened = FALSE
    /\ cursor = Absent

(* migrate: the data migration runs once, in one transaction with its      *)
(* record; it refuses a database whose messages have no feed order.        *)
migrate ==
    IF 1 \in db.migrations THEN {db}
    ELSE {[db EXCEPT !.feed_metadata = {0}, !.migrations = {1}] : x \in {y \in {1} : db.messages = {}}}

Open ==
    /\ ~ opened
    /\ db' \in migrate
    /\ opened' = TRUE
    /\ UNCHANGED <<epoch, feed, cursor>>

(* The process stops between two transactions: the tables stay. *)
Crash ==
    /\ opened
    /\ opened' = FALSE
    /\ UNCHANGED <<epoch, feed, db, cursor>>

(* Each operation on both stores.  A store that refuses it is unchanged. *)

SqlPut(t) ==
    \E m \in Mutation :
        /\ opened
        /\ db' = IF put_fails(db, t, m) THEN db ELSE put_message_tx(db, t, m)
        /\ feed' = IF PutAccepted(feed[t], m)
                   THEN [feed EXCEPT ![t] = put_message_state(@, m)] ELSE feed
        /\ UNCHANGED <<epoch, opened, cursor>>

(* The tables after the puts of the retained messages, one after another,  *)
(* and after the deletes.                                                  *)
retained_tables(tb, t, retains) ==
    FoldSet(LAMBDA c, acc : put_message_tx(acc, t, [cid |-> c, indexes |-> retains[c]]),
            tb, DOMAIN retains)

deleted_tables(tb, t, cids) == FoldSet(LAMBDA c, acc : delete_message_tx(acc, t, c), tb, cids)

commit_fails(tb, t, tr) ==
    \/ put_fails(tb, t, tr.put)
    \/ \E c \in DOMAIN tr.retains :
          \/ ~ message_exists(put_message_tx(tb, t, tr.put), t, c)
          \/ put_fails(put_message_tx(tb, t, tr.put), t, [cid |-> c, indexes |-> tr.retains[c]])

SqlCommitLatestState(t) ==
    \E tr \in Transition :
        /\ opened
        /\ db' = IF commit_fails(db, t, tr) THEN db
                 ELSE deleted_tables(retained_tables(put_message_tx(db, t, tr.put), t, tr.retains),
                                     t, tr.deletes)
        /\ feed' = IF CommitAccepted(feed[t], tr)
                   THEN [feed EXCEPT ![t] = commit_latest_state(@, tr)] ELSE feed
        /\ UNCHANGED <<epoch, opened, cursor>>

SqlDelete(t) ==
    \E c \in Cids :
        /\ opened
        /\ db' = delete_message_tx(db, t, c)
        /\ feed' = IF DeleteAccepted(feed[t], {c})
                   THEN [feed EXCEPT ![t] = delete_message_state(@, {c})] ELSE feed
        /\ UNCHANGED <<epoch, opened, cursor>>

(* clear(): the five tables in one transaction with the new epoch. *)
SqlClear ==
    /\ opened
    /\ Clear
    /\ db' = [EmptyTables EXCEPT !.feed_metadata = {epoch'}, !.migrations = db.migrations]
    /\ UNCHANGED <<opened, cursor>>

(* update_indexes and update_message_and_indexes, whose message has the    *)
(* stored CID and so the stored content.  The scopes are computed without  *)
(* the descriptor's tag.  Only this store has them: what one accepts the   *)
(* in-memory store accepts as a put of the same message.                   *)
fingerprint_scopes_from_indexes(i) ==
    {GlobalScope}
    \cup {[kind |-> "protocol", of |-> p] : p \in {i.protocol} \ {Absent}}
    \cup {[kind |-> "perm", of |-> p] : p \in IF i.protocol = Permissions THEN {i.tag} \ {Absent} ELSE {}}

UpdateIndexes(t) ==
    \E m \in Mutation :
        /\ opened
        /\ message_exists(db, t, m.cid)
        /\ \A e \in select_feed_entry(db, t, m.cid) :
              e.scopes = fingerprint_scopes_from_indexes(m.indexes)
        /\ db' = insert_message(update_feed_entry_indexes(db, t, m), t, m)
        /\ feed' = IF PutAccepted(feed[t], m)
                   THEN [feed EXCEPT ![t] = put_message_state(@, m)] ELSE feed
        /\ UNCHANGED <<epoch, opened, cursor>>

-----------------------------------------------------------------------------
(* Reads.  A token names the epoch, the position and, at an event, the CID *)
(* of the message.                                                         *)

SqlToken(p, cid) == [epoch |-> epoch_tx(db), position |-> p, message_cid |-> cid]

(* validate_feed_cursor, with nothing trimmed and a token of this stream. *)
cursor_gap(c) ==
    \/ c.epoch # epoch_tx(db)
    \/ c.position > get_head(db, Reader)
    \/ /\ c.message_cid # Absent
       /\ \E e \in select_feed_entry_by_position(db, Reader, c.position) : e.message_cid # c.message_cid

(* The entries after the start, in order, joined with their messages; the  *)
(* filter looks at the entry's projection, and only a matching entry needs *)
(* its message.                                                            *)
fetch_feed_entries(start) ==
    {r \in RowsOf(db.feed_entries, Reader) : start < r.position /\ r.position <= get_head(db, Reader)}

missing_message(start) ==
    \E r \in fetch_feed_entries(start) :
        r.indexes \in MatchingIndexes /\ ~ message_exists(db, Reader, r.message_cid)

sql_log_read(start, limit) ==
    LET head == get_head(db, Reader)
        hits == {r.position : r \in {x \in fetch_feed_entries(start) : x.indexes \in MatchingIndexes}}
        page == {p \in hits : Cardinality({q \in hits : q <= p}) <= limit}
        full == limit > 0 /\ Cardinality(page) = limit
        scan == IF full THEN Max(page) ELSE head
    IN  IF head = 0 \/ limit = 0 \/ start = head
        THEN [events |-> {}, position |-> start, drained |-> start >= head]
        ELSE [events |-> page, position |-> scan, drained |-> scan >= head]

Start == IF cursor = Absent THEN 0 ELSE cursor.position

(* One page of Reader; a token that no longer fits starts over. *)
Read ==
    \E limit \in 0 .. 2 :
        /\ opened
        /\ IF cursor # Absent /\ cursor_gap(cursor)
           THEN cursor' = Absent
           ELSE LET page == sql_log_read(Start, limit)
                    at   == select_feed_entry_by_position(db, Reader, page.position)
                IN  cursor' = SqlToken(page.position,
                       IF page.position \in page.events THEN TheOnly({e.message_cid : e \in at}, Absent)
                                                        ELSE Absent)
        /\ UNCHANGED <<epoch, feed, db, opened>>

SqlNext ==
    \/ \E t \in Tenants : SqlPut(t) \/ SqlCommitLatestState(t) \/ SqlDelete(t) \/ UpdateIndexes(t)
    \/ Open \/ Crash \/ SqlClear \/ Read

SqlSpec == SqlInit /\ [][SqlNext]_sqlVars

-----------------------------------------------------------------------------
(* The two stores cannot be told apart: after any sequence of puts,        *)
(* commits, deletes, clears and restarts they accept the same operations   *)
(* and hold the same messages, positions, heads, projections, fingerprints *)
(* and epoch, and a database from before the feed is never opened.         *)
StoresAgree ==
    opened => FeedOf(db) = feed /\ epoch_tx(db) = epoch

(* log_read over the tables answers what the feed contract says for the    *)
(* reader's last token and every limit: a gap exactly when the epoch is    *)
(* another one, otherwise the same events, scan position and drained flag, *)
(* and never the MissingMessage error.                                     *)
ReadsMatchView ==
    opened =>
      \A limit \in 0 .. 2 :
        /\ cursor # Absent => (cursor_gap(cursor) <=> cursor.epoch # epoch)
        /\ ~ missing_message(Start)
        /\ (cursor = Absent \/ ~ cursor_gap(cursor)) =>
              LET got  == sql_log_read(Start, limit)
                  view == View!log_read(Start, limit)
              IN  /\ got.events = view.events
                  /\ got.position = view.cursor.position
                  /\ got.drained = view.drained
=============================================================================
