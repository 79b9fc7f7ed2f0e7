---------------------------- MODULE EventLogStore ----------------------------
(***************************************************************************)
(* The event log kept beside the message store: one tenant's               *)
(* MemoryEventLog (core stores/memory.rs) and the SQLite rows a            *)
(* SqliteEventLog reloads it from (sqlite/event_log.rs).                   *)
(*                                                                         *)
(* emit() appends under the lock, delivers to the listeners it saw there   *)
(* after releasing it, and persists last.  subscribe() checks its cursor,  *)
(* registers the listener, and replays from the cursor afterwards; emits,  *)
(* trims and other calls run between those steps.  A caller may also read  *)
(* the log page by page, each page from the cursor the last one returned.  *)
(***************************************************************************)
EXTENDS Naturals, FiniteSets

CONSTANTS
    Subscribers,
    Emitters,
    max_events_per_tenant,
    MaxEvents,       \* events emitted
    limit,           \* events a read asks for
    NoCursor

ASSUME LimitAssumption == limit \in Nat

VARIABLES
    log,             \* the retained entries: sequence -> event
    tenant_seq,      \* the last sequence given out
    event_rows,      \* event_log_events: sequence -> event
    seq_row,         \* event_log_tenant_seq
    emitting,        \* emitter -> the emit it is in
    sub,             \* subscriber -> [pc, cursor, on, got, since]
    emitted,         \* events emitted so far; an event is its number
    returned,        \* events whose emit returned
    trimmed,         \* events trimmed or evicted
    overlapped       \* two emits overlapped

logVars == <<log, tenant_seq, event_rows, seq_row, emitting, sub, emitted, returned, trimmed, overlapped>>

Empty == [n \in {} |-> 0]

Insert(f, n, e) == [m \in DOMAIN f \cup {n} |-> IF m = n THEN e ELSE f[m]]

Keep(f, ns) == [m \in DOMAIN f \cap ns |-> f[m]]

Held(f) == {f[m] : m \in DOMAIN f}

Least(ns) == CHOOSE n \in ns : \A m \in ns : n <= m

NotEmitting == [pc |-> "idle"]

NotSubscribed == [pc |-> "idle", cursor |-> NoCursor, on |-> FALSE, got |-> {}, since |-> 0]

LogInit ==
    /\ log = Empty /\ tenant_seq = 0
    /\ event_rows = Empty /\ seq_row = 0
    /\ emitting = [e \in Emitters |-> NotEmitting]
    /\ sub = [s \in Subscribers |-> NotSubscribed]
    /\ emitted = 0 /\ returned = {} /\ trimmed = {} /\ overlapped = FALSE

-----------------------------------------------------------------------------
(* emit: the next sequence, the entry, the eviction of the oldest, and the *)
(* listeners registered at that moment.                                    *)
Emit(e) ==
    /\ emitting[e].pc = "idle" /\ emitted < MaxEvents
    /\ LET n    == tenant_seq + 1
           full == Insert(log, n, emitted + 1)
           kept == IF Cardinality(DOMAIN full) > max_events_per_tenant
                   THEN DOMAIN full \ {Least(DOMAIN full)} ELSE DOMAIN full
       IN  /\ tenant_seq' = n
           /\ log' = Keep(full, kept)
           /\ trimmed' = trimmed \cup Held(Keep(full, DOMAIN full \ kept))
           /\ emitting' = [emitting EXCEPT ![e] =
                [pc |-> "deliver", seq |-> n, event |-> emitted + 1, to |-> {s \in Subscribers : sub[s].on}]]
    /\ emitted' = emitted + 1
    /\ overlapped' = (overlapped \/ \E f \in Emitters : emitting[f].pc # "idle")
    /\ UNCHANGED <<event_rows, seq_row, sub, returned>>

(* A delivery outside the lock; the listener may have been closed since. *)
Deliver(e) ==
    /\ emitting[e].pc = "deliver"
    /\ \/ \E s \in emitting[e].to :
            /\ sub' = [sub EXCEPT ![s].got = @ \cup {emitting[e].event}]
            /\ emitting' = [emitting EXCEPT ![e].to = @ \ {s}]
       \/ /\ emitting[e].to = {}
          /\ emitting' = [emitting EXCEPT ![e].pc = "persist"]
          /\ UNCHANGED sub
    /\ UNCHANGED <<log, tenant_seq, event_rows, seq_row, emitted, returned, trimmed, overlapped>>

(* persist_emit: the row and the last sequence are replaced. *)
persist_emit(e) ==
    /\ emitting[e].pc = "persist"
    /\ event_rows' = Insert(event_rows, emitting[e].seq, emitting[e].event)
    /\ seq_row' = emitting[e].seq
    /\ returned' = returned \cup {emitting[e].event}
    /\ emitting' = [emitting EXCEPT ![e] = NotEmitting]
    /\ UNCHANGED <<log, tenant_seq, sub, emitted, trimmed, overlapped>>

(* trim: the map and, in a second step no property tells apart, the rows.  *)
trim(n) ==
    /\ \E m \in DOMAIN log : m < n
    /\ log' = Keep(log, {m \in DOMAIN log : m >= n})
    /\ event_rows' = Keep(event_rows, {m \in DOMAIN event_rows : m >= n})
    /\ trimmed' = trimmed \cup Held(Keep(log, {m \in DOMAIN log : m < n}))
                          \cup Held(Keep(event_rows, {m \in DOMAIN event_rows : m < n}))
    /\ UNCHANGED <<tenant_seq, seq_row, emitting, sub, emitted, returned, overlapped>>

-----------------------------------------------------------------------------
(* validate_cursor: the cursor is not older than what is retained. *)
validate_cursor(c) == \A n \in DOMAIN log : (\A m \in DOMAIN log : n <= m) => c + 1 >= n

(* read_events: what is retained after the cursor. *)
read_events(c) == {log[n] : n \in {n \in DOMAIN log : n > c}}

(* subscribe: from now, or from a cursor that is checked first. *)
Subscribe(s, c) ==
    /\ sub[s].pc = "idle" /\ ~ sub[s].on
    /\ c # NoCursor => validate_cursor(c)
    /\ sub' = [sub EXCEPT ![s] = [pc |-> "register", cursor |-> c, on |-> FALSE, got |-> {}, since |-> 0]]
    /\ UNCHANGED <<log, tenant_seq, event_rows, seq_row, emitting, emitted, returned, trimmed, overlapped>>

AddListener(s) ==
    /\ sub[s].pc = "register"
    /\ sub' = [sub EXCEPT ![s].on = TRUE, ![s].since = emitted,
                          ![s].pc = IF sub[s].cursor = NoCursor THEN "idle" ELSE "replay"]
    /\ UNCHANGED <<log, tenant_seq, event_rows, seq_row, emitting, emitted, returned, trimmed, overlapped>>

(* Variant with a fault: the replay is read from the table. *)
Replay_FromRows(s) ==
    /\ sub[s].pc = "replay"
    /\ sub' = IF validate_cursor(sub[s].cursor)
              THEN [sub EXCEPT ![s].pc = "idle",
                      ![s].got = @ \cup {event_rows[n] : n \in {n \in DOMAIN event_rows : n > sub[s].cursor}}]
              ELSE [sub EXCEPT ![s].pc = "failed"]
    /\ UNCHANGED <<log, tenant_seq, event_rows, seq_row, emitting, emitted, returned, trimmed, overlapped>>

(* The replay checks the cursor again: a trim since then fails the call,   *)
(* and the listener stays registered.  Otherwise the entries after the     *)
(* cursor are delivered, then Eose.                                        *)
Replay(s) ==
    /\ sub[s].pc = "replay"
    /\ sub' = IF validate_cursor(sub[s].cursor)
              THEN [sub EXCEPT ![s].pc = "idle",
                      ![s].got = @ \cup read_events(sub[s].cursor)]
              ELSE [sub EXCEPT ![s].pc = "failed"]
    /\ UNCHANGED <<log, tenant_seq, event_rows, seq_row, emitting, emitted, returned, trimmed, overlapped>>

subscription_close(s) ==
    /\ sub[s].on /\ sub[s].pc = "idle"
    /\ sub' = [sub EXCEPT ![s].on = FALSE, ![s].pc = "closed"]
    /\ UNCHANGED <<log, tenant_seq, event_rows, seq_row, emitting, emitted, returned, trimmed, overlapped>>

-----------------------------------------------------------------------------
(* read: the cursor is checked before the log is locked to read it. *)
ReadFrom(s, c) ==
    /\ sub[s].pc = "idle" /\ ~ sub[s].on
    /\ c # NoCursor => validate_cursor(c)
    /\ sub' = [sub EXCEPT ![s] = [pc |-> "read", cursor |-> c, on |-> FALSE, got |-> {},
                                  since |-> IF c = NoCursor THEN 0 ELSE c]]
    /\ UNCHANGED <<log, tenant_seq, event_rows, seq_row, emitting, emitted, returned, trimmed, overlapped>>

(* The page: the first entries after the cursor; drained when fewer than   *)
(* the limit were left; the cursor moves to the last one returned.         *)
ReadPage(s) ==
    /\ sub[s].pc = "read"
    /\ LET after == {n \in DOMAIN log : sub[s].cursor = NoCursor \/ n > sub[s].cursor}
           page  == {n \in after : Cardinality({m \in after : m < n}) < limit}
           last  == CHOOSE n \in page : \A m \in page : m <= n
       IN  sub' = [sub EXCEPT ![s] = [sub[s] EXCEPT
                      !.pc = IF Cardinality(page) < limit THEN "drained" ELSE "more",
                      !.cursor = IF page = {} THEN sub[s].cursor ELSE last,
                      !.got = sub[s].got \cup {log[n] : n \in page}]]
    /\ UNCHANGED <<log, tenant_seq, event_rows, seq_row, emitting, emitted, returned, trimmed, overlapped>>

(* The caller asks for the next page; a trim past its cursor fails it. *)
NextPage(s) ==
    /\ sub[s].pc \in {"more", "drained"}
    /\ sub' = [sub EXCEPT ![s].pc = IF sub[s].cursor # NoCursor /\ ~ validate_cursor(sub[s].cursor)
                                    THEN "failed" ELSE "read"]
    /\ UNCHANGED <<log, tenant_seq, event_rows, seq_row, emitting, emitted, returned, trimmed, overlapped>>

(* The process ends; open loads the rows, taking the sequence row as the   *)
(* last sequence.                                                          *)
Reopen ==
    /\ log # event_rows \/ tenant_seq # seq_row
    /\ log' = event_rows
    /\ tenant_seq' = seq_row
    /\ emitting' = [e \in Emitters |-> NotEmitting]
    /\ sub' = [s \in Subscribers |-> NotSubscribed]
    /\ UNCHANGED <<event_rows, seq_row, emitted, returned, trimmed, overlapped>>

LogNext ==
    \/ \E e \in Emitters : Emit(e) \/ Deliver(e) \/ persist_emit(e)
    \/ \E n \in 1 .. MaxEvents : trim(n)
    \/ \E s \in Subscribers :
        \/ \E c \in {NoCursor} \cup 0 .. tenant_seq : Subscribe(s, c)
        \/ \E c \in {NoCursor} \cup 0 .. tenant_seq : ReadFrom(s, c)
        \/ AddListener(s) \/ Replay(s) \/ subscription_close(s) \/ ReadPage(s) \/ NextPage(s)
    \/ Reopen

LogSpec == LogInit /\ [][LogNext]_logVars

-----------------------------------------------------------------------------
(* A subscriber whose replay is over has been given every retained event   *)
(* after its cursor, or an emit in progress is about to give it.           *)
ListenersServed ==
    \A s \in Subscribers, n \in DOMAIN log :
        sub[s].on /\ sub[s].pc = "idle"
            /\ (IF sub[s].cursor = NoCursor THEN log[n] > sub[s].since ELSE n > sub[s].cursor) =>
                \/ log[n] \in sub[s].got
                \/ \E e \in Emitters : emitting[e].pc = "deliver" /\ emitting[e].event = log[n] /\ s \in emitting[e].to

(* A reader that follows the cursors has every retained event between      *)
(* where it began and its cursor, whatever is emitted and trimmed between  *)
(* pages, as long as emits do not overlap (the sequence row may then be    *)
(* older than the rows, and a restart gives a sequence out again).         *)
PagesComplete ==
    ~ overlapped => \A s \in Subscribers, n \in DOMAIN log :
        sub[s].pc \in {"read", "more", "drained"} /\ sub[s].cursor # NoCursor
            /\ n > sub[s].since /\ n <= sub[s].cursor => log[n] \in sub[s].got

(* "Durable events": an event whose emit returned is in the log after any  *)
(* number of restarts until it is trimmed, as long as emits do not overlap.*)
ReturnedEventsSurvive ==
    ~ overlapped => returned \ trimmed \subseteq Held(event_rows) \cap Held(log)

(* A subscriber misses nothing: once its replay is over it has been given  *)
(* every retained event after its cursor, or an emit in progress is about  *)
(* to give it.  Registering before the replay is what closes the gap.  As  *)
(* long as emits do not overlap, a reader that follows the cursors of its  *)
(* pages has every retained event up to its cursor, and an event whose     *)
(* emit returned survives restarts.                                        *)
NothingMissed == ListenersServed /\ PagesComplete /\ ReturnedEventsSurvive

=============================================================================
