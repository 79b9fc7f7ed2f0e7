------------------------------- MODULE RecordsReads -------------------------------
(***************************************************************************)
(* The record read surfaces (handlers/records/query.rs, count.rs, read.rs, *)
(* subscribe.rs, visibility.rs, common.rs, control/visibility/*,           *)
(* control/projection.rs): which records a filter selects for a requester, *)
(* how control records are projected and hidden, how pages are refilled,   *)
(* which records hold the slots of a $recordLimit, and what a live         *)
(* subscription delivers.  Pure definitions over the stored messages ms.   *)
(*                                                                         *)
(* A RecordsFilter is [protocol, path, ctx, record, parent, recipient,     *)
(* author, published, tags], None where the caller gives nothing; tags is  *)
(* [protocol, role, ctx, key] with key possibly None.  Date and data       *)
(* filters, and sorts other than the default ones, are left out.           *)
(***************************************************************************)
EXTENDS RecordsAuthorization

-----------------------------------------------------------------------------
(* Filters over the indexes of a message.  A delete carries the indexes of *)
(* its record's initial write, without published and without tags.         *)

Given(wanted, value) == wanted # None => wanted = value

records_filter_to_filter_map(f, m) ==
    /\ Given(f.protocol, m.protocol) /\ Given(f.path, m.path)
    /\ f.ctx # None => matches_subtree(f.ctx, m.ctx)
    /\ Given(f.record, m.record) /\ Given(f.parent, m.parent)
    /\ Given(f.recipient, m.recipient) /\ Given(f.author, message_author(m))
    /\ Given(f.published, m.published)
    /\ f.tags # None =>
          /\ ControlKind(m) # None /\ IsWrite(m)
          /\ m.tags.protocol = f.tags.protocol /\ m.tags.role = f.tags.role
          /\ m.tags.ctx = f.tags.ctx /\ Given(f.tags.key, m.tags.key)

owner_records_filter(f, m) == IsWrite(m) /\ m.latest /\ records_filter_to_filter_map(f, m)

owner_records_event_filter(f, m) == m.iface = "Records" /\ records_filter_to_filter_map(f, m)

Selects(f, m, mode) ==
    IF mode = "Snapshot" THEN owner_records_filter(f, m) ELSE owner_records_event_filter(f, m)

filter_includes_published_records(f) == f.published # FALSE
filter_includes_unpublished_records(f) == f.published # TRUE

filter_targets_only_controls(f) == f.path \in {AudiencePath, DeliveryPath}
filter_may_match_controls(f) == f.path = None \/ filter_targets_only_controls(f)

filter_pins_an_audience_scope(f) ==
    /\ f.path = AudiencePath
    /\ f.tags # None
    /\ f.protocol = f.tags.protocol

(* Mutant: a branch for the author's own records without the filter's. *)
non_owner_records_filters_Wide(f, m, author, authorized, mode) ==
    \/ /\ filter_includes_published_records(f)
       /\ Selects(f, m, mode) /\ m.published = TRUE
    \/ /\ filter_includes_unpublished_records(f)
       /\ Selects(f, m, mode) /\ m.published = FALSE

(* non_owner_records_filters and non_owner_records_event_filters *)
non_owner_records_filters(f, m, author, authorized, mode) ==
    \/ /\ filter_includes_published_records(f)
       /\ Selects(f, m, mode) /\ m.published = TRUE
    \/ /\ filter_includes_unpublished_records(f)
       /\ Selects(f, m, mode) /\ m.published = FALSE
       /\ \/ filter_pins_an_audience_scope(f)
          \/ Given(f.author, author) /\ message_author(m) = author
          \/ authorized
          \/ Given(f.recipient, author) /\ m.recipient = author

validate_nested_protocol_path_scope(f, boundedPathWide) ==
    \/ f.path = None
    \/ Len(f.path) = 1
    \/ filter_targets_only_controls(f)
    \/ f.parent # None /\ f.ctx = None
    \/ f.ctx = None /\ boundedPathWide
    \/ f.ctx # None /\ Len(f.ctx) <= Len(f.path)

-----------------------------------------------------------------------------
(* Control records: who may read one.                                      *)

read_requester(auth) == IF auth.dgrant # None THEN auth.signer ELSE auth.author

(* "none" without a grant, "invalid" when it does not hold. *)
invoked_read_grant(ms, req, auth) ==
    LET requester == read_requester(auth)
        g == IF auth.dgrant # None THEN auth.dgrant ELSE fetch_grant(ms, auth.grant)
        grantor == IF auth.dgrant # None THEN auth.dgrant.grantor ELSE Tenant
    IN  IF auth.dgrant = None /\ auth.grant = None THEN [is |-> "none", grant |-> None]
        ELSE IF perform_base_validation(req, grantor, requester, g, ms) = "ok"
        THEN [is |-> "valid", grant |-> g] ELSE [is |-> "invalid", grant |-> None]

authorize_control_read_request(ms, req, auth) ==
    read_requester(auth) = Tenant \/ invoked_read_grant(ms, req, auth).is # "invalid"

names_record(f, m) == f.record # None /\ f.record = m.record

pins_audience_scope(f, id) ==
    /\ filter_pins_an_audience_scope(f)
    /\ f.tags.protocol = id.protocol /\ f.tags.role = id.role /\ f.tags.ctx = id.ctx

pins_audience_key(f, id) == pins_audience_scope(f, id) /\ f.tags.key = id.key

(* An exact request needs no further authority. *)
exact_audience_request_matches(f, id, m) == names_record(f, m) \/ pins_audience_scope(f, id)

can_enumerate_audience(ms, req, auth, id, grant) ==
    IF grant # None /\ grant_covers_role(grant.scope, id, "Read") THEN "yes"
    ELSE LET def == resolve_role_audience_definition(ms, id, req.ts)
         IN  IF def = None THEN "error"
             ELSE actor_can_create_role(ms, [did |-> read_requester(auth), grant |-> None],
                                        id, def, auth.role)

delivery_reachable_by_grant(ms, req, m, id, grant) ==
    /\ grant # None
    /\ m.recipient \in {grant.grantor, grant.grantee}
    /\ eligible_grant_scope(grant.scope) /\ grant.scope.method = "Read"
    /\ read_grant_covers_delivered_scope(grant.scope, [protocol |-> id.protocol, path |-> id.role],
                                         fetch_protocol_definition(ms, id.protocol, req.ts))

YesNo(b) == IF b THEN "yes" ELSE "no"

(* "yes", "no", or "error", which fails the whole request. *)
can_read(ms, req, auth, m, f) ==
    LET id == AudienceId(m)
        As(invoked) ==
            IF invoked.is = "invalid" \/ id = None THEN "error"
            ELSE IF ControlKind(m) = "delivery"
            THEN YesNo(\/ read_requester(auth) \in {m.recipient, message_author(m)}
                       \/ delivery_reachable_by_grant(ms, req, m, id, invoked.grant))
            ELSE IF exact_audience_request_matches(f, id, m) THEN "yes"
            ELSE can_enumerate_audience(ms, req, auth, id, invoked.grant)
    IN  IF ControlKind(m) = None THEN "yes"
        ELSE IF auth = None THEN "no"
        ELSE IF read_requester(auth) = Tenant THEN "yes"
        ELSE As(invoked_read_grant(ms, req, auth))

-----------------------------------------------------------------------------
(* The current audience of a role: a tenant signature first, then the      *)
(* oldest, then the lowest record.                                         *)

AudienceScope(id) == [protocol |-> id.protocol, role |-> id.role, ctx |-> id.ctx]

RanksBefore(m, n) ==
    LET Rank(x) == <<IF message_signer(x) = Tenant THEN 0 ELSE 1, x.created, x.record>>
    IN  \E i \in 1..3 : Rank(m)[i] < Rank(n)[i] /\ \A j \in 1..(i-1) : Rank(m)[j] = Rank(n)[j]

AudiencesOf(ms, scope) ==
    {m \in ms : /\ IsWrite(m) /\ m.latest /\ ControlKind(m) = "audience"
                /\ m.protocol = scope.protocol
                /\ m.tags.protocol = scope.protocol /\ m.tags.role = scope.role
                /\ m.tags.ctx = scope.ctx}

current_audience_record_id(ms, scope) ==
    LET S == AudiencesOf(ms, scope)
    IN  IF S = {} THEN None ELSE (CHOOSE m \in S : \A n \in S \ {m} : RanksBefore(m, n)).record

(* Whether projection keeps a record: all but superseded audiences that    *)
(* the caller did not name by record or by key.                            *)
project_current_audiences(ms, f, m) ==
    LET id == AudienceId(m)
    IN  \/ ControlKind(m) # "audience"
        \/ id = None
        \/ names_record(f, m) \/ pins_audience_key(f, id)
        \/ current_audience_record_id(ms, AudienceScope(id)) = m.record

-----------------------------------------------------------------------------
(* $recordLimit.  A policy is [protocol, path, ctx, parent, max].          *)

record_limit_max(ms, protocol, path, at) ==
    LET def == fetch_protocol_definition(ms, protocol, at)
    IN  IF def = None THEN None
        ELSE IF rule_at(def, path) = None THEN None ELSE rule_at(def, path).limit

Policy(protocol, path, ctx, parent, max) ==
    [protocol |-> protocol, path |-> path, ctx |-> ctx, parent |-> parent, max |-> max]

resolve_record_limit_policy(ms, f, at) ==
    LET max == record_limit_max(ms, f.protocol, f.path, at)
    IN  IF f.protocol = None \/ f.path = None THEN None
        ELSE IF max = None THEN None
        ELSE IF Len(f.path) = 1 THEN Policy(f.protocol, f.path, None, None, max)
        ELSE Policy(f.protocol, f.path,
                    IF f.ctx # None /\ Len(f.ctx) = Len(f.path) THEN Front(f.ctx) ELSE f.ctx,
                    f.parent, max)

message_record_limit_policy(ms, m, at) ==
    LET max == record_limit_max(ms, m.protocol, m.path, at)
    IN  IF max = None THEN None
        ELSE Policy(m.protocol, m.path, IF Len(m.ctx) > 1 THEN Front(m.ctx) ELSE None, None, max)

(* The store's selection: the first max of each parent's latest writes, by *)
(* creation and record.                                                    *)
occupants(ms, policy) ==
    LET S == {m \in ms : /\ IsWrite(m) /\ m.latest
                         /\ m.protocol = policy.protocol /\ m.path = policy.path
                         /\ policy.ctx # None => matches_subtree(policy.ctx, m.ctx)
                         /\ Given(policy.parent, m.parent)}
        Earlier(m, n) == m.created < n.created \/ (m.created = n.created /\ m.record < n.record)
    IN  {m \in S : Cardinality({n \in S : n.parent = m.parent /\ Earlier(n, m)}) < policy.max}

IsOccupant(ms, m, at) ==
    LET policy == message_record_limit_policy(ms, m, at)
    IN  policy = None \/ \E o \in occupants(ms, policy) : o.record = m.record

-----------------------------------------------------------------------------
(* Collections. *)

(* Who a collection request is answered as; None when it is refused.  The  *)
(* plan also says whether an invoked grant covered the request at open.    *)
authorize_collection(ms, req, f, auth) ==
    LET Plan(author, authorized, granted) ==
            [visibility |-> IF author = Tenant THEN "Owner" ELSE "NonOwner",
             author |-> author, authorized |-> authorized, granted |-> granted]
        grant == authorize_records_query_or_subscribe_with_grant(req, f, auth, ms)
        invoked == auth.role # None \/ auth.grant # None
    IN  IF auth = None
        THEN IF filter_includes_published_records(f)
             THEN [visibility |-> "Published", author |-> None,
                   authorized |-> FALSE, granted |-> FALSE]
             ELSE None
        ELSE IF filter_targets_only_controls(f)
        THEN IF authorize_control_read_request(ms, req, auth)
             THEN Plan(auth.author, invoked, invoked) ELSE None
        ELSE IF grant \notin {"skip", "ok"} THEN None
        ELSE IF /\ auth.role # None
                /\ authorize_protocol_query_or_subscribe(ms, f, auth, req.ts) = None
        THEN None
        ELSE Plan(auth.author, auth.role # None \/ grant = "ok", grant = "ok")

collection_filters(plan, f, m, mode) ==
    CASE plan.visibility = "Owner" -> Selects(f, m, mode)
      [] plan.visibility = "Published" -> Selects(f, m, mode) /\ m.published = TRUE
      [] OTHER -> non_owner_records_filters(f, m, plan.author, plan.authorized, mode)

(* What the store selects for a plan, occupancy applied. *)
Candidates(ms, req, f, plan) ==
    LET S == {m \in ms : collection_filters(plan, f, m, "Snapshot")}
        policy == resolve_record_limit_policy(ms, f, req.ts)
    IN  IF policy = None THEN S
        ELSE {m \in S : \E o \in occupants(ms, policy) : o.record = m.record}

(* filter_visible_controls: None as soon as one record of the page cannot  *)
(* be decided.                                                             *)
filter_visible_controls(ms, req, auth, f, rows) ==
    LET Seen(answer) ==
            IF \E k \in DOMAIN rows : answer[k] = "error" THEN None
            ELSE LET shown == SelectSeq([k \in DOMAIN rows |-> k], LAMBDA k : answer[k] = "yes")
                 IN  [k \in DOMAIN shown |-> rows[shown[k]]]
    IN  Seen([k \in DOMAIN rows |-> can_read(ms, req, auth, rows[k], f)])

(* The default collection order. *)
CreatedBefore(m, n) == m.created < n.created \/ (m.created = n.created /\ m.id < n.id)

Nth(S, k) == CHOOSE m \in S : Cardinality({n \in S : CreatedBefore(n, m)}) = k - 1

(* The store's answer: at most limit messages after a cursor, and a cursor *)
(* when there are more.                                                    *)
StorePage(S, after, limit) ==
    LET rest == {m \in S : after # None => CreatedBefore(after, m)}
        size == IF limit = None \/ limit > Cardinality(rest) THEN Cardinality(rest) ELSE limit
    IN  [rows |-> [k \in 1..size |-> Nth(rest, k)],
         cursor |-> IF size > 0 /\ size < Cardinality(rest) THEN Nth(rest, size) ELSE None]

(* What the next storage page is asked for: the capacity still unfilled. *)
Refill(limit, found) == IF limit = None THEN None ELSE limit - found

RECURSIVE collect_visible_page(_, _, _, _, _, _, _, _)
(* Storage pages, projected and filtered, until the limit is met or the    *)
(* store is exhausted; the cursor is the last storage page's.              *)
collect_visible_page(ms, req, auth, f, S, after, limit, found) ==
    LET Project(rows) == SelectSeq(rows, LAMBDA m : project_current_audiences(ms, f, m))
        Cut(all) == IF limit # None /\ Len(all) > limit THEN SubSeq(all, 1, limit) ELSE all
        Next(page, seen) ==
            IF seen = None THEN [ok |-> FALSE, rows |-> <<>>, cursor |-> None]
            ELSE IF /\ limit # None /\ Len(found) + Len(seen) < limit
                    /\ page.rows # <<>> /\ page.cursor # None
            THEN collect_visible_page(ms, req, auth, f, S, page.cursor, limit, found \o seen)
            ELSE [ok |-> TRUE, rows |-> Cut(found \o seen), cursor |-> page.cursor]
        Filled(page) == Next(page, filter_visible_controls(ms, req, auth, f, Project(page.rows)))
    IN  Filled(StorePage(S, after, Refill(limit, Len(found))))

Refused == [ok |-> FALSE, rows |-> <<>>, cursor |-> None]

(* attach_initial_writes: a reply names the initial write of every entry   *)
(* that is not one itself.                                                 *)
attach_initial_writes(ms, rows) ==
    \A k \in DOMAIN rows : rows[k].initial \/ InitialWrites(ms, rows[k].record) # {}

(* What a plan shows of the candidates. *)
Visible(ms, req, f, auth, plan, after, limit) ==
    collect_visible_page(ms, req, auth, f, Candidates(ms, req, f, plan), after, limit, <<>>)

(* RecordsQueryHandler::handle, from a cursor and with a limit. *)
RecordsQuery(ms, req, f, auth, after, limit) ==
    LET Answer(page) == IF attach_initial_writes(ms, page.rows) THEN page ELSE Refused
        Planned(plan) == IF plan = None THEN Refused
                         ELSE Answer(Visible(ms, req, f, auth, plan, after, limit))
    IN  IF validate_nested_protocol_path_scope(f, FALSE)
        THEN Planned(authorize_collection(ms, req, f, auth)) ELSE Refused

(* RecordsCountHandler::handle; None when refused.  Only a population that *)
(* may contain control records is read and counted here.                   *)
RecordsCount(ms, req, f, auth) ==
    LET Answer(page) == IF page.ok THEN Len(page.rows) ELSE None
        Planned(plan) ==
            IF plan = None THEN None
            ELSE IF filter_may_match_controls(f)
            THEN Answer(Visible(ms, req, f, auth, plan, None, None))
            ELSE Cardinality(Candidates(ms, req, f, plan))
    IN  IF validate_nested_protocol_path_scope(f, FALSE)
        THEN Planned(authorize_collection(ms, req, f, auth)) ELSE None

-----------------------------------------------------------------------------
(* RecordsReadHandler::handle: the candidates, newest first, until one     *)
(* answers.  A record named by id answers 401 itself, others are passed    *)
(* over.  Whether the data is still there is left out (200 or 410).        *)

ReadAnswer(ms, req, f, auth, m) ==
    LET refused == IF f.record # None THEN "401" ELSE "next"
    IN  IF ~IsWrite(m)
        THEN IF InitialWrites(ms, m.record) = {} THEN "400"
             ELSE IF authorize_records_read(ms, req, auth, fetch_newest_write(ms, m.record))
             THEN "404" ELSE refused
        ELSE IF ~IsOccupant(ms, m, req.ts) THEN "next"
        ELSE IF ControlKind(m) # None
        THEN IF can_read(ms, req, auth, m, f) = "yes" THEN "200" ELSE refused
        ELSE IF ~authorize_records_read(ms, req, auth, m) THEN refused
        ELSE IF ~m.initial /\ InitialWrites(ms, m.record) = {} THEN "500" ELSE "200"

RecordsRead(ms, req, f, auth) ==
    LET S == {m \in ms : m.iface = "Records" /\ m.latest /\ records_filter_to_filter_map(f, m)}
        answers == {m \in S : ReadAnswer(ms, req, f, auth, m) # "next"}
    IN  IF answers = {} THEN [status |-> "404", record |-> None]
        ELSE [status |-> ReadAnswer(ms, req, f, auth, Newest(answers)),
              record |-> Newest(answers).record]

-----------------------------------------------------------------------------
(* Live subscriptions: sub is [req, filter, auth, plan].                   *)

needs_delivery_reauth(auth) ==
    auth # None /\ (auth.grant # None \/ auth.role # None \/ auth.dgrant # None)

delivery_message_at_now(req, now) == [req EXCEPT !.ts = now]

(* "ok", "retry" for a grant that is not active yet, or "fail". *)
authorize_records_delivery(ms, sub, now) ==
    LET req == delivery_message_at_now(sub.req, now)
        grant == authorize_records_query_or_subscribe_with_grant(req, sub.filter, sub.auth, ms)
    IN  IF filter_targets_only_controls(sub.filter)
        THEN IF authorize_control_read_request(ms, req, sub.auth) THEN "ok" ELSE "fail"
        ELSE IF grant = "NotActive" THEN "retry"
        ELSE IF grant \notin {"ok", "skip"} THEN "fail"
        ELSE IF sub.plan.granted /\ grant # "ok" THEN "fail"
        ELSE IF /\ sub.auth.role # None
                /\ authorize_protocol_query_or_subscribe(ms, sub.filter, sub.auth, sub.req.ts) = None
        THEN "fail" ELSE "ok"

(* create_records_delivery_guard: what becomes of one event of the log.    *)
DeliveryDecision(ms, sub, m, now) ==
    LET authority == IF needs_delivery_reauth(sub.auth)
                     THEN authorize_records_delivery(ms, sub, now) ELSE "ok"
        visible == can_read(ms, sub.req, sub.auth, m, sub.filter)
    IN  IF authority # "ok" THEN authority
        ELSE IF ~IsWrite(m) THEN "forward"
        ELSE IF ~project_current_audiences(ms, sub.filter, m) THEN "suppress"
        ELSE IF visible = "error" THEN "fail"
        ELSE IF visible = "no" \/ ~IsOccupant(ms, m, sub.req.ts) THEN "suppress"
        ELSE "forward"

(* The events the log hands the guard, and the snapshot of the reply: an   *)
(* initial page that is capped may go without a context.                   *)
SubscribeFilter(sub, m) == collection_filters(sub.plan, sub.filter, m, "Event")

SubscribeScope(f, auth, limit) ==
    validate_nested_protocol_path_scope(f,
        limit # None /\ (auth = None \/ auth.role = None \/ Len(auth.role.path) = 1))

SubscribeSnapshot(ms, sub, limit) ==
    LET Answer(page) == IF attach_initial_writes(ms, page.rows) THEN page ELSE Refused
    IN  Answer(Visible(ms, sub.req, sub.filter, sub.auth, sub.plan, None, limit))

================================================================================
