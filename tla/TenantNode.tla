-------------------------------- MODULE TenantNode --------------------------------
(***************************************************************************)
(* One tenant's node as its callers see it: record writes and deletes,     *)
(* protocol configurations and grant revocations admitted against what is  *)
(* stored at that moment and committed in a later step, with two           *)
(* handlers in flight at a time; reads that may come at any point; and one *)
(* live Records and one live Messages subscription fed by the commits.     *)
(* The checks are those of Permissions, RecordsAuthorization, RecordsReads,*)
(* MessagesReads and ProtocolRules.  Two handlers that race on the same    *)
(* record are RecordsHandlers' subject and do not occur here.              *)
(*                                                                         *)
(* A scenario is [base, inputs, calls, clock, asks, subs, msubs]: what is  *)
(* stored at first, the requests [m, auth] that may arrive, how many are   *)
(* handled at once, the moments the clock shows, the reads [req, filter,   *)
(* auth], and the subscriptions [req, filter, auth] and [req, filters,     *)
(* auth] that may be opened.                                               *)
(***************************************************************************)
EXTENDS MessagesReads, ProtocolRules

CONSTANTS Scenarios, Limits

VARIABLES
    scen,     \* the scenario of this behaviour
    ms,       \* the retained messages, with their latest flag
    now,      \* the clock
    pending,  \* admitted and not yet committed: [m, auth, existing]
    post,     \* committed revocations whose post-processing is due
    raced,    \* history: messages in flight when a revocation was processed
    sub,      \* the Records subscription, or None
    queue,    \* its events not yet delivered
    msub,     \* the Messages subscription, or None
    mqueue,   \* its events not yet delivered
    last      \* history: the Records event delivered by the last step

tvars == <<scen, ms, now, pending, post, raced, sub, queue, msub, mqueue, last>>

OfRecord(S, m) == {x \in S : x.iface = "Records" /\ x.record = m.record}

(* compare_order, for the writes and deletes that occur here: a delete is   *)
(* above every write, then timestamp, then CID.                             *)
Above(m, x) ==
    LET Class(y) == IF IsWrite(y) THEN 0 ELSE 1
    IN  \/ Class(m) > Class(x)
        \/ Class(m) = Class(x) /\ (m.ts > x.ts \/ (m.ts = x.ts /\ m.id > x.id))

(* What RecordsWriteHandler::handle checks, after the signature. *)
WriteAdmitted(m, auth) ==
    LET existing == OfRecord(ms, m)
        initial == InitialWrites(existing, m.record)
    IN  /\ \A x \in existing : x.id # m.id
        /\ validate_records_write_integrity(m)
        /\ validate_referential_integrity(ms, m)
        /\ authorize_records_write(ms, m, auth)
        /\ pre_process_permissions_write(m, ms)
        /\ ~m.initial => \E w \in initial : verify_immutable_properties(w, m)
        /\ \A x \in existing : Above(m, x)
        /\ validate_payload(ms, m)
        /\ validate_permissions_record_schema(m)

(* RecordsDeleteHandler::handle: the grant and the rules are asked about   *)
(* the initial write.                                                      *)
DeleteAdmitted(m, auth) ==
    LET existing == OfRecord(ms, m)
    IN  /\ InitialWrites(existing, m.record) # {}
        /\ \A x \in existing : Above(m, x)
        /\ authorize_records_delete(ms, m, auth,
                                    CHOOSE w \in InitialWrites(existing, m.record) : TRUE)

Admitted(m, auth) ==
    IF m.iface = "Protocols" THEN ConfigureAdmitted(ms, m, auth)
    ELSE IF IsWrite(m) THEN WriteAdmitted(m, auth) ELSE DeleteAdmitted(m, auth)

-----------------------------------------------------------------------------
(* commit_latest_state for a record: what is below the message goes, the   *)
(* initial write stays without its latest flag.                            *)
RecordCommitted(S, m, existing) ==
    (S \ existing) \union {[m EXCEPT !.latest = TRUE]}
        \union {[w EXCEPT !.latest = FALSE] : w \in {x \in existing : IsWrite(x) /\ x.initial}}

(* Every configuration stays; the newest is the latest. *)
ConfigureCommitted(S, m) ==
    LET all == Configs(S, m.protocol) \union {m}
    IN  (S \ all) \union {[c EXCEPT !.latest = (c = Newest(all))] : c \in all}

(* The delete is indexed with what its record's initial write carries. *)
Indexed(m, existing) ==
    IF m.iface = "Protocols" \/ IsWrite(m) THEN m
    ELSE LET w == CHOOSE x \in existing : IsWrite(x) /\ x.initial
         IN  [m EXCEPT !.protocol = w.protocol, !.path = w.path, !.parent = w.parent,
                       !.ctx = w.ctx, !.recipient = w.recipient, !.created = w.created]

Fed(q, open, wanted, m) == IF open /\ wanted THEN Append(q, m) ELSE q

-----------------------------------------------------------------------------
NodeInit ==
    /\ scen \in Scenarios
    /\ ms = scen.base
    /\ now \in {t \in scen.clock : \A u \in scen.clock : t <= u}
    /\ pending = {} /\ post = {} /\ raced = {}
    /\ sub = None /\ queue = <<>> /\ msub = None /\ mqueue = <<>>
    /\ last = None

(* A handler reads what is stored and lets the request through. *)
Admit(i) ==
    /\ Cardinality(pending) < scen.calls
    /\ \A x \in ms : x.id # i.m.id
    /\ \A p \in pending : p.m.iface # i.m.iface \/ p.m.record # i.m.record
    /\ Admitted(i.m, i.auth)
    /\ pending' = pending \union
          {[m |-> Indexed(i.m, OfRecord(ms, i.m)), existing |-> OfRecord(ms, i.m)]}
    /\ last' = None
    /\ UNCHANGED <<scen, ms, now, post, raced, sub, queue, msub, mqueue>>

(* The commit of what was admitted, planned from the messages seen then:   *)
(* it fails when one it retains is gone.                                   *)
Store(p) ==
    LET m == p.m
        kept == {x \in p.existing : IsWrite(x) /\ x.initial}
        stored == IF m.iface = "Protocols" THEN ConfigureCommitted(ms, m)
                  ELSE RecordCommitted(ms, m, p.existing)
        fails == kept \ ms # {}
    IN  /\ pending' = pending \ {p}
        /\ ms' = IF fails THEN ms ELSE stored
        /\ post' = IF ~fails /\ IsRevocation(m) THEN post \union {m} ELSE post
        /\ queue' = Fed(queue, sub # None /\ ~fails, SubscribeFilter(sub, m), m)
        /\ mqueue' = Fed(mqueue, msub # None /\ ~fails, subscription_filters(msub, m), m)
        /\ last' = None
        /\ UNCHANGED <<scen, now, raced, sub, msub>>

(* The same handler, after its commit: everything that invoked the grant   *)
(* from the revocation on is deleted.  No event tells of it.               *)
PostProcess(r) ==
    /\ ms' = ms \ post_process_permissions_write(r, ms)
    /\ post' = post \ {r}
    /\ raced' = raced \union {p.m.id : p \in {q \in pending : q.m.grant = r.parent}}
    /\ last' = None
    /\ UNCHANGED <<scen, now, pending, sub, queue, msub, mqueue>>

Tick ==
    /\ \E t \in scen.clock : t > now
    /\ now' = CHOOSE t \in scen.clock : t > now /\ \A u \in scen.clock : u > now => t <= u
    /\ last' = None
    /\ UNCHANGED <<scen, ms, pending, post, raced, sub, queue, msub, mqueue>>

-----------------------------------------------------------------------------
Subscribe(s) ==
    LET plan == authorize_collection(ms, s.req, s.filter, s.auth)
    IN  /\ sub = None /\ s.req.ts = now
        /\ plan # None
        /\ SubscribeScope(s.filter, s.auth, None)
        /\ sub' = [req |-> s.req, filter |-> s.filter, auth |-> s.auth, plan |-> plan]
        /\ queue' = <<>>
        /\ last' = None
        /\ UNCHANGED <<scen, ms, now, pending, post, raced, msub, mqueue>>

(* One event through the delivery guard, judged against what is stored now. *)
Deliver ==
    LET m == Head(queue)
        decision == DeliveryDecision(ms, sub, m, now)
    IN  /\ queue # <<>>
        /\ IF decision \in {"fail", "retry"}
           THEN sub' = None /\ queue' = <<>>
           ELSE sub' = sub /\ queue' = Tail(queue)
        /\ last' = IF decision = "forward" THEN m ELSE None
        /\ UNCHANGED <<scen, ms, now, pending, post, raced, msub, mqueue>>

MessagesSubscribe(s) ==
    LET access == authorize_query_or_subscribe(ms, s.req, s.filters, s.auth)
    IN  /\ msub = None /\ s.req.ts = now
        /\ access # None
        /\ msub' = [req |-> s.req, filters |-> s.filters, auth |-> s.auth, access |-> access]
        /\ mqueue' = <<>>
        /\ last' = None
        /\ UNCHANGED <<scen, ms, now, pending, post, raced, sub, queue>>

DeliverMessages ==
    LET decision == MessagesDeliveryDecision(ms, msub, Head(mqueue), now)
    IN  /\ mqueue # <<>>
        /\ IF decision = "fail" THEN msub' = None /\ mqueue' = <<>>
           ELSE msub' = msub /\ mqueue' = Tail(mqueue)
        /\ last' = None
        /\ UNCHANGED <<scen, ms, now, pending, post, raced, sub, queue>>

NodeNext ==
    \/ \E i \in scen.inputs : Admit(i)
    \/ \E p \in pending : Store(p)
    \/ \E r \in post : PostProcess(r)
    \/ Tick
    \/ \E s \in scen.subs : Subscribe(s)
    \/ Deliver
    \/ \E s \in scen.msubs : MessagesSubscribe(s)
    \/ DeliverMessages

-----------------------------------------------------------------------------
(* Properties *)

(* Once a revocation is processed, nothing is retained that invoked its     *)
(* grant from that moment on, whichever arrived first, but what another     *)
(* handler had already admitted (permissions/mod.rs:1039).                  *)
RevocationSticks ==
    \A r \in ms : IsRevocation(r) /\ (\A q \in post : q.id # r.id) =>
        \A m \in ms : m.grant = r.parent /\ m.ts >= r.ts => m.id \in raced

(* A record that a query at a path returns to a caller, that caller can     *)
(* read by its id (handlers/records/visibility.rs, read.rs): the two        *)
(* authorize, project and limit separately.                                 *)
QueriedIsReadable ==
    \A a \in scen.asks :
        a.filter.path # None =>
            LET page == RecordsQuery(ms, a.req, a.filter, a.auth, None, None)
                ById(m) == [RoleFilter(a.filter) EXCEPT !.protocol = None, !.path = None,
                                                       !.ctx = None, !.record = m.record]
                read == [a.req EXCEPT !.method = "Read"]
            IN  \A k \in DOMAIN page.rows :
                    RecordsRead(ms, read, ById(page.rows[k]), a.auth).status = "200"

(* A page of any size and the answer from its cursor on are together the    *)
(* answer without a limit, from wherever the caller stands, and the count   *)
(* is the length of the whole (query.rs collect_visible_page, count.rs).    *)
PagesAndCountAgree ==
    \A a \in scen.asks :
        LET from == {None} \union {m \in ms : m.iface = "Records"}
            page == [after \in from |-> [limit \in Limits \union {None} |->
                        RecordsQuery(ms, a.req, a.filter, a.auth, after, limit)]]
            Agree(answer, count) ==
                /\ answer[None][None].ok => count = Len(answer[None][None].rows)
                /\ \A after \in from, limit \in Limits :
                      LET p == answer[after][limit]
                      IN  answer[after][None].ok =>
                            answer[after][None].rows =
                                p.rows \o (IF p.cursor = None THEN <<>>
                                            ELSE answer[p.cursor][None].rows)
        IN  Agree(page, RecordsCount(ms, a.req, a.filter, a.auth))

(* A write that a subscription has just delivered, and that is still the    *)
(* record's latest, is one its caller could query at that moment; only the  *)
(* definition a role is read from stays that of the subscription            *)
(* (subscribe.rs:275).                                                      *)
DeliveredIsQueryable ==
    last # None /\ sub # None /\ IsWrite(last) =>
        LET req == [sub.req EXCEPT !.method = "Query",
                                   !.ts = IF sub.auth # None /\ sub.auth.role # None THEN @ ELSE now]
            page == RecordsQuery(ms, req, sub.filter, sub.auth, None, None)
            stored == {x \in ms : x.id = last.id /\ x.latest}
        IN  stored # {} => \E k \in DOMAIN page.rows : page.rows[k].id = last.id

(* A Messages subscription held through a role is over once the deletion of *)
(* its role record has passed through it, with or without another event     *)
(* (messages/subscribe.rs:466).                                             *)
RoleLossEnds ==
    msub # None /\ msub.access.as = "Role" /\ mqueue = <<>> =>
        \A m \in ms : m.iface = "Records" /\ m.record = msub.access.role.record /\ m.latest =>
            IsWrite(m)

(* What a Messages query returns under grants scoped to ordinary protocols, *)
(* a read of that message by its CID returns too (messages/query.rs,        *)
(* read.rs).                                                                *)
MessagesQueriedReadable ==
    \A s \in scen.msubs :
        s.auth.role = None =>
            \A m \in MessagesQuery(ms, [s.req EXCEPT !.method = "Query"], s.filters, s.auth) :
                MessagesRead(ms, [s.req EXCEPT !.method = "Read"], m.id, s.auth).status = "200"

(* Requests handled one at a time leave every stored record encrypted       *)
(* exactly where the definition governing it now asks for it, although      *)
(* definitions may arrive late and out of order (configure.rs:299).         *)
GoverningConforms ==
    scen.calls = 1 =>
        \A w \in ms : IsWrite(w) /\ w.protocol # PermissionsProtocol /\ ControlKind(w) = None =>
            LET policy == EffectivePolicy(ms, w)
            IN  policy # None => policy.required = (w.env # None)

(* Every key a grant's issuer is told to deliver is one the node lets the   *)
(* grantee fetch (grant_key_coverage.rs: the two lists are built apart).    *)
GrantKeysAgree ==
    \A c \in {x \in ms : x.iface = "Protocols"} :
        \A g \in {x \in ms : IsWrite(x) /\ x.path = GrantPath} :
            LET scope == g.data.scope
                emitted == grant_key_delivery_scopes(scope, c.def)
            IN  scope.protocol = c.protocol /\ eligible_grant_scope(scope) =>
                    \A d \in emitted : grant_covers_delivered_scope(scope, d, c.def)

(* The ways to read agree with each other: what a query returns, a read     *)
(* returns too; pages add up to the whole answer and the count to its       *)
(* length; for records and for messages under grants.                       *)
ReadsAgree == QueriedIsReadable /\ PagesAndCountAgree /\ MessagesQueriedReadable

(* A live subscription goes on exactly as far as its caller's access: what  *)
(* it delivers could be queried at that moment, and it ends when its role   *)
(* is taken away (authorize_delivery of both subscribe handlers).           *)
DeliveryFollowsAccess == DeliveredIsQueryable /\ RoleLossEnds

(* What the definitions ask of encryption is what the node keeps to: stored *)
(* records are encrypted where the definition governing them asks for it,   *)
(* and a grantee may fetch every key its issuer is told to deliver.         *)
DefinitionsKept == GoverningConforms /\ GrantKeysAgree

================================================================================
