------------------------------ MODULE Permissions ------------------------------
(***************************************************************************)
(* Permission scopes and grants (permissions/mod.rs, scopes.rs,            *)
(* grant_key_coverage.rs, control.rs): what a grant covers, when it is in  *)
(* force, and what each interface asks of it.  Pure definitions over the   *)
(* messages ms one tenant's store retains.                                 *)
(*                                                                         *)
(* Paths and contextIds are sequences, so a subtree is a prefix.  A stored *)
(* message is a record                                                     *)
(*   [id, iface, method, record, parent, ctx, protocol, path, ts, initial, *)
(*    latest, signer, dgrant, recipient, published, grant, tags, data]     *)
(* where dgrant is an embedded author-delegated grant and data the parsed  *)
(* payload of a permission record.  A request is [iface, method, ts, ...]; *)
(* its verified authorization is                                           *)
(*   [signer, author, dgrant, grant, grants, role].                        *)
(***************************************************************************)
EXTENDS Naturals, FiniteSets, Sequences, SequencesExt

CONSTANTS
    Tenant,               \* the DID whose node this is
    PermissionsProtocol,  \* PERMISSIONS_PROTOCOL_URI
    None

GrantPath == <<"grant">>
RevocationPath == <<"grant", "revocation">>

(* The first of a sequence of <<failed?, error>> that failed, or "ok". *)
FirstFailure(checks) ==
    LET failed == SelectSeq(checks, LAMBDA c : c[1])
    IN  IF failed = <<>> THEN "ok" ELSE Head(failed)[2]

-----------------------------------------------------------------------------
(* Scopes: [iface, method, protocol, ctx, path], at most one of ctx, path.  *)

is_unscoped(scope) ==
    scope.iface = "Messages" /\ scope.protocol = None /\ scope.ctx = None /\ scope.path = None

covers(scope, iface, method) ==
    /\ scope.iface = iface
    /\ \/ iface = "Messages" /\ method \in {"Read", "Query", "Subscribe"}
       \/ iface = "Records" /\ scope.method = "Read"
             /\ method \in {"Read", "Query", "Subscribe", "Count"}
       \/ iface = "Records" /\ method \in {"Write", "Delete"} /\ scope.method = method
       \/ iface = "Protocols" /\ method \in {"Configure", "Query"} /\ scope.method = method

matches_subtree(scope, target) == target # None /\ IsPrefix(scope, target)

matches_protocol_target(scope, target) ==
    /\ scope.protocol # None => scope.protocol = target.protocol
    /\ scope.ctx # None => matches_subtree(scope.ctx, target.ctx)
    /\ scope.path # None => matches_subtree(scope.path, target.path)

Target(protocol, path, ctx) == [protocol |-> protocol, path |-> path, ctx |-> ctx]

-----------------------------------------------------------------------------
(* Stored messages. *)

message_signer(m) == m.signer

(* The signer of the embedded grant speaks for the message, or its signer. *)
message_author(m) == IF m.dgrant # None THEN m.dgrant.grantor ELSE message_signer(m)

IsWrite(m) == m.iface = "Records" /\ m.method = "Write"

LatestOf(ms, record) == {m \in ms : m.record = record /\ m.latest}

(* parse_permission_grant: only a write at the grant path is a grant. *)
parse_permission_grant(m, grantor) ==
    IF ~IsWrite(m) \/ m.protocol # PermissionsProtocol \/ m.path # GrantPath
       \/ m.recipient = None
    THEN None
    ELSE [id |-> m.record, grantor |-> grantor, grantee |-> m.recipient, granted |-> m.ts,
          expires |-> m.data.expires, delegated |-> m.data.delegated,
          scope |-> m.data.scope, publication |-> m.data.publication]

(* None stands for every way the lookup fails. *)
fetch_grant(ms, id) ==
    IF LatestOf(ms, id) = {} THEN None
    ELSE LET m == CHOOSE x \in LatestOf(ms, id) : TRUE
         IN  parse_permission_grant(m, message_author(m))

(* verify_grant_not_revoked: the revocations are those in the grantor's own *)
(* partition of this node, which holds nothing for another grantor.         *)
Revocations(ms, grantor, id) ==
    IF grantor # Tenant THEN {}
    ELSE {m \in ms : m.parent = id /\ m.path = RevocationPath /\ m.latest}

(* Mutant: revocations are not consulted. *)
verify_grant_not_revoked_Never(ms, grantor, ts, g) == TRUE

verify_grant_not_revoked(ms, grantor, ts, g) ==
    \A r \in Revocations(ms, grantor, g.id) : r.ts > ts

perform_base_validation(req, grantor, grantee, g, ms) ==
    IF g = None THEN "GrantNotFound"
    ELSE FirstFailure(<<
        <<grantee # g.grantee, "UnexpectedGrantee">>,
        <<grantor # g.grantor, "UnexpectedGrantor">>,
        <<req.ts < g.granted, "NotActive">>,
        <<req.ts >= g.expires, "Expired">>,
        <<~verify_grant_not_revoked(ms, grantor, req.ts, g), "Revoked">>,
        <<req.iface # g.scope.iface, "OutsideScope">>,
        <<~covers(g.scope, req.iface, req.method), "GrantScopeMismatch">> >>)

verify_records_scope(write, scope) ==
    matches_protocol_target(scope, Target(write.protocol, write.path, write.ctx))

verify_records_write_conditions(write, g) ==
    FirstFailure(<<
        <<g.publication = "Required" /\ ~write.published, "UnpublishedGrant">>,
        <<g.publication = "Prohibited" /\ write.published, "PublishProhibited">> >>)

(* Then(a, b): the result of a unless it is "ok", then that of b. *)
Then(a, b) == IF a = "ok" THEN b ELSE a

-----------------------------------------------------------------------------
(* The grant a request invokes and the parties it must be between: an       *)
(* embedded delegated grant before a grant named by id.                     *)
InvokedGrant(auth, ms) ==
    IF auth.dgrant # None
    THEN [grant |-> auth.dgrant, grantor |-> auth.author, grantee |-> auth.signer]
    ELSE IF auth.grant # None
    THEN [grant |-> fetch_grant(ms, auth.grant), grantor |-> Tenant, grantee |-> auth.author]
    ELSE None

(* Base validation, then the scope against target; "skip" without a grant. *)
GrantFor(req, target, auth, ms) ==
    LET i == InvokedGrant(auth, ms)
    IN  IF i = None THEN "skip"
        ELSE LET base == perform_base_validation(req, i.grantor, i.grantee, i.grant, ms)
             IN  IF base # "ok" THEN base
                 ELSE IF matches_protocol_target(i.grant.scope, target) THEN "ok"
                 ELSE "OutsideScope"

RecordTarget(m) == Target(m.protocol, m.path, m.ctx)

authorize_records_read_with_grant(req, record, auth, ms) ==
    GrantFor(req, RecordTarget(record), auth, ms)

authorize_records_query_or_subscribe_with_grant(req, filter, auth, ms) ==
    GrantFor(req, Target(filter.protocol, filter.path, filter.ctx), auth, ms)

authorize_records_delete_with_grant(req, record, auth, ms) ==
    GrantFor(req, RecordTarget(record), auth, ms)

authorize_records_write_with_grant(write, grantor, grantee, g, ms) ==
    LET base == perform_base_validation(write, grantor, grantee, g, ms)
    IN  IF base # "ok" THEN base
        ELSE IF ~verify_records_scope(write, g.scope) THEN "OutsideScope"
        ELSE verify_records_write_conditions(write, g)

authorize_delegated_records_write(write, auth, ms) ==
    IF auth.dgrant = None THEN "skip"
    ELSE authorize_records_write_with_grant(write, auth.author, auth.signer, auth.dgrant, ms)

authorize_records_write_with_grant_id(write, auth, ms) ==
    IF auth.grant = None THEN "skip"
    ELSE authorize_records_write_with_grant(write, Tenant, auth.author,
                                            fetch_grant(ms, auth.grant), ms)

authorize_protocols_configure_with_grant(req, grantor, grantee, g, ms) ==
    LET base == perform_base_validation(req, grantor, grantee, g, ms)
    IN  IF base # "ok" THEN base
        ELSE IF g.scope.protocol # None /\ g.scope.protocol # req.protocol THEN "OutsideScope"
        ELSE "ok"

authorize_protocols_configure(req, auth, ms) ==
    IF auth.dgrant # None
    THEN authorize_protocols_configure_with_grant(req, auth.author, auth.signer, auth.dgrant, ms)
    ELSE IF auth.author = Tenant THEN "ok"
    ELSE IF auth.grant # None
    THEN authorize_protocols_configure_with_grant(req, Tenant, auth.author,
                                                  fetch_grant(ms, auth.grant), ms)
    ELSE "Unauthorized"

(* "ok" includes private protocols, "skip" published ones only. *)
authorize_protocols_query(req, auth, ms) ==
    IF auth.author = Tenant THEN "ok"
    ELSE IF auth.grant = None THEN "skip"
    ELSE LET g == fetch_grant(ms, auth.grant)
             base == perform_base_validation(req, Tenant, auth.author, g, ms)
         IN  IF base # "ok" THEN base
             ELSE IF g.scope.protocol # None /\ g.scope.protocol # req.protocol
             THEN "OutsideScope" ELSE "ok"

-----------------------------------------------------------------------------
(* Messages grants: every named grant must be in force; together they must  *)
(* cover the message, or each filter.                                       *)

fetch_and_validate_messages_grants(req, auth, ms) ==
    IF auth.grants = {} THEN "PermissionGrantIDsRequired"
    ELSE IF \A id \in auth.grants :
              perform_base_validation(req, Tenant, auth.author, fetch_grant(ms, id), ms) = "ok"
    THEN "ok" ELSE "InvalidGrant"

MessagesScopes(auth, ms) == {fetch_grant(ms, id).scope : id \in auth.grants}

has_unscoped_grants(scopes) == \E s \in scopes : is_unscoped(s)

(* The scope embedded in a permission record, a revocation's being its     *)
(* grant's.                                                                *)
get_scope_from_permission_record(m, ms) ==
    IF m.path = RevocationPath
    THEN LET g == fetch_grant(ms, m.parent) IN IF g = None THEN None ELSE g.scope
    ELSE m.data.scope

(* compare_messages: by timestamp, ties by CID. *)
Newest(S) == CHOOSE m \in S : \A n \in S : n.ts < m.ts \/ (n.ts = m.ts /\ n.id <= m.id)

(* fetch_newest_write: the newest retained write of a record, or None. *)
fetch_newest_write(ms, record) ==
    LET writes == {m \in ms : IsWrite(m) /\ m.record = record}
    IN  IF writes = {} THEN None ELSE Newest(writes)

WriteScopeTarget(m, ms) ==
    IF m.protocol # PermissionsProtocol THEN RecordTarget(m)
    ELSE LET scope == get_scope_from_permission_record(m, ms)
         IN  IF scope = None THEN None ELSE Target(scope.protocol, scope.path, m.ctx)

(* None when the target cannot be resolved, which the caller reports. *)
resolve_messages_scope_target(m, ms) ==
    IF m.iface = "Protocols" THEN Target(m.protocol, None, None)
    ELSE IF m.method = "Write" THEN WriteScopeTarget(m, ms)
    ELSE LET w == fetch_newest_write(ms, m.record)
         IN  IF w = None THEN None ELSE WriteScopeTarget(w, ms)

covers_message(scopes, m, ms) ==
    LET target == resolve_messages_scope_target(m, ms)
    IN  target # None /\ \E s \in scopes : matches_protocol_target(s, target)

(* From<&MessagesFilter>: the exact path, or else the path prefix. *)
MessagesFilterTarget(f) ==
    Target(f.protocol, IF f.path # None THEN f.path ELSE f.pathPrefix, f.ctx)

covers_filter(scopes, f) ==
    \E s \in scopes : matches_protocol_target(s, MessagesFilterTarget(f))

authorize_messages_filter_scope(scopes, filters) ==
    IF filters = {} THEN IF has_unscoped_grants(scopes) THEN "Full" ELSE "OutsideScope"
    ELSE IF \E f \in filters : ~covers_filter(scopes, f) THEN "OutsideScope"
    ELSE IF has_unscoped_grants(scopes) THEN "Full" ELSE "MetadataOnly"

authorize_messages_read_with_grants(req, m, auth, ms) ==
    Then(fetch_and_validate_messages_grants(req, auth, ms),
         IF ~covers_message(MessagesScopes(auth, ms), m, ms) THEN "OutsideScope"
         ELSE IF has_unscoped_grants(MessagesScopes(auth, ms)) THEN "Full" ELSE "MetadataOnly")

authorize_messages_subscribe_and_query(req, filters, auth, ms) ==
    Then(fetch_and_validate_messages_grants(req, auth, ms),
         authorize_messages_filter_scope(MessagesScopes(auth, ms), filters))

authorize_delegated_messages_subscribe_and_query(req, filters, auth, ms) ==
    IF auth.dgrant = None THEN "skip"
    ELSE Then(perform_base_validation(req, auth.author, auth.signer, auth.dgrant, ms),
              authorize_messages_filter_scope({auth.dgrant.scope}, filters))

-----------------------------------------------------------------------------
(* What the permissions protocol adds to a write of one of its records.    *)

validate_permissions_record_schema(m) ==
    m.protocol = PermissionsProtocol =>
        /\ m.path \in {<<"request">>, GrantPath, RevocationPath}
        /\ m.path # RevocationPath /\ m.data.scope.protocol # None =>
              m.tags # None /\ m.tags.protocol = m.data.scope.protocol

IsRevocation(m) == IsWrite(m) /\ m.protocol = PermissionsProtocol /\ m.path = RevocationPath

pre_process_permissions_write(m, ms) ==
    IsRevocation(m) =>
        LET g == IF m.parent = None THEN None ELSE fetch_grant(ms, m.parent)
        IN  /\ g # None
            /\ g.scope.protocol = (IF m.tags = None THEN None ELSE m.tags.protocol)

(* The messages a revocation deletes, by CID and whatever their state: all  *)
(* that invoke the grant and are not dated before the revocation.           *)
post_process_permissions_write(m, ms) ==
    IF IsRevocation(m) /\ m.parent # None
    THEN {x \in ms : x.grant = m.parent /\ x.ts >= m.ts}
    ELSE {}

================================================================================
