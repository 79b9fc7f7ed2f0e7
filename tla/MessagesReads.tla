------------------------------ MODULE MessagesReads ------------------------------
(***************************************************************************)
(* MessagesQuery, MessagesRead and MessagesSubscribe (handlers/messages/   *)
(* authorization.rs, common.rs, query.rs, read.rs, subscribe.rs): who may  *)
(* read the tenant's messages, what a filter selects, and what a live      *)
(* subscription delivers.  Every retained message ms is in the replication *)
(* feed; its order and its cursors are ReplicationFeed's.  A filter is     *)
(* [iface, method, protocol, path, pathPrefix, ctx]; timestamp ranges are  *)
(* left out.                                                               *)
(***************************************************************************)
EXTENDS RecordsReads

Access(as, metadata, role) == [as |-> as, metadata |-> metadata, role |-> role]

require_exact_role_filters(filters) ==
    /\ filters # {}
    /\ \A f \in filters : /\ f.iface = "Records" /\ f.pathPrefix = None
                          /\ f.protocol # None /\ f.path # None /\ f.ctx # None
    /\ \A f, g \in filters : f.protocol = g.protocol /\ f.ctx = g.ctx

RoleFilter(f) ==
    [protocol |-> f.protocol, path |-> f.path, ctx |-> f.ctx, record |-> None, parent |-> None,
     recipient |-> None, author |-> None, published |-> None, tags |-> None]

(* Every filter must resolve to one and the same role record, at the time  *)
(* the request carries; a delegate's own grant is checked first.           *)
authorize_role(ms, req, filters, auth) ==
    LET delegate == authorize_delegated_messages_subscribe_and_query(req, filters, auth, ms)
        roles == {authorize_protocol_query_or_subscribe(ms, RoleFilter(f), auth, req.ts) :
                      f \in filters}
    IN  IF ~require_exact_role_filters(filters) THEN None
        ELSE IF delegate \notin {"skip", "Full", "MetadataOnly"} THEN None
        ELSE IF None \in roles \/ Cardinality(roles) # 1 THEN None
        ELSE Access("Role", delegate = "MetadataOnly", CHOOSE r \in roles : TRUE)

authorize_grant(ms, req, filters, auth) ==
    LET access == authorize_messages_subscribe_and_query(req, filters, auth, ms)
    IN  IF access \in {"Full", "MetadataOnly"}
        THEN Access("Grant", access = "MetadataOnly", None) ELSE None

(* None when the request is refused. *)
authorize_query_or_subscribe(ms, req, filters, auth) ==
    IF auth.author = Tenant /\ auth.signer = Tenant THEN Access("Owner", FALSE, None)
    ELSE IF auth.grants # {} THEN authorize_grant(ms, req, filters, auth)
    ELSE IF auth.role # None THEN authorize_role(ms, req, filters, auth)
    ELSE None

include_shadow_filters(access) ==
    access.as = "Owner" \/ (access.as = "Grant" /\ ~access.metadata)

-----------------------------------------------------------------------------
(* A path prefix takes the place of a path.  A filter on a protocol brings  *)
(* along the permission records tagged with it and, when it is narrower    *)
(* than the protocol, the protocol's configurations.                       *)

Shadows(f, m) ==
    /\ f.protocol # None
    /\ \/ /\ m.protocol = PermissionsProtocol /\ m.iface = "Records"
          /\ m.tags # None /\ m.tags.protocol = f.protocol
       \/ /\ f.path # None \/ f.pathPrefix # None \/ f.ctx # None
          /\ m.iface = "Protocols" /\ m.protocol = f.protocol

messages_filter_to_filter_maps(f, m, shadows) ==
    \/ /\ Given(f.iface, m.iface) /\ Given(f.method, m.method) /\ Given(f.protocol, m.protocol)
       /\ IF f.pathPrefix # None
          THEN m.path # None /\ matches_subtree(f.pathPrefix, m.path)
          ELSE Given(f.path, m.path)
       /\ f.ctx # None => m.ctx # None /\ matches_subtree(f.ctx, m.ctx)
    \/ shadows /\ Shadows(f, m)

messages_filters_to_filters(filters, m, shadows) ==
    filters = {} \/ \E f \in filters : messages_filter_to_filter_maps(f, m, shadows)

(* MessagesQueryHandler::handle; the empty set when it is refused. *)
MessagesQuery(ms, req, filters, auth) ==
    LET access == authorize_query_or_subscribe(ms, req, filters, auth)
    IN  IF access = None THEN {}
        ELSE {m \in ms : messages_filters_to_filters(filters, m, include_shadow_filters(access))}

(* build_entry: what comes with a message. *)
EntryData(access) == ~access.metadata
EntryInitialWrite(access, m) ==
    access.as = "Role" /\ m.iface = "Records" /\ m.method = "Delete"

(* query_fingerprint_scopes: None where no stored fingerprint describes    *)
(* the filters.                                                            *)
is_protocol_only_filter(f) ==
    f.protocol # None /\ f.iface = None /\ f.method = None /\ f.path = None
    /\ f.pathPrefix = None /\ f.ctx = None

query_fingerprint_scopes(filters) ==
    IF filters = {} THEN {"global"}
    ELSE IF \A f \in filters : is_protocol_only_filter(f) /\ f.protocol # PermissionsProtocol
    THEN UNION {{<<"protocol", f.protocol>>, <<"permission", f.protocol>>} : f \in filters}
    ELSE None

-----------------------------------------------------------------------------
(* MessagesReadHandler::handle.  The entry carries the message's CID, the  *)
(* request's own message, and the data the access allows.                  *)

authorize_messages_read(ms, req, auth, m) ==
    IF auth.author = Tenant THEN "Full"
    ELSE IF auth.grants # {} THEN authorize_messages_read_with_grants(req, m, auth, ms)
    ELSE "Unauthorized"

Reply(status, entry) == [status |-> status, entry |-> entry]

MessagesRead(ms, req, id, auth) ==
    LET found == {m \in ms : m.id = id}
        access == authorize_messages_read(ms, req, auth, CHOOSE x \in found : TRUE)
    IN  IF found = {} THEN Reply("404", None)
        ELSE IF access \notin {"Full", "MetadataOnly"} THEN Reply("401", None)
        ELSE Reply("200", [cid |-> id, message |-> req, data |-> access = "Full"])

-----------------------------------------------------------------------------
(* Live subscriptions: sub is [req, filters, auth, access].  A role's      *)
(* subscription also hears of its own role record.                         *)

IsRoleRecord(sub, m) ==
    sub.access.as = "Role" /\ m.iface = "Records" /\ m.record = sub.access.role.record

(* Mutant: the role record is left out of the subscription. *)
subscription_filters_Caller(sub, m) ==
    messages_filters_to_filters(sub.filters, m, include_shadow_filters(sub.access))

subscription_filters(sub, m) ==
    \/ messages_filters_to_filters(sub.filters, m, include_shadow_filters(sub.access))
    \/ IsRoleRecord(sub, m)

authorize_delivery(ms, sub, now) ==
    LET current == authorize_query_or_subscribe(ms, [sub.req EXCEPT !.ts = now],
                                                sub.filters, sub.auth)
    IN  \/ sub.access.as = "Owner"
        \/ /\ current # None
           /\ current.as = sub.access.as
           /\ current.as = "Role" => current.role = sub.access.role

(* Whether the signed filters, without what they bring along, take the event. *)
event_matches_caller_filters(sub, m) == messages_filters_to_filters(sub.filters, m, FALSE)

(* guarded_subscription_listener: what becomes of one event. *)
MessagesDeliveryDecision(ms, sub, m, now) ==
    IF ~authorize_delivery(ms, sub, now) THEN "fail"
    ELSE IF IsRoleRecord(sub, m) /\ ~event_matches_caller_filters(sub, m) THEN "suppress"
    ELSE "forward"

================================================================================
