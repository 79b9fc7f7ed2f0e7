-------------------------- MODULE RecordsAuthorization --------------------------
(***************************************************************************)
(* Who may do what to a record: protocol definitions and the one governing *)
(* a moment, roles, action rules, the encryption policy of a path, and the *)
(* encryption-control records ($encryption/audience, $encryption/delivery) *)
(* that carry a role's keys (handlers/records/common.rs, policy.rs,        *)
(* integrity.rs, control/*, permissions/control.rs, grant_key_coverage.rs).*)
(*                                                                         *)
(* A definition is [protocol, key, uses, types, rules]: rules maps a path  *)
(* to [actions, role, key, limit, immutable, squash, ref],                 *)
(* and types a type name to whether it requires encryption.  An action is  *)
(* [who, of, role, can]: who is "anyone", "author", "recipient" or "role". *)
(* A reference (of, role, ref) is [alias, path], alias None when local.    *)
(* A configure is a stored message with a def; a write adds squash, env    *)
(* (None or its key entries [paths, roles]) and created.                   *)
(***************************************************************************)
EXTENDS Permissions

AudiencePath == <<"$encryption", "audience">>
DeliveryPath == <<"$encryption", "delivery">>

-----------------------------------------------------------------------------
(* Definitions. *)

Rule(actions) ==
    [actions |-> actions, role |-> FALSE, key |-> None, limit |-> None,
     immutable |-> FALSE, squash |-> FALSE, ref |-> None]

Who(who, of, can) == [who |-> who, of |-> of, role |-> None, can |-> can]
RoleAction(role, can) == [who |-> "role", of |-> None, role |-> role, can |-> can]
Local(path) == [alias |-> None, path |-> path]

(* The size limits and the data formats are left out. *)
permissions_protocol_definition ==
    [protocol |-> PermissionsProtocol, key |-> None, uses |-> <<>>,
     types |-> [t \in {"request", "grant", "revocation"} |-> FALSE],
     rules |-> [p \in {<<"request">>, GrantPath, RevocationPath} |->
        [Rule(CASE p = GrantPath -> {Who("recipient", Local(GrantPath), {"read"})}
                [] p = RevocationPath -> {Who("anyone", None, {"read"})}
                [] OTHER -> {Who("anyone", None, {"create"})})
         EXCEPT !.immutable = TRUE]]]

rule_at(def, path) == IF path \in DOMAIN def.rules THEN def.rules[path] ELSE None

ref_position(def, path) ==
    IF Len(path) # 1 \/ rule_at(def, path) = None THEN None ELSE rule_at(def, path).ref

parent_protocol(def, path) ==
    LET root == rule_at(def, <<Head(path)>>)
    IN  IF Len(path) = 2 /\ root # None /\ root.ref # None /\ root.ref.alias \in DOMAIN def.uses
        THEN def.uses[root.ref.alias] ELSE def.protocol

Configs(ms, protocol) == {m \in ms : m.iface = "Protocols" /\ m.protocol = protocol}

Oldest(S) == CHOOSE m \in S : \A n \in S : n.ts > m.ts \/ (n.ts = m.ts /\ n.id >= m.id)

(* The definition governing a moment: the newest not after it, or else the  *)
(* oldest there is.  Without a moment, the latest.                          *)
fetch_protocol_definition(ms, protocol, at) ==
    IF protocol = PermissionsProtocol THEN permissions_protocol_definition
    ELSE LET governing == {m \in Configs(ms, protocol) :
                              IF at = None THEN m.latest ELSE m.ts <= at}
         IN  IF governing # {} THEN Newest(governing).def
             ELSE IF at # None /\ Configs(ms, protocol) # {}
             THEN Oldest(Configs(ms, protocol)).def ELSE None

is_keyed_role(def, path) ==
    rule_at(def, path) # None /\ rule_at(def, path).role /\ rule_at(def, path).key # None

-----------------------------------------------------------------------------
(* Roles. *)

(* The protocol a reference of def names; None for an unknown alias. *)
ReferencedProtocol(ref, def) ==
    IF ref.alias = None THEN def.protocol
    ELSE IF ref.alias \in DOMAIN def.uses THEN def.uses[ref.alias] ELSE None

(* The ancestor context a role lives in: <<>> for a root role, None when    *)
(* the context at hand is too shallow to name one.                          *)
role_audience_context_id(path, ctx) ==
    LET depth == Len(path) - 1
    IN  IF depth = 0 THEN <<>>
        ELSE IF ctx = None THEN None
        ELSE IF Len(ctx) < depth THEN None ELSE SubSeq(ctx, 1, depth)

query_role_records(ms, recipient, protocol, path, ctx) ==
    LET context == role_audience_context_id(path, ctx)
    IN  IF context = None THEN {}
        ELSE {m \in ms : /\ IsWrite(m) /\ m.latest /\ m.recipient = recipient
                         /\ m.protocol = protocol /\ m.path = path
                         /\ matches_subtree(context, m.ctx)}

role_record_exists(ms, recipient, protocol, path, ctx) ==
    query_role_records(ms, recipient, protocol, path, ctx) # {}

(* The resolved role, or None: not a role, no context, or not held. *)
verify_invoked_role(ms, author, role, ctx, def, at) ==
    LET protocol == ReferencedProtocol(role, def)
        governing == IF role.alias = None THEN def ELSE fetch_protocol_definition(ms, protocol, at)
        held == query_role_records(ms, author, protocol, role.path, ctx)
    IN  IF protocol = None THEN None
        ELSE IF governing = None THEN None
        ELSE IF rule_at(governing, role.path) = None THEN None
        ELSE IF ~rule_at(governing, role.path).role \/ held = {} THEN None
        ELSE [protocol |-> protocol, path |-> role.path, ctx |-> ctx,
              record |-> Oldest(held).record]

(* The invoked role, where some rule of the path lets it (or anyone) read. *)
resolve_query_or_subscribe_role(ms, auth, ctx, rule, def, at) ==
    IF \E a \in rule.actions : "read" \in a.can
            /\ (a.who = "anyone" \/ (a.who = "role" /\ a.role = auth.role))
    THEN verify_invoked_role(ms, auth.author, auth.role, ctx, def, at) ELSE None

(* A collection request is judged at its own timestamp. *)
authorize_protocol_query_or_subscribe(ms, filter, auth, at) ==
    LET def == fetch_protocol_definition(ms, filter.protocol, at)
        rule == rule_at(def, filter.path)
    IN  IF filter.protocol = None \/ filter.path = None \/ auth.role = None THEN None
        ELSE IF def = None THEN None
        ELSE IF rule = None THEN None
        ELSE resolve_query_or_subscribe_role(ms, auth, filter.ctx, rule, def, at)

-----------------------------------------------------------------------------
(* Action rules. *)

RECURSIVE construct_record_chain(_, _)
(* The message and the newest writes of its ancestors; None when an        *)
(* ancestor is not retained.                                               *)
construct_record_chain(ms, m) ==
    IF m.parent = None THEN {m}
    ELSE LET parent == fetch_newest_write(ms, m.parent)
             above == construct_record_chain(ms, parent)
         IN  IF parent = None THEN None
             ELSE IF above = None THEN None ELSE above \union {m}

check_actor(did, who, of, chain, def) ==
    /\ of # None
    /\ \E m \in chain :
          /\ m.path = of.path
          /\ of.alias # None => ReferencedProtocol(of, def) = m.protocol
          /\ \/ who = "author" /\ message_author(m) = did
             \/ who = "recipient" /\ m.recipient = did
             \/ who = "anyone"

InitialWrites(ms, record) == {m \in ms : IsWrite(m) /\ m.record = record /\ m.initial}

StartedBy(ms, record, did) == \E m \in InitialWrites(ms, record) : message_author(m) = did

actions_for_message_kind(ms, m, did, kind) ==
    CASE kind = "Write" /\ m.initial -> {"create"} \union (IF m.squash THEN {"squash"} ELSE {})
      [] kind = "Write" /\ ~m.initial ->
            {"co-update"} \union (IF StartedBy(ms, m.record, did) THEN {"update"} ELSE {})
      [] kind = "Read" -> {"read"}
      [] kind = "Prune" ->
            {"co-prune"} \union (IF StartedBy(ms, m.record, did) THEN {"prune"} ELSE {})
      [] kind = "Delete" ->
            {"co-delete"} \union (IF StartedBy(ms, m.record, did) THEN {"delete"} ELSE {})

(* An invoked role replaces the author and recipient selectors. *)
authorize_actions(did, role, actions, rule, chain, m, def) ==
    \E a \in rule.actions :
        /\ a.can \intersect actions # {}
        /\ \/ a.who = "anyone"
           \/ a.who = "role" /\ role # None /\ a.role = role
           \/ role = None /\ a.who = "recipient" /\ a.of = None /\ m.recipient = did
           \/ role = None /\ a.who \in {"author", "recipient"}
                 /\ check_actor(did, a.who, a.of, chain, def)

(* The moment whose definition governs a write: that of the initial write; *)
(* None when an update's initial write is not retained.                    *)
governing_timestamp(ms, m) ==
    IF m.initial THEN m.ts
    ELSE IF InitialWrites(ms, m.record) = {} THEN None
    ELSE (CHOOSE w \in InitialWrites(ms, m.record) : TRUE).ts

authorize_against_protocol(ms, m, auth, kind, at) ==
    LET moment == IF at # None THEN at ELSE governing_timestamp(ms, m)
        def == fetch_protocol_definition(ms, m.protocol, moment)
        chain == construct_record_chain(ms, m)
    IN  /\ moment # None
        /\ def # None
        /\ rule_at(def, m.path) # None
        /\ auth.role # None =>
              verify_invoked_role(ms, auth.author, auth.role, m.ctx, def, moment) # None
        /\ chain # None
        /\ authorize_actions(auth.author, auth.role,
                             actions_for_message_kind(ms, m, auth.author, kind),
                             rule_at(def, m.path), chain, m, def)

(* auth is None for an anonymous request. *)
authorize_records_read(ms, req, auth, record) ==
    IF record.published THEN TRUE
    ELSE IF auth = None THEN FALSE
    ELSE IF auth.author \in {Tenant, record.recipient, message_author(record)} THEN TRUE
    ELSE LET grant == authorize_records_read_with_grant(req, record, auth, ms)
         IN  IF grant # "skip" THEN grant = "ok"
             ELSE authorize_against_protocol(ms, record, auth, "Read", req.ts)

authorize_records_delete(ms, req, auth, initial) ==
    LET grant == authorize_records_delete_with_grant(req, initial, auth, ms)
    IN  IF grant # "skip" THEN grant = "ok"
        ELSE \/ auth.author = Tenant
             \/ authorize_against_protocol(ms, initial, auth,
                                           IF req.prune THEN "Prune" ELSE "Delete", req.ts)

-----------------------------------------------------------------------------
(* Encryption-control records: tags name [protocol, role, ctx, key].       *)

ControlKind(m) ==
    CASE m.path = AudiencePath -> "audience" [] m.path = DeliveryPath -> "delivery"
      [] OTHER -> None

AudienceId(m) ==
    IF m.tags = None THEN None
    ELSE IF m.tags.protocol # m.protocol THEN None
    ELSE [protocol |-> m.tags.protocol, role |-> m.tags.role, ctx |-> m.tags.ctx,
          key |-> m.tags.key]

validate_context_depth(id) == (Len(id.role) = 1) = (id.ctx = <<>>)

(* None when the scope is unaddressable, the protocol unknown, or the path *)
(* no keyed role.                                                          *)
resolve_role_audience_definition(ms, id, at) ==
    LET def == fetch_protocol_definition(ms, id.protocol, at)
    IN  IF ~validate_context_depth(id) \/ def = None THEN None
        ELSE IF ~is_keyed_role(def, id.role) THEN None
        ELSE def

stored_audience_exists(ms, id) ==
    \E m \in ms : IsWrite(m) /\ m.latest /\ ControlKind(m) = "audience" /\ AudienceId(m) = id

role_parent_chain(ms, id) ==
    LET parent == fetch_newest_write(ms, Last(id.ctx))
    IN  IF id.ctx = <<>> THEN {}
        ELSE IF parent = None THEN {}
        ELSE construct_record_chain(ms, parent)

grant_covers_role(scope, id, method) ==
    /\ scope.iface = "Records" /\ scope.method = method
    /\ matches_protocol_target(scope, Target(id.protocol, id.role, None))

invoked_role_is_held(ms, did, role, id, def) ==
    LET protocol == ReferencedProtocol(role, def)
    IN  protocol # None /\ role_record_exists(ms, did, protocol, role.path, id.ctx)

(* "error" when the chain of the role's parents cannot be read. *)
actor_can_create_role(ms, actor, id, def, role) ==
    IF actor.did = Tenant THEN "yes"
    ELSE IF actor.grant # None /\ grant_covers_role(actor.grant.scope, id, "Write") THEN "yes"
    ELSE LET chain == role_parent_chain(ms, id)
         IN  IF chain = None THEN "error"
             ELSE IF \E a \in rule_at(def, id.role).actions :
                        /\ "create" \in a.can
                        /\ IF a.who = "role"
                           THEN role = a.role /\ invoked_role_is_held(ms, actor.did, a.role, id, def)
                           ELSE a.who = "anyone" \/ check_actor(actor.did, a.who, a.of, chain, def)
                  THEN "yes" ELSE "no"

validate_control_grant(ms, m, grantor, grantee, g) ==
    Then(perform_base_validation(m, grantor, grantee, g, ms), verify_records_write_conditions(m, g))

(* The DID a control write acts as and the grant behind it; None when a    *)
(* grant it leans on is not in force, or the asserted owner is not Tenant. *)
resolve_control_actor(ms, m, auth) ==
    LET owner == auth.owner
        Acting(did, grantor, g) ==
            IF validate_control_grant(ms, m, grantor, did, g) = "ok"
            THEN [did |-> did, grant |-> g] ELSE None
    IN  IF owner # None /\ owner.did # Tenant THEN None
        ELSE IF auth.dgrant # None THEN Acting(auth.signer, auth.author, auth.dgrant)
        ELSE IF owner # None
        THEN IF owner.dgrant # None THEN Acting(owner.signer, owner.did, owner.dgrant)
             ELSE [did |-> owner.did, grant |-> None]
        ELSE IF auth.grant # None THEN Acting(auth.author, Tenant, fetch_grant(ms, auth.grant))
        ELSE [did |-> auth.author, grant |-> None]

(* control::authorize_write *)
authorize_control_write(ms, m, auth) ==
    LET id == AudienceId(m)
        def == resolve_role_audience_definition(ms, id, m.ts)
        actor == resolve_control_actor(ms, m, auth)
    IN  /\ id # None
        /\ def # None
        /\ actor # None
        /\ actor_can_create_role(ms, actor, id, def, auth.role) = "yes"

validate_delivery_references(ms, m, id) ==
    /\ m.tags.authority = "roleHolder"
    /\ stored_audience_exists(ms, id)
    /\ role_record_exists(ms, m.recipient, id.protocol, id.role, id.ctx)

validate_lifecycle(m) == m.initial /\ ~m.published

(* control::validate_referential_integrity *)
ControlIntegrity(ms, m) ==
    LET id == AudienceId(m)
    IN  /\ validate_lifecycle(m)
        /\ id # None
        /\ resolve_role_audience_definition(ms, id, m.ts) # None
        /\ IF ControlKind(m) = "audience" THEN m.env = None
           ELSE m.env # None /\ m.recipient # None /\ validate_delivery_references(ms, m, id)

(* control::validate_payload: an audience's data is its claimed identity,  *)
(* the key it publishes and the key its seal is for.                       *)
validate_payload(ms, m) ==
    ControlKind(m) = "audience" =>
        LET id == AudienceId(m)
            def == resolve_role_audience_definition(ms, id, m.ts)
        IN  /\ m.data.claimed = id
            /\ m.data.key = id.key
            /\ def # None
            /\ m.data.seal = rule_at(def, id.role).key

-----------------------------------------------------------------------------
(* The policy of a path and what a write must look like under it.          *)

(* EffectivePolicy::resolve.  A record at a $ref position takes its type   *)
(* from the referenced protocol, under the local name.                     *)
EffectivePolicy(ms, m) ==
    LET moment == governing_timestamp(ms, m)
        def == fetch_protocol_definition(ms, m.protocol, moment)
        ref == ref_position(def, m.path)
        referenced == fetch_protocol_definition(ms, ReferencedProtocol(ref, def), moment)
        types == IF ref = None THEN def.types ELSE referenced.types
    IN  IF moment = None THEN None
        ELSE IF def = None THEN None
        ELSE IF rule_at(def, m.path) = None THEN None
        ELSE IF ref # None /\ ReferencedProtocol(ref, def) = None THEN None
        ELSE IF ref # None /\ referenced = None THEN None
        ELSE IF ref # None /\ Last(m.path) \notin DOMAIN types THEN None
        ELSE [def |-> def, rule |-> rule_at(def, m.path),
              required |-> Last(m.path) \in DOMAIN types /\ types[Last(m.path)]]

(* Every role that reads the path through a local or known reference, in a *)
(* context the record has, must find a stored audience among the entries.  *)
validate_role_audiences(ms, m, def, rule) ==
    \A a \in rule.actions :
        LET protocol == ReferencedProtocol(a.role, def)
            ctx == role_audience_context_id(a.role.path, m.ctx)
            entries == {e \in m.env.roles : e.protocol = protocol /\ e.path = a.role.path}
        IN  IF a.who # "role" \/ "read" \notin a.can THEN TRUE
            ELSE IF protocol = None \/ ctx = None THEN TRUE
            ELSE \E e \in entries :
                    stored_audience_exists(ms, [protocol |-> protocol, role |-> a.role.path,
                                                ctx |-> ctx, key |-> e.key])

(* fetch_parent_record *)
ParentRecord(ms, id, protocol) ==
    LET m == fetch_newest_write(ms, id)
    IN  IF m = None THEN None ELSE IF m.protocol # protocol THEN None ELSE m

validate_referential_integrity(ms, m) ==
    IF ControlKind(m) # None THEN ControlIntegrity(ms, m)
    ELSE LET policy == EffectivePolicy(ms, m)
             parent == ParentRecord(ms, m.parent, parent_protocol(policy.def, m.path))
         IN  /\ policy # None
             /\ policy.required = (m.env # None)
             /\ policy.required =>
                   /\ policy.rule.key # None
                   /\ policy.rule.key \in m.env.paths
                   /\ validate_role_audiences(ms, m, policy.def, policy.rule)
             /\ policy.rule.immutable => m.initial
             /\ m.squash => policy.rule.squash /\ m.initial
             /\ IF m.parent = None THEN Len(m.path) = 1
                ELSE /\ parent # None
                     /\ m.path = Append(parent.path, Last(m.path))
                     /\ m.ctx = Append(parent.ctx, m.record)

validate_records_write_integrity(m) ==
    m.initial => m.ts = m.created /\ (m.parent = None => m.ctx = <<m.record>>)

verify_immutable_properties(initial, m) ==
    /\ m.protocol = initial.protocol /\ m.path = initial.path /\ m.recipient = initial.recipient
    /\ m.parent = initial.parent /\ m.grant = initial.grant /\ m.created = initial.created
    /\ m.squash = initial.squash

(* authorize_records_write of the write handler. *)
authorize_records_write(ms, m, auth) ==
    LET delegated == authorize_delegated_records_write(m, auth, ms)
        granted == authorize_records_write_with_grant_id(m, auth, ms)
    IN  IF ControlKind(m) # None THEN authorize_control_write(ms, m, auth)
        ELSE IF delegated # "skip" THEN delegated = "ok"
        ELSE IF auth.author = Tenant THEN TRUE
        ELSE IF granted # "skip" THEN granted = "ok"
        ELSE authorize_against_protocol(ms, m, auth, "Write", None)

-----------------------------------------------------------------------------
(* Which role keys a grant reaches (grant_key_coverage.rs).  A delivered   *)
(* scope is [protocol, path], path None for the protocol's own key.        *)

eligible_grant_scope(scope) ==
    scope.iface = "Records" /\ scope.method \in {"Read", "Write"} /\ scope.ctx = None

read_roles_under(def, path) ==
    {a.role.path : a \in {b \in UNION {def.rules[p].actions : p \in {q \in DOMAIN def.rules :
                                                          IsPrefix(path, q)}} :
                          /\ b.who = "role" /\ "read" \in b.can /\ b.role.alias = None
                          /\ is_keyed_role(def, b.role.path)}}

keyed_roles_under(def, path) ==
    {p \in DOMAIN def.rules : is_keyed_role(def, p) /\ (path # None => IsPrefix(path, p))}

(* def is None when the caller passes no definition. *)
read_grant_covers_delivered_scope(scope, delivered, def) ==
    /\ scope.method = "Read" /\ scope.protocol = delivered.protocol
    /\ \/ scope.path = None
       \/ delivered.path # None /\ scope.path # None
             /\ \/ IsPrefix(scope.path, delivered.path)
                \/ def # None /\ is_keyed_role(def, delivered.path)
                      /\ delivered.path \in read_roles_under(def, scope.path)

write_grant_covers_delivered_scope(scope, delivered, def) ==
    /\ scope.method = "Write" /\ scope.protocol = delivered.protocol
    /\ delivered.path # None
    /\ def # None /\ is_keyed_role(def, delivered.path)
    /\ scope.path # None => IsPrefix(scope.path, delivered.path)

grant_covers_delivered_scope(scope, delivered, def) ==
    \/ read_grant_covers_delivered_scope(scope, delivered, def)
    \/ write_grant_covers_delivered_scope(scope, delivered, def)

(* None: a Write grant's scopes cannot be named without the definition. *)
grant_key_delivery_scopes(scope, def) ==
    LET At(path) == [protocol |-> scope.protocol, path |-> path]
    IN  IF scope.method = "Read"
        THEN {At(scope.path)} \union
             (IF scope.path # None /\ def # None
              THEN {At(p) : p \in read_roles_under(def, scope.path)} ELSE {})
        ELSE IF def = None THEN None
        ELSE {At(p) : p \in keyed_roles_under(def, scope.path)}

================================================================================
