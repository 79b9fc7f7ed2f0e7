------------------------------ MODULE ProtocolRules ------------------------------
(***************************************************************************)
(* Configuring a protocol (interfaces/messages/protocols.rs,               *)
(* handlers/protocols/configure.rs, common.rs, query.rs): which            *)
(* definitions are well formed, what a definition may compose, and why a   *)
(* new one may not change how stored records are encrypted.  URL and alias *)
(* spelling, size ranges and tag schemas are left out.                     *)
(***************************************************************************)
EXTENDS RecordsAuthorization

MaxNesting == 10

Reserved == "$encryption"

(* scan_reserved_namespace, on the raw definition. *)
validate_reserved_control_namespace(def) ==
    /\ Reserved \notin DOMAIN def.types
    /\ \A p \in DOMAIN def.rules : Reserved \notin ToSet(p)

(* fetch_role_paths: roles are not looked for below a role. *)
BelowRole(def, p) ==
    \E q \in DOMAIN def.rules : IsStrictPrefix(q, p) /\ def.rules[q].role

role_paths(def) == {p \in DOMAIN def.rules : def.rules[p].role /\ ~BelowRole(def, p)}

NestingOk(def) ==
    \A p \in DOMAIN def.rules : Len(p) > MaxNesting => def.rules[p].role \/ BelowRole(def, p)

encrypted_type(def, name) == name \in DOMAIN def.types /\ def.types[name]

requires_encryption(def) == \E name \in DOMAIN def.types : def.types[name]

validate_uses(def) == \A alias \in DOMAIN def.uses : def.uses[alias] # def.protocol

validate_cross_protocol_alias(def, ref) == ref.alias \in DOMAIN def.uses

(* A reference node sits at the root and carries no directive. *)
validate_ref_node(def, path) ==
    LET rule == def.rules[path]
    IN  rule.ref # None =>
            /\ Len(path) = 1
            /\ validate_cross_protocol_alias(def, rule.ref)
            /\ rule = [Rule({}) EXCEPT !.ref = rule.ref]

validate_action_can(can) == can \intersect {"update", "delete", "prune"} # {} => "create" \in can

validate_actions(def, path) ==
    LET actions == def.rules[path].actions
    IN  /\ \A a \in actions :
              /\ validate_action_can(a.can)
              /\ IF a.who = "role"
                 THEN IF a.role.alias # None THEN validate_cross_protocol_alias(def, a.role)
                      ELSE a.role.path \in role_paths(def)
                 ELSE /\ a.who = "anyone" => a.of = None
                      /\ a.who = "author" => a.of # None
                      /\ a.who = "recipient" /\ a.of = None =>
                            a.can \subseteq {"co-update", "co-delete", "co-prune"}
                      /\ a.of # None =>
                            IF a.of.alias # None THEN validate_cross_protocol_alias(def, a.of)
                            ELSE IsPrefix(a.of.path, path)
        /\ \A a, b \in actions : a.who = b.who /\ a.of = b.of /\ a.role = b.role => a = b

validate_role_record_issuance(rule) ==
    rule.role => \A a \in rule.actions : a.who = "anyone" => a.can \intersect {"create", "squash"} = {}

validate_encrypted_path(def, path) ==
    LET rule == def.rules[path]
    IN  encrypted_type(def, Last(path)) =>
            /\ ~rule.role
            /\ rule.key # None
            /\ \A a \in rule.actions : "read" \in a.can =>
                  /\ a.who # "anyone"
                  /\ a.who = "role" =>
                        /\ a.role.alias = None
                        /\ rule_at(def, a.role.path) # None
                        /\ rule_at(def, a.role.path).key # None

validate_rule_set(def, path) ==
    /\ validate_ref_node(def, path)
    /\ def.rules[path].limit # None => def.rules[path].limit >= 1
    /\ validate_actions(def, path)
    /\ validate_role_record_issuance(def.rules[path])
    /\ validate_encrypted_path(def, path)

validate_definition(def) ==
    /\ validate_uses(def)
    /\ requires_encryption(def) => def.key # None
    /\ NestingOk(def)
    /\ \A p \in DOMAIN def.rules :
          /\ def.rules[p].ref = None => Last(p) \in DOMAIN def.types
          /\ validate_rule_set(def, p)

-----------------------------------------------------------------------------
(* Composition: the used protocols are installed, and every reference into *)
(* them leads to something, a $ref through no other $ref.                  *)

validate_refs_and_roles_recursively(def, referenced) ==
    \A p \in DOMAIN def.rules :
        LET rule == def.rules[p]
            Steps(path) == {SubSeq(path, 1, k) : k \in 1..Len(path)}
        IN  /\ rule.ref # None =>
                  \A q \in Steps(rule.ref.path) :
                      /\ rule_at(referenced[rule.ref.alias], q) # None
                      /\ rule_at(referenced[rule.ref.alias], q).ref = None
            /\ \A a \in rule.actions :
                  /\ a.role # None /\ a.role.alias # None =>
                        /\ rule_at(referenced[a.role.alias], a.role.path) # None
                        /\ rule_at(referenced[a.role.alias], a.role.path).role
                        /\ ~encrypted_type(referenced[a.role.alias], Last(a.role.path))
                  /\ a.of # None /\ a.of.alias # None =>
                        rule_at(referenced[a.of.alias], a.of.path) # None

validate_composition_dependencies(ms, def) ==
    LET installed == [alias \in DOMAIN def.uses |-> fetch_protocol_definition(ms, def.uses[alias], None)]
    IN  /\ \A alias \in DOMAIN def.uses : installed[alias] # None
        /\ validate_refs_and_roles_recursively(def, installed)

-----------------------------------------------------------------------------
(* The encryption of stored records against a definition that arrives.     *)

(* The type of a $ref is looked up under the name it has where it is from. *)
effective_incoming_policy(ms, def, path, at) ==
    LET ref == ref_position(def, path)
    IN  IF ref = None THEN encrypted_type(def, Last(path))
        ELSE LET referenced == fetch_protocol_definition(ms, def.uses[ref.alias], at)
             IN  referenced # None /\ encrypted_type(referenced, Last(ref.path))

StoredWrites(ms, protocol) == {m \in ms : IsWrite(m) /\ m.protocol = protocol}

(* Protocols whose latest definition imports a type of def. *)
validate_composed_encryption_policy_immutable(ms, def) ==
    \A c \in {m \in ms : m.iface = "Protocols" /\ m.latest} :
        \A p \in DOMAIN c.def.rules :
            LET ref == ref_position(c.def, p)
                imports == /\ ref # None
                           /\ ref.alias \in DOMAIN c.def.uses
                           /\ c.def.uses[ref.alias] = def.protocol
            IN  imports => \A w \in StoredWrites(ms, c.protocol) :
                               w.path = p => (w.env # None) = encrypted_type(def, Last(ref.path))

(* Mutant: only the records dated before the definition are examined. *)
validate_encryption_policy_immutable_Earlier(ms, def, at) ==
    \A w \in StoredWrites(ms, def.protocol) :
        w.ts < at /\ ControlKind(w) = None /\ rule_at(def, w.path) # None =>
            (w.env # None) = effective_incoming_policy(ms, def, w.path, at)

(* Asked only where the protocol is already configured. *)
validate_encryption_policy_immutable(ms, def, at) ==
    Configs(ms, def.protocol) # {} =>
        /\ \A w \in StoredWrites(ms, def.protocol) :
              ControlKind(w) = None /\ rule_at(def, w.path) # None =>
                  (w.env # None) = effective_incoming_policy(ms, def, w.path, at)
        /\ validate_composed_encryption_policy_immutable(ms, def)

(* What ProtocolsConfigureHandler::handle checks, after the signature.     *)
ConfigureAdmitted(ms, m, auth) ==
    /\ \A c \in Configs(ms, m.protocol) : c.id # m.id
    /\ authorize_protocols_configure(m, auth, ms) = "ok"
    /\ validate_definition(m.def)
    /\ validate_composition_dependencies(ms, m.def)
    /\ validate_encryption_policy_immutable(ms, m.def, m.ts)

-----------------------------------------------------------------------------
(* ProtocolsQueryHandler::handle: the latest configurations, the published *)
(* ones only unless the requester may see the others; None when refused.   *)
ProtocolsQuery(ms, req, auth) ==
    LET access == IF auth = None THEN "skip" ELSE authorize_protocols_query(req, auth, ms)
    IN  IF access \notin {"ok", "skip"} THEN None
        ELSE {m \in ms : /\ m.iface = "Protocols" /\ m.latest
                         /\ access = "skip" => m.published
                         /\ (req.protocol # None => req.protocol = m.protocol)}

================================================================================
