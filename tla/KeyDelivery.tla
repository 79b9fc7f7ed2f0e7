------------------------------ MODULE KeyDelivery ------------------------------
(***************************************************************************)
(* Keys of an encrypted protocol (dwn-rs-core encryption/*; dwn-rs-agent   *)
(* auth/setup.rs and auth/connect.rs).  The owner derives one key per      *)
(* protocol path, publishes the public halves in the definition, and hands *)
(* private ones to grantees: in grantKey records, which are admitted at    *)
(* their timestamp and resolved at the time of use, and in the delegate    *)
(* session of a connect flow.  A key is its derivation path below the      *)
(* owner's root key, which names both halves and the key id: HKDF per      *)
(* segment is an injection, X25519 and AES-KW a wrap that only the private *)
(* half opens.                                                             *)
(* A grant is [id, grantor, grantee, scope, from, expires]; a delivery is  *)
(* [grant, author, recipient, tags, payload, wrapped, env, ts], its tags   *)
(* and its payload [grant, protocol, path, key], the payload with the      *)
(* material it carries.                                                    *)
(***************************************************************************)
EXTENDS RecordsAuthorization

CONSTANTS Grants, Definitions, Variants(_), MaxTime, MaxDeliveries

VARIABLES now,
          configs,     \* the configurations of the protocol: seq of [ts, def]
          revoked,     \* revoked[g]: when g was revoked, or None
          deliveries,  \* the admitted grant-key records
          verified,    \* the last key a resolution returned, with its target
          session      \* DelegateSessionCache

keyVars == <<now, configs, revoked, deliveries, verified, session>>

derive_private_jwk(key, segments) == key \o segments
ProtocolKey(protocol) == derive_private_jwk(<<"protocolPath">>, <<protocol>>)
PathKey(protocol, path) == derive_private_jwk(ProtocolKey(protocol), IF path = None THEN <<>> ELSE path)

-----------------------------------------------------------------------------
(* Publishing the public keys. *)

(* A `$ref` position holds records of another protocol and gets no key. *)
collect_protocol_paths(def) == {p \in DOMAIN def.rules : def.rules[p].ref = None}

set_path_encryption(def, paths) ==
    [def EXCEPT !.rules = [p \in DOMAIN @ |->
        IF p \in paths THEN [@[p] EXCEPT !.key = PathKey(def.protocol, p)] ELSE @[p]]]

inject_protocol_encryption(def) ==
    [set_path_encryption(def, collect_protocol_paths(def)) EXCEPT
        !.key = ProtocolKey(def.protocol)]

requires_encryption(def) == \E t \in DOMAIN def.types : def.types[t]

(* A role anywhere, or an author's or recipient's read rule: at the root of *)
(* the structure any, below it one with an `of`.                           *)
allows_multi_party(def) ==
    \E p \in DOMAIN def.rules :
        \/ def.rules[p].role
        \/ \E a \in def.rules[p].actions :
              /\ a.who \in {"author", "recipient"} /\ "read" \in a.can
              /\ Len(p) = 1 \/ a.of # None

-----------------------------------------------------------------------------
(* Record envelopes: one wrap of the content key per recipient key. *)

recipient_key_encryption_inputs(keys) == {[key |-> k, scheme |-> "protocolPath"] : k \in keys}

(* None: there is nobody to encrypt to. *)
build_encryption(inputs) == IF inputs = {} THEN None ELSE inputs

(* The entry under the key's own id, else whichever opens. *)
unwrap_cek(envelope, key) == \E w \in envelope : w.key = key

Envelope(def, path) ==
    build_encryption(recipient_key_encryption_inputs({def.rules[path].key} \ {None}))

(* A private key of scope opens the record at path that was encrypted to   *)
(* def's key of the path.                                                  *)
Opens(key, scope, def, path) ==
    unwrap_cek(Envelope(def, path),
               derive_private_jwk(key, SubSeq(path, (IF scope = None THEN 0 ELSE Len(scope)) + 1,
                                              Len(path))))

-----------------------------------------------------------------------------
(* Grant keys. *)

Definition(at) ==
    LET governing == {i \in DOMAIN configs : configs[i].ts <= at}
        last == CHOOSE i \in governing : \A j \in governing : j <= i
    IN  IF governing = {} THEN configs[1].def ELSE configs[last].def

Current == configs[Len(configs)].def

(* Whether scope covers the delivered one, which for a role's path takes   *)
(* the definition.                                                         *)
Reaches(scope, t, def) ==
    LET delivered == [protocol |-> t.protocol, path |-> t.path]
    IN  IF grant_covers_delivered_scope(scope, delivered, None) THEN TRUE
        ELSE t.path # None /\ grant_covers_delivered_scope(scope, delivered, def)

(* pre_process_encryption_write and validate_encryption_delivery, at the   *)
(* delivery's own timestamp.                                               *)
pre_process_encryption_write(d) ==
    /\ d.env # d.wrapped
    /\ \E g \in Grants :
          /\ g.id = d.tags.grant
          /\ g.from <= d.ts /\ d.ts < g.expires
          /\ revoked[g.id] # None => d.ts < revoked[g.id]
          /\ d.author = g.grantor /\ d.recipient = g.grantee
          /\ eligible_grant_scope(g.scope) /\ g.scope.protocol = d.tags.protocol
          /\ Reaches(g.scope, d.tags, Definition(d.ts))

covers_target(scope, target) == IF scope = None THEN TRUE ELSE matches_subtree(scope, target)

(* Mutant: the payload is not held against the tags. *)
PayloadMatches_Any(d) == TRUE

PayloadMatches(d) ==
    /\ d.payload.grant = d.tags.grant /\ d.payload.protocol = d.tags.protocol
    /\ d.payload.keyId = d.tags.key /\ d.payload.path = d.tags.path

(* At the time of use, against the current definition and any revocation;  *)
(* target is the path of the record to read.                               *)
verify_grant_key_resolution(d, g, target) ==
    LET p == d.payload
    IN  /\ d.env # d.wrapped
        /\ PayloadMatches(d)
        /\ p.grant = g.id /\ g.grantor = d.author /\ g.grantee = d.recipient
        /\ g.from <= now /\ now < g.expires
        /\ revoked[g.id] = None
        /\ eligible_grant_scope(g.scope)
        /\ Reaches(g.scope, p, Current)
        /\ covers_target(p.path, target)
        /\ p.derivation = PathKey(p.protocol, p.path)
        /\ p.keyId = p.key

-----------------------------------------------------------------------------
(* The connect flow. *)

is_read_like_scope(scope) ==
    scope.iface = "Messages" \/ (scope.iface = "Records" /\ scope.method = "Read")

derive_delegate_keys(def, scopes) ==
    LET read == {s \in scopes : is_read_like_scope(s) /\ s.ctx = None}
        multi == allows_multi_party(def)
    IN  IF ~requires_encryption(def) THEN [keys |-> {}, multiParty |-> {}]
        ELSE IF multi
        THEN [keys |-> {},
              multiParty |-> IF \E s \in read : s.path = None THEN {def.protocol} ELSE {}]
        ELSE [keys |-> {[protocol |-> def.protocol, path |-> s.path,
                         key |-> PathKey(def.protocol, s.path)] : s \in read},
              multiParty |-> {}]

(* Insert the grants, set the derived keys and the multi-party protocols. *)
Connect(gs) ==
    LET derived == derive_delegate_keys(Current, {g.scope : g \in gs})
    IN  /\ session' = [session EXCEPT !.grants = @ \cup gs, !.keys = derived.keys,
                                      !.multiParty = derived.multiParty]
        /\ UNCHANGED <<now, configs, revoked, deliveries, verified>>

(* Every key of the grant's protocol goes, whichever grant it came with. *)
revoke_grant(g) ==
    /\ g \in session.grants
    /\ session' = [session EXCEPT !.grants = @ \ {g},
                      !.keys = {k \in @ : g.scope.protocol # None /\ k.protocol # g.scope.protocol},
                      !.multiParty = IF g.scope.protocol = None THEN {} ELSE @ \ {g.scope.protocol}]
    /\ UNCHANGED <<now, configs, revoked, deliveries, verified>>

-----------------------------------------------------------------------------
Configure(d) ==
    /\ now > configs[Len(configs)].ts
    /\ configs' = Append(configs, [ts |-> now, def |-> inject_protocol_encryption(d)])
    /\ UNCHANGED <<now, revoked, deliveries, verified, session>>

Revoke(g) ==
    /\ revoked[g.id] = None
    /\ revoked' = [revoked EXCEPT ![g.id] = now]
    /\ UNCHANGED <<now, configs, deliveries, verified, session>>

(* The grantor writes a grant-key record; its payload may name another     *)
(* scope or carry another key than its tags say (Variants).                *)
Deliver(g, path, v, ts) ==
    LET tags == [grant |-> g.id, protocol |-> g.scope.protocol, path |-> path,
                 key |-> PathKey(g.scope.protocol, path)]
        key == PathKey(g.scope.protocol, v.key)
        d == [tags |-> tags, author |-> g.grantor, recipient |-> g.grantee, ts |-> ts,
              wrapped |-> v.wrapped, env |-> v.env,
              payload |-> [grant |-> g.id, protocol |-> g.scope.protocol,
                           path |-> v.path, keyId |-> key, key |-> key,
                           derivation |-> PathKey(g.scope.protocol, v.path)]]
    IN  /\ ts <= now
        /\ pre_process_encryption_write(d)
        /\ deliveries' = deliveries \cup {d}
        /\ UNCHANGED <<now, configs, revoked, verified, session>>

Resolve(d, g, target) ==
    /\ verify_grant_key_resolution(d, g, target)
    /\ verified' = [grant |-> g, path |-> d.payload.path, key |-> d.payload.key,
                    target |-> target, def |-> Current]
    /\ UNCHANGED <<now, configs, revoked, deliveries, session>>

Tick ==
    /\ now < MaxTime
    /\ now' = now + 1
    /\ UNCHANGED <<configs, revoked, deliveries, verified, session>>

KeysInit ==
    /\ now = 0
    /\ \E d \in Definitions : configs = <<[ts |-> 0, def |-> inject_protocol_encryption(d)]>>
    /\ revoked = [id \in {g.id : g \in Grants} |-> None]
    /\ deliveries = {}
    /\ verified = None
    /\ session = [grants |-> {}, keys |-> {}, multiParty |-> {}]

KeysNext ==
    \/ Tick
    \/ \E d \in Definitions : Configure(d)
    \/ \E g \in Grants :
          \/ Revoke(g) \/ revoke_grant(g) \/ Connect({g})
          \/ \E path \in DOMAIN Current.rules \cup {None} :
                \E v \in Variants(path), ts \in 0 .. MaxTime :
                    /\ Cardinality(deliveries) < MaxDeliveries
                    /\ Deliver(g, path, v, ts)
          \/ \E d \in deliveries : \E t \in DOMAIN Current.rules : Resolve(d, g, t)

-----------------------------------------------------------------------------
(* A key that resolution hands out opens the record it was asked for,      *)
(* though the delivery's payload is written apart from its tags and the    *)
(* definition may have changed since; and a Read grant of a subtree yields *)
(* keys for that subtree and the roles it is read through in the current   *)
(* definition only, whichever definition admitted the delivery             *)
(* (verify_grant_key_resolution against pre_process_encryption_write).     *)
VerifiedKeyOpens ==
    verified # None =>
        LET g == verified.grant
            readable == verified.def.rules[verified.target].key # None
        IN  /\ readable => Opens(verified.key, verified.path, verified.def, verified.target)
            /\ g.scope.method = "Read" /\ g.scope.path # None =>
                  \/ IsPrefix(g.scope.path, verified.target)
                  \/ \E r \in read_roles_under(verified.def, g.scope.path) :
                        IsPrefix(r, verified.target)

(* A key a delegate holds after connecting opens every record of its scope *)
(* that the current definition gives a key, whatever was configured since. *)
DelegateKeysOpen ==
    \A k \in session.keys, p \in DOMAIN Current.rules :
        (k.path = None \/ IsPrefix(k.path, p)) /\ Current.rules[p].key # None
            => Opens(k.key, k.path, Current, p)

(* Whatever the owner reconfigures, a key that is handed out opens what it  *)
(* was asked for and no more than its grant covers, through a delivered     *)
(* record or in a delegate's session (verify_grant_key_resolution,          *)
(* derive_delegate_keys).                                                   *)
KeysOpen == VerifiedKeyOpens /\ DelegateKeysOpen

================================================================================
