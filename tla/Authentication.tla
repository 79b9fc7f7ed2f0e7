--------------------------- MODULE Authentication ---------------------------
(***************************************************************************)
(* The path of a message from the wire to a handler, and what a handler    *)
(* learns about who sent it: the tenant gate, the admission checks that    *)
(* come before the handler lookup (dwn/mod.rs, dwn/validation.rs), and the *)
(* validation of the authorization signature with its delegated grant and  *)
(* its owner countersignature (permissions/mod.rs, auth/jws.rs).           *)
(*                                                                         *)
(* A JWS is [payload, sigs]; a signature names a key id [did, key] and was *)
(* made by a key: it is genuine when the key it was made with is the one   *)
(* the DID document lists under that key id.  Content ids are the content  *)
(* itself: a "desc" of a payload names the descriptor it signs.            *)
(***************************************************************************)
EXTENDS Naturals, FiniteSets, Sequences

CONSTANTS Active,      \* the tenants whose subscription is active
          Handlers,    \* the [iface, method] pairs with a registered handler
          KeyOf,       \* the DID documents: key id -> key
          None

VARIABLES request,     \* the request being processed
          reply        \* its reply, or None

avars == <<request, reply>>

Bad(why) == [ok |-> FALSE, why |-> why]

\* The checks of a step, in the order the code makes them: the first that
\* fails decides.
FirstBad(checks) ==
  LET failing == {i \in DOMAIN checks : ~checks[i][1]} IN
  IF failing = {} THEN None
  ELSE Bad(checks[CHOOSE i \in failing : \A j \in failing : i <= j][2])

-----------------------------------------------------------------------------
(* auth/jws.rs                                                             *)

\* Each signature is checked against the key its protected header names;
\* without a key the whole JWS is refused.
prepare_verification(sig) ==
  FirstBad(<< <<sig.protected, "MissingProtected">>,
              <<sig.by # None, "MissingSignature">>,
              <<sig.alg # None, "MissingAlg">>,
              <<sig.kid # None, "MissingKid">> >>)

resolve_signing_key(kid) == IF kid \in DOMAIN KeyOf THEN KeyOf[kid] ELSE None

verify_jws_signature(sig) ==
  LET key == resolve_signing_key(sig.kid) IN
  IF key = None THEN Bad("GetPublicKeyNotFound")
  ELSE FirstBad(<< <<sig.alg = key.alg, "InvalidSignature">>,
                   <<sig.by = key.name, "InvalidSignature">> >>)

extract_did(sig) == sig.kid.did

\* The DIDs of every signature, all of them genuine.
verify_signatures(jws) ==
  LET Check(s) == IF prepare_verification(s) # None THEN prepare_verification(s)
                  ELSE verify_jws_signature(s)
      broken == {i \in DOMAIN jws.sigs : Check(jws.sigs[i]) # None}
  IN IF broken # {}
     THEN Check(jws.sigs[CHOOSE i \in broken : \A j \in broken : i <= j])
     ELSE [ok |-> TRUE, dids |-> [i \in DOMAIN jws.sigs |-> extract_did(jws.sigs[i])]]

\* Without a resolver the DID of the key id is taken as it stands.
signer_did_from_jws(jws) == extract_did(jws.sigs[1])

-----------------------------------------------------------------------------
(* permissions/mod.rs: what the signed payload must say of the message     *)

authorization_payload_kind(m) ==
  CASE m.iface = "Records" /\ m.method = "Write" -> "RecordsWrite"
    [] m.iface = "Messages" /\ m.method = "Sync" -> "NoGrant"
    [] m.iface = "Messages" -> "MessageGrantSet"
    [] OTHER -> "Direct"

permission_grant_invocation(p) ==
  CASE p.grant # None /\ p.grants # None -> "Conflict"
    [] p.grant # None -> "Single"
    [] p.grants # None -> "Multi"
    [] OTHER -> "None"

\* The invocation is signed: the descriptor must name the same grants, and
\* the kind of message decides how many it may name.
validate_invocation_and_kind(m, p) ==
  LET inv == permission_grant_invocation(p)
      kind == authorization_payload_kind(m)
      allowed == CASE kind \in {"RecordsWrite", "Direct"} -> {"None", "Single"}
                   [] kind = "MessageGrantSet" -> {"None", "Multi"}
                   [] kind = "NoGrant" -> {"None"}
  IN FirstBad(<< <<inv # "Conflict", "PermissionGrantIDsConflict">>,
                 <<m.grant = p.grant /\ m.grants = p.grants, "InvocationMismatch">>,
                 <<inv \in allowed, "InvocationKind">> >>)

\* A RecordsWrite payload also binds the parts that live outside the
\* descriptor.  An attestation is compared only when the payload names one.
validate_records_write_payload(m, p) ==
  FirstBad(<< <<p.ctx = m.ctx, "ContextIdMismatch">>,
              <<p.record = m.record, "RecordIdMismatch">>,
              <<p.att = None \/ p.att = m.att, "AttestationCidMismatch">>,
              <<p.env = m.env, "EncryptionCidMismatch">>,
              <<p.dgrant = IF m.dgrant = None THEN None ELSE m.dgrant.id,
                "DelegatedGrantCidMismatch">> >>)

validate_descriptor_cid(m, p) == p.desc = m.desc

\* The signer of a JWS: its key id must be readable even where a resolver
\* goes on to verify the signatures.
SignerOf(jws, resolver) ==
  IF jws.sigs = <<>> \/ jws.sigs[1].kid = None THEN Bad("MissingKid")
  ELSE IF resolver
  THEN LET v == verify_signatures(jws) IN
       IF v.ok THEN [ok |-> TRUE, did |-> v.dids[1]] ELSE v
  ELSE [ok |-> TRUE, did |-> signer_did_from_jws(jws)]

\* What is checked of any signed message but its delegation.  (The grants the
\* model embeds carry no owner signature of their own.)
validate_authorization_signature_inner(m, resolver) ==
  LET p == m.jws.payload
      who == SignerOf(m.jws, resolver)
      first == FirstBad(<< <<Len(m.jws.sigs) = 1, "SignatureCount">>,
                           <<validate_descriptor_cid(m, p), "DescriptorCidMismatch">> >>)
      kind == validate_invocation_and_kind(m, p)
      parts == IF authorization_payload_kind(m) = "RecordsWrite"
               THEN validate_records_write_payload(m, p) ELSE None
  IN IF first # None THEN first
     ELSE IF kind # None THEN kind
     ELSE IF parts # None THEN parts
     ELSE who

GrantorOf(grant, resolver) ==
  IF grant = None THEN None ELSE validate_authorization_signature_inner(grant, resolver)

\* Mutant: anyone may use the grant.
validate_embedded_delegated_grant_AnyGrantee(grant, named, signer, who) ==
  IF grant = None /\ named = None THEN [ok |-> TRUE, grantor |-> None]
  ELSE IF grant = None \/ named = None THEN Bad("DelegatedGrantMismatch")
  ELSE IF ~who.ok THEN who
  ELSE LET bad == FirstBad(<< <<grant.id = named, "DelegatedGrantCidMismatch">>,
                              <<grant.delegated, "NotDelegated">> >>)
       IN  IF bad # None THEN bad ELSE [ok |-> TRUE, grantor |-> who.did]

\* A grant embedded in a message must be the one the signature names, be
\* signed by its grantor directly, be delegated, and be given to the signer.
validate_embedded_delegated_grant(grant, named, signer, who) ==
  IF grant = None /\ named = None THEN [ok |-> TRUE, grantor |-> None]
  ELSE IF grant = None \/ named = None THEN Bad("DelegatedGrantMismatch")
  ELSE IF grant.id # named THEN Bad("DelegatedGrantCidMismatch")
  ELSE IF ~who.ok THEN who
  ELSE LET bad == FirstBad(<< <<grant.delegated, "NotDelegated">>,
                              <<grant.grantee = signer, "GranteeMismatch">> >>)
       IN  IF bad # None THEN bad ELSE [ok |-> TRUE, grantor |-> who.did]

\* The owner countersignature: its own payload, its own delegated grant.
validate_owner_signature(m, resolver) ==
  LET o == m.ownerJws
      who == SignerOf(o, resolver)
  IN IF o = None
     THEN IF m.ownerGrant # None THEN Bad("OwnerGrantWithoutSignature")
          ELSE [ok |-> TRUE, owner |-> None]
     ELSE IF ~who.ok THEN who
     ELSE IF ~validate_descriptor_cid(m, o.payload) THEN Bad("OwnerDescriptorCidMismatch")
     ELSE LET d == validate_embedded_delegated_grant(m.ownerGrant, o.payload.dgrant,
                                                     who.did, GrantorOf(m.ownerGrant, resolver))
          IN IF ~d.ok THEN d
             ELSE [ok |-> TRUE,
                   owner |-> [did |-> IF d.grantor = None THEN who.did ELSE d.grantor,
                              signer |-> who.did]]

\* The whole validation: who signed, for whom, and who countersigned.
validate_authorization_signature(m, resolver, required) ==
  IF m.jws = None
  THEN IF required THEN Bad("AuthorizationMissing")
       ELSE [ok |-> TRUE, signer |-> None, author |-> None, owner |-> None]
  ELSE LET who == validate_authorization_signature_inner(m, resolver)
           d == validate_embedded_delegated_grant(m.dgrant, m.jws.payload.dgrant,
                                                  who.did, GrantorOf(m.dgrant, resolver))
           o == validate_owner_signature(m, resolver)
       IN IF ~who.ok THEN who
          ELSE IF ~d.ok THEN d
          ELSE IF ~o.ok THEN o
          ELSE [ok |-> TRUE, signer |-> who.did,
                author |-> IF d.grantor = None THEN who.did ELSE d.grantor,
                owner |-> o.owner]

\* Who a stored message is from: nothing is verified again, the DIDs of the
\* key ids are read from the message.
message_signer(m) == signer_did_from_jws(m.jws)
message_author(m) == IF m.dgrant # None THEN message_signer(m.dgrant)
                     ELSE message_signer(m)

-----------------------------------------------------------------------------
(* dwn/mod.rs and dwn/validation.rs                                        *)

validate_tenant(tenant) == tenant \in Active

\* What a message must satisfy before any handler sees it.  A configure in a
\* reserved namespace is refused ahead of the schema.
validate_before_schema(m) == m.iface = "Protocols" /\ m.method = "Configure" => ~m.reserved
validate_message(m) == m.known /\ m.wellFormed
admit_message(m) ==
  FirstBad(<< <<m.known, 400>>,
              <<validate_before_schema(m), 400>>,
              <<validate_message(m), 400>> >>)

\* The handler runs on a message it can decode; every handler that
\* authenticates does so before anything else it decides on the content.
Handler(m, resolver, required) ==
  LET a == validate_authorization_signature(m, resolver, required) IN
  IF a.ok THEN [status |-> 200, auth |-> a] ELSE [status |-> 400, auth |-> None]

process_message_with_data(r) ==
  LET m == r.message
      refused == admit_message(m)
  IN IF ~validate_tenant(r.tenant) THEN [status |-> 401, auth |-> None]
     ELSE IF refused # None THEN [status |-> refused.why, auth |-> None]
     ELSE IF [iface |-> m.iface, method |-> m.method] \notin Handlers
     THEN [status |-> 501, auth |-> None]
     ELSE Handler(m, r.resolver, r.required)

AuthInit(Requests) == request \in Requests /\ reply = None

ProcessMessage == /\ reply = None
                  /\ reply' = process_message_with_data(request)
                  /\ UNCHANGED request

-----------------------------------------------------------------------------
(* Properties                                                              *)

\* What a handler is told about the author of a message when it arrives is
\* what every later reader of the stored message takes its author to be
\* (message_author, permissions/mod.rs:951): a delegated write cannot be
\* attributed to one party on admission and to another afterwards.
AuthorAgrees ==
  reply # None /\ reply.status = 200 /\ reply.auth.author # None
    => /\ reply.auth.author = message_author(request.message)
       /\ reply.auth.signer = message_signer(request.message)

\* With a resolver, everyone an accepted message speaks for took part: the
\* signer signed this descriptor, and an author or owner other than the one
\* who signed signed a delegated grant naming that signer.
SpeaksForThemselves ==
  LET m == request.message
      Signed(who, jws) == \E i \in DOMAIN jws.sigs :
                            /\ jws.sigs[i].kid.did = who
                            /\ jws.sigs[i].by = KeyOf[jws.sigs[i].kid].name
      Gave(grantor, g, to) == Signed(grantor, g.jws) /\ g.grantee = to /\ g.delegated
      a == reply.auth
  IN reply # None /\ reply.status = 200 /\ request.resolver /\ a.author # None
       => /\ Signed(a.signer, m.jws) /\ m.jws.payload.desc = m.desc
          /\ a.author # a.signer => Gave(a.author, m.dgrant, a.signer)
          /\ a.owner # None =>
               /\ Signed(a.owner.signer, m.ownerJws) /\ m.ownerJws.payload.desc = m.desc
               /\ a.owner.did # a.owner.signer
                    => Gave(a.owner.did, m.ownerGrant, a.owner.signer)
=============================================================================
