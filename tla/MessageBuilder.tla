---------------------------- MODULE MessageBuilder ----------------------------
(***************************************************************************)
(* The other end of the message path: how a client makes a message         *)
(* (Message::create in interfaces/messages/mod.rs, the MessageParameters   *)
(* of each descriptor, and the signing half of auth/jws.rs).  What it      *)
(* makes is handed to Authentication.                                      *)
(*                                                                         *)
(* The parameters p of a message are a record: [iface, method], the fields *)
(* every kind has (ts, grant, grants, dgrant, role), and about, the fields *)
(* that go to the descriptor as they are.  A signer is [kid, alg, name].   *)
(***************************************************************************)
EXTENDS Authentication, SequencesExt

CONSTANT Now           \* the clock, for parameters without a timestamp

-----------------------------------------------------------------------------
(* auth/jws.rs *)

AuthorizationPayload(desc, dgrant, inv, role) ==
  [desc |-> desc, dgrant |-> dgrant, role |-> role,
   grant |-> IF inv.kind = "Single" THEN inv.id ELSE None,
   grants |-> IF inv.kind = "Multi" THEN inv.id ELSE None]

RecordsWriteAuthorizationPayload(desc, fields, grant, dgrant, role) ==
  [desc |-> desc, record |-> fields.record, ctx |-> fields.ctx, att |-> fields.att,
   env |-> fields.env, grant |-> grant, grants |-> None, dgrant |-> dgrant, role |-> role]

AttestationPayload(desc) == [desc |-> desc]

sign_encoded_payload(signer) ==
  [protected |-> TRUE, kid |-> signer.kid, alg |-> signer.alg, by |-> signer.name]

generate_signatures(signers) == [i \in DOMAIN signers |-> sign_encoded_payload(signers[i])]

\* None when nobody signs.
create_jws(payload, signers) ==
  IF signers = <<>> THEN None ELSE [payload |-> payload, sigs |-> generate_signatures(signers)]

-----------------------------------------------------------------------------
(* The parameters of each kind: what `build` puts in the descriptor.  A    *)
(* refused build is None.                                                  *)

Stamp(ts) == IF ts = None THEN Now ELSE ts
Or(value, default) == IF value = None THEN default ELSE value

Built(desc, fields) == [desc |-> desc, fields |-> fields]
NoFields == [record |-> None, ctx |-> None, att |-> None, env |-> None]

single_permission_grant_invocation(id) ==
  IF id = None THEN [kind |-> "None"] ELSE [kind |-> "Single", id |-> id]
multi_permission_grant_invocation(ids) ==
  IF ids = None THEN [kind |-> "None"] ELSE [kind |-> "Multi", id |-> ids]

\* Sorted and without repetitions: a set.
canonical_permission_grant_ids(ids) == IF ids = None THEN None ELSE ToSet(ids)

\* Records.
DirectDescriptor(p, filter) ==
  [iface |-> p.iface, method |-> p.method, ts |-> Stamp(p.ts), grant |-> p.grant,
   grants |-> None, about |-> filter]
RecordsRead(p) == Built(DirectDescriptor(p, p.about), NoFields)
RecordsCount(p) == Built(DirectDescriptor(p, p.about), NoFields)
RecordsQuery(p) == Built(DirectDescriptor(p, Or(p.about, "every record")), NoFields)
RecordsSubscribe(p) == Built(DirectDescriptor(p, p.about), NoFields)
RecordsDelete(p) ==
  Built(DirectDescriptor(p, [record |-> p.about.record, prune |-> Or(p.about.prune, FALSE)]),
        NoFields)

\* A write has a protocol and a path; its parent is the last segment of the
\* parent's context.  The context id of the new record is not filled in.
RecordsWrite(p) ==
  LET w == p.about
      parents == IF w.parentContext = None THEN <<>> ELSE w.parentContext
      desc == [protocol |-> w.protocol, path |-> w.path,
               parent |-> IF parents = <<>> THEN None ELSE Last(parents),
               data |-> Or(w.dataCid, w.data), published |-> w.published,
               datePublished |-> IF w.published = TRUE THEN Or(w.datePublished, Now)
                                 ELSE w.datePublished]
  IN IF w.protocol = None \/ w.path = None THEN None
     ELSE Built(DirectDescriptor(p, desc), [NoFields EXCEPT !.record = w.record, !.env = w.env])

\* Protocols.
ProtocolsConfigure(p) ==
  IF p.about.reserved THEN None ELSE Built(DirectDescriptor(p, p.about), NoFields)
ProtocolsQuery(p) == Built(DirectDescriptor(p, p.about), NoFields)

\* Messages: several grants, and at least one where any are named.
GrantSetDescriptor(p, about) ==
  IF p.grants = <<>> THEN None
  ELSE Built([iface |-> p.iface, method |-> p.method, ts |-> p.ts, grant |-> None,
              grants |-> canonical_permission_grant_ids(p.grants), about |-> about], NoFields)
MessagesRead(p) == GrantSetDescriptor(p, p.about)
MessagesQuery(p) == GrantSetDescriptor(p, Or(p.about, "every message"))
MessagesSubscribe(p) == GrantSetDescriptor(p, p.about)
MessagesSync(p) == GrantSetDescriptor(p, p.about)

build(p) ==
  CASE p.iface = "Records" /\ p.method = "Read" -> RecordsRead(p)
    [] p.iface = "Records" /\ p.method = "Count" -> RecordsCount(p)
    [] p.iface = "Records" /\ p.method = "Query" -> RecordsQuery(p)
    [] p.iface = "Records" /\ p.method = "Subscribe" -> RecordsSubscribe(p)
    [] p.iface = "Records" /\ p.method = "Delete" -> RecordsDelete(p)
    [] p.iface = "Records" /\ p.method = "Write" -> RecordsWrite(p)
    [] p.iface = "Protocols" /\ p.method = "Configure" -> ProtocolsConfigure(p)
    [] p.iface = "Protocols" /\ p.method = "Query" -> ProtocolsQuery(p)
    [] p.iface = "Messages" /\ p.method = "Read" -> MessagesRead(p)
    [] p.iface = "Messages" /\ p.method = "Query" -> MessagesQuery(p)
    [] p.iface = "Messages" /\ p.method = "Subscribe" -> MessagesSubscribe(p)
    [] p.iface = "Messages" /\ p.method = "Sync" -> MessagesSync(p)

\* The invocation the signature carries is made from the parameters a second
\* time, not read from the descriptor.
permission_grant_invocation_of(p) ==
  IF p.iface = "Messages"
  THEN multi_permission_grant_invocation(canonical_permission_grant_ids(p.grants))
  ELSE single_permission_grant_invocation(p.grant)

-----------------------------------------------------------------------------
(* Message::create *)

\* A write's payload needs the record and the context ids.
write_authorization_payload(desc, fields, dgrant, inv, role) ==
  IF inv.kind = "Multi" \/ fields.record = None \/ fields.ctx = None THEN None
  ELSE RecordsWriteAuthorizationPayload(desc, fields, IF inv.kind = "Single" THEN inv.id ELSE None,
                                        dgrant, role)

authorization_payload(p, desc, fields, dgrant, inv) ==
  IF p.iface = "Records" /\ p.method = "Write"
  THEN write_authorization_payload(desc, fields, dgrant, inv, p.role)
  ELSE AuthorizationPayload(desc, dgrant, inv, p.role)

create_signature(p, desc, fields, signer, dgrant) ==
  LET payload == authorization_payload(p, desc, fields, dgrant, permission_grant_invocation_of(p))
  IN IF payload = None THEN None ELSE create_jws(payload, <<signer>>)

create_authorization(p, desc, fields, signer) ==
  [jws |-> create_signature(p, desc, fields, signer, IF p.dgrant = None THEN None ELSE p.dgrant.id),
   dgrant |-> p.dgrant]

\* None when the parameters are refused or the signature cannot be made; an
\* unsigned message when there is no signer.
create(p, signer) ==
  LET b == build(p)
      auth == IF signer = None THEN [jws |-> None, dgrant |-> None]
              ELSE create_authorization(p, b.desc, b.fields, signer)
  IN IF b = None THEN None
     ELSE IF signer # None /\ auth.jws = None THEN None
     ELSE [id |-> b.desc, iface |-> p.iface, method |-> p.method, desc |-> b.desc,
           grant |-> b.desc.grant, grants |-> b.desc.grants, ctx |-> b.fields.ctx,
           record |-> b.fields.record, att |-> b.fields.att, env |-> b.fields.env,
           jws |-> auth.jws, dgrant |-> auth.dgrant, ownerJws |-> None, ownerGrant |-> None,
           known |-> TRUE, reserved |-> FALSE, wellFormed |-> TRUE,
           delegated |-> FALSE, grantee |-> None]

\* JwsSyncAuthorizer: a MessagesSync, under at most one grant.
authorize_sync(about, grant, signer) ==
  create([iface |-> "Messages", method |-> "Sync", ts |-> Now, grant |-> None,
          grants |-> IF grant = None THEN None ELSE <<grant>>, dgrant |-> None, role |-> None,
          about |-> about], signer)

\* The attestation signs the descriptor and is added to the fields of a
\* message that is already made, which leaves its signature as it was.
attest(m, signers) == [m EXCEPT !.att = create_jws(AttestationPayload(m.desc), signers)]

-----------------------------------------------------------------------------
\* What a client can make the node takes: a message made by Message::create,
\* attested or not, passes the admission checks and the validation of its
\* signature, except a MessagesSync that names grants, which no node takes,
\* and one made with a delegated grant that is not the signer's to use.  A
\* signed write is never made, for want of a context id.
BuiltIsAccepted ==
  LET m == request.message
      usable == /\ m.dgrant.delegated /\ m.dgrant.grantee = m.jws.sigs[1].kid.did
      taken == /\ m.jws # None \/ ~request.required
               /\ [iface |-> m.iface, method |-> m.method] \in Handlers
               /\ ~(m.method = "Sync" /\ m.grants # None)
               /\ IF m.dgrant = None THEN TRUE ELSE usable
  IN reply # None /\ request.built /\ validate_tenant(request.tenant)
       => /\ (reply.status = 200) = taken
          /\ m.iface = "Records" /\ m.method = "Write" => m.jws = None
=============================================================================
