--------------------------------- MODULE DidDht ---------------------------------
(***************************************************************************)
(* did:dht (the did-dht crate, and auth/resolver/dht and http.rs which     *)
(* carry its requests): a document is encoded as DNS TXT records, signed   *)
(* with the identity key over a sequence number and put on a relay; a      *)
(* resolver fetches, verifies and decodes it.  Several devices hold the    *)
(* same identity.  The relay is external: it keeps the payload with the    *)
(* highest sequence and answers 409 to an older or a different one.        *)
(*                                                                         *)
(* A TXT record is its properties: text is split at delimiters, so a value *)
(* that holds one (Reserved) cannot be written.  Lengths in bytes are      *)
(* abstracted to a number of records.  A JSON value that may be a string   *)
(* or an array of strings is [many, items].                                *)
(***************************************************************************)
EXTENDS Naturals, FiniteSets, Sequences, SequencesExt

CONSTANTS Did, Identity,         \* the DID and the key its identifier encodes
          Packets,               \* what other implementations may have put
          Documents,             \* what a device may publish
          Callers, Reserved, None,
          GatewayUri, Redirects, Private, AllowPrivate, MaxRedirects,
          MaxRecords,            \* the 1000 bytes of a BEP44 value
          MaxSequence,           \* the largest u64
          Clocks                 \* what the clock may read

VARIABLES now,      \* the clock of the devices, which may be set back
          relay,    \* None or [sequence, value, sig]
          known,    \* caller -> what it last resolved, or None
          call,     \* caller -> the request it waits for, or None
          reply     \* caller -> the result of its last call

dhtVars == <<now, relay, known, call, reply>>

Txt(kind, n) ==
    [kind |-> kind, n |-> n, id |-> None, kt |-> None, key |-> None, alg |-> None,
     controller |-> None, type |-> None, endpoints |-> None, props |-> <<>>,
     list |-> None, rel |-> None]

Relationships == {"auth", "asm", "inv", "del", "agm"}
thumbprint(key) == key

default_algorithm(kt) ==
    CASE kt = 0 -> "EdDSA" [] kt = 1 -> "ES256K" [] kt = 2 -> "ES256"
      [] OTHER -> "ECDH-ES+A256KW"

-----------------------------------------------------------------------------
(* codec.rs *)

verification_method(r) ==
    [frag |-> IF r.n = 0 THEN "0" ELSE IF r.id # None THEN r.id ELSE thumbprint(r.key),
     kt |-> r.kt, key |-> r.key,
     alg |-> IF r.alg # None THEN r.alg ELSE default_algorithm(r.kt),
     controller |-> IF r.controller # None THEN r.controller ELSE Did,
     under |-> TRUE, wireable |-> TRUE]

string_values(items) == [many |-> Len(items) > 1, items |-> items]

(* A property that holds several values decodes as an array. *)
service(r) ==
    [frag |-> r.id, type |-> r.type, endpoints |-> [many |-> TRUE, items |-> r.endpoints],
     props |-> [p \in DOMAIN r.props |-> string_values(r.props[p])],
     under |-> TRUE, wireable |-> TRUE]

Records(wire, kind) == SelectSeq(wire, LAMBDA r : r.kind = kind)
LastOf(s, default) == IF s = <<>> THEN default ELSE Last(s)

(* References to records that are not there are dropped; of several root   *)
(* records the last that names a relationship decides it.                  *)
apply_relationships(wire, rel) ==
    LET lookup(n) == verification_method(Last(SelectSeq(Records(wire, "k"),
                                                        LAMBDA r : r.n = n))).frag
        naming == SelectSeq(Records(wire, "did"), LAMBDA r : rel \in DOMAIN r.rel)
        known_ids == {r.n : r \in ToSet(Records(wire, "k"))}
        ids == SelectSeq(Last(naming).rel[rel], LAMBDA n : n \in known_ids)
    IN  IF naming = <<>> THEN <<>> ELSE [i \in DOMAIN ids |-> lookup(ids[i])]

did_types(r) == r.list # None

Decodable(wire) ==
    /\ \A r \in ToSet(Records(wire, "k")) : r.key # None /\ r.kt \in 0..3
    /\ \A r \in ToSet(Records(wire, "s")) :
          r.id # None /\ r.type # None /\ r.endpoints \notin {None, <<"">>}
    /\ \A r \in ToSet(Records(wire, "typ")) : did_types(r)

decode_document(wire) ==
    LET methods == Records(wire, "k")
        services == Records(wire, "s")
        cnt == LastOf(Records(wire, "cnt"), None)
        aka == LastOf(Records(wire, "aka"), None)
        typ == LastOf(Records(wire, "typ"), None)
    IN  IF ~Decodable(wire) THEN None
        ELSE [doc |-> [did |-> Did, extra |-> FALSE,
                       aka |-> IF aka = None THEN <<>> ELSE aka.list,
                       controller |-> IF cnt = None THEN None ELSE string_values(cnt.list),
                       methods |-> [i \in DOMAIN methods |-> verification_method(methods[i])],
                       services |-> [i \in DOMAIN services |-> service(services[i])],
                       rel |-> [x \in Relationships |-> apply_relationships(wire, x)]],
              types |-> IF typ = None THEN <<>> ELSE typ.list]

-----------------------------------------------------------------------------
(* encode.rs *)

check_scalar(v) == v \notin Reserved
Scalars(s) == \A v \in ToSet(s) : check_scalar(v)
Distinct(s) == \A i, j \in DOMAIN s : s[i] = s[j] => i = j

(* The key is of a registered type and curve. *)
wire_key(vm) == vm.wireable /\ vm.kt \in 0..3

encode_verification_method(vm) ==
    /\ vm.under /\ vm.frag # "" /\ check_scalar(vm.frag)
    /\ wire_key(vm)
    /\ check_scalar(vm.alg) /\ check_scalar(vm.controller)

encode_verification_methods(doc) ==
    /\ \A vm \in ToSet(doc.methods) : encode_verification_method(vm)
    /\ Distinct([i \in DOMAIN doc.methods |-> doc.methods[i].frag])

encode_service(s) ==
    /\ s.under /\ s.wireable /\ s.frag # "" /\ s.type # ""
    /\ check_scalar(s.frag) /\ check_scalar(s.type)
    /\ s.endpoints.items # <<>> /\ Scalars(s.endpoints.items)
    /\ \A p \in DOMAIN s.props :
          /\ p \notin {"id", "t", "se"} /\ check_scalar(p)
          /\ s.props[p].items # <<>> /\ Scalars(s.props[p].items)

controller_strings(doc) == IF doc.controller = None THEN <<>> ELSE doc.controller.items

(* The identity method must hold the DID's own key, be controlled by the   *)
(* DID or by a controller of the document, and stand in every relationship *)
(* but key agreement; a reference must name a method of the document.      *)
Encodable(doc) ==
    LET frags == {vm.frag : vm \in ToSet(doc.methods)}
        identity == CHOOSE vm \in ToSet(doc.methods) : vm.frag = "0"
    IN  /\ doc.did = Did /\ ~doc.extra
        /\ encode_verification_methods(doc)
        /\ "0" \in frags
        /\ identity.key = Identity
        /\ Scalars(controller_strings(doc))
        /\ identity.controller \in {Did} \cup ToSet(controller_strings(doc))
        /\ Scalars(doc.aka)
        /\ Distinct([i \in DOMAIN doc.services |-> doc.services[i].frag])
        /\ \A s \in ToSet(doc.services) : encode_service(s)
        /\ \A x \in Relationships \ {"agm"} : "0" \in ToSet(doc.rel[x])
        /\ \A x \in Relationships : ToSet(doc.rel[x]) \subseteq frags

KeyRecord(vm, n) ==
    [Txt("k", n) EXCEPT
        !.id = IF vm.frag # "0" /\ thumbprint(vm.key) # vm.frag THEN vm.frag ELSE None,
        !.kt = vm.kt, !.key = vm.key,
        !.alg = IF vm.alg = default_algorithm(vm.kt) THEN None ELSE vm.alg,
        !.controller = IF vm.controller = Did THEN None ELSE vm.controller]

ServiceRecord(s, n) ==
    [Txt("s", n) EXCEPT
        !.id = s.frag, !.type = s.type, !.endpoints = s.endpoints.items,
        !.props = [p \in DOMAIN s.props |-> s.props[p].items]]

(* Mutant: the methods keep the order of the document. *)
IdentityFirst_Kept(methods) == methods

(* The wire addresses the identity key as _k0 whatever its place in the    *)
(* document.                                                               *)
IdentityFirst(methods) ==
    SelectSeq(methods, LAMBDA vm : vm.frag = "0") \o SelectSeq(methods, LAMBDA vm : vm.frag # "0")

Optional(use, record) == IF use THEN <<record>> ELSE <<>>

(* None when the document cannot be represented.  The NS record of the     *)
(* gateway is left out: the decoder reads TXT records only.                *)
encode_document(doc, types) ==
    LET vms == IdentityFirst(doc.methods)
        lookup(frag) == (CHOOSE i \in DOMAIN vms : vms[i].frag = frag) - 1
        Ids(frags) == [i \in DOMAIN frags |-> lookup(frags[i])]
        present == {x \in Relationships : doc.rel[x] # <<>>}
    IN  IF ~Encodable(doc) THEN None
        ELSE Optional(doc.aka # <<>>, [Txt("aka", 0) EXCEPT !.list = doc.aka])
             \o Optional(doc.controller # None,
                         [Txt("cnt", 0) EXCEPT !.list = controller_strings(doc)])
             \o [i \in DOMAIN vms |-> KeyRecord(vms[i], i - 1)]
             \o [i \in DOMAIN doc.services |-> ServiceRecord(doc.services[i], i - 1)]
             \o <<[Txt("did", 0) EXCEPT !.rel = [x \in present |-> Ids(doc.rel[x])]]>>
             \o Optional(types # <<>>, [Txt("typ", 0) EXCEPT !.list = types])

-----------------------------------------------------------------------------
(* The agent's own document (DidDhtProvider in providers.rs) *)

did_method_with_jwk_value(frag, key, kt) ==
    [frag |-> frag, kt |-> kt, key |-> key, alg |-> default_algorithm(kt), controller |-> Did,
     under |-> TRUE, wireable |-> TRUE]

did_service(endpoints) ==
    [frag |-> "dwn", type |-> "DecentralizedWebNode", props |-> <<>>, under |-> TRUE,
     wireable |-> TRUE, endpoints |-> [many |-> TRUE, items |-> endpoints]]

AgentDocument(endpoints) ==
    [did |-> Did, extra |-> FALSE, aka |-> <<>>, controller |-> None,
     methods |-> <<did_method_with_jwk_value("0", Identity, 0),
                   did_method_with_jwk_value("sig", "S", 0),
                   did_method_with_jwk_value("enc", "X", 3)>>,
     services |-> Optional(endpoints # <<>>, did_service(endpoints)),
     rel |-> [r \in Relationships |->
        CASE r \in {"auth", "asm"} -> <<"0", "sig">> [] r = "agm" -> <<"enc">> [] OTHER -> <<"0">>]]

(* None when the document could not be published. *)
create_did(endpoints) ==
    IF Encodable(AgentDocument(endpoints)) THEN AgentDocument(endpoints) ELSE None

-----------------------------------------------------------------------------
(* sequence.rs, publish.rs, bep44.rs *)

(* None when the sequence would overflow. *)
next_sequence(time, previous) ==
    IF previous = None THEN time
    ELSE IF previous = MaxSequence THEN None
    ELSE IF time > previous THEN time ELSE previous + 1

ensure_value_size(value) == Len(value) =< MaxRecords

bep44_signing_payload(sequence, value) == <<sequence, value>>

verify_bep44_message(m) ==
    m.sig = [by |-> Identity, over |-> bep44_signing_payload(m.sequence, m.value)]

(* None when nothing may reach the transport. *)
sign_publish(doc, types, sequence, signer) ==
    LET value == encode_document(doc, types)
        m == [sequence |-> sequence, value |-> value,
              sig |-> [by |-> signer, over |-> bep44_signing_payload(sequence, value)]]
    IN  IF value = None THEN None
        ELSE IF ensure_value_size(value) /\ verify_bep44_message(m) THEN m ELSE None

-----------------------------------------------------------------------------
(* gateway.rs and http.rs: one call and the redirects it follows *)

validate_target_url(host) == AllowPrivate \/ host \notin Private

Return(c, r) ==
    /\ call' = [call EXCEPT ![c] = None]
    /\ reply' = [reply EXCEPT ![c] = r]

Request(c, signed, previous) ==
    /\ call' = [call EXCEPT ![c] = [url |-> GatewayUri, redirects |-> 0,
                                    signed |-> signed, previous |-> previous]]
    /\ reply' = [reply EXCEPT ![c] = None]

resolve(c) ==
    /\ call[c] = None
    /\ Request(c, None, None)
    /\ UNCHANGED <<now, relay, known>>

(* A device publishes what it resolved, or one of its own documents, past  *)
(* the sequence it last resolved.                                          *)
publish(c, doc, types, signer) ==
    LET previous == IF known[c] = None THEN None ELSE known[c].sequence
        sequence == next_sequence(now, previous)
        signed == sign_publish(doc, types, sequence, signer)
    IN  /\ call[c] = None
        /\ IF sequence = None \/ signed = None
           THEN Return(c, [error |-> "refused", previous |-> previous])
           ELSE Request(c, signed, previous)
        /\ UNCHANGED <<now, relay, known>>

Fails(c, why) == Return(c, [error |-> why, previous |-> call[c].previous])

(* fetch_url: each target is validated before it is requested.  The host   *)
(* without redirects is the relay.                                         *)
Redirect(c) ==
    /\ call[c] # None
    /\ \E to \in Redirects[call[c].url] :
        IF call[c].redirects >= MaxRedirects THEN Fails(c, "TooManyRedirects")
        ELSE IF ~validate_target_url(to) THEN Fails(c, "InvalidGatewayUri")
        ELSE /\ call' = [call EXCEPT ![c].url = to, ![c].redirects = @ + 1]
             /\ UNCHANGED reply
    /\ UNCHANGED <<now, relay, known>>

AtRelay(c) == call[c] # None /\ Redirects[call[c].url] = {}

(* The relay keeps the newest payload, and accepts an exact repeat of it. *)
Accepts(m) == relay # None => m.sequence > relay.sequence \/ m = relay

(* The deadline ends the call before the request or after it: a put whose  *)
(* answer is lost may have arrived.                                        *)
Deadline(c) ==
    /\ call[c] # None
    /\ relay' = relay
       \/ /\ AtRelay(c) /\ call[c].signed # None
          /\ Accepts(call[c].signed) /\ relay' = call[c].signed
    /\ Fails(c, "DeadlineExceeded")
    /\ UNCHANGED <<now, known>>

Put(c) ==
    LET m == call[c].signed
    IN  /\ AtRelay(c) /\ m # None
        /\ IF Accepts(m)
           THEN relay' = m /\ Return(c, [error |-> None, previous |-> call[c].previous])
           ELSE Fails(c, "GatewayRejected") /\ UNCHANGED relay
        /\ UNCHANGED <<now, known>>

(* The relay may answer with a payload that was damaged on the way. *)
Get(c) ==
    LET damaged == [relay EXCEPT !.value = <<>>]
    IN  /\ AtRelay(c) /\ call[c].signed = None
        /\ IF relay = None THEN Fails(c, "NotFound") /\ UNCHANGED known
           ELSE \E m \in {relay, damaged} :
                    LET found == decode_document(m.value)
                    IN  IF ~verify_bep44_message(m)
                        THEN Fails(c, "InvalidSignature") /\ UNCHANGED known
                        ELSE IF found = None
                        THEN Fails(c, "InvalidDocument") /\ UNCHANGED known
                        ELSE /\ known' = [known EXCEPT ![c] =
                                   [doc |-> found.doc, types |-> found.types,
                                    sequence |-> m.sequence]]
                             /\ Return(c, [error |-> None, previous |-> None])
        /\ UNCHANGED <<now, relay>>

(* The clock of a device moves on, or is set back. *)
SetClock == /\ now' \in Clocks
            /\ UNCHANGED <<relay, known, call, reply>>

DhtInit ==
    /\ now \in Clocks
    /\ relay \in {None} \cup
          {[sequence |-> s, value |-> p,
            sig |-> [by |-> Identity, over |-> bep44_signing_payload(s, p)]] :
              s \in {2}, p \in Packets}
    /\ known = [c \in Callers |-> None]
    /\ call = [c \in Callers |-> None]
    /\ reply = [c \in Callers |-> None]

DhtNext ==
    \/ SetClock
    \/ \E c \in Callers :
        \/ resolve(c) \/ Redirect(c) \/ Deadline(c) \/ Put(c) \/ Get(c)
        \/ \E signer \in {Identity, "other"}, d \in Documents : publish(c, d, <<>>, signer)
        \/ known[c] # None /\ publish(c, known[c].doc, known[c].types, Identity)

-----------------------------------------------------------------------------
SameDocument(a, b) ==
    /\ [a.doc EXCEPT !.methods = ToSet(@)] = [b.doc EXCEPT !.methods = ToSet(@)]
    /\ a.types = b.types

(* Publishing a document exactly as it was resolved changes nothing but    *)
(* the order of its methods for whoever resolves it next (the round-trip   *)
(* contract of encode.rs), and what a device put on the relay can be       *)
(* resolved again.                                                         *)
RepublishKeeps ==
    /\ \A c \in Callers :
          known[c] # None /\ Encodable(known[c].doc)
          => SameDocument(known[c],
                          decode_document(encode_document(known[c].doc, known[c].types)))
    /\ relay # None /\ relay.value \notin Packets => decode_document(relay.value) # None

(* A publication that follows a resolution is refused only because another *)
(* device published in between, whatever the clock says: next_sequence is  *)
(* raised past the sequence that was resolved.                             *)
RefusedOnlyByOthers ==
    \A c \in Callers :
        reply[c] # None /\ reply[c].error = "GatewayRejected" /\ reply[c].previous # None
        => relay.sequence > reply[c].previous

(* A device can republish what it resolved: nothing of the document is lost *)
(* on the way through the packet, and only another device that published in *)
(* between makes the relay refuse it, whatever the clock says               *)
(* (encode_document against decode_document, next_sequence).                *)
RepublishSafe == RepublishKeeps /\ RefusedOnlyByOthers

================================================================================
