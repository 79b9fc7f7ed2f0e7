-------------------------------- MODULE MCHost --------------------------------
(***************************************************************************)
(* The message path ahead of the handlers and the parts of the host around *)
(* the node, each on a small instance of its own.  A behaviour runs one    *)
(* part.  did:dht, the vault, the bindings' core, the mobile runtime and   *)
(* the resolver have their own variables, which the other behaviours leave *)
(* alone; the other parts share h1 .. h9.                                  *)
(***************************************************************************)
EXTENDS DidDht, ResolverFlight, EnboxCore, MobileCore, IdentityVault

CONSTANT Parts      \* the parts TLC explores

VARIABLES part, h1, h2, h3, h4, h5, h6, h7, h8, h9

hostVars == <<h1, h2, h3, h4, h5, h6, h7, h8, h9>>

-----------------------------------------------------------------------------
(* The message path: a write by its author, by a delegate, countersigned by *)
(* an owner or an owner's delegate, with one thing wrong at a time.         *)
Kid(did) == [did |-> did, key |-> "#0"]
MCKeyOf == [k \in {Kid(d) : d \in {"alice", "bob", "carol"}} |-> [name |-> k.did, alg |-> "EdDSA"]]

Sig(did, by) == [protected |-> TRUE, kid |-> Kid(did), alg |-> "EdDSA", by |-> by]
Payload(desc, dgrant) ==
    [desc |-> desc, grant |-> None, grants |-> None, ctx |-> "x", record |-> "r", att |-> None,
     env |-> None, dgrant |-> dgrant]
Signed(did, desc, dgrant) == [payload |-> Payload(desc, dgrant), sigs |-> <<Sig(did, did)>>]

Envelope(id, jws) ==
    [id |-> id, iface |-> "Records", method |-> "Write", desc |-> id, grant |-> None,
     grants |-> None, ctx |-> "x", record |-> "r", att |-> None, env |-> None, jws |-> jws,
     dgrant |-> None, ownerJws |-> None, ownerGrant |-> None, known |-> TRUE,
     reserved |-> FALSE, wellFormed |-> TRUE, delegated |-> FALSE, grantee |-> None]
Delegation(id, from, to, delegated) ==
    [Envelope(id, Signed(from, id, None)) EXCEPT !.delegated = delegated, !.grantee = to]

GenuineDelegations ==
    {Delegation("g", "alice", to, delegated) : to \in {"bob", "carol"}, delegated \in BOOLEAN}
Delegations ==
    GenuineDelegations
    \union {[Delegation("g", "alice", "bob", TRUE) EXCEPT !.jws.sigs[1].by = "carol"]}

Signatures(named) ==
    LET j == Signed("bob", "w", named)
    IN  {j, [j EXCEPT !.sigs = <<>>], [j EXCEPT !.sigs = @ \o @],
         [j EXCEPT !.payload.desc = "v"], [j EXCEPT !.payload.grant = "g"],
         [j EXCEPT !.payload.ctx = "y"], [j EXCEPT !.payload.att = "a"]}
        \union {[j EXCEPT !.sigs[1].kid = k] : k \in {None, Kid("dave"), Kid("carol")}}

Writes ==
    LET By(jws) == [Envelope("w", jws) EXCEPT !.att = "a"]
        direct == {By(j) : j \in Signatures(None) \union {None}}
        delegate == {[By(j) EXCEPT !.dgrant = g] :
                         j \in {Signed("bob", "w", n) : n \in {"g", "f", None}}, g \in Delegations}
        owned == {[By(Signed("bob", "w", None)) EXCEPT !.ownerJws = Signed("carol", d, n),
                                                       !.ownerGrant = g] :
                      d \in {"w", "v"}, n \in {"g", None}, g \in Delegations \union {None}}
        odd == {[By(Signed("bob", "w", None)) EXCEPT !.ownerGrant = Delegation("g", "alice", "bob", TRUE)],
                [By(Signed("bob", "w", None)) EXCEPT !.known = FALSE],
                [By(Signed("bob", "w", None)) EXCEPT !.wellFormed = FALSE],
                [By(Signed("bob", "w", None)) EXCEPT !.method = "Subscribe"],
                [By(Signed("bob", "w", None)) EXCEPT !.iface = "Protocols", !.method = "Configure",
                                                     !.reserved = TRUE]}
        granted == {[By([Signed("bob", "w", None) EXCEPT !.payload.grant = p, !.payload.grants = q])
                     EXCEPT !.iface = i, !.method = n, !.grant = p, !.grants = q] :
                        i \in {"Messages", "Records"}, n \in {"Sync", "Read"},
                        p \in {None, "g"}, q \in {None, "gs"}}
    IN  direct \union delegate \union owned \union odd \union granted

(* What a client makes: each kind with and without a signer, a grant or two *)
(* (one of them twice), and a delegated grant.                              *)
Signer(did) == [kid |-> Kid(did), alg |-> "EdDSA", name |-> did]
Parameters(iface, method, about, grant, grants, dgrant) ==
    [iface |-> iface, method |-> method, ts |-> None, grant |-> grant, grants |-> grants,
     dgrant |-> dgrant, role |-> None, about |-> about]
DirectParameters ==
    {Parameters("Records", n, "f", g, None, d) :
        n \in {"Read", "Count", "Query", "Subscribe"}, g \in {None, "g"}, d \in GenuineDelegations \union {None}}
    \union {Parameters("Records", "Query", None, None, None, None)}
    \union {Parameters("Records", "Delete", [record |-> "r", prune |-> x], None, None, None) :
                x \in {None, TRUE}}
    \union {Parameters("Protocols", "Configure", [reserved |-> x], None, None, None) : x \in BOOLEAN}
    \union {Parameters("Protocols", "Query", "p", None, None, None)}
WriteOf(record, protocol, env) ==
    [record |-> record, protocol |-> protocol, path |-> "x", parentContext |-> <<"a", "b">>,
     dataCid |-> None, data |-> "d", published |-> TRUE, datePublished |-> None, env |-> env]
WriteParameters ==
    {Parameters("Records", "Write", WriteOf(r, p, e), None, None, None) :
        r \in {None, "r"}, p \in {None, "p"}, e \in {None, "env"}}
GrantSets ==
    {Parameters("Messages", n, a, None, g, None) :
        n \in {"Read", "Query", "Subscribe"}, a \in {None, "f"},
        g \in {None, <<>>, <<"g">>, <<"h", "g", "h">>}}

PathNow == 1
PathActive == {"alice"}
MCHandlers ==
    [iface : {"Records", "Messages", "Protocols"},
     method : {"Write", "Read", "Sync", "Query", "Count", "Delete", "Configure"}]

Path == INSTANCE MessageBuilder WITH
    Active <- PathActive, KeyOf <- MCKeyOf, Handlers <- MCHandlers, Now <- PathNow,
    request <- h1, reply <- h2

Made ==
    LET made == {Path!create(p, s) : p \in DirectParameters \union WriteParameters \union GrantSets,
                                     s \in {None, Signer("bob")}}
                \union {Path!authorize_sync("root", g, Signer("alice")) : g \in {None, "g"}}
        writes == {m \in made \ {None} : m.method = "Write"}
    IN  (made \ {None}) \union {Path!attest(m, <<Signer("carol")>>) : m \in writes}

MCAuthRequests ==
    [tenant : PathActive, message : Writes, resolver : BOOLEAN, required : BOOLEAN,
     built : {FALSE}]
    \union [tenant : {"zoe"}, message : {Envelope("w", None)}, resolver : {TRUE},
            required : {TRUE}, built : {FALSE}]
    \union [tenant : PathActive, message : Made, resolver : {TRUE}, required : BOOLEAN,
            built : {TRUE}]

-----------------------------------------------------------------------------
(* The desktop node and its socket, what the bindings' core synchronises,   *)
(* and the agent's setup.                                                   *)
Desktop == INSTANCE DesktopNode WITH
    Callers <- {"c1"}, DeliveryIds <- {"d1", "d2"}, DedupKeys <- {"k"}, MaxFailures <- 2,
    node <- h1, server <- h2, registry <- h3, queue <- h4, call <- h5, outcome <- h6,
    failures <- h7

Socket == INSTANCE DesktopSocket WITH
    SubIds <- {"s1"}, MaxInFlight <- 2, MaxEvents <- 4,
    active <- h1, listening <- h2, flow <- h3, pusher <- h4, reader <- h5, channel <- h6,
    received <- h7, pushed <- h8, up <- h9

Pending(remote, protocol) ==
    [tenant |-> "t", remote |-> remote, protocol |-> protocol, direction |-> "both"]
SyncRequest(remote, protocol, direction, signer, deadline) ==
    [tenant |-> "t", remote |-> remote, protocol |-> protocol, direction |-> direction,
     signer |-> signer, deadline |-> deadline]

MCCheckpoints == {Pending("r1", Nothing), Pending("r2", "p")}
MCSyncRequests == {SyncRequest(Nothing, Nothing, Nothing, TRUE, TRUE),
                   SyncRequest("r2", "p", "both", FALSE, FALSE)}

Setup == INSTANCE AgentSetup WITH
    Phrases <- {"p1", "p2"}, Endpoints <- {"e1", "e2"}, Required <- {"e1"},
    ProviderAuth <- {"e1"}, AgentDid <- "agent", ConnectedDid <- "user",
    Protocols <- {"x", "y"}, Encrypted <- {"x"}, FlatReplies <- TRUE, MaxConfigures <- 2,
    secrets <- h1, registered <- h2, installed <- h3, configures <- h4, flow <- h5,
    outcome <- h6

-----------------------------------------------------------------------------
(* Keys a grant hands to a delegate: a protocol with a document, a comment, *)
(* a reference to another protocol, with and without a role that reads.     *)
Document == <<"doc">>
Comment == <<"doc", "comment">>
External == <<"ext">>
Reader == <<"member">>

Rules == INSTANCE RecordsAuthorization WITH
    Tenant <- "alice", PermissionsProtocol <- "permissions"

Library(role) ==
    [protocol |-> "p", key |-> None, uses |-> <<>>, types |-> [t \in {"doc"} |-> TRUE],
     rules |-> [x \in {Document, Comment, External, <<"ext", "note">>}
                        \union (IF role THEN {Reader} ELSE {}) |->
        CASE x = Reader -> [Rules!Rule({}) EXCEPT !.role = TRUE]
          [] x = External -> [Rules!Rule({}) EXCEPT !.ref = [alias |-> "q", path |-> <<"x">>]]
          [] x = Document /\ role -> Rules!Rule({Rules!RoleAction(Rules!Local(Reader), {"read"})})
          [] OTHER -> Rules!Rule({})]]
KeyGrant(id, method, path, expires) ==
    [id |-> id, grantor |-> "alice", grantee |-> "bob", from |-> 1, expires |-> expires,
     scope |-> [iface |-> "Records", method |-> method, protocol |-> "p", ctx |-> None,
                path |-> path]]
KeyVariant(path, key, wrapped, env) ==
    [path |-> path, key |-> key, wrapped |-> wrapped, env |-> env]
MCVariants(path) ==
    {KeyVariant(path, path, FALSE, TRUE), KeyVariant(path, path, TRUE, FALSE),
     KeyVariant(path, Comment, FALSE, TRUE)}

MCGrants == {KeyGrant("read", "Read", Document, 2), KeyGrant("write", "Write", None, 3)}
MCDefinitions == {Library(FALSE), Library(TRUE)}

Keys == INSTANCE KeyDelivery WITH
    Tenant <- "alice", PermissionsProtocol <- "permissions",
    Grants <- MCGrants, Definitions <- MCDefinitions, Variants <- MCVariants,
    MaxTime <- 2, MaxDeliveries <- 1,
    now <- h1, configs <- h2, revoked <- h3, deliveries <- h4, verified <- h5, session <- h6

-----------------------------------------------------------------------------
(* did:dht.  Other implementations put: the second key before the first,    *)
(* a reference to no key, a key of its own name, a controller elsewhere,    *)
(* service properties with one and with two values, and no root record.     *)
WireKey(n, key, kt) == [Txt("k", n) EXCEPT !.kt = kt, !.key = key]
WireRoot(auth, asm) ==
    [Txt("did", 0) EXCEPT !.rel = [x \in {"auth", "asm", "inv", "del"} |->
        CASE x = "auth" -> auth [] x = "asm" -> asm [] OTHER -> <<0>>]]
WireService(props) ==
    [Txt("s", 0) EXCEPT !.id = "dwn", !.type = "Node", !.endpoints = <<"u1", "u2">>,
                         !.props = props]
WireList(kind, list) == [Txt(kind, 0) EXCEPT !.list = list]

MCPackets ==
    {<<WireKey(0, "I", 0), WireList("cnt", <<"e">>)>>,
     <<WireKey(1, "S", 0), WireKey(0, "I", 0), WireRoot(<<0, 1, 7>>, <<0>>)>>,
     <<WireList("aka", <<"x">>), WireList("cnt", <<"e", "f">>),
       [WireKey(0, "I", 0) EXCEPT !.controller = "e"],
       [WireKey(1, "X", 3) EXCEPT !.id = "enc", !.alg = "other"],
       WireService([sig |-> <<"s">>, enc |-> <<"a", "b">>]), WireRoot(<<0>>, <<0, 1>>),
       WireList("typ", <<1, 2>>)>>,
     <<Txt("s", 0)>>}

(* The agent's document with its methods in another order, and one that    *)
(* cannot be written.                                                      *)
MCDocuments ==
    {[create_did(<<"u">>) EXCEPT !.methods = Reverse(@)], AgentDocument(<<"a,b">>)}
MCRedirects == [h \in {"a", "b"} |-> IF h = "a" THEN {"a", "b", "p"} ELSE {}]

-----------------------------------------------------------------------------
NoHost(from) ==
    /\ from =< 1 => h1 = None /\ h2 = None
    /\ from =< 3 => h3 = None
    /\ from =< 4 => h4 = None
    /\ from =< 5 => h5 = None
    /\ from =< 6 => h6 = None
    /\ from =< 7 => h7 = None
    /\ from =< 8 => h8 = None /\ h9 = None

(* A part that is not explored starts in one of its states. *)
AllInit ==
    /\ part \in Parts
    /\ DhtInit /\ FlightInit /\ CoreInit /\ MobileInit /\ VaultInit
    /\ part # "dht" => relay = None /\ now = 0
    /\ part # "core" => ledger = {}
    /\ part # "flight" => \A d \in DIDs : cache[d] = Nil
    /\ \/ part \in {"dht", "vault", "mobile", "core", "flight"} /\ NoHost(1)
       \/ part = "path" /\ Path!AuthInit(MCAuthRequests) /\ NoHost(3)
       \/ part = "desktop" /\ Desktop!NodeInit /\ NoHost(8)
       \/ part = "socket" /\ Socket!SockInit
       \/ part = "setup" /\ Setup!SetupInit /\ NoHost(7)
       \/ part = "keys" /\ Keys!KeysInit /\ NoHost(7)

HostNext ==
    \/ part = "path" /\ Path!ProcessMessage /\ UNCHANGED <<h3, h4, h5, h6, h7, h8, h9>>
    \/ part = "desktop" /\ Desktop!DesktopNext /\ UNCHANGED <<h8, h9>>
    \/ part = "socket" /\ Socket!SockNext
    \/ part = "setup" /\ Setup!SetupNext /\ UNCHANGED <<h7, h8, h9>>
    \/ part = "keys" /\ Keys!KeysNext /\ UNCHANGED <<h7, h8, h9>>

AllNext ==
    /\ \/ part = "dht" /\ DhtNext /\ UNCHANGED <<flightVars, coreVars, mobileVars, vaultVars, hostVars>>
       \/ part = "flight" /\ FlightNext /\ UNCHANGED <<dhtVars, coreVars, mobileVars, vaultVars, hostVars>>
       \/ part = "core" /\ CoreNext /\ UNCHANGED <<dhtVars, flightVars, mobileVars, vaultVars, hostVars>>
       \/ part = "mobile" /\ MobileNext /\ UNCHANGED <<dhtVars, flightVars, coreVars, vaultVars, hostVars>>
       \/ part = "vault" /\ VaultNext /\ UNCHANGED <<dhtVars, flightVars, coreVars, mobileVars, hostVars>>
       \/ HostNext /\ UNCHANGED <<dhtVars, flightVars, coreVars, mobileVars, vaultVars>>
    /\ UNCHANGED part

-----------------------------------------------------------------------------
(* With a resolver, everyone an accepted message speaks for took part: the *)
(* signer signed this descriptor, and an author or owner other than the    *)
(* one who signed signed a delegated grant naming that signer.  And whom   *)
(* the handler takes a message to be from is whom every later reader of    *)
(* the stored message does (validate_authorization_signature,              *)
(* message_author).  And what a client can make the node takes, but for a  *)
(* MessagesSync that names grants (Message::create).                       *)
SpeaksForThemselves ==
    part = "path" => Path!SpeaksForThemselves /\ Path!AuthorAgrees /\ Path!BuiltIsAccepted

(* No event is lost, doubled or left behind: while the peer is there every  *)
(* message pushed to a subscription is in exactly one place, and it waits   *)
(* in the buffer only while the window is full or its release is under way, *)
(* though push and ack both drop the flow's lock to send (FlowController,   *)
(* ws.rs).                                                                  *)
NoEventLostOrStuck == part = "socket" => Socket!NoEventLostOrStuck

(* A start or a stop that succeeds leaves the node, its server and its     *)
(* advert telling one story, whatever earlier calls failed half way: a     *)
(* running node is published under its own advert, the server serves       *)
(* exactly when the mode is the loopback one and then on the endpoints     *)
(* published, and a stopped node has neither server nor advert             *)
(* (DesktopLocalNode::start and stop, desktop/mod.rs).                     *)
OkMeansCoherent == part = "desktop" => Desktop!OkMeansCoherent

(* A flow that returned Ok did all of its work, whatever had failed before, *)
(* and however often it was run a protocol is configured at most once on a  *)
(* node (initialize_from_recovery, register_with_dwn_endpoints,             *)
(* run_restore_flow, push_protocol).                                        *)
FlowsExact == part = "setup" => Setup!FlowsExact

(* Whatever the owner reconfigures, a key that is handed out opens what it  *)
(* was asked for and no more than its grant covers, through a delivered     *)
(* record or in a delegate's session (verify_grant_key_resolution,          *)
(* derive_delegate_keys).                                                   *)
KeysOpen == part = "keys" => Keys!KeysOpen

================================================================================
