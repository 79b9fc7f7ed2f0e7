------------------------------- MODULE AgentSetup -------------------------------
(***************************************************************************)
(* Setting up an agent (dwn-rs-agent agent/service.rs, auth/setup.rs;      *)
(* enbox-ffi setup.rs, http_registration.rs): the identity derived from a  *)
(* recovery phrase is stored, the agent's and the connected DID are        *)
(* registered with the DWN endpoints, and the protocols are installed on   *)
(* the local node and pushed to the remote one.  One flow runs at a time.  *)
(* Every await may fail; a request to a server may fail before or after    *)
(* the server did its part; the process may stop anywhere.  A flow that    *)
(* failed is run again from its start by the host.                         *)
(* A registration token is [fresh, refresh]: not expired, and carrying a   *)
(* refresh token.  An installed definition is "plain" or "encrypted".      *)
(***************************************************************************)
EXTENDS Naturals, Sequences, SequencesExt, FiniteSets

CONSTANTS Phrases, Endpoints, Required, ProviderAuth, AgentDid, ConnectedDid,
          Protocols, Encrypted, FlatReplies, MaxConfigures, None

VARIABLES secrets,      \* SecretStore: did, cek, salt, tokens
          registered,   \* the <<endpoint, did>> pairs the servers know
          installed,    \* installed[n][p], n the "local" or "remote" node: None or a definition
          configures,   \* configures[n][p]: the ProtocolsConfigure messages n accepted
          flow,         \* the flow in progress
          outcome       \* the last flow that returned Ok, and its report

setupVars == <<secrets, registered, installed, configures, flow, outcome>>

Idle == [at |-> "idle"]
Nodes == {"local", "remote"}

(* The `?` of an await that fails, and a process that stops. *)
Fail == flow' = Idle /\ UNCHANGED outcome
Return(report) == flow' = Idle /\ outcome' = report

Abandon ==
    /\ flow # Idle
    /\ Fail
    /\ UNCHANGED <<secrets, registered, installed, configures>>

-----------------------------------------------------------------------------
(* AgentIdentityService::initialize_from_recovery: three puts in a row.    *)
(* The derived secrets of a phrase are named by it.                        *)

initialize_from_recovery(phrase) ==
    /\ flow = Idle
    /\ flow' = [at |-> "did", phrase |-> phrase]
    /\ outcome' = None
    /\ UNCHANGED <<secrets, registered, installed, configures>>

PutSecret ==
    /\ flow.at \in {"did", "cek", "salt"}
    /\ secrets' = [secrets EXCEPT ![flow.at] = flow.phrase]
    /\ IF flow.at = "salt" THEN Return([flow |-> "identity", phrase |-> flow.phrase])
       ELSE flow' = [flow EXCEPT !.at = IF @ = "did" THEN "cek" ELSE "salt"] /\ UNCHANGED outcome
    /\ UNCHANGED <<registered, installed, configures>>

stored_agent_did == secrets.did

-----------------------------------------------------------------------------
(* register_with_dwn_endpoints *)

(* Mutant: the connected DID is taken for the agent's own. *)
unique_dids_Agent(a, b) == <<a>>

unique_dids(a, b) == IF a = b THEN <<a>> ELSE <<a, b>>

load_registration_tokens(persist, given) == IF persist THEN secrets.tokens ELSE given

register_with_dwn_endpoints(persist, given) ==
    /\ flow = Idle
    /\ flow' = [at |-> "info", todo |-> SetToSeq(Endpoints), persist |-> persist,
                tokens |-> load_registration_tokens(persist, given), records |-> {}]
    /\ outcome' = None
    /\ UNCHANGED <<secrets, registered, installed, configures>>

(* server_info, then the token.  An expired token is refreshed when it can *)
(* be; without a usable one the registration is anonymous.                 *)
ServerInfo ==
    LET e == Head(flow.todo)
        dids == unique_dids(AgentDid, ConnectedDid)
        token == flow.tokens[e]
        register(t) == [at |-> "register", todo |-> flow.todo, dids |-> dids, token |-> t,
                        persist |-> flow.persist, tokens |-> [flow.tokens EXCEPT ![e] = t],
                        records |-> flow.records]
        anonymous == [register(token) EXCEPT !.token = None]
    IN  /\ flow.at = "info" /\ flow.todo # <<>>
        /\ IF e \notin Required
           THEN flow' = [flow EXCEPT !.todo = Tail(@),
                            !.records = @ \cup {<<e, d, "NotRequired">> : d \in ToSet(dids)}]
           ELSE IF e \notin ProviderAuth \/ token = None THEN flow' = anonymous
           ELSE IF token.fresh THEN flow' = register(token)
           ELSE IF token.refresh
           THEN \E again \in BOOLEAN : flow' = register([fresh |-> TRUE, refresh |-> again])
           ELSE flow' = anonymous
        /\ UNCHANGED <<secrets, registered, installed, configures, outcome>>

RegisterTenant ==
    LET e == Head(flow.todo)
        d == Head(flow.dids)
        method == IF flow.token = None THEN "Anonymous" ELSE "ProviderAuthToken"
        last == Tail(flow.dids) = <<>>
        recorded == flow.records \cup {<<e, d, method>>}
    IN  /\ flow.at = "register"
        /\ registered' = registered \cup {<<e, d>>}
        /\ \/ /\ flow' = IF last
                         THEN [at |-> "info", todo |-> Tail(flow.todo), persist |-> flow.persist,
                               tokens |-> flow.tokens, records |-> recorded]
                         ELSE [flow EXCEPT !.dids = Tail(@), !.records = recorded]
              /\ UNCHANGED outcome
           \/ Fail
        /\ UNCHANGED <<secrets, installed, configures>>

(* Only a flow that reaches its end saves the tokens it refreshed. *)
save_registration_tokens ==
    /\ flow.at = "info" /\ flow.todo = <<>>
    /\ secrets' = IF flow.persist THEN [secrets EXCEPT !.tokens = flow.tokens] ELSE secrets
    /\ Return([flow |-> "registration", records |-> flow.records])
    /\ UNCHANGED <<registered, installed, configures>>

TokenExpires(e) ==
    /\ flow = Idle /\ secrets.tokens[e] # None
    /\ secrets' = [secrets EXCEPT !.tokens[e].fresh = FALSE]
    /\ UNCHANGED <<registered, installed, configures, flow, outcome>>

-----------------------------------------------------------------------------
(* install_protocol_if_needed, push_protocol_if_needed and                 *)
(* run_restore_flow: todo is the queue of <<node, protocol>>.              *)

Install(todo, name) ==
    /\ flow = Idle
    /\ flow' = [at |-> "query", todo |-> todo, name |-> name, report |-> {}]
    /\ outcome' = None
    /\ UNCHANGED <<secrets, registered, installed, configures>>

install_protocol(p) == Install(<<<<"local", p>>>>, "install")
push_protocol(p) == Install(<<<<"remote", p>>>>, "push")

run_restore_flow ==
    LET all == SetToSeq(Protocols)
        On(n) == [i \in DOMAIN all |-> <<n, all[i]>>]
    IN  Install(On("local") \o On("remote"), "restore")

InstallResult(n, p, new, active) ==
    [node |-> n, protocol |-> p, installed |-> new, encryptionActive |-> active]

Done(result) ==
    LET report == flow.report \cup {result}
    IN  IF Tail(flow.todo) = <<>> THEN Return([flow |-> flow.name, report |-> report])
        ELSE /\ flow' = [flow EXCEPT !.at = "query", !.todo = Tail(@), !.report = report]
             /\ UNCHANGED outcome

(* query_protocol reads `entries` at the top of the reply.  The HTTP       *)
(* endpoint does too, which is where @enbox/dwn-server puts them; the      *)
(* loopback server of this repository puts them under `body`.              *)
query_protocol(n, p) ==
    IF n = "local" \/ FlatReplies THEN installed[n][p] ELSE None

QueryProtocol ==
    LET n == Head(flow.todo)[1]
        p == Head(flow.todo)[2]
        found == query_protocol(n, p)
    IN  /\ flow.at = "query"
        /\ IF found # None
           THEN Done(InstallResult(n, p, FALSE, p \in Encrypted /\ found = "encrypted"))
           ELSE flow' = [flow EXCEPT !.at = "configure"] /\ UNCHANGED outcome
        /\ UNCHANGED <<secrets, registered, installed, configures>>

(* Key agreement is injected at the root and every path before the         *)
(* definition of a protocol that requires encryption is sent.              *)
inject_protocol_encryption(p) == IF p \in Encrypted THEN "encrypted" ELSE "plain"

ConfigureProtocol ==
    LET n == Head(flow.todo)[1]
        p == Head(flow.todo)[2]
    IN  /\ flow.at = "configure" /\ configures[n][p] < MaxConfigures
        /\ installed' = [installed EXCEPT ![n][p] = inject_protocol_encryption(p)]
        /\ configures' = [configures EXCEPT ![n][p] = @ + 1]
        /\ Done(InstallResult(n, p, TRUE, p \in Encrypted)) \/ Fail
        /\ UNCHANGED <<secrets, registered>>

(* Another device may already have configured a protocol on the remote.    *)
SetupInit ==
    /\ secrets = [did |-> None, cek |-> None, salt |-> None,
                  tokens |-> [e \in Endpoints |-> IF e \in ProviderAuth
                                 THEN [fresh |-> FALSE, refresh |-> TRUE] ELSE None]]
    /\ registered = {}
    /\ \E remote \in [Protocols -> {None, "plain"}] :
          installed = [local |-> [p \in Protocols |-> None], remote |-> remote]
    /\ configures = [n \in Nodes |-> [p \in Protocols |-> 0]]
    /\ flow = Idle
    /\ outcome = None

SetupNext ==
    \/ \E phrase \in Phrases : initialize_from_recovery(phrase)
    \/ PutSecret
    \/ \E persist \in BOOLEAN :
          register_with_dwn_endpoints(persist, [e \in Endpoints |-> None])
    \/ \E e \in Endpoints : TokenExpires(e)
    \/ ServerInfo \/ RegisterTenant \/ save_registration_tokens
    \/ \E p \in Protocols : install_protocol(p) \/ push_protocol(p)
    \/ run_restore_flow \/ QueryProtocol \/ ConfigureProtocol
    \/ Abandon

-----------------------------------------------------------------------------
(* A flow that returned Ok did all of its work, whatever had failed        *)
(* before: the three secrets of an identity come from its phrase; every    *)
(* endpoint that asks for registration knows both DIDs; and a restore left *)
(* every protocol on both nodes, with encryption reported active exactly   *)
(* where the installed definition carries keys.                            *)
OkMeansDone ==
    outcome = None \/
    CASE outcome.flow = "identity" ->
            \A s \in {"did", "cek", "salt"} : secrets[s] = outcome.phrase
      [] outcome.flow = "registration" ->
            Required \X {AgentDid, ConnectedDid} \subseteq registered
      [] OTHER ->
            /\ outcome.flow = "restore" =>
                  \A n \in Nodes, p \in Protocols : installed[n][p] # None
            /\ \A r \in outcome.report :
                  r.encryptionActive = (installed[r.node][r.protocol] = "encrypted")

(* A protocol is configured at most once on a node, however often a flow   *)
(* fails after its ProtocolsConfigure arrived and is run again: the query  *)
(* finds it installed ("when the protocol is already installed it returns  *)
(* {installed: false, ...} without sending a configure").                  *)
ConfiguredOnce == \A n \in Nodes, p \in Protocols : configures[n][p] =< 1

(* A flow that returned Ok did all of its work, whatever had failed before, *)
(* and however often it was run a protocol is configured at most once on a  *)
(* node (initialize_from_recovery, register_with_dwn_endpoints,             *)
(* run_restore_flow, push_protocol).                                        *)
FlowsExact == OkMeansDone /\ ConfiguredOnce

================================================================================
