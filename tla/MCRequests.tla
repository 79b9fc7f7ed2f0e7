-------------------------------- MODULE MCRequests --------------------------------
(***************************************************************************)
(* The scenarios TLC explores with TenantNode.                             *)
(***************************************************************************)
EXTENDS TenantNode

Bob == "bob"
Carol == "carol"
Perms == "permissions"

Thread == <<"thread">>
Member == <<"thread", "member">>
Post == <<"thread", "post">>
Note == <<"note">>

Auth(author) ==
    [signer |-> author, author |-> author, dgrant |-> None, grant |-> None, grants |-> {},
     role |-> None, owner |-> None]
ByGrant(author, id) == [Auth(author) EXCEPT !.grant = id]
ByGrants(author, ids) == [Auth(author) EXCEPT !.grants = ids]
ByRole(author, path) == [Auth(author) EXCEPT !.role = Local(path)]

(* A message of a root record; EXCEPT changes the rest. *)
Blank(id, ts, signer) ==
    [id |-> id, iface |-> "Records", method |-> "Write", record |-> id, parent |-> None,
     ctx |-> <<id>>, protocol |-> "chat", path |-> Note, ts |-> ts, created |-> ts,
     initial |-> TRUE, latest |-> TRUE, signer |-> signer, dgrant |-> None, recipient |-> None,
     published |-> FALSE, grant |-> None, tags |-> None, data |-> None, squash |-> FALSE,
     env |-> None, prune |-> FALSE, def |-> None]

Under(m, parent, path) ==
    [m EXCEPT !.parent = parent, !.ctx = <<parent, m.record>>, !.path = path]

Update(m, id, ts, signer) ==
    [m EXCEPT !.id = id, !.ts = ts, !.signer = signer, !.initial = FALSE]

Removal(m, id, ts, signer) ==
    [Blank(id, ts, signer) EXCEPT !.method = "Delete", !.record = m.record, !.published = None,
                                  !.initial = FALSE]

Config(id, ts, def) ==
    [Blank(id, ts, Tenant) EXCEPT !.iface = "Protocols", !.method = "Configure", !.record = None,
                                  !.ctx = None, !.path = None, !.def = def,
                                  !.protocol = def.protocol, !.initial = FALSE]

Scope(iface, method, protocol, path) ==
    [iface |-> iface, method |-> method, protocol |-> protocol, ctx |-> None, path |-> path]

Grant(id, ts, grantee, scope) ==
    [Blank(id, ts, Tenant) EXCEPT
        !.protocol = PermissionsProtocol, !.path = GrantPath, !.recipient = grantee,
        !.tags = [protocol |-> scope.protocol],
        !.data = [expires |-> 9, delegated |-> FALSE, scope |-> scope, publication |-> None]]

Revocation(id, ts, grant) ==
    [Under(Blank(id, ts, Tenant), grant.record, RevocationPath) EXCEPT
        !.protocol = PermissionsProtocol, !.tags = grant.tags]

Control(id, ts, signer, path, role, ctx, key) ==
    [Blank(id, ts, signer) EXCEPT
        !.path = path,
        !.tags = [protocol |-> "chat", role |-> role, ctx |-> ctx, key |-> key,
                  authority |-> "roleHolder"],
        !.data = [claimed |-> [protocol |-> "chat", role |-> role, ctx |-> ctx, key |-> key],
                  key |-> key, seal |-> "roleKey"]]

Filter(path) ==
    [protocol |-> "chat", path |-> path, ctx |-> None, record |-> None, parent |-> None,
     recipient |-> None, author |-> None, published |-> None, tags |-> None]

Query(iface, ts) ==
    [iface |-> iface, method |-> "Query", ts |-> ts, protocol |-> None, prune |-> FALSE]
Live(iface, ts) == [Query(iface, ts) EXCEPT !.method = "Subscribe"]

Ask(auth, filter, ts) == [auth |-> auth, filter |-> filter, req |-> Query("Records", ts)]
Sub(auth, filter, ts) == [auth |-> auth, filter |-> filter, req |-> Live("Records", ts)]
MessagesFilter(protocol, path, ctx) ==
    [iface |-> IF path = None THEN None ELSE "Records", method |-> None, protocol |-> protocol,
     path |-> path, pathPrefix |-> None, ctx |-> ctx]
MSub(auth, filters, ts) == [auth |-> auth, filters |-> filters, req |-> Live("Messages", ts)]

(* The protocol: notes by anyone, threads with members who read and write   *)
(* posts, at most two posts visible per thread.                             *)
Chat(encrypted) ==
    [protocol |-> "chat", key |-> "rootKey", uses |-> <<>>,
     types |-> [t \in {"note", "thread", "member", "post"} |-> encrypted /\ t = "note"],
     rules |-> [p \in {Note, Thread, Member, Post} |->
        CASE p = Note -> [Rule({Who("anyone", None, {"create", "update"}),
                                Who("author", Local(Note), {"read"})})
                          EXCEPT !.key = "noteKey"]
          [] p = Thread -> Rule({Who("anyone", None, {"create", "read"})})
          [] p = Member -> [Rule({Who("author", Local(Thread), {"create", "delete"}),
                                  RoleAction(Local(Member), {"read"})})
                            EXCEPT !.role = TRUE, !.key = "roleKey"]
          [] OTHER -> [Rule({RoleAction(Local(Member), {"create", "read"}),
                             Who("author", Local(Thread), {"read"})})
                       EXCEPT !.limit = 2]]]

In(m, auth) == [m |-> m, auth |-> auth]

Scenario(base, inputs, calls, clock) ==
    [base |-> base, inputs |-> inputs, calls |-> calls, clock |-> clock,
     asks |-> {}, subs |-> {}, msubs |-> {}]

-----------------------------------------------------------------------------
(* A grant to write, used by an initial write and an update, and a grant to *)
(* read, both revoked by messages dated before or after what uses them.     *)
g1 == Grant(1, 1, Bob, Scope("Records", "Write", "chat", Note))
g2 == Grant(2, 1, Carol, Scope("Records", "Read", "chat", Note))
w1 == [Blank(11, 3, Bob) EXCEPT !.grant = 1]
w2 == [Update(w1, 12, 5, Bob) EXCEPT !.grant = 1]
w3 == Blank(13, 5, Tenant)

Revoking ==
    [Scenario({Config(100, 1, Chat(FALSE)), g1, g2},
              {In(w1, ByGrant(Bob, 1)), In(w2, ByGrant(Bob, 1)), In(w3, Auth(Tenant)),
               In(Revocation(21, 4, g1), Auth(Tenant)), In(Revocation(22, 6, g1), Auth(Tenant)),
               In(Revocation(23, 7, g2), Auth(Tenant))},
              2, {6, 8})
     EXCEPT !.asks = {Ask(ByGrant(Carol, 2), Filter(Note), 6), Ask(Auth(Bob), Filter(Note), 8)},
            !.subs = {Sub(ByGrant(Carol, 2), Filter(Note), 6), Sub(Auth(Bob), Filter(Note), 6)}]

(* A thread, a member, posts by the member; the member is removed.          *)
t1 == [Blank(1, 1, Carol) EXCEPT !.path = Thread]
t2 == [Blank(2, 1, Carol) EXCEPT !.path = Thread]
m1 == [Under(Blank(3, 2, Carol), 1, Member) EXCEPT !.recipient = Bob]
PostIn(id, ts, thread) == Under(Blank(id, ts, Bob), thread, Post)
InThread(path, thread) == [Filter(path) EXCEPT !.ctx = <<thread>>]

Membership ==
    [Scenario({Config(100, 1, Chat(FALSE)), t1, t2, m1, PostIn(4, 3, 1)},
              {In(PostIn(5, 3, 1), ByRole(Bob, Member)), In(PostIn(6, 4, 1), ByRole(Bob, Member)),
               In(PostIn(7, 4, 2), ByRole(Bob, Member)),
               In(Removal(m1, 8, 5, Carol), Auth(Carol))},
              2, {5})
     EXCEPT !.asks = {Ask(ByRole(Bob, Member), InThread(Post, 1), 5),
                      Ask(Auth(Carol), InThread(Post, 1), 5),
                      Ask(Auth(Tenant), InThread(Post, 1), 5)},
            !.subs = {Sub(ByRole(Bob, Member), InThread(Post, 1), 5),
                      Sub(Auth(Tenant), InThread(Post, 1), 5)},
            !.msubs = {MSub(ByRole(Bob, Member), {MessagesFilter("chat", Post, <<1>>)}, 5)}]

(* Plain and encrypted versions of the protocol, dated before and after     *)
(* the notes they meet, in any order of arrival.                            *)
plain(id, ts) == Blank(id, ts, Bob)
sealed(id, ts) == [Blank(id, ts, Bob) EXCEPT !.env = [paths |-> {"noteKey"}, roles |-> {}]]

Policies ==
    Scenario({Config(100, 3, Chat(FALSE))},
             {In(Config(101, 5, Chat(TRUE)), Auth(Tenant)),
              In(Config(102, 1, Chat(TRUE)), Auth(Tenant)),
              In(Config(103, 2, Chat(FALSE)), Auth(Tenant)),
              In(plain(11, 2), Auth(Bob)), In(plain(12, 4), Auth(Bob)),
              In(sealed(13, 1), Auth(Bob)), In(sealed(14, 6), Auth(Bob))},
             1, {8})

(* Audiences of one role from two creators, deliveries of its key, and      *)
(* notes, read by the tenant, the thread's author, the member, a delegate   *)
(* with a read grant, and nobody.                                           *)
audience(id, ts, by, key) == Control(id, ts, by, AudiencePath, Member, <<1>>, key)
delivery(id, ts, by, to, key) ==
    [Control(id, ts, by, DeliveryPath, Member, <<1>>, key) EXCEPT
        !.recipient = to, !.env = [paths |-> {}, roles |-> {}], !.data = None]
g3 == Grant(9, 1, Bob, Scope("Records", "Read", "chat", Thread))
g4 == Grant(10, 1, Carol, Scope("Messages", "Read", "chat", None))

ControlBase == {Config(100, 1, Chat(FALSE)), t1, m1, g3, g4, audience(31, 3, Carol, "k1"),
                plain(41, 3)}

Controls ==
    [Scenario(ControlBase,
              {In(audience(32, 4, Tenant, "k2"), Auth(Tenant)),
               In(audience(33, 4, Carol, "k3"), Auth(Carol)),
               In(delivery(34, 5, Carol, Bob, "k1"), Auth(Carol)),
               In(delivery(35, 5, Tenant, Bob, "k2"), Auth(Tenant)),
               In(Removal(audience(32, 4, Tenant, "k2"), 36, 6, Tenant), Auth(Tenant))},
              1, {8})
     EXCEPT !.asks = {Ask(auth, filter, 8) :
                        auth \in {None, Auth(Tenant), Auth(Carol), Auth(Bob), ByGrant(Bob, 9)},
                        filter \in {Filter(None), Filter(AudiencePath), Filter(DeliveryPath),
                                    [Filter(AudiencePath) EXCEPT
                                        !.tags = [protocol |-> "chat", role |-> Member,
                                                  ctx |-> <<1>>, key |-> None]]}}]

(* The same records arriving at subscribers, one of them under a grant that *)
(* is revoked.                                                              *)
Watching ==
    [Scenario(ControlBase,
              {In(audience(32, 4, Tenant, "k2"), Auth(Tenant)),
               In(audience(33, 4, Carol, "k3"), Auth(Carol)),
               In(delivery(34, 5, Carol, Bob, "k1"), Auth(Carol)),
               In(Revocation(37, 7, g4), Auth(Tenant))},
              1, {6, 8})
     EXCEPT !.subs = {Sub(Auth(Bob), Filter(DeliveryPath), 6),
                      Sub(Auth(Carol), Filter(AudiencePath), 6)},
            !.msubs = {MSub(ByGrants(Carol, {10}), {MessagesFilter("chat", None, None)}, 6),
                       MSub(Auth(Tenant), {}, 6)}]

MCScenarios == {Revoking, Membership, Policies, Controls, Watching}
MCLimits == {1, 2}
================================================================================
