----------------------------- MODULE ListrSessions -----------------------------
(***************************************************************************)
(* The connections of the server (packages/server/src/index.ts): how each  *)
(* comes to act for a user, by authentication or by redeeming a grant, and *)
(* which broadcasts it is subscribed to.  The identity store is that of    *)
(* ListrGrants; every change of it is a transaction of that module.        *)
(*                                                                         *)
(* Handlers run to completion, except for two awaited calls: the           *)
(* thumbprint of a hello and the verification of a signature.  What comes  *)
(* after them runs whatever was said meanwhile: another hello, a grant     *)
(* redeemed, another signature to verify, the end of the socket.           *)
(***************************************************************************)
EXTENDS ListrGrants

CONSTANTS
    Conn,           \* sockets; each is opened at most once
    AllowBootstrap, \* allow_bootstrap
    MaxHellos       \* bound: hellos, of all sockets

ASSUME SessionsAssumption ==
    AllowBootstrap \in BOOLEAN /\ MaxHellos \in Nat /\ User \cap Key = {}

VARIABLES
    conn,       \* conn[x]: what the closure of a socket holds
    routes,     \* keyToClients, a home key being its user's id
    hellos      \* how many hellos there were

sessionsVars == <<grantsVars, conn, routes, hellos>>

Route == Key \union User

ConnState ==
    [stage : {"new", "open", "closed"},
     nonce : BOOLEAN,                   \* a challenge is pending
     verifying : SUBSET Client,         \* capturedClientId of the verifications under way
     completing : User \union {NoUser}, \* completeAuthentication is to run
     client : Client \union {Absent},   \* clientId, the last hello's
     declared : SUBSET Key,             \* declaredKeys, the last hello's
     user : User \union {NoUser},       \* userId, once authenticated
     keys : SUBSET Route,               \* syncKeys
     vouched : SUBSET Client,           \* history: clients that signed, or got an account, here
     linked : SUBSET User]              \* history: issuers of the device links redeemed here

SessionsTypeOK ==
    /\ GrantsTypeOK
    /\ conn \in [Conn -> ConnState]
    /\ routes \in [Route -> SUBSET Conn]
    /\ hellos \in Nat

Open(x) == conn[x].stage = "open"
Authenticated(x) == conn[x].user # NoUser

\* completeAuthentication is called, never scheduled: nothing comes between.
HandlerDone == \A x \in Conn : conn[x].completing = NoUser

\* A handler of the socket x, which acts for a user.
Handles(x) == HandlerDone /\ Open(x) /\ Authenticated(x)

-----------------------------------------------------------------------------
(* Authentication.                                                         *)

\* The thumbprint of a hello is computed: the socket speaks for c from now on, whoever
\* it acts for, and has a new challenge.
Hello(x, c, declared) ==
    /\ HandlerDone
    /\ hellos < MaxHellos /\ hellos' = hellos + 1
    /\ conn' = [conn EXCEPT
           ![x].stage = IF @ = "new" THEN "open" ELSE @,
           ![x].nonce = TRUE,
           ![x].client = c, ![x].declared = declared]
    /\ UNCHANGED <<grantsVars, routes>>

\* The challenge is used up.  Unless it is too old, a verification starts; the model has
\* one at a time for a client on a socket.
Auth(x) ==
    /\ HandlerDone
    /\ Open(x) /\ conn[x].nonce
    /\ \/ conn' = [conn EXCEPT ![x].nonce = FALSE]
       \/ /\ conn[x].client \notin conn[x].verifying
          /\ conn' = [conn EXCEPT ![x].nonce = FALSE, ![x].verifying = @ \union {conn[x].client}]
    /\ UNCHANGED <<grantsVars, routes>>

\* The verification of c's signature is done.
Verified(x, c) == HandlerDone /\ c \in conn[x].verifying

\* The signature is wrong, or the verification fails.
AuthFails(x, c) ==
    /\ Verified(x, c)
    /\ conn' = [conn EXCEPT ![x].verifying = @ \ {c}]
    /\ UNCHANGED <<grantsVars, routes>>

\* The user an authenticated client gets, or NoUser: error, or needs_grant.
UserToBe(c) ==
    IF Registered(c) /\ EffectiveState(client[c]) = "active" THEN client[c] ELSE NoUser

\* The client that signed is registered for an active user, or not.
AuthKnown(x, c) ==
    /\ Verified(x, c)
    /\ Registered(c) \/ ~(AllowBootstrap /\ Users = {})
    /\ conn' = [conn EXCEPT ![x].verifying = @ \ {c}, ![x].vouched = @ \union {c},
                            ![x].completing = UserToBe(c)]
    /\ UNCHANGED <<grantsVars, routes>>

\* Mutation of AuthClaims: the server is claimed for whom the socket speaks for by now.
AuthClaimsByNow(x, c, u) ==
    /\ Verified(x, c)
    /\ AllowBootstrap
    /\ ClaimEmptyServer(conn[x].client, u)
    /\ conn' = [conn EXCEPT ![x].verifying = @ \ {c}, ![x].vouched = @ \union {c},
                            ![x].completing = u]
    /\ UNCHANGED routes

AuthClaims(x, c, u) ==
    /\ Verified(x, c)
    /\ AllowBootstrap
    /\ ClaimEmptyServer(c, u)
    /\ conn' = [conn EXCEPT ![x].verifying = @ \ {c}, ![x].vouched = @ \union {c},
                            ![x].completing = u]
    /\ UNCHANGED routes

\* Mutation of Complete: the socket is subscribed to what the client declared only.
CompleteDeclared(x) ==
    LET u == conn[x].completing
        ks == {u} \union conn[x].declared
    IN
    /\ u # NoUser
    /\ AssociateUserKeys(u, conn[x].declared)
    /\ conn' = [conn EXCEPT ![x].completing = NoUser, ![x].user = u, ![x].keys = ks \union keys[u]]
    /\ routes' = [k \in Route |-> IF k \in ks THEN routes[k] \union {x} ELSE routes[k]]

\* completeAuthentication: the keys the last hello declared become the user's, and the
\* socket is subscribed to all of the user's keys, beside what it was subscribed to.
Complete(x) ==
    LET u == conn[x].completing
        ks == {u} \union conn[x].declared \union keys[u]
    IN
    /\ u # NoUser
    /\ AssociateUserKeys(u, conn[x].declared)
    /\ conn' = [conn EXCEPT ![x].completing = NoUser, ![x].user = u, ![x].keys = ks]
    /\ routes' = [k \in Route |-> IF k \in ks THEN routes[k] \union {x} ELSE routes[k]]

-----------------------------------------------------------------------------
(* The other handlers.                                                     *)

\* redeem_grant, from whoever said hello, signed or not.
RedeemGrant(x, g, right, u) ==
    LET c == conn[x].client IN
    /\ HandlerDone /\ Open(x)
    /\ \/ /\ RedeemFails(g, c, right)
          /\ UNCHANGED conn
       \/ /\ \/ RedeemMints(g, c, right, u)
             \/ RedeemAttaches(g, c, right, u)
             \/ RedeemShares(g, c, right, u)
          /\ grant[g].kind = "share" => u = conn[x].user
          /\ conn' = [conn EXCEPT
                 ![x].completing = u,
                 ![x].vouched = IF grant[g].kind \in {"invite", "guest"} THEN @ \union {c} ELSE @,
                 ![x].linked = IF grant[g].kind = "device" THEN @ \union {grant[g].issuer} ELSE @]
    /\ UNCHANGED routes

PeekGrant(x, g) ==
    /\ HandlerDone /\ Open(x)
    /\ PeekFails(g)
    /\ UNCHANGED <<conn, routes>>

CreateGrantFor(x, g) ==
    /\ Handles(x)
    /\ IssueGrant(g, conn[x].user)
    /\ UNCHANGED <<conn, routes>>

AssociateKey(x, k) ==
    /\ Handles(x)
    /\ AssociateUserKeys(conn[x].user, {k})
    /\ conn' = [conn EXCEPT ![x].keys = @ \union {k}]
    /\ routes' = [routes EXCEPT ![k] = @ \union {x}]

\* Any key, the user's own home key included, which user_keys never holds.
LeaveKey(x, k) ==
    /\ Handles(x)
    /\ RemoveUserKey(conn[x].user, k)
    /\ conn' = [conn EXCEPT ![x].keys = @ \ {k}]
    /\ routes' = [routes EXCEPT ![k] = @ \ {x}]

Close(x) ==
    /\ HandlerDone /\ conn[x].stage # "closed"
    /\ conn' = [conn EXCEPT ![x].stage = "closed"]
    /\ routes' = [k \in Route |-> IF k \in conn[x].keys THEN routes[k] \ {x} ELSE routes[k]]
    /\ UNCHANGED grantsVars

-----------------------------------------------------------------------------
SessionsInit ==
    /\ GrantsInit
    /\ conn = [x \in Conn |->
           [stage |-> "new", nonce |-> FALSE, verifying |-> {},
            completing |-> NoUser, client |-> Absent, declared |-> {}, user |-> NoUser,
            keys |-> {}, vouched |-> {}, linked |-> {}]]
    /\ routes = [k \in Route |-> {}]
    /\ hellos = 0

Answer(x) ==
    \/ Auth(x)
    \/ \E c \in Client :
          \/ AuthFails(x, c)
          \/ AuthKnown(x, c)
          \/ \E u \in User : AuthClaims(x, c, u)
    \/ Complete(x)
    \/ \E g \in Grant :
          \/ \E right \in BOOLEAN, u \in User : RedeemGrant(x, g, right, u)
          \/ PeekGrant(x, g)
          \/ CreateGrantFor(x, g)
    \/ \E k \in Key : AssociateKey(x, k)
    \/ \E k \in Route : LeaveKey(x, k)
    \/ Close(x)

Handler(x) ==
    \/ \E c \in Client, declared \in SUBSET Key : Hello(x, c, declared)
    \/ Answer(x) /\ UNCHANGED hellos

\* The operator's tool works on the database, and tells no connection; grants expire.
Elsewhere ==
    /\ HandlerDone
    /\ \/ Operate
       \/ \E g \in Grant : Expire(g) \/ \E u \in User : IssueGrant(g, u)
       \/ \E u \in User, k \in Key : AssociateUserKeys(u, {k}) \/ RemoveUserKey(u, k)
    /\ UNCHANGED <<conn, routes, hellos>>

SessionsNext == (\E x \in Conn : Handler(x)) \/ Elsewhere

SessionsSpec == SessionsInit /\ [][SessionsNext]_sessionsVars

-----------------------------------------------------------------------------
(* Properties.                                                             *)

\* A key the server counts as a connection's is one whose broadcasts reach it, however
\* often the socket authenticates and as whom (syncKeys and keyToClients are updated
\* apart, by completeAuthentication, associate_key and leave_key).
KeysAreRouted == \A x \in Conn : Open(x) => \A k \in conn[x].keys : x \in routes[k]

\* A closed socket is subscribed to nothing (the close handler).
ClosedNotRouted ==
    HandlerDone => \A x \in Conn, k \in Route : conn[x].stage = "closed" => x \notin routes[k]

\* The users a socket acts for or hears of: its own, and those whose home key it is
\* subscribed to.
ActsFor(x) == ({conn[x].user} \ {NoUser}) \union {u \in User : x \in routes[u]}

\* Whom it may act for: the users of the clients that signed a challenge of this very
\* socket, or got an account on it, and whoever issued a device link redeemed on it.
MayActFor(x) == {client[c] : c \in conn[x].vouched} \union conn[x].linked

\* A socket acts for nobody else, whatever it says while a signature is verified: a hello
\* in another client's name changes whom it speaks for and never whom it acts for
\* (capturedClientId in the auth handler, completeAuthentication).
ActsForOwner == \A x \in Conn : ActsFor(x) \subseteq MayActFor(x)

\* The client a socket speaks for is the user's it acts for.
ActsForRegistered ==
    \A x \in Conn : Authenticated(x) => client[conn[x].client] = conn[x].user

\* A user who is suspended or revoked, or below one who is, is cut off.
CutOff ==
    \A x \in Conn : Open(x) /\ Authenticated(x) => EffectiveState(conn[x].user) = "active"
=============================================================================
