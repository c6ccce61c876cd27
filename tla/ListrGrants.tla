------------------------------ MODULE ListrGrants ------------------------------
(***************************************************************************)
(* Identity on the server (packages/server/src/db.ts): users in a tree of  *)
(* authorization, the clients (keypairs) that act for them, and the grants *)
(* (join links) by which users invite people, attach their own devices and *)
(* hand over sync keys.                                                    *)
(*                                                                         *)
(* Every action is one transaction of the store.  ListrSessions calls them *)
(* from the connection handlers; the operator's come from auth-cli.        *)
(***************************************************************************)
EXTENDS Naturals, FiniteSets

CONSTANTS
    User,           \* ids of users
    Client,         \* ids (thumbprints) of clients
    Grant,          \* ids of grants
    Key,            \* sync keys that are handed over
    Kind,           \* the kinds of grants that are issued
    NoUser, NoKey,
    Absent,         \* no row
    MaxAttempts,    \* MAX_GRANT_ATTEMPTS
    MaxTreeDepth,   \* MAX_TREE_DEPTH
    MaxUses,        \* bound: uses_remaining of a new grant
    MaxOps          \* bound: actions of the operator

ASSUME GrantsAssumption ==
    /\ NoUser \notin User /\ NoKey \notin Key
    /\ Absent \notin User
    /\ Kind \subseteq {"invite", "guest", "device", "share"}
    /\ MaxAttempts \in Nat \ {0} /\ MaxTreeDepth \in Nat \ {0} /\ MaxUses \in Nat \ {0}
    /\ MaxOps \in Nat

Cap == {"sync", "invite", "moderate", "admin"}
State == {"active", "suspended", "revoked"}

VARIABLES
    user,       \* users: the row, or Absent
    root,       \* server_config.root_user_id
    client,     \* clients: the user a client is registered for, or Absent
    keys,       \* user_keys
    grant,      \* grants: the row, or Absent
    redeemed,   \* grant_redemptions: how many rows a grant has
    minter,     \* history: who issued the grant a user came from
    extra,      \* history: the capabilities the operator gave a user
    ops         \* actions of the operator so far

grantsVars == <<user, root, client, keys, grant, redeemed, minter, extra, ops>>

UserRow == [authorized_by : User \union {NoUser}, caps : SUBSET Cap,
            state : State, provisional : BOOLEAN]

\* offered is history: the uses the grant had when it was issued.
GrantRow == [kind : Kind, issuer : User, caps : SUBSET Cap, payload : Key \union {NoKey},
             live : BOOLEAN, uses : Nat, offered : Nat, attempts : Nat]

ASSUME AbsentIsNoRow == Absent \notin UserRow /\ Absent \notin GrantRow

Users == {u \in User : user[u] # Absent}
Grants == {g \in Grant : grant[g] # Absent}
Registered(c) == client[c] # Absent

GrantsTypeOK ==
    /\ user \in [User -> UserRow \union {Absent}]
    /\ root \in User \union {NoUser}
    /\ client \in [Client -> User \union {Absent}]
    /\ keys \in [User -> SUBSET Key]
    /\ grant \in [Grant -> GrantRow \union {Absent}]
    /\ redeemed \in [Grant -> Nat]
    /\ minter \in [User -> User \union {NoUser}]
    /\ extra \in [User -> SUBSET Cap]
    /\ ops \in Nat

-----------------------------------------------------------------------------
(* The tree.                                                               *)

\* The k-th user on the way up from u, or NoUser above the top.
Above(u) ==
    LET up[k \in Nat] ==
            IF k = 0 THEN u
            ELSE IF up[k - 1] = NoUser THEN NoUser ELSE user[up[k - 1]].authorized_by
    IN  up

\* The users on the path from u up, as far as n steps take one.
Path(u, n) == {Above(u)[k] : k \in 0 .. n} \ {NoUser}

\* getEffectiveState: the worst state on the path.
EffectiveState(u) ==
    LET states == {user[x].state : x \in Path(u, MaxTreeDepth)} IN
    IF "revoked" \in states THEN "revoked"
    ELSE IF "suspended" \in states THEN "suspended" ELSE "active"

\* isAncestorOf(a, u): does the walk up from u meet a?
IsAncestorOf(a, u) == a \in Path(u, MaxTreeDepth - 1)

-----------------------------------------------------------------------------
(* The operator.                                                           *)

NewUser(by, caps, provisional) ==
    [authorized_by |-> by, caps |-> caps, state |-> "active", provisional |-> provisional]

\* Mint the root user; once there is one, nothing happens.
BootstrapRootUser(u) ==
    /\ root = NoUser
    /\ user[u] = Absent
    /\ user' = [user EXCEPT ![u] = NewUser(NoUser, Cap, FALSE)]
    /\ root' = u
    /\ extra' = [extra EXCEPT ![u] = Cap]
    /\ UNCHANGED <<client, keys, grant, redeemed, minter>>

SetUserState(u, s) ==
    /\ u \in Users /\ user[u].state # s
    /\ user' = [user EXCEPT ![u].state = s]
    /\ UNCHANGED <<root, client, keys, grant, redeemed, minter, extra>>

\* promote and grant-admin: the operator adds capabilities.
PromoteProvisionalUser(u, caps) ==
    /\ u \in Users /\ (user[u].provisional \/ ~(caps \subseteq user[u].caps))
    /\ user' = [user EXCEPT ![u].provisional = FALSE, ![u].caps = @ \union caps]
    /\ extra' = [extra EXCEPT ![u] = @ \union caps]
    /\ UNCHANGED <<root, client, keys, grant, redeemed, minter>>

GrantAdminCap(u) ==
    /\ u \in Users /\ "admin" \notin user[u].caps
    /\ user' = [user EXCEPT ![u].caps = @ \union {"admin"}]
    /\ extra' = [extra EXCEPT ![u] = @ \union {"admin"}]
    /\ UNCHANGED <<root, client, keys, grant, redeemed, minter>>

\* Mutation of Reparentable: nothing but the user itself is refused.
ReparentableToAnyone(u, p) == p \in Users /\ p # u

Reparentable(u, p) == p \in Users /\ p # u /\ ~IsAncestorOf(u, p)

SetAuthorizedBy(u, p) ==
    /\ u \in Users /\ user[u].authorized_by # p
    /\ p = NoUser \/ Reparentable(u, p)
    /\ user' = [user EXCEPT ![u].authorized_by = p]
    /\ UNCHANGED <<root, client, keys, grant, redeemed, minter, extra>>

-----------------------------------------------------------------------------
(* Grants.                                                                 *)

\* Mutation of Attenuated: an issuer may ask for any capability but admin.
AttenuatedNot(issuer, caps) == "admin" \notin caps

Attenuated(issuer, caps) == "admin" \notin caps /\ caps \subseteq user[issuer].caps

\* What a kind of grant has no use for is not asked for.
GrantAsked(kind, asked, payload) ==
    /\ kind # "invite" => asked = {}
    /\ kind \in {"invite", "device"} => payload = NoKey

CreateGrant(g, kind, issuer, asked, payload, uses) ==
    /\ grant[g] = Absent
    /\ issuer \in Users /\ EffectiveState(issuer) = "active"
    /\ kind \in {"invite", "guest"} => "invite" \in user[issuer].caps
    /\ kind = "invite" => Attenuated(issuer, asked)
    /\ grant' = [grant EXCEPT ![g] =
           [kind |-> kind, issuer |-> issuer,
            caps |-> IF kind = "invite" THEN asked ELSE IF kind = "guest" THEN {"sync"} ELSE {},
            payload |-> payload,
            live |-> TRUE, uses |-> uses, offered |-> uses, attempts |-> 0]]
    /\ UNCHANGED <<user, root, client, keys, redeemed, minter, extra, ops>>

\* A grant of any kind, asked for by u or, with issue-grant, by the operator in u's name.
IssueGrant(g, u) ==
    \E kind \in Kind, asked \in SUBSET Cap, k \in Key \union {NoKey}, uses \in 1 .. MaxUses :
        /\ GrantAsked(kind, asked, k)
        /\ CreateGrant(g, kind, u, asked, k, uses)

Expire(g) ==
    /\ g \in Grants /\ grant[g].live
    /\ grant' = [grant EXCEPT ![g].live = FALSE]
    /\ UNCHANGED <<user, root, client, keys, redeemed, minter, extra, ops>>

Burned(g) == grant[g].attempts >= MaxAttempts

\* A failed attempt is counted, and the last one burns what is left.
CountAttempt(g) ==
    /\ grant' = [grant EXCEPT ![g].attempts = @ + 1,
                              ![g].uses = IF grant[g].attempts + 1 >= MaxAttempts THEN 0 ELSE @]
    /\ UNCHANGED <<user, root, client, keys, redeemed, minter, extra, ops>>

\* The secret is right, and there is a use left.
Spendable(g, right) == right /\ grant[g].uses > 0 /\ grant[g].live

\* An invite is refused to a client that has a user here, before anything is counted.
MayRedeem(g, c) ==
    /\ g \in Grants /\ ~Burned(g)
    /\ ~(grant[g].kind = "invite" /\ Registered(c))

RedeemFails(g, c, right) ==
    /\ MayRedeem(g, c)
    /\ ~Spendable(g, right)
    /\ CountAttempt(g)

\* Mutation of Spend: the redemption is recorded and the use is not taken.
SpendNothing(g) ==
    /\ grant' = grant
    /\ redeemed' = [redeemed EXCEPT ![g] = @ + 1]

Spend(g) ==
    /\ grant' = [grant EXCEPT ![g].uses = @ - 1]
    /\ redeemed' = [redeemed EXCEPT ![g] = @ + 1]

HandOver(g, u) ==
    keys' = [keys EXCEPT ![u] = @ \union ({grant[g].payload} \ {NoKey})]

\* An invite, or a guest link in the hands of somebody without an account: a user
\* below the issuer, with the client that redeems it.
RedeemMints(g, c, right, u) ==
    /\ MayRedeem(g, c) /\ Spendable(g, right)
    /\ grant[g].kind \in {"invite", "guest"}
    /\ grant[g].kind = "guest" => ~Registered(c)
    /\ user[u] = Absent
    /\ Spend(g)
    /\ user' = [user EXCEPT ![u] =
                  NewUser(grant[g].issuer, grant[g].caps, grant[g].kind = "guest")]
    /\ client' = IF Registered(c) THEN client ELSE [client EXCEPT ![c] = u]
    /\ HandOver(g, u)
    /\ minter' = [minter EXCEPT ![u] = grant[g].issuer]
    /\ UNCHANGED <<root, extra, ops>>

\* A device link: the client acts for the issuer, unless it acts for somebody already.
RedeemAttaches(g, c, right, u) ==
    /\ MayRedeem(g, c) /\ Spendable(g, right)
    /\ grant[g].kind = "device" /\ grant[g].issuer = u
    /\ Spend(g)
    /\ client' = IF Registered(c) THEN client ELSE [client EXCEPT ![c] = u]
    /\ UNCHANGED <<user, root, keys, minter, extra, ops>>

\* A share link, redeemed by the user u of the connection, or a guest link redeemed
\* by a client that acts for u: u gets the key.  Without a user a share link fails
\* after the use was taken, and the transaction rolls back.
RedeemShares(g, c, right, u) ==
    /\ MayRedeem(g, c) /\ Spendable(g, right)
    /\ grant[g].kind = "share" \/ (grant[g].kind = "guest" /\ client[c] = u)
    /\ u \in Users
    /\ Spend(g)
    /\ HandOver(g, u)
    /\ UNCHANGED <<user, root, client, minter, extra, ops>>

\* A wrong guess at the preview counts too.
PeekFails(g) ==
    /\ g \in Grants /\ ~Burned(g)
    /\ grant[g].live /\ grant[g].uses > 0
    /\ CountAttempt(g)

AssociateUserKeys(u, ks) ==
    /\ u \in Users
    /\ keys' = [keys EXCEPT ![u] = @ \union ks]
    /\ UNCHANGED <<user, root, client, grant, redeemed, minter, extra, ops>>

RemoveUserKey(u, k) ==
    /\ u \in Users
    /\ keys' = [keys EXCEPT ![u] = @ \ {k}]
    /\ UNCHANGED <<user, root, client, grant, redeemed, minter, extra, ops>>

\* The first client of a server without users claims it and becomes the root user.
ClaimEmptyServer(c, u) ==
    /\ Users = {}
    /\ ~Registered(c)
    /\ user' = [user EXCEPT ![u] = NewUser(NoUser, Cap, FALSE)]
    /\ root' = u
    /\ client' = [client EXCEPT ![c] = u]
    /\ extra' = [extra EXCEPT ![u] = Cap]
    /\ UNCHANGED <<keys, grant, redeemed, minter, ops>>

-----------------------------------------------------------------------------
GrantsInit ==
    /\ user = [u \in User |-> Absent]
    /\ root = NoUser
    /\ client = [c \in Client |-> Absent]
    /\ keys = [u \in User |-> {}]
    /\ grant = [g \in Grant |-> Absent]
    /\ redeemed = [g \in Grant |-> 0]
    /\ minter = [u \in User |-> NoUser]
    /\ extra = [u \in User |-> {}]
    /\ ops = 0

Operate ==
  /\ ops < MaxOps /\ ops' = ops + 1
  /\ \E u \in User :
        \/ BootstrapRootUser(u)
        \/ \E s \in State : SetUserState(u, s)
        \/ \E caps \in SUBSET Cap : PromoteProvisionalUser(u, caps)
        \/ GrantAdminCap(u)
        \/ \E p \in User \union {NoUser} : SetAuthorizedBy(u, p)

Redeem(g, c, right, u) ==
    \/ RedeemFails(g, c, right)
    \/ RedeemMints(g, c, right, u)
    \/ RedeemAttaches(g, c, right, u)
    \/ RedeemShares(g, c, right, u)

GrantsNext ==
    \/ Operate
    \/ \E g \in Grant :
          \/ \E u \in User : IssueGrant(g, u)
          \/ \E c \in Client, right \in BOOLEAN, u \in User : Redeem(g, c, right, u)
          \/ Expire(g)
          \/ PeekFails(g)
    \/ \E u \in User : (\E ks \in SUBSET Key : AssociateUserKeys(u, ks))
                       \/ (\E k \in Key : RemoveUserKey(u, k))
    \/ \E c \in Client, u \in User : ClaimEmptyServer(c, u)

GrantsSpec == GrantsInit /\ [][GrantsNext]_grantsVars

-----------------------------------------------------------------------------
(* Properties.                                                             *)

\* Every use of a grant is accounted for: it is left, or it was redeemed and had its
\* effect (attemptRedeemGrant and redeemGrant), unless wrong guesses burned the rest.
\* With one use, a link is redeemed at most once.
UsesAccounted ==
    \A g \in Grants :
        /\ grant[g].uses + redeemed[g] <= grant[g].offered
        /\ grant[g].uses + redeemed[g] = grant[g].offered
              \/ (Burned(g) /\ grant[g].uses = 0)

\* No redemption mints a user that no client can act for (redeemGrant, on invites).
NoOrphanUser ==
    \A u \in Users : minter[u] # NoUser => \E c \in Client : client[c] = u

\* What a user may do was handed down: beyond what the operator added, and sync,
\* which everybody gets, a user has no capability its minter lacks, and admin only
\* from the operator (assertCapsAttenuated, at the time the grant was issued).
CapsHandedDown ==
    \A u \in Users :
        /\ "admin" \in user[u].caps => "admin" \in extra[u]
        /\ minter[u] # NoUser =>
              user[u].caps \subseteq user[minter[u]].caps \union extra[u] \union {"sync"}

\* The users form a forest: nobody is above himself (setAuthorizedBy).
Forest ==
    \A u \in Users :
        user[u].authorized_by # NoUser => u \notin Path(user[u].authorized_by, Cardinality(User))
=============================================================================
