-------------------------- MODULE ListrSessions_proofs --------------------------
(***************************************************************************)
(* What holds of identity and grants for any number of users, clients,     *)
(* grants and keys, and of the connections over them for any number of     *)
(* sockets.                                                                *)
(*                                                                         *)
(* The invariant of the store says where the rows refer to and that the    *)
(* capabilities of a pending invite are still its issuer's: users are      *)
(* never deleted and capabilities never taken away.  The connections       *)
(* change the store only by its transactions, so that what is proved of    *)
(* the store holds under them.                                             *)
(***************************************************************************)
EXTENDS ListrSessions, FiniteSetTheorems, TLAPS

-----------------------------------------------------------------------------
(* The store (ListrGrants)                                                 *)

\* A user that was minted is a row, and so is its minter.
MintersAreUsers ==
    \A u \in User : /\ user[u] = Absent => minter[u] = NoUser
                    /\ minter[u] # NoUser => minter[u] \in Users

NothingRedeemedUnissued == \A g \in Grant : grant[g] = Absent => redeemed[g] = 0

\* What a pending grant confers, its issuer still has.
GrantsWithinCaps ==
    \A g \in Grants :
        /\ grant[g].issuer \in Users
        /\ "admin" \notin grant[g].caps
        /\ grant[g].caps \subseteq user[grant[g].issuer].caps \union {"sync"}

GrantsInv ==
    /\ GrantsTypeOK
    /\ MintersAreUsers /\ NothingRedeemedUnissued /\ GrantsWithinCaps
    /\ UsesAccounted
    /\ NoOrphanUser
    /\ CapsHandedDown

LEMMA GrantsInitInv == GrantsInit => GrantsInv
  <1> SUFFICES ASSUME GrantsInit PROVE GrantsInv
    OBVIOUS
  <1> USE GrantsAssumption DEF GrantsInit
  <1>1. Users = {} /\ Grants = {}
    BY DEF Users, Grants
  <1>2. GrantsTypeOK
    BY DEF GrantsTypeOK
  <1>3. MintersAreUsers /\ NothingRedeemedUnissued /\ GrantsWithinCaps
    BY <1>1 DEF MintersAreUsers, NothingRedeemedUnissued, GrantsWithinCaps
  <1>4. UsesAccounted /\ NoOrphanUser /\ CapsHandedDown
    BY <1>1 DEF UsesAccounted, NoOrphanUser, CapsHandedDown
  <1> QED
    BY <1>2, <1>3, <1>4 DEF GrantsInv

\* Every transaction leaves the tables well typed.
LEMMA GrantsTypeStep == GrantsTypeOK /\ [GrantsNext]_grantsVars => GrantsTypeOK'
  <1> SUFFICES ASSUME GrantsTypeOK, [GrantsNext]_grantsVars PROVE GrantsTypeOK'
    OBVIOUS
  <1> USE GrantsAssumption, AbsentIsNoRow DEF GrantsTypeOK
  <1>1. ASSUME Operate PROVE GrantsTypeOK'
    <2>1. ops' \in Nat
      BY <1>1 DEF Operate
    <2>2. ASSUME NEW u \in User, BootstrapRootUser(u) PROVE GrantsTypeOK'
      BY <2>1, <2>2 DEF BootstrapRootUser, NewUser, UserRow, State
    <2>3. ASSUME NEW u \in User, NEW s \in State, SetUserState(u, s) PROVE GrantsTypeOK'
      <3>1. user[u] \in UserRow
        BY <2>3 DEF SetUserState, Users
      <3>2. [user[u] EXCEPT !.state = s] \in UserRow
        BY <3>1 DEF UserRow
      <3>3. QED
        BY <2>1, <2>3, <3>2 DEF SetUserState
    <2>4. ASSUME NEW u \in User, NEW caps \in SUBSET Cap, PromoteProvisionalUser(u, caps)
          PROVE  GrantsTypeOK'
      <3>1. user[u] \in UserRow
        BY <2>4 DEF PromoteProvisionalUser, Users
      <3>2. [user[u] EXCEPT !.provisional = FALSE, !.caps = @ \union caps] \in UserRow
        BY <3>1 DEF UserRow
      <3>3. QED
        BY <2>1, <2>4, <3>2 DEF PromoteProvisionalUser
    <2>5. ASSUME NEW u \in User, GrantAdminCap(u) PROVE GrantsTypeOK'
      <3>1. user[u] \in UserRow
        BY <2>5 DEF GrantAdminCap, Users
      <3>2. [user[u] EXCEPT !.caps = @ \union {"admin"}] \in UserRow
        BY <3>1 DEF UserRow, Cap
      <3>3. QED
        BY <2>1, <2>5, <3>2 DEF GrantAdminCap, Cap
    <2>6. ASSUME NEW u \in User, NEW p \in User \union {NoUser}, SetAuthorizedBy(u, p)
          PROVE  GrantsTypeOK'
      <3>1. user[u] \in UserRow
        BY <2>6 DEF SetAuthorizedBy, Users
      <3>2. [user[u] EXCEPT !.authorized_by = p] \in UserRow
        BY <3>1 DEF UserRow
      <3>3. QED
        BY <2>1, <2>6, <3>2 DEF SetAuthorizedBy
    <2> QED
      BY <1>1, <2>2, <2>3, <2>4, <2>5, <2>6 DEF Operate
  <1>2. ASSUME NEW g \in Grant, NEW kind \in Kind, NEW u \in User, NEW asked \in SUBSET Cap,
               NEW k \in Key \union {NoKey}, NEW uses \in 1 .. MaxUses,
               CreateGrant(g, kind, u, asked, k, uses)
        PROVE  GrantsTypeOK'
    <2>1. uses \in Nat
      OBVIOUS
    <2>2. [kind |-> kind, issuer |-> u,
           caps |-> IF kind = "invite" THEN asked ELSE IF kind = "guest" THEN {"sync"} ELSE {},
           payload |-> k, live |-> TRUE, uses |-> uses, offered |-> uses, attempts |-> 0]
             \in GrantRow
      BY <2>1 DEF GrantRow, Cap
    <2>3. QED
      BY <1>2, <2>2 DEF CreateGrant
  <1>3. ASSUME NEW g \in Grant, grant[g] \in GrantRow, CountAttempt(g) PROVE GrantsTypeOK'
    <2>1. [grant[g] EXCEPT !.attempts = @ + 1,
                           !.uses = IF grant[g].attempts + 1 >= MaxAttempts THEN 0 ELSE @]
             \in GrantRow
      <3> DEFINE n == IF grant[g].attempts + 1 >= MaxAttempts THEN 0 ELSE grant[g].uses
      <3>1. grant[g].attempts + 1 \in Nat /\ n \in Nat
        BY <1>3 DEF GrantRow
      <3> HIDE DEF n
      <3>2. [grant[g] EXCEPT !.attempts = @ + 1, !.uses = n] \in GrantRow
        BY <1>3, <3>1 DEF GrantRow
      <3>3. QED
        BY <3>2 DEF n
    <2>2. QED
      BY <1>3, <2>1 DEF CountAttempt
  <1>4. ASSUME NEW g \in Grant, NEW c \in Client, NEW right \in BOOLEAN,
               MayRedeem(g, c), Spendable(g, right), Spend(g)
        PROVE  /\ grant' \in [Grant -> GrantRow \union {Absent}]
               /\ redeemed' \in [Grant -> Nat]
               /\ grant[g] \in GrantRow
    <2>1. grant[g] \in GrantRow
      BY <1>4 DEF MayRedeem, Grants
    <2>2. [grant[g] EXCEPT !.uses = @ - 1] \in GrantRow
      BY <1>4, <2>1 DEF GrantRow, Spendable
    <2>3. QED
      BY <1>4, <2>1, <2>2 DEF Spend
  <1>5. ASSUME NEW g \in Grant, NEW u \in User, grant[g] \in GrantRow, HandOver(g, u)
        PROVE  keys' \in [User -> SUBSET Key]
    <2>1. {grant[g].payload} \ {NoKey} \subseteq Key
      BY <1>5 DEF GrantRow
    <2>2. QED
      BY <1>5, <2>1 DEF HandOver
  <1>6. ASSUME NEW g \in Grant, NEW c \in Client, NEW right \in BOOLEAN, NEW u \in User,
               Redeem(g, c, right, u)
        PROVE  GrantsTypeOK'
    <2>1. ASSUME RedeemFails(g, c, right) PROVE GrantsTypeOK'
      BY <1>3, <2>1 DEF RedeemFails, MayRedeem, Grants
    <2>2. ASSUME RedeemMints(g, c, right, u) PROVE GrantsTypeOK'
      <3>1. /\ grant' \in [Grant -> GrantRow \union {Absent}]
            /\ redeemed' \in [Grant -> Nat]
            /\ grant[g] \in GrantRow
        BY <1>4, <2>2 DEF RedeemMints
      <3>2. keys' \in [User -> SUBSET Key]
        BY <1>5, <2>2, <3>1 DEF RedeemMints
      <3>3. NewUser(grant[g].issuer, grant[g].caps, grant[g].kind = "guest") \in UserRow
        BY <3>1 DEF GrantRow, UserRow, NewUser, State
      <3>4. grant[g].issuer \in User
        BY <3>1 DEF GrantRow
      <3>5. QED
        BY <2>2, <3>1, <3>2, <3>3, <3>4 DEF RedeemMints
    <2>3. ASSUME RedeemAttaches(g, c, right, u) PROVE GrantsTypeOK'
      BY <1>4, <2>3 DEF RedeemAttaches
    <2>4. ASSUME RedeemShares(g, c, right, u) PROVE GrantsTypeOK'
      <3>1. /\ grant' \in [Grant -> GrantRow \union {Absent}]
            /\ redeemed' \in [Grant -> Nat]
            /\ grant[g] \in GrantRow
        BY <1>4, <2>4 DEF RedeemShares
      <3>2. keys' \in [User -> SUBSET Key]
        BY <1>5, <2>4, <3>1 DEF RedeemShares
      <3>3. QED
        BY <2>4, <3>1, <3>2 DEF RedeemShares
    <2>5. QED
      BY <1>6, <2>1, <2>2, <2>3, <2>4 DEF Redeem
  <1>7. ASSUME NEW g \in Grant, Expire(g) PROVE GrantsTypeOK'
    <2>1. [grant[g] EXCEPT !.live = FALSE] \in GrantRow
      BY <1>7 DEF Expire, Grants, GrantRow
    <2>2. QED
      BY <1>7, <2>1 DEF Expire
  <1>8. ASSUME NEW g \in Grant, PeekFails(g) PROVE GrantsTypeOK'
    BY <1>3, <1>8 DEF PeekFails, Grants
  <1>9. ASSUME NEW u \in User, NEW ks \in SUBSET Key, AssociateUserKeys(u, ks) PROVE GrantsTypeOK'
    BY <1>9 DEF AssociateUserKeys
  <1>10. ASSUME NEW u \in User, NEW k \in Key, RemoveUserKey(u, k) PROVE GrantsTypeOK'
    BY <1>10 DEF RemoveUserKey
  <1>11. ASSUME NEW c \in Client, NEW u \in User, ClaimEmptyServer(c, u) PROVE GrantsTypeOK'
    BY <1>11 DEF ClaimEmptyServer, NewUser, UserRow, State
  <1>12. CASE UNCHANGED grantsVars
    BY <1>12 DEF grantsVars
  <1>13. ASSUME NEW g \in Grant,
                \/ \E u \in User : IssueGrant(g, u)
                \/ \E c \in Client, right \in BOOLEAN, u \in User : Redeem(g, c, right, u)
                \/ Expire(g)
                \/ PeekFails(g)
         PROVE  GrantsTypeOK'
    BY ONLY <1>2, <1>6, <1>7, <1>8, <1>13 DEF IssueGrant
  <1>14. QED
    BY <1>1, <1>9, <1>10, <1>11, <1>12, <1>13 DEF GrantsNext

\* The tables are well typed in every state.
THEOREM GrantsTypeCorrect == GrantsSpec => []GrantsTypeOK
  <1>1. GrantsInit => GrantsTypeOK
    BY GrantsInitInv DEF GrantsInv
  <1>2. QED
    BY <1>1, GrantsTypeStep, PTL DEF GrantsSpec

-----------------------------------------------------------------------------
(* What the transactions do to the rows, apart from each other: users are  *)
(* only added and only gain capabilities, a grant keeps its issuer and its *)
(* capabilities, a registration is never changed.                          *)

UsersGrow ==
    \A u \in User : user[u] # Absent =>
        user'[u] # Absent /\ user[u].caps \subseteq user'[u].caps

GrantsKept ==
    \A g \in Grant : grant'[g] # Absent =>
        /\ grant[g] # Absent
        /\ grant'[g].issuer = grant[g].issuer
        /\ grant'[g].caps = grant[g].caps

ClientsKept == \A c \in Client : client[c] # Absent => client'[c] = client[c]

\* Pending grants stay within the capabilities of their issuers.
LEMMA KeptWithinCaps ==
    ASSUME GrantsTypeOK, GrantsWithinCaps, UsersGrow, GrantsKept
    PROVE  GrantsWithinCaps'
  <1> SUFFICES ASSUME NEW g \in Grant, grant'[g] # Absent
               PROVE  /\ grant'[g].issuer \in User /\ user'[grant'[g].issuer] # Absent
                      /\ "admin" \notin grant'[g].caps
                      /\ grant'[g].caps \subseteq user'[grant'[g].issuer].caps \union {"sync"}
    BY DEF GrantsWithinCaps, Grants, Users
  <1>1. /\ grant[g] # Absent
        /\ grant'[g].issuer = grant[g].issuer
        /\ grant'[g].caps = grant[g].caps
    BY DEF GrantsKept
  <1>2. /\ grant[g].issuer \in User /\ user[grant[g].issuer] # Absent
        /\ "admin" \notin grant[g].caps
        /\ grant[g].caps \subseteq user[grant[g].issuer].caps \union {"sync"}
    BY <1>1 DEF GrantsWithinCaps, Grants, Users
  <1>3. QED
    BY <1>1, <1>2 DEF UsersGrow

\* A user who was minted keeps the client that acts for it.
LEMMA KeptNotOrphaned ==
    ASSUME GrantsTypeOK, MintersAreUsers, NoOrphanUser, ClientsKept, minter' = minter
    PROVE  NoOrphanUser'
  <1> SUFFICES ASSUME NEW u \in User, minter[u] # NoUser
               PROVE  \E c \in Client : client'[c] = u
    BY DEF NoOrphanUser, Users
  <1>1. PICK c \in Client : client[c] = u
    BY DEF MintersAreUsers, NoOrphanUser, Users
  <1>2. client[c] # Absent
    BY <1>1, GrantsAssumption
  <1>3. QED
    BY <1>1, <1>2 DEF ClientsKept

LEMMA NewUserIsRow ==
    ASSUME NEW by \in User \union {NoUser}, NEW caps \in SUBSET Cap, NEW p \in BOOLEAN
    PROVE  NewUser(by, caps, p) # Absent /\ NewUser(by, caps, p).caps = caps
  <1>1. NewUser(by, caps, p) \in UserRow
    BY DEF NewUser, UserRow, State
  <1>2. QED
    BY <1>1, AbsentIsNoRow DEF NewUser

\* The operator changes a row and gives capabilities.
LEMMA RowRaised ==
    ASSUME GrantsTypeOK, MintersAreUsers, CapsHandedDown,
           NEW u \in Users, NEW r, NEW added,
           r # Absent, r.caps = user[u].caps \union added,
           user' = [user EXCEPT ![u] = r],
           extra' = [extra EXCEPT ![u] = @ \union added],
           minter' = minter
    PROVE  UsersGrow /\ MintersAreUsers' /\ CapsHandedDown'
  <1> u \in User /\ user[u] # Absent
    BY DEF Users
  <1>1. \A x \in User : user'[x] = IF x = u THEN r ELSE user[x]
    BY DEF GrantsTypeOK
  <1>2. \A x \in User : extra'[x] = IF x = u THEN extra[u] \union added ELSE extra[x]
    BY DEF GrantsTypeOK
  <1>3. UsersGrow
    BY <1>1 DEF UsersGrow
  <1>4. MintersAreUsers'
    BY <1>1 DEF MintersAreUsers, Users
  <1>5. ASSUME NEW x \in User, user'[x] # Absent
        PROVE  /\ "admin" \in user'[x].caps => "admin" \in extra'[x]
               /\ minter[x] # NoUser =>
                    user'[x].caps \subseteq user'[minter[x]].caps \union extra'[x] \union {"sync"}
    <2>1. user[x] # Absent
      BY <1>1, <1>5
    <2>2. /\ "admin" \in user[x].caps => "admin" \in extra[x]
          /\ minter[x] # NoUser =>
                user[x].caps \subseteq user[minter[x]].caps \union extra[x] \union {"sync"}
      BY <2>1 DEF CapsHandedDown, Users
    <2>3. user'[x].caps = user[x].caps \union (IF x = u THEN added ELSE {})
      BY <1>1
    <2>4. extra'[x] = extra[x] \union (IF x = u THEN added ELSE {})
      BY <1>2
    <2>5. minter[x] # NoUser => user[minter[x]].caps \subseteq user'[minter[x]].caps
      BY <1>3 DEF UsersGrow, MintersAreUsers, Users
    <2>6. QED
      BY <2>2, <2>3, <2>4, <2>5
  <1>6. CapsHandedDown'
    BY <1>5 DEF CapsHandedDown, Users
  <1>7. QED
    BY <1>3, <1>4, <1>6

\* A new user: its capabilities are its minter's, or the operator's to give.
LEMMA RowAdded ==
    ASSUME GrantsTypeOK, MintersAreUsers, CapsHandedDown,
           NEW u \in User, user[u] = Absent, NEW r, NEW by \in User \union {NoUser}, NEW given,
           r # Absent, "admin" \in r.caps => "admin" \in given,
           by # NoUser => /\ user[by] # Absent
                          /\ r.caps \subseteq user[by].caps \union {"sync"},
           user' = [user EXCEPT ![u] = r],
           \A x \in User : extra'[x] = IF x = u THEN given ELSE extra[x],
           \A x \in User : minter'[x] = IF x = u THEN by ELSE minter[x]
    PROVE  UsersGrow /\ MintersAreUsers' /\ CapsHandedDown'
  <1>1. \A x \in User : user'[x] = IF x = u THEN r ELSE user[x]
    BY DEF GrantsTypeOK
  <1>2. UsersGrow
    BY <1>1 DEF UsersGrow
  <1>3. MintersAreUsers'
    BY <1>1, GrantsAssumption DEF MintersAreUsers, Users
  <1>4. ASSUME NEW x \in User, user'[x] # Absent
        PROVE  /\ "admin" \in user'[x].caps => "admin" \in extra'[x]
               /\ minter'[x] # NoUser =>
                    user'[x].caps \subseteq user'[minter'[x]].caps \union extra'[x] \union {"sync"}
    <2>1. CASE x = u
      BY <1>1, <2>1
    <2>2. CASE x # u
      <3>1. user[x] # Absent /\ user'[x] = user[x] /\ minter'[x] = minter[x] /\ extra'[x] = extra[x]
        BY <1>1, <1>4, <2>2
      <3>2. /\ "admin" \in user[x].caps => "admin" \in extra[x]
            /\ minter[x] # NoUser =>
                  user[x].caps \subseteq user[minter[x]].caps \union extra[x] \union {"sync"}
        BY <3>1 DEF CapsHandedDown, Users
      <3>3. minter[x] # NoUser => user[minter[x]].caps \subseteq user'[minter[x]].caps
        BY <1>2 DEF UsersGrow, MintersAreUsers, Users
      <3>4. QED
        BY <3>1, <3>2, <3>3
    <2>3. QED
      BY <2>1, <2>2
  <1>5. CapsHandedDown'
    BY <1>4 DEF CapsHandedDown, Users
  <1>6. QED
    BY <1>2, <1>3, <1>5

\* A grant that is not issued now keeps its issuer and what it confers, and every use
\* of it is accounted for.
GrantsAccounted == GrantsKept /\ UsesAccounted' /\ NothingRedeemedUnissued'

\* One row of a grant is changed, and its uses with the redemptions.
LEMMA GrantRowChanged ==
    ASSUME GrantsTypeOK, UsesAccounted, NothingRedeemedUnissued,
           NEW g \in Grants, NEW r \in GrantRow, NEW n \in Nat,
           r.issuer = grant[g].issuer, r.caps = grant[g].caps,
           r.uses + n <= r.offered,
           r.uses + n = r.offered \/ (r.attempts >= MaxAttempts /\ r.uses = 0),
           grant' = [grant EXCEPT ![g] = r],
           redeemed' = [redeemed EXCEPT ![g] = n]
    PROVE  GrantsAccounted
  <1> g \in Grant /\ grant[g] # Absent
    BY DEF Grants
  <1>1. \A h \in Grant : grant'[h] = IF h = g THEN r ELSE grant[h]
    BY DEF GrantsTypeOK
  <1>2. \A h \in Grant : redeemed'[h] = IF h = g THEN n ELSE redeemed[h]
    BY DEF GrantsTypeOK
  <1>3. r # Absent
    BY AbsentIsNoRow
  <1>4. GrantsKept
    BY <1>1 DEF GrantsKept
  <1>5. NothingRedeemedUnissued'
    BY <1>1, <1>2, <1>3 DEF NothingRedeemedUnissued
  <1>6. ASSUME NEW h \in Grant, grant'[h] # Absent
        PROVE  /\ grant'[h].uses + redeemed'[h] <= grant'[h].offered
               /\ \/ grant'[h].uses + redeemed'[h] = grant'[h].offered
                  \/ grant'[h].attempts >= MaxAttempts /\ grant'[h].uses = 0
    <2>1. CASE h = g
      BY <1>1, <1>2, <2>1
    <2>2. CASE h # g
      BY <1>1, <1>2, <1>6, <2>2 DEF UsesAccounted, Grants, Burned
    <2>3. QED
      BY <2>1, <2>2
  <1>7. UsesAccounted'
    BY <1>6 DEF UsesAccounted, Grants, Burned
  <1>8. QED
    BY <1>4, <1>5, <1>7 DEF GrantsAccounted

\* A wrong guess takes no use, unless it burns all of them.
LEMMA AttemptCounted ==
    ASSUME GrantsTypeOK, UsesAccounted, NothingRedeemedUnissued,
           NEW g \in Grants, CountAttempt(g)
    PROVE  GrantsAccounted
  <1> USE GrantsAssumption
  <1>1. g \in Grant /\ grant[g] \in GrantRow /\ redeemed[g] \in Nat
    BY DEF Grants, GrantsTypeOK
  <1> DEFINE uses == IF grant[g].attempts + 1 >= MaxAttempts THEN 0 ELSE grant[g].uses
             r == [grant[g] EXCEPT !.attempts = @ + 1, !.uses = uses]
  <1>2. uses \in Nat
    BY <1>1 DEF GrantRow
  <1>3. /\ grant[g].uses + redeemed[g] <= grant[g].offered
        /\ \/ grant[g].uses + redeemed[g] = grant[g].offered
           \/ grant[g].attempts >= MaxAttempts /\ grant[g].uses = 0
    BY DEF UsesAccounted, Burned
  <1>4. /\ uses + redeemed[g] <= grant[g].offered
        /\ \/ uses + redeemed[g] = grant[g].offered
           \/ grant[g].attempts + 1 >= MaxAttempts /\ uses = 0
    BY <1>1, <1>3 DEF GrantRow
  <1>5. grant' = [grant EXCEPT ![g] = r] /\ redeemed' = redeemed
    BY DEF CountAttempt
  <1> HIDE DEF uses
  <1>6. /\ r \in GrantRow
        /\ r.issuer = grant[g].issuer /\ r.caps = grant[g].caps
        /\ r.uses = uses /\ r.offered = grant[g].offered /\ r.attempts = grant[g].attempts + 1
    <2>1. grant[g].attempts + 1 \in Nat
      BY <1>1 DEF GrantRow
    <2>2. r \in GrantRow
      BY <1>1, <1>2, <2>1 DEF GrantRow
    <2>3. r.issuer = grant[g].issuer /\ r.caps = grant[g].caps /\ r.offered = grant[g].offered
      BY <1>1 DEF GrantRow
    <2>4. r.uses = uses /\ r.attempts = grant[g].attempts + 1
      BY <1>1 DEF GrantRow
    <2>5. QED
      BY <2>2, <2>3, <2>4
  <1> HIDE DEF r
  <1>7. redeemed' = [redeemed EXCEPT ![g] = redeemed[g]]
    BY <1>5 DEF GrantsTypeOK
  <1>8. QED
    BY <1>1, <1>4, <1>5, <1>6, <1>7, GrantRowChanged

\* A redemption takes one use and is recorded.
LEMMA UseSpent ==
    ASSUME GrantsTypeOK, UsesAccounted, NothingRedeemedUnissued,
           NEW g \in Grants, grant[g].uses > 0, Spend(g)
    PROVE  GrantsAccounted
  <1>1. g \in Grant /\ grant[g] \in GrantRow /\ redeemed[g] \in Nat
    BY DEF Grants, GrantsTypeOK
  <1> DEFINE r == [grant[g] EXCEPT !.uses = @ - 1]
  <1>2. grant[g].uses + redeemed[g] = grant[g].offered /\ grant[g].uses \in Nat
    BY <1>1 DEF UsesAccounted, GrantRow
  <1>3. /\ r \in GrantRow
        /\ r.issuer = grant[g].issuer /\ r.caps = grant[g].caps
        /\ r.uses = grant[g].uses - 1 /\ r.offered = grant[g].offered
    BY <1>1, <1>2 DEF GrantRow
  <1>4. grant' = [grant EXCEPT ![g] = r] /\ redeemed' = [redeemed EXCEPT ![g] = redeemed[g] + 1]
    BY DEF Spend
  <1> HIDE DEF r
  <1>5. /\ redeemed[g] + 1 \in Nat
        /\ r.uses + (redeemed[g] + 1) = r.offered
        /\ r.uses + (redeemed[g] + 1) <= r.offered
    BY <1>1, <1>2, <1>3 DEF GrantRow
  <1>6. QED
    BY <1>1, <1>3, <1>4, <1>5, GrantRowChanged

LEMMA GrantsUntouched ==
    ASSUME UsesAccounted, NothingRedeemedUnissued, UNCHANGED <<grant, redeemed>>
    PROVE  GrantsAccounted
  BY DEF GrantsAccounted, GrantsKept, UsesAccounted, NothingRedeemedUnissued, Grants, Burned

LEMMA UsersUntouched ==
    ASSUME MintersAreUsers, CapsHandedDown, UNCHANGED <<user, minter, extra>>
    PROVE  UsersGrow /\ MintersAreUsers' /\ CapsHandedDown'
  BY DEF UsersGrow, MintersAreUsers, CapsHandedDown, Users

\* What is left of GrantsInv' when the types are known.
References ==
    /\ MintersAreUsers /\ NothingRedeemedUnissued /\ GrantsWithinCaps
    /\ UsesAccounted /\ NoOrphanUser /\ CapsHandedDown

\* A transaction that mints nobody and issues nothing.
LEMMA NobodyMinted ==
    ASSUME GrantsInv, GrantsAccounted, ClientsKept, minter' = minter,
           UsersGrow, MintersAreUsers', CapsHandedDown'
    PROVE  References'
  <1>1. GrantsWithinCaps'
    BY KeptWithinCaps DEF GrantsInv, GrantsAccounted
  <1>2. NoOrphanUser'
    BY KeptNotOrphaned DEF GrantsInv
  <1>3. QED
    BY <1>1, <1>2 DEF References, GrantsAccounted

\* ... and changes no user either.
LEMMA GrantOnly ==
    ASSUME GrantsInv, GrantsAccounted, ClientsKept, UNCHANGED <<user, minter, extra>>
    PROVE  References'
  BY UsersUntouched, NobodyMinted DEF GrantsInv

\* The operator.
LEMMA OperatorStep == ASSUME GrantsInv, Operate PROVE References'
  <1> USE GrantsAssumption, AbsentIsNoRow
  <1>1. ASSUME UNCHANGED <<client, grant, redeemed, minter>>,
               UsersGrow, MintersAreUsers', CapsHandedDown'
        PROVE  References'
    <2>1. ClientsKept
      BY <1>1 DEF ClientsKept
    <2>2. GrantsAccounted
      BY <1>1, GrantsUntouched DEF GrantsInv
    <2>3. QED
      BY <1>1, <2>1, <2>2, NobodyMinted
  <1>2. ASSUME NEW u \in User, BootstrapRootUser(u) PROVE References'
    <2> DEFINE r == NewUser(NoUser, Cap, FALSE)
    <2>1. r # Absent /\ "admin" \in Cap
      BY NewUserIsRow DEF Cap
    <2>2. /\ \A x \in User : extra'[x] = IF x = u THEN Cap ELSE extra[x]
          /\ \A x \in User : minter'[x] = IF x = u THEN NoUser ELSE minter[x]
      BY <1>2 DEF BootstrapRootUser, GrantsInv, GrantsTypeOK, MintersAreUsers
    <2>3. user[u] = Absent /\ user' = [user EXCEPT ![u] = r]
      BY <1>2 DEF BootstrapRootUser
    <2> HIDE DEF r
    <2>4. UsersGrow /\ MintersAreUsers' /\ CapsHandedDown'
      BY <2>1, <2>2, <2>3, RowAdded DEF GrantsInv
    <2>5. QED
      BY <1>1, <1>2, <2>4 DEF BootstrapRootUser
  <1>3. ASSUME NEW u \in Users, NEW r \in UserRow, NEW added,
               r.caps = user[u].caps \union added,
               user' = [user EXCEPT ![u] = r], extra' = [extra EXCEPT ![u] = @ \union added],
               UNCHANGED <<client, grant, redeemed, minter>>
        PROVE  References'
    BY <1>1, <1>3, RowRaised DEF GrantsInv
  <1>4. ASSUME NEW u \in Users PROVE u \in User /\ user[u] \in UserRow /\ extra[u] \in SUBSET Cap
    BY DEF Users, GrantsInv, GrantsTypeOK
  <1>5. ASSUME NEW u \in Users PROVE extra = [extra EXCEPT ![u] = @ \union {}]
    BY <1>4 DEF GrantsInv, GrantsTypeOK
  <1>6. ASSUME NEW u \in User, NEW s \in State, SetUserState(u, s) PROVE References'
    <2> DEFINE r == [user[u] EXCEPT !.state = s]
    <2>1. u \in Users
      BY <1>6 DEF SetUserState
    <2>2. r \in UserRow /\ r.caps = user[u].caps \union {}
      BY <1>4, <2>1 DEF UserRow
    <2>3. user' = [user EXCEPT ![u] = r] /\ UNCHANGED <<client, grant, redeemed, minter, extra>>
      BY <1>6 DEF SetUserState
    <2> HIDE DEF r
    <2>4. extra' = [extra EXCEPT ![u] = @ \union {}]
      BY <1>5, <2>1, <2>3
    <2>5. QED
      BY <1>3, <2>1, <2>2, <2>3, <2>4
  <1>7. ASSUME NEW u \in User, NEW caps \in SUBSET Cap, PromoteProvisionalUser(u, caps)
        PROVE  References'
    <2> DEFINE r == [user[u] EXCEPT !.provisional = FALSE, !.caps = @ \union caps]
    <2>1. u \in Users
      BY <1>7 DEF PromoteProvisionalUser
    <2>2. r \in UserRow /\ r.caps = user[u].caps \union caps
      BY <1>4, <2>1 DEF UserRow
    <2>3. /\ user' = [user EXCEPT ![u] = r] /\ UNCHANGED <<client, grant, redeemed, minter>>
          /\ extra' = [extra EXCEPT ![u] = @ \union caps]
      BY <1>7 DEF PromoteProvisionalUser
    <2> HIDE DEF r
    <2>4. QED
      BY <1>3, <2>1, <2>2, <2>3
  <1>8. ASSUME NEW u \in User, GrantAdminCap(u) PROVE References'
    <2> DEFINE r == [user[u] EXCEPT !.caps = @ \union {"admin"}]
    <2>1. u \in Users
      BY <1>8 DEF GrantAdminCap
    <2>2. r \in UserRow /\ r.caps = user[u].caps \union {"admin"}
      BY <1>4, <2>1 DEF UserRow, Cap
    <2>3. /\ user' = [user EXCEPT ![u] = r] /\ UNCHANGED <<client, grant, redeemed, minter>>
          /\ extra' = [extra EXCEPT ![u] = @ \union {"admin"}]
      BY <1>8 DEF GrantAdminCap
    <2> HIDE DEF r
    <2>4. QED
      BY <1>3, <2>1, <2>2, <2>3
  <1>9. ASSUME NEW u \in User, NEW p \in User \union {NoUser}, SetAuthorizedBy(u, p)
        PROVE  References'
    <2> DEFINE r == [user[u] EXCEPT !.authorized_by = p]
    <2>1. u \in Users
      BY <1>9 DEF SetAuthorizedBy
    <2>2. r \in UserRow /\ r.caps = user[u].caps \union {}
      BY <1>4, <2>1 DEF UserRow
    <2>3. user' = [user EXCEPT ![u] = r] /\ UNCHANGED <<client, grant, redeemed, minter, extra>>
      BY <1>9 DEF SetAuthorizedBy
    <2> HIDE DEF r
    <2>4. extra' = [extra EXCEPT ![u] = @ \union {}]
      BY <1>5, <2>1, <2>3
    <2>5. QED
      BY <1>3, <2>1, <2>2, <2>3, <2>4
  <1>10. QED
    BY <1>2, <1>6, <1>7, <1>8, <1>9 DEF Operate

\* Issuing a grant: the issuer has what it confers, now.
LEMMA CreateStep ==
    ASSUME GrantsInv, NEW g \in Grant, NEW kind \in Kind, NEW u \in User,
           NEW asked \in SUBSET Cap, NEW k \in Key \union {NoKey}, NEW uses \in 1 .. MaxUses,
           CreateGrant(g, kind, u, asked, k, uses)
    PROVE  References'
  <1> USE GrantsAssumption
  <1> DEFINE conferred == IF kind = "invite" THEN asked
                          ELSE IF kind = "guest" THEN {"sync"} ELSE {}
             r == [kind |-> kind, issuer |-> u, caps |-> conferred, payload |-> k,
                   live |-> TRUE, uses |-> uses, offered |-> uses, attempts |-> 0]
  <1>1. /\ grant[g] = Absent /\ user[u] # Absent
        /\ grant' = [grant EXCEPT ![g] = r]
        /\ UNCHANGED <<user, client, redeemed, minter, extra>>
    BY DEF CreateGrant, Users
  <1>2. "admin" \notin conferred /\ conferred \subseteq user[u].caps \union {"sync"}
    BY DEF CreateGrant, Attenuated
  <1>3. r.issuer = u /\ r.caps = conferred /\ r.uses = uses /\ r.offered = uses
    OBVIOUS
  <1> HIDE DEF conferred, r
  <1>4. \A h \in Grant : grant'[h] = IF h = g THEN r ELSE grant[h]
    BY <1>1 DEF GrantsInv, GrantsTypeOK
  <1>5. redeemed[g] = 0 /\ uses \in Nat
    BY <1>1 DEF GrantsInv, NothingRedeemedUnissued
  <1>6. UsersGrow /\ MintersAreUsers' /\ CapsHandedDown'
    BY <1>1, UsersUntouched DEF GrantsInv
  <1>7. NoOrphanUser'
    BY <1>1, KeptNotOrphaned DEF GrantsInv, ClientsKept
  <1>8. NothingRedeemedUnissued'
    BY <1>1, <1>4, <1>5 DEF GrantsInv, NothingRedeemedUnissued
  <1>9. GrantsWithinCaps'
    BY <1>1, <1>2, <1>3, <1>4 DEF GrantsInv, GrantsWithinCaps, Grants, Users
  <1>10. ASSUME NEW h \in Grant, grant'[h] # Absent
         PROVE  /\ grant'[h].uses + redeemed'[h] <= grant'[h].offered
                /\ \/ grant'[h].uses + redeemed'[h] = grant'[h].offered
                   \/ grant'[h].attempts >= MaxAttempts /\ grant'[h].uses = 0
    <2>1. CASE h = g
      BY <1>1, <1>3, <1>4, <1>5, <2>1
    <2>2. CASE h # g
      BY <1>1, <1>4, <1>10, <2>2 DEF GrantsInv, UsesAccounted, Grants, Burned
    <2>3. QED
      BY <2>1, <2>2
  <1>11. UsesAccounted'
    BY <1>10 DEF UsesAccounted, Grants, Burned
  <1>12. QED
    BY <1>6, <1>7, <1>8, <1>9, <1>11 DEF References

\* A redemption that mints a user: the client acts for it, and it has what the issuer
\* of the grant has, at most.
LEMMA MintStep ==
    ASSUME GrantsInv, NEW g \in Grant, NEW c \in Client, NEW right \in BOOLEAN, NEW u \in User,
           RedeemMints(g, c, right, u)
    PROVE  References'
  <1> USE GrantsAssumption
  <1> DEFINE r == NewUser(grant[g].issuer, grant[g].caps, grant[g].kind = "guest")
  <1>1. /\ g \in Grants /\ grant[g] \in GrantRow /\ grant[g].uses > 0
        /\ ~Registered(c)
    BY DEF RedeemMints, MayRedeem, Spendable, Grants, GrantsInv, GrantsTypeOK
  <1>2. /\ grant[g].issuer \in User /\ user[grant[g].issuer] # Absent
        /\ "admin" \notin grant[g].caps
        /\ grant[g].caps \subseteq user[grant[g].issuer].caps \union {"sync"}
    BY <1>1 DEF GrantsInv, GrantsWithinCaps, Users
  <1>3. grant[g].caps \in SUBSET Cap /\ (grant[g].kind = "guest") \in BOOLEAN
    BY <1>1 DEF GrantRow
  <1>4. r # Absent /\ r.caps = grant[g].caps
    BY <1>2, <1>3, NewUserIsRow
  <1>5. user[u] = Absent /\ user' = [user EXCEPT ![u] = r]
    BY DEF RedeemMints
  <1>6. /\ \A x \in User : extra'[x] = IF x = u THEN extra[u] ELSE extra[x]
        /\ \A x \in User : minter'[x] = IF x = u THEN grant[g].issuer ELSE minter[x]
    BY DEF RedeemMints, GrantsInv, GrantsTypeOK
  <1>7. /\ \A d \in Client : client'[d] = IF d = c THEN u ELSE client[d]
        /\ client[c] = Absent
    BY <1>1 DEF RedeemMints, Registered, GrantsInv, GrantsTypeOK
  <1> HIDE DEF r
  <1>8. UsersGrow /\ MintersAreUsers' /\ CapsHandedDown'
    BY <1>2, <1>4, <1>5, <1>6, RowAdded DEF GrantsInv
  <1>9. GrantsAccounted
    BY <1>1, UseSpent DEF RedeemMints, GrantsInv
  <1>10. GrantsWithinCaps'
    BY <1>8, <1>9, KeptWithinCaps DEF GrantsInv, GrantsAccounted
  <1>11. ASSUME NEW x \in User, minter'[x] # NoUser
         PROVE  \E d \in Client : client'[d] = x
    <2>1. CASE x = u
      BY <1>7, <2>1
    <2>2. CASE x # u
      <3>1. minter[x] # NoUser /\ user[x] # Absent
        BY <1>6, <1>11, <2>2 DEF GrantsInv, MintersAreUsers
      <3>2. PICK d \in Client : client[d] = x
        BY <3>1 DEF GrantsInv, NoOrphanUser, Users
      <3>3. client'[d] = x
        BY <1>7, <3>2
      <3>4. QED
        BY <3>3
    <2>3. QED
      BY <2>1, <2>2
  <1>12. NoOrphanUser'
    BY <1>11 DEF NoOrphanUser, Users
  <1>13. QED
    BY <1>8, <1>9, <1>10, <1>12 DEF References, GrantsAccounted

LEMMA RedeemStep ==
    ASSUME GrantsInv, NEW g \in Grant, NEW c \in Client, NEW right \in BOOLEAN, NEW u \in User,
           Redeem(g, c, right, u)
    PROVE  References'
  <1>1. CASE RedeemFails(g, c, right)
    <2>1. GrantsAccounted
      BY <1>1, AttemptCounted DEF RedeemFails, MayRedeem, GrantsInv
    <2>2. QED
      BY <1>1, <2>1, GrantOnly DEF RedeemFails, CountAttempt, ClientsKept
  <1>2. CASE RedeemMints(g, c, right, u)
    BY <1>2, MintStep
  <1>3. CASE RedeemAttaches(g, c, right, u)
    <2>1. GrantsAccounted
      BY <1>3, UseSpent DEF RedeemAttaches, MayRedeem, Spendable, GrantsInv
    <2>2. ClientsKept
      BY <1>3 DEF RedeemAttaches, ClientsKept, Registered, GrantsInv, GrantsTypeOK
    <2>3. QED
      BY <1>3, <2>1, <2>2, GrantOnly DEF RedeemAttaches
  <1>4. CASE RedeemShares(g, c, right, u)
    <2>1. GrantsAccounted
      BY <1>4, UseSpent DEF RedeemShares, MayRedeem, Spendable, GrantsInv
    <2>2. QED
      BY <1>4, <2>1, GrantOnly DEF RedeemShares, ClientsKept
  <1>5. QED
    BY <1>1, <1>2, <1>3, <1>4 DEF Redeem

\* Every transaction keeps the invariant.
LEMMA GrantsStepInv == GrantsInv /\ [GrantsNext]_grantsVars => GrantsInv'
  <1> SUFFICES ASSUME GrantsInv, [GrantsNext]_grantsVars PROVE GrantsInv'
    OBVIOUS
  <1>1. ASSUME UNCHANGED <<user, client, grant, redeemed, minter, extra>> PROVE References'
    <2>1. GrantsAccounted
      BY <1>1, GrantsUntouched DEF GrantsInv
    <2>2. QED
      BY <1>1, <2>1, GrantOnly DEF ClientsKept
  <1>2. ASSUME NEW g \in Grant, Expire(g) PROVE References'
    <2> DEFINE r == [grant[g] EXCEPT !.live = FALSE]
    <2>1. g \in Grants /\ grant[g] \in GrantRow /\ redeemed[g] \in Nat
      BY <1>2 DEF Expire, Grants, GrantsInv, GrantsTypeOK
    <2>2. /\ r \in GrantRow
          /\ r.issuer = grant[g].issuer /\ r.caps = grant[g].caps /\ r.uses = grant[g].uses
          /\ r.offered = grant[g].offered /\ r.attempts = grant[g].attempts
      BY <2>1 DEF GrantRow
    <2>3. /\ grant' = [grant EXCEPT ![g] = r]
          /\ redeemed' = [redeemed EXCEPT ![g] = redeemed[g]]
      BY <1>2 DEF Expire, GrantsInv, GrantsTypeOK
    <2> HIDE DEF r
    <2>4. /\ r.uses + redeemed[g] <= r.offered
          /\ r.uses + redeemed[g] = r.offered \/ (r.attempts >= MaxAttempts /\ r.uses = 0)
      BY <2>1, <2>2 DEF GrantsInv, UsesAccounted, Burned
    <2>5. GrantsAccounted
      BY <2>1, <2>2, <2>3, <2>4, GrantRowChanged DEF GrantsInv
    <2>6. QED
      BY <1>2, <2>5, GrantOnly DEF Expire, ClientsKept
  <1>3. ASSUME NEW g \in Grant, PeekFails(g) PROVE References'
    <2>1. GrantsAccounted
      BY <1>3, AttemptCounted DEF PeekFails, GrantsInv
    <2>2. QED
      BY <1>3, <2>1, GrantOnly DEF PeekFails, CountAttempt, ClientsKept
  <1>4. ASSUME NEW c \in Client, NEW u \in User, ClaimEmptyServer(c, u) PROVE References'
    <2> DEFINE r == NewUser(NoUser, Cap, FALSE)
    <2>1. r # Absent /\ "admin" \in Cap
      BY NewUserIsRow DEF Cap
    <2>2. user[u] = Absent /\ user' = [user EXCEPT ![u] = r]
      BY <1>4 DEF ClaimEmptyServer, Users
    <2>3. /\ \A x \in User : extra'[x] = IF x = u THEN Cap ELSE extra[x]
          /\ \A x \in User : minter'[x] = IF x = u THEN NoUser ELSE minter[x]
      BY <1>4, <2>2 DEF ClaimEmptyServer, GrantsInv, GrantsTypeOK, MintersAreUsers
    <2> HIDE DEF r
    <2>4. UsersGrow /\ MintersAreUsers' /\ CapsHandedDown'
      BY <2>1, <2>2, <2>3, RowAdded DEF GrantsInv
    <2>5. GrantsAccounted
      BY <1>4, GrantsUntouched DEF ClaimEmptyServer, GrantsInv
    <2>6. ClientsKept
      BY <1>4 DEF ClaimEmptyServer, ClientsKept, Registered, GrantsInv, GrantsTypeOK
    <2>7. QED
      BY <1>4, <2>4, <2>5, <2>6, NobodyMinted DEF ClaimEmptyServer
  <1>5. ASSUME NEW u \in User, NEW ks \in SUBSET Key, AssociateUserKeys(u, ks) PROVE References'
    BY <1>1, <1>5 DEF AssociateUserKeys
  <1>6. ASSUME NEW u \in User, NEW k \in Key, RemoveUserKey(u, k) PROVE References'
    BY <1>1, <1>6 DEF RemoveUserKey
  <1>7. ASSUME UNCHANGED grantsVars PROVE References'
    BY <1>1, <1>7 DEF grantsVars
  <1>8. ASSUME NEW g \in Grant,
               \/ \E u \in User : IssueGrant(g, u)
               \/ \E c \in Client, right \in BOOLEAN, u \in User : Redeem(g, c, right, u)
               \/ Expire(g)
               \/ PeekFails(g)
        PROVE  References'
    BY <1>2, <1>3, <1>8, CreateStep, RedeemStep DEF IssueGrant
  <1>9. References'
    BY <1>4, <1>5, <1>6, <1>7, <1>8, OperatorStep DEF GrantsNext
  <1>10. QED
    BY <1>9, GrantsTypeStep DEF GrantsInv, References

LEMMA GrantsInvariant == GrantsSpec => []GrantsInv
  <1>1. QED
    BY GrantsInitInv, GrantsStepInv, PTL DEF GrantsSpec

\* Every use of a link is left, was redeemed, or was burned by wrong guesses: with one
\* use, it is redeemed at most once.
THEOREM GrantsUsesAccounted == GrantsSpec => []UsesAccounted
  <1>1. GrantsInv => UsesAccounted
    BY DEF GrantsInv
  <1>2. QED
    BY <1>1, GrantsInvariant, PTL

\* Whoever is minted has a client that acts for it.
THEOREM GrantsNoOrphanUser == GrantsSpec => []NoOrphanUser
  <1>1. GrantsInv => NoOrphanUser
    BY DEF GrantsInv
  <1>2. QED
    BY <1>1, GrantsInvariant, PTL

\* Nobody comes to more than the one who invited it has and the operator gave.
THEOREM GrantsCapsHandedDown == GrantsSpec => []CapsHandedDown
  <1>1. GrantsInv => CapsHandedDown
    BY DEF GrantsInv
  <1>2. QED
    BY <1>1, GrantsInvariant, PTL

-----------------------------------------------------------------------------
(* Induction.  What is so for 0 and passes from n to n + 1 is so for every *)
(* natural number: the set of those for which it is not so has no least    *)
(* member.                                                                 *)

LEMMA LeastNatural ==
    ASSUME NEW T, T \subseteq Nat, T # {}
    PROVE  \E x \in T : \A y \in T : x <= y
  <1>1. IsWellFoundedOn(OpToRel(<, Nat), Nat)
    BY NatLessThanWellFounded
  <1>2. PICK x \in T : \A y \in T : ~ (<<y, x>> \in OpToRel(<, Nat))
    BY <1>1, WFMin
  <1>3. \A y \in Nat : <<y, x>> \in OpToRel(<, Nat) <=> y < x
    BY DEF OpToRel
  <1>4. ASSUME NEW y \in T PROVE x <= y
    <2>1. ~ (y < x) /\ x \in Nat /\ y \in Nat
      BY <1>2, <1>3
    <2> QED
      BY <2>1
  <1> QED
    BY <1>4

LEMMA AllNaturals ==
    ASSUME NEW T, 0 \in T, \A n \in Nat : n \in T => n + 1 \in T
    PROVE  \A n \in Nat : n \in T
  <1> DEFINE B == Nat \ T
  <1>1. SUFFICES ASSUME B # {} PROVE FALSE
    OBVIOUS
  <1>2. PICK x \in B : \A y \in B : x <= y
    BY <1>1, LeastNatural
  <1>3. x # 0 /\ x - 1 \in Nat /\ x - 1 \notin B
    BY <1>2
  <1> QED
    BY <1>2, <1>3

-----------------------------------------------------------------------------
(* The walk up the tree.                                                   *)

\* One step up.
Up(x) == IF x = NoUser THEN NoUser ELSE user[x].authorized_by

\* g is the walk up from u, as far as n steps take one.
Walk(g, n, u) == g = [k \in 0 .. n |-> IF k = 0 THEN u ELSE Up(g[k - 1])]

LEMMA WalkLonger ==
    ASSUME NEW u, NEW n \in Nat, NEW g, Walk(g, n, u)
    PROVE  \E h : Walk(h, n + 1, u)
  <1> DEFINE h == [k \in 0 .. n + 1 |-> IF k = n + 1 THEN Up(g[n]) ELSE g[k]]
  <1>1. \A k \in 0 .. n : h[k] = g[k]
    OBVIOUS
  <1>2. h[n + 1] = Up(g[n])
    OBVIOUS
  <1>3. \A k \in 0 .. n : g[k] = IF k = 0 THEN u ELSE Up(g[k - 1])
    BY DEF Walk
  <1>4. DOMAIN h = 0 .. n + 1 /\ h = [k \in 0 .. n + 1 |-> h[k]]
    OBVIOUS
  <1> HIDE DEF h
  <1>5. ASSUME NEW k \in 0 .. n + 1
        PROVE  h[k] = IF k = 0 THEN u ELSE Up(h[k - 1])
    <2>1. CASE k = n + 1
      <3>1. k # 0 /\ k - 1 = n /\ n \in 0 .. n
        BY <2>1
      <3> QED
        BY <1>1, <1>2, <2>1, <3>1
    <2>2. CASE k = 0
      <3>1. k \in 0 .. n
        BY <2>2
      <3> QED
        BY <1>1, <1>3, <2>2, <3>1
    <2>3. CASE k # 0 /\ k # n + 1
      <3>1. k \in 0 .. n /\ k - 1 \in 0 .. n
        BY <2>3
      <3> QED
        BY <1>1, <1>3, <2>3, <3>1
    <2> QED
      BY <2>1, <2>2, <2>3
  <1>6. h = [k \in 0 .. n + 1 |-> IF k = 0 THEN u ELSE Up(h[k - 1])]
    BY <1>4, <1>5
  <1> QED
    BY <1>6 DEF Walk

LEMMA WalksExist == ASSUME NEW u PROVE \A n \in Nat : \E g : Walk(g, n, u)
  <1> DEFINE T == {n \in Nat : \E g : Walk(g, n, u)}
  <1>1. 0 \in T
    <2>1. Walk([k \in 0 .. 0 |-> u], 0, u)
      BY DEF Walk
    <2> QED
      BY <2>1
  <1>2. \A n \in Nat : n \in T => n + 1 \in T
    BY WalkLonger
  <1> HIDE DEF T
  <1>3. \A n \in Nat : n \in T
    BY <1>1, <1>2, AllNaturals
  <1> QED
    BY <1>3 DEF T

\* Walks from the same user agree as far as they go.
LEMMA WalksAgree ==
    ASSUME NEW u
    PROVE  \A k \in Nat : \A m, n \in Nat : \A g, h :
              Walk(g, m, u) /\ Walk(h, n, u) /\ k <= m /\ k <= n => g[k] = h[k]
  <1> DEFINE T == {k \in Nat : \A m, n \in Nat : \A g, h :
                      Walk(g, m, u) /\ Walk(h, n, u) /\ k <= m /\ k <= n => g[k] = h[k]}
  <1>1. ASSUME NEW g, NEW n \in Nat, Walk(g, n, u), NEW k \in 0 .. n
        PROVE  g[k] = IF k = 0 THEN u ELSE Up(g[k - 1])
    BY <1>1 DEF Walk
  <1>2. 0 \in T
    <2> SUFFICES ASSUME NEW m \in Nat, NEW n \in Nat, NEW g, NEW h, Walk(g, m, u), Walk(h, n, u)
                 PROVE  g[0] = h[0]
      OBVIOUS
    <2>1. 0 \in 0 .. m /\ 0 \in 0 .. n
      OBVIOUS
    <2>2. g[0] = u /\ h[0] = u
      BY <1>1, <2>1
    <2> QED
      BY <2>2
  <1>3. ASSUME NEW k \in Nat, k \in T PROVE k + 1 \in T
    <2> SUFFICES ASSUME NEW m \in Nat, NEW n \in Nat, NEW g, NEW h, Walk(g, m, u), Walk(h, n, u),
                        k + 1 <= m, k + 1 <= n
                 PROVE  g[k + 1] = h[k + 1]
      OBVIOUS
    <2>1. k + 1 \in 0 .. m /\ k + 1 \in 0 .. n /\ k + 1 # 0 /\ (k + 1) - 1 = k
      OBVIOUS
    <2>2. g[k + 1] = Up(g[k]) /\ h[k + 1] = Up(h[k])
      BY <1>1, <2>1
    <2>3. g[k] = h[k]
      BY <1>3, <2>1
    <2> QED
      BY <2>2, <2>3
  <1> HIDE DEF T
  <1>4. \A k \in Nat : k \in T
    BY <1>2, <1>3, AllNaturals
  <1> QED
    BY <1>4 DEF T

LEMMA AboveStep ==
    ASSUME NEW u
    PROVE  /\ Above(u)[0] = u
           /\ \A k \in Nat : Above(u)[k + 1] = Up(Above(u)[k])
  <1> DEFINE walk(n) == CHOOSE g : Walk(g, n, u)
             f == [k \in Nat |-> walk(k)[k]]
             Is(up) == up = [k \in Nat |-> IF k = 0 THEN u
                                           ELSE IF up[k - 1] = NoUser THEN NoUser
                                                ELSE user[up[k - 1]].authorized_by]
  <1>1. \A n \in Nat : Walk(walk(n), n, u)
    BY WalksExist
  <1>2. \A n \in Nat : f[n] = walk(n)[n]
    OBVIOUS
  <1>f. f = [k \in Nat |-> f[k]]
    OBVIOUS
  <1> HIDE DEF walk, f
  <1>3. ASSUME NEW k \in Nat, k # 0
        PROVE  f[k] = Up(f[k - 1])
    <2>1. k - 1 \in Nat /\ k \in 0 .. k /\ k - 1 <= k /\ k - 1 <= k - 1
      BY <1>3
    <2>2. walk(k)[k] = Up(walk(k)[k - 1])
      BY <1>1, <1>3, <2>1 DEF Walk
    <2>3. Walk(walk(k), k, u) /\ Walk(walk(k - 1), k - 1, u)
      BY <1>1, <2>1
    <2>4. walk(k)[k - 1] = walk(k - 1)[k - 1]
      BY <2>1, <2>3, WalksAgree
    <2> QED
      BY <1>2, <2>1, <2>2, <2>4
  <1>4. f[0] = u
    <2>1. walk(0)[0] = u
      BY <1>1 DEF Walk
    <2> QED
      BY <1>2, <2>1
  <1>5. Is(f)
    <2>1. \A k \in Nat : f[k] = IF k = 0 THEN u ELSE IF f[k - 1] = NoUser THEN NoUser
                                                ELSE user[f[k - 1]].authorized_by
      BY <1>3, <1>4 DEF Up
    <2> QED
      BY <1>f, <2>1
  <1>6. Above(u) = CHOOSE up : Is(up)
    BY DEF Above
  <1>7. Is(Above(u))
    <2> HIDE DEF Is
    <2> QED
      BY <1>5, <1>6
  <1>8. \A k \in Nat : Above(u)[k] = IF k = 0 THEN u ELSE Up(Above(u)[k - 1])
    BY <1>7 DEF Up
  <1>9. Above(u)[0] = u
    BY <1>8
  <1>10. ASSUME NEW k \in Nat PROVE Above(u)[k + 1] = Up(Above(u)[k])
    <2>1. k + 1 \in Nat /\ k + 1 # 0 /\ (k + 1) - 1 = k
      OBVIOUS
    <2> QED
      BY <1>8, <2>1
  <1> QED
    BY <1>9, <1>10

-----------------------------------------------------------------------------
(* The tree.                                                               *)

\* Who stands above is a row, and less in rank.
RankedBy(rank) ==
    \A u \in Users :
        user[u].authorized_by # NoUser =>
            /\ user[u].authorized_by \in Users
            /\ rank[user[u].authorized_by] < rank[u]

Ranked == \E rank \in [User -> Nat] : RankedBy(rank)

\* On the way up from a row there are rows, of lesser and lesser rank.
LEMMA WalkDescends ==
    ASSUME GrantsTypeOK, NEW rank \in [User -> Nat], RankedBy(rank), NEW u \in Users
    PROVE  \A j \in Nat : Above(u)[j] # NoUser =>
              \A i \in 0 .. j : /\ Above(u)[i] \in Users
                                /\ rank[Above(u)[j]] + (j - i) <= rank[Above(u)[i]]
  <1> DEFINE a == Above(u)
             T == {j \in Nat : a[j] # NoUser =>
                      \A i \in 0 .. j : a[i] \in Users /\ rank[a[j]] + (j - i) <= rank[a[i]]}
  <1>0. a[0] = u /\ \A k \in Nat : a[k + 1] = Up(a[k])
    BY AboveStep
  <1>u. Users \subseteq User /\ NoUser \notin Users
    BY GrantsAssumption DEF Users
  <1> HIDE DEF a
  <1>1. 0 \in T
    <2>1. \A i \in 0 .. 0 : i = 0
      OBVIOUS
    <2>2. rank[u] \in Nat
      BY <1>u
    <2> QED
      BY <1>0, <2>1, <2>2
  <1>2. ASSUME NEW j \in Nat, j \in T PROVE j + 1 \in T
    <2> SUFFICES ASSUME a[j + 1] # NoUser, NEW i \in 0 .. j + 1
                 PROVE  a[i] \in Users /\ rank[a[j + 1]] + ((j + 1) - i) <= rank[a[i]]
      OBVIOUS
    <2>1. a[j + 1] = Up(a[j])
      BY <1>0
    <2>2. a[j] # NoUser /\ a[j + 1] = user[a[j]].authorized_by
      BY <2>1 DEF Up
    <2>3. \A k \in 0 .. j : a[k] \in Users /\ rank[a[j]] + (j - k) <= rank[a[k]]
      BY <1>2, <2>2
    <2>4. a[j] \in Users
      BY <2>3
    <2>5. a[j + 1] \in Users /\ rank[a[j + 1]] < rank[a[j]]
      BY <2>2, <2>4 DEF RankedBy
    <2>6. CASE i = j + 1
      <3>1. rank[a[j + 1]] \in Nat
        BY <2>5, <1>u
      <3> QED
        BY <2>5, <2>6, <3>1
    <2>7. CASE i \in 0 .. j
      <3>1. a[i] \in Users /\ rank[a[j]] + (j - i) <= rank[a[i]]
        BY <2>3, <2>7
      <3>2. rank[a[j + 1]] \in Nat /\ rank[a[j]] \in Nat /\ rank[a[i]] \in Nat
        BY <2>4, <2>5, <3>1, <1>u
      <3> QED
        BY <2>5, <2>7, <3>1, <3>2
    <2> QED
      BY <2>6, <2>7
  <1> HIDE DEF T
  <1>3. \A j \in Nat : j \in T
    BY <1>1, <1>2, AllNaturals
  <1> QED
    BY <1>3 DEF T, a

\* Whoever is above u at all is met within as many steps as there are users.
LEMMA WalkIsShort ==
    ASSUME GrantsTypeOK, Ranked, NEW u \in Users, NEW j \in Nat, Above(u)[j] # NoUser,
           IsFiniteSet(User)
    PROVE  j < Cardinality(User)
  <1> DEFINE f == [i \in 0 .. j |-> Above(u)[i]]
  <1>1. PICK rank \in [User -> Nat] : RankedBy(rank)
    BY DEF Ranked
  <1>2. \A i \in 0 .. j : Above(u)[i] \in Users /\ Above(u)[i] # NoUser
    BY <1>1, WalkDescends, GrantsAssumption DEF Users
  <1>3. f \in [0 .. j -> User]
    BY <1>2 DEF Users
  <1>4. \A i, k \in 0 .. j : i < k => f[i] # f[k]
    <2> SUFFICES ASSUME NEW i \in 0 .. j, NEW k \in 0 .. j, i < k, Above(u)[i] = Above(u)[k]
                 PROVE  FALSE
      OBVIOUS
    <2>1. k \in Nat /\ i \in 0 .. k
      OBVIOUS
    <2>2. rank[Above(u)[k]] + (k - i) <= rank[Above(u)[i]]
      BY <1>1, <1>2, <2>1, WalkDescends
    <2>3. rank[Above(u)[k]] \in Nat
      BY <1>2 DEF Users
    <2> QED
      BY <2>2, <2>3
  <1>5. IsFiniteSet(0 .. j) /\ Cardinality(0 .. j) = j + 1
    BY FS_Interval
  <1>6. Cardinality(User) \in Nat
    BY FS_CardinalityType
  <1> HIDE DEF f
  <1>7. SUFFICES ASSUME Cardinality(User) < Cardinality(0 .. j) PROVE FALSE
    BY <1>5, <1>6
  <1>8. \E x, y \in 0 .. j : x # y /\ f[x] = f[y]
    BY <1>3, <1>5, <1>7, FS_PigeonHole
  <1> QED
    BY <1>4, <1>8

\* The walk from u goes on as the walk from the one above u.
LEMMA WalkShifted ==
    ASSUME NEW u, NEW v, v = Up(u)
    PROVE  \A k \in Nat : Above(u)[k + 1] = Above(v)[k]
  <1> DEFINE a == Above(u)
             b == Above(v)
             T == {k \in Nat : a[k + 1] = b[k]}
  <1>1. /\ a[0] = u /\ \A k \in Nat : a[k + 1] = Up(a[k])
        /\ b[0] = v /\ \A k \in Nat : b[k + 1] = Up(b[k])
    BY AboveStep
  <1> HIDE DEF a, b
  <1>2. 0 \in T
    <2>1. a[0 + 1] = Up(a[0])
      BY <1>1
    <2> QED
      BY <1>1, <2>1
  <1>3. \A k \in Nat : k \in T => k + 1 \in T
    <2> SUFFICES ASSUME NEW k \in Nat, k \in T PROVE k + 1 \in T
      OBVIOUS
    <2>1. k + 1 \in Nat /\ a[k + 1] = b[k]
      OBVIOUS
    <2>2. a[(k + 1) + 1] = Up(a[k + 1]) /\ b[k + 1] = Up(b[k])
      BY <1>1, <2>1
    <2> QED
      BY <2>1, <2>2
  <1> HIDE DEF T
  <1>4. \A k \in Nat : k \in T
    BY <1>2, <1>3, AllNaturals
  <1> QED
    BY <1>4 DEF T, a, b

LEMMA RankedIsForest == ASSUME GrantsTypeOK, Ranked, Cardinality(User) \in Nat PROVE Forest
  <1> SUFFICES ASSUME NEW u \in Users, user[u].authorized_by # NoUser,
                      NEW k \in 0 .. Cardinality(User), Above(user[u].authorized_by)[k] = u
               PROVE  FALSE
    BY DEF Forest, Path
  <1> DEFINE a == user[u].authorized_by
  <1>1. PICK rank \in [User -> Nat] : RankedBy(rank)
    BY DEF Ranked
  <1>2. a \in Users /\ rank[a] < rank[u]
    BY <1>1 DEF RankedBy
  <1>3. Above(a)[k] # NoUser /\ Above(a)[0] = a
    BY GrantsAssumption, AboveStep DEF Users
  <1>4. k \in Nat /\ 0 \in 0 .. k
    OBVIOUS
  <1> HIDE DEF a
  <1>5. rank[Above(a)[k]] + (k - 0) <= rank[Above(a)[0]]
    BY <1>1, <1>2, <1>3, <1>4, WalkDescends
  <1>6. rank[u] + k <= rank[a]
    <2>1. Above(a)[k] = u
      BY DEF a
    <2> QED
      BY <1>3, <1>4, <1>5, <2>1
  <1>7. rank[a] \in Nat /\ rank[u] \in Nat
    BY <1>1, <1>2 DEF Users
  <1> QED
    BY <1>2, <1>4, <1>6, <1>7

SameAbove == \A x \in Users : user'[x].authorized_by = user[x].authorized_by

LEMMA RowChanged ==
    ASSUME GrantsTypeOK, GrantsTypeOK', NEW u \in Users, NEW row \in UserRow,
           row.authorized_by = user[u].authorized_by, user' = [user EXCEPT ![u] = row]
    PROVE  Users' = Users /\ SameAbove
  <1>1. \A x \in User : user'[x] = IF x = u THEN row ELSE user[x]
    BY DEF GrantsTypeOK
  <1> QED
    BY <1>1, AbsentIsNoRow DEF Users, SameAbove

LEMMA LeafAdded ==
    ASSUME GrantsTypeOK, NEW u \in User \ Users, NEW row \in UserRow,
           user' = [user EXCEPT ![u] = row]
    PROVE  /\ Users' = Users \union {u} /\ SameAbove
           /\ user'[u].authorized_by = row.authorized_by
  <1>1. \A x \in User : user'[x] = IF x = u THEN row ELSE user[x]
    BY DEF GrantsTypeOK
  <1> QED
    BY <1>1, AbsentIsNoRow DEF Users, SameAbove

\* What a step does to the tree: nothing, a leaf more, or setAuthorizedBy.
LEMMA TreeCases ==
    ASSUME GrantsInv, [GrantsNext]_grantsVars
    PROVE  \/ Users' = Users /\ SameAbove
           \/ \E u \in User \ Users, by \in Users \union {NoUser} :
                 /\ Users' = Users \union {u} /\ SameAbove
                 /\ user'[u].authorized_by = by
           \/ \E u \in User, p \in User \union {NoUser} : SetAuthorizedBy(u, p)
  <1> DEFINE Goal == \/ Users' = Users /\ SameAbove
                     \/ \E u \in User \ Users, by \in Users \union {NoUser} :
                           /\ Users' = Users \union {u} /\ SameAbove
                           /\ user'[u].authorized_by = by
                     \/ \E u \in User, p \in User \union {NoUser} : SetAuthorizedBy(u, p)
  <1>t. GrantsTypeOK /\ GrantsTypeOK'
    BY GrantsTypeStep DEF GrantsInv
  <1>r. \A u \in Users : u \in User /\ user[u] \in UserRow
    BY <1>t DEF Users, GrantsTypeOK
  <1>u. ASSUME user' = user PROVE Goal
    BY <1>u DEF Users, SameAbove
  <1>w. ASSUME NEW by \in User \union {NoUser}, NEW caps \in SUBSET Cap, NEW pr \in BOOLEAN
        PROVE  NewUser(by, caps, pr) \in UserRow /\ NewUser(by, caps, pr).authorized_by = by
    BY DEF NewUser, UserRow, State
  <1>l. ASSUME NEW u \in User, user[u] = Absent, NEW by \in Users \union {NoUser},
               NEW caps \in SUBSET Cap, NEW pr \in BOOLEAN,
               user' = [user EXCEPT ![u] = NewUser(by, caps, pr)]
        PROVE  Goal
    <2>1. by \in User \union {NoUser}
      BY <1>r
    <2>2. PICK row \in UserRow : row = NewUser(by, caps, pr) /\ row.authorized_by = by
      BY <2>1, <1>w
    <2>3. u \in User \ Users
      BY <1>l DEF Users
    <2> QED
      BY <1>l, <1>t, <2>2, <2>3, LeafAdded
  <1> HIDE DEF Goal
  <1>c. ASSUME NEW u \in Users, NEW row \in UserRow,
               row.authorized_by = user[u].authorized_by, user' = [user EXCEPT ![u] = row]
        PROVE  Goal
    BY <1>c, <1>t, RowChanged DEF Goal
  <1>1. ASSUME Operate PROVE Goal
    <2>1. ASSUME NEW u \in User, BootstrapRootUser(u) PROVE Goal
      <3>1. user' = [user EXCEPT ![u] = NewUser(NoUser, Cap, FALSE)] /\ user[u] = Absent
        BY <2>1 DEF BootstrapRootUser
      <3> QED
        BY <3>1, <1>l
    <2>2. ASSUME NEW u \in User, NEW s \in State, SetUserState(u, s) PROVE Goal
      <3> DEFINE row == [user[u] EXCEPT !.state = s]
      <3>1. u \in Users /\ user' = [user EXCEPT ![u] = row]
        BY <2>2 DEF SetUserState
      <3>2. row \in UserRow /\ row.authorized_by = user[u].authorized_by
        BY <3>1, <1>r DEF UserRow
      <3> HIDE DEF row
      <3> QED
        BY <3>1, <3>2, <1>c
    <2>3. ASSUME NEW u \in User, NEW caps \in SUBSET Cap, PromoteProvisionalUser(u, caps)
          PROVE  Goal
      <3> DEFINE row == [user[u] EXCEPT !.provisional = FALSE, !.caps = @ \union caps]
      <3>1. u \in Users /\ user' = [user EXCEPT ![u] = row]
        BY <2>3, <1>t DEF PromoteProvisionalUser, GrantsTypeOK
      <3>2. row \in UserRow /\ row.authorized_by = user[u].authorized_by
        BY <3>1, <1>r DEF UserRow
      <3> HIDE DEF row
      <3> QED
        BY <3>1, <3>2, <1>c
    <2>4. ASSUME NEW u \in User, GrantAdminCap(u) PROVE Goal
      <3> DEFINE row == [user[u] EXCEPT !.caps = @ \union {"admin"}]
      <3>1. u \in Users /\ user' = [user EXCEPT ![u] = row]
        BY <2>4 DEF GrantAdminCap
      <3>2. row \in UserRow /\ row.authorized_by = user[u].authorized_by
        BY <3>1, <1>r DEF UserRow, Cap
      <3> HIDE DEF row
      <3> QED
        BY <3>1, <3>2, <1>c
    <2>5. ASSUME NEW u \in User, NEW p \in User \union {NoUser}, SetAuthorizedBy(u, p)
          PROVE  Goal
      BY <2>5 DEF Goal
    <2> QED
      BY <1>1, <2>1, <2>2, <2>3, <2>4, <2>5 DEF Operate
  <1>2. ASSUME NEW g \in Grant, NEW c \in Client, NEW right \in BOOLEAN, NEW u \in User,
               RedeemMints(g, c, right, u)
        PROVE  Goal
    <2>1. /\ g \in Grants /\ user[u] = Absent
          /\ user' = [user EXCEPT ![u] =
                        NewUser(grant[g].issuer, grant[g].caps, grant[g].kind = "guest")]
      BY <1>2 DEF RedeemMints, MayRedeem
    <2>2. grant[g].issuer \in Users
      BY <2>1 DEF GrantsInv, GrantsWithinCaps
    <2>3. grant[g] \in GrantRow
      BY <2>1, <1>t DEF GrantsTypeOK, Grants
    <2>4. grant[g].caps \in SUBSET Cap /\ (grant[g].kind = "guest") \in BOOLEAN
      BY <2>3 DEF GrantRow
    <2> QED
      BY <2>1, <2>2, <2>4, <1>l
  <1>3. ASSUME NEW c \in Client, NEW u \in User, ClaimEmptyServer(c, u) PROVE Goal
    <2>1. user' = [user EXCEPT ![u] = NewUser(NoUser, Cap, FALSE)] /\ user[u] = Absent
      BY <1>3 DEF ClaimEmptyServer, Users
    <2> QED
      BY <2>1, <1>l
  <1>4. ASSUME NEW g \in Grant, NEW c \in Client, NEW right \in BOOLEAN, NEW u \in User,
               Redeem(g, c, right, u)
        PROVE  Goal
    <2>1. CASE RedeemMints(g, c, right, u)
      BY <2>1, <1>2
    <2>2. ASSUME RedeemFails(g, c, right) \/ RedeemAttaches(g, c, right, u)
                 \/ RedeemShares(g, c, right, u)
          PROVE  Goal
      BY <2>2, <1>u DEF RedeemFails, RedeemAttaches, RedeemShares, CountAttempt
    <2> QED
      BY <1>4, <2>1, <2>2 DEF Redeem
  <1>5. ASSUME NEW g \in Grant,
               \/ \E u \in User : IssueGrant(g, u)
               \/ Expire(g)
               \/ PeekFails(g)
        PROVE  Goal
    BY <1>5, <1>u DEF IssueGrant, CreateGrant, Expire, PeekFails, CountAttempt
  <1>6. ASSUME NEW u \in User,
               \/ \E ks \in SUBSET Key : AssociateUserKeys(u, ks)
               \/ \E k \in Key : RemoveUserKey(u, k)
        PROVE  Goal
    BY <1>6, <1>u DEF AssociateUserKeys, RemoveUserKey
  <1>7. ASSUME UNCHANGED grantsVars PROVE Goal
    BY <1>7, <1>u DEF grantsVars
  <1>8. Goal
    BY <1>1, <1>3, <1>4, <1>5, <1>6, <1>7 DEF GrantsNext
  <1> QED
    BY <1>8 DEF Goal

\* The guard of setAuthorizedBy meets whoever would close a cycle, if the walk is as long
\* as there are users: what is below u is raised above the new place of u.
LEMMA ReparentRanked ==
    ASSUME GrantsTypeOK, Ranked, NEW u \in User, NEW p \in User \union {NoUser},
           SetAuthorizedBy(u, p), IsFiniteSet(User), Cardinality(User) <= MaxTreeDepth
    PROVE  Ranked'
  <1>1. PICK rank \in [User -> Nat] : RankedBy(rank)
    BY DEF Ranked
  <1>2. /\ u \in Users
        /\ p = NoUser \/ Reparentable(u, p)
        /\ user' = [user EXCEPT ![u].authorized_by = p]
    BY DEF SetAuthorizedBy
  <1>3. \A x \in User :
           user'[x] = IF x = u THEN [user[u] EXCEPT !.authorized_by = p] ELSE user[x]
    BY <1>2 DEF GrantsTypeOK
  <1>4. [user[u] EXCEPT !.authorized_by = p] \in UserRow
    <2>1. user[u] \in UserRow
      BY <1>2 DEF GrantsTypeOK, Users
    <2> QED
      BY <2>1 DEF UserRow
  <1>5. Users' = Users
    BY <1>2, <1>3, <1>4, AbsentIsNoRow DEF Users
  <1>6. user'[u].authorized_by = p
    <2>1. user[u] \in UserRow
      BY <1>2 DEF GrantsTypeOK, Users
    <2> QED
      BY <1>2, <1>3, <2>1 DEF UserRow
  <1>7. CASE p = NoUser
    <2>1. \A x \in Users : user'[x].authorized_by # NoUser =>
             /\ user'[x].authorized_by \in Users
             /\ rank[user'[x].authorized_by] < rank[x]
      BY <1>1, <1>3, <1>6, <1>7 DEF RankedBy, Users
    <2> QED
      BY <1>5, <2>1 DEF Ranked, RankedBy
  <1>8. CASE p # NoUser
    <2> DEFINE Below(x) == \E k \in Nat : Above(x)[k] = u
               raised == [x \in User |-> IF Below(x) THEN rank[x] + rank[p] + 1 ELSE rank[x]]
    <2>1. p \in Users /\ ~ IsAncestorOf(u, p)
      BY <1>2, <1>8 DEF Reparentable
    <2>2. ~ Below(p)
      <3> SUFFICES ASSUME NEW k \in Nat, Above(p)[k] = u PROVE FALSE
        OBVIOUS
      <3>1. u # NoUser
        BY <1>2, GrantsAssumption DEF Users
      <3>2. k < Cardinality(User) /\ Cardinality(User) \in Nat
        BY <2>1, <3>1, WalkIsShort, FS_CardinalityType
      <3>3. k \in 0 .. MaxTreeDepth - 1
        BY <3>2, GrantsAssumption
      <3> QED
        BY <2>1, <3>1, <3>3 DEF IsAncestorOf, Path
    <2>3. Below(u)
      BY AboveStep
    <2>4. ASSUME NEW x \in Users, user[x].authorized_by # NoUser, Below(user[x].authorized_by)
          PROVE  Below(x)
      <3>1. PICK k \in Nat : Above(user[x].authorized_by)[k] = u
        BY <2>4
      <3>2. user[x].authorized_by = Up(x)
        BY <2>4, GrantsAssumption DEF Up, Users
      <3>3. Above(x)[k + 1] = u /\ k + 1 \in Nat
        BY <3>1, <3>2, WalkShifted
      <3> QED
        BY <3>3
    <2>r. rank[p] \in Nat /\ \A x \in Users : x \in User /\ rank[x] \in Nat
      BY <2>1 DEF Users
    <2> HIDE DEF Below
    <2>5. raised \in [User -> Nat]
      BY <2>r
    <2>v. \A x \in User : raised[x] = IF Below(x) THEN rank[x] + rank[p] + 1 ELSE rank[x]
      OBVIOUS
    <2> HIDE DEF raised
    <2>6. ASSUME NEW x \in Users, user'[x].authorized_by # NoUser
          PROVE  /\ user'[x].authorized_by \in Users
                 /\ raised[user'[x].authorized_by] < raised[x]
      <3>1. CASE x = u
        BY <3>1, <1>2, <1>6, <2>1, <2>2, <2>3, <2>r, <2>v
      <3>2. CASE x # u
        <4>1. user'[x].authorized_by = user[x].authorized_by
          BY <3>2, <2>r, <1>3
        <4>2. PICK a \in Users : a = user[x].authorized_by /\ rank[a] < rank[x]
          BY <4>1, <2>6, <1>1 DEF RankedBy
        <4>3. Below(a) => Below(x)
          BY <4>1, <4>2, <2>4, <2>6
        <4>4. raised[a] < raised[x]
          BY <4>2, <4>3, <2>r, <2>v
        <4> QED
          BY <4>1, <4>2, <4>4
      <3> QED
        BY <3>1, <3>2
    <2> QED
      BY <1>5, <2>5, <2>6 DEF Ranked, RankedBy
  <1> QED
    BY <1>7, <1>8

LEMMA RankedStep ==
    ASSUME GrantsInv, Ranked, [GrantsNext]_grantsVars,
           IsFiniteSet(User), Cardinality(User) <= MaxTreeDepth
    PROVE  Ranked'
  <1>1. PICK rank \in [User -> Nat] : RankedBy(rank)
    BY DEF Ranked
  <1>u. \A x \in Users : x \in User
    BY DEF Users
  <1>2. CASE Users' = Users /\ SameAbove
    BY <1>1, <1>2 DEF Ranked, RankedBy, SameAbove
  <1>3. ASSUME NEW u \in User \ Users, NEW by \in Users \union {NoUser},
               Users' = Users \union {u}, SameAbove, user'[u].authorized_by = by
        PROVE  Ranked'
    <2> DEFINE n == IF by = NoUser THEN 0 ELSE rank[by] + 1
               new == [rank EXCEPT ![u] = n]
    <2>1. n \in Nat
      BY <1>u
    <2>2. new \in [User -> Nat] /\ new[u] = n /\ \A x \in Users : new[x] = rank[x]
      BY <2>1, <1>u
    <2>3. by # NoUser => by \in Users /\ rank[by] \in Nat /\ rank[by] < n
      BY <1>u
    <2> HIDE DEF new, n
    <2>4. ASSUME NEW x \in Users \union {u}, user'[x].authorized_by # NoUser
          PROVE  /\ user'[x].authorized_by \in Users \union {u}
                 /\ new[user'[x].authorized_by] < new[x]
      <3>1. CASE x = u
        BY <3>1, <2>4, <1>3, <2>2, <2>3
      <3>2. CASE x \in Users
        BY <3>2, <2>4, <1>1, <1>3, <2>2 DEF RankedBy, SameAbove
      <3> QED
        BY <3>1, <3>2
    <2> QED
      BY <1>3, <2>2, <2>4 DEF Ranked, RankedBy
  <1>4. ASSUME NEW u \in User, NEW p \in User \union {NoUser}, SetAuthorizedBy(u, p)
        PROVE  Ranked'
    BY <1>4, ReparentRanked DEF GrantsInv
  <1> QED
    BY <1>2, <1>3, <1>4, TreeCases

\* Nobody is above himself (setAuthorizedBy), on a server with no more users than
\* isAncestorOf takes steps: the bounded walk is then as good as an unbounded one.
THEOREM GrantsForest ==
    IsFiniteSet(User) /\ Cardinality(User) <= MaxTreeDepth => (GrantsSpec => []Forest)
  <1> SUFFICES ASSUME IsFiniteSet(User), Cardinality(User) <= MaxTreeDepth
               PROVE  GrantsSpec => []Forest
    OBVIOUS
  <1>1. GrantsInit => Ranked
    <2> SUFFICES ASSUME GrantsInit PROVE Ranked
      OBVIOUS
    <2>1. Users = {}
      BY DEF GrantsInit, Users
    <2>2. [u \in User |-> 0] \in [User -> Nat]
      OBVIOUS
    <2> QED
      BY <2>1, <2>2 DEF Ranked, RankedBy
  <1>2. GrantsInv /\ Ranked /\ [GrantsNext]_grantsVars => Ranked'
    BY RankedStep
  <1>3. GrantsInv /\ Ranked => Forest
    BY RankedIsForest, FS_CardinalityType DEF GrantsInv
  <1> QED
    BY <1>1, <1>2, <1>3, GrantsInvariant, PTL DEF GrantsSpec

-----------------------------------------------------------------------------
(* The connections (ListrSessions)                                         *)

\* An open socket has a client.
Introduced(r) == r.stage = "open" => r.client \in Client

ConnInv ==
    /\ conn \in [Conn -> ConnState]
    /\ \A x \in Conn : Introduced(conn[x])

LEMMA SessionsInitConn == SessionsInit => ConnInv
  <1> SUFFICES ASSUME SessionsInit PROVE ConnInv
    OBVIOUS
  <1> DEFINE r == [stage |-> "new", nonce |-> FALSE, verifying |-> {},
                   completing |-> NoUser, client |-> Absent, declared |-> {},
                   user |-> NoUser, keys |-> {}, vouched |-> {}, linked |-> {}]
  <1>1. r \in ConnState /\ Introduced(r)
    BY DEF ConnState, Introduced
  <1>2. conn = [x \in Conn |-> r]
    BY DEF SessionsInit
  <1> HIDE DEF r
  <1>3. QED
    BY <1>1, <1>2 DEF ConnInv

LEMMA ConnSet ==
    ASSUME ConnInv, NEW x \in Conn, NEW r \in ConnState, Introduced(r),
           conn' = [conn EXCEPT ![x] = r]
    PROVE  ConnInv'
  <1>1. conn' \in [Conn -> ConnState]
    BY DEF ConnInv
  <1>2. \A y \in Conn : conn'[y] = IF y = x THEN r ELSE conn[y]
    BY DEF ConnInv
  <1>3. ASSUME NEW y \in Conn PROVE Introduced(conn'[y])
    BY <1>2 DEF ConnInv
  <1>4. QED
    BY <1>1, <1>3 DEF ConnInv

\* The handlers keep the closures of the sockets in order.
LEMMA HandlerConn == ASSUME GrantsTypeOK, ConnInv, NEW x \in Conn, Handler(x) PROVE ConnInv'
  <1>1. conn[x] \in ConnState /\ Introduced(conn[x])
    BY DEF ConnInv
  <1>2. ASSUME UNCHANGED conn PROVE ConnInv'
    BY <1>2 DEF ConnInv
  <1>3. ASSUME NEW c \in Client, NEW declared \in SUBSET Key, Hello(x, c, declared)
        PROVE  ConnInv'
    <2> DEFINE stage == IF conn[x].stage = "new" THEN "open" ELSE conn[x].stage
               r == [conn[x] EXCEPT !.stage = stage, !.nonce = TRUE,
                                    !.client = c, !.declared = declared]
    <2>1. stage \in {"new", "open", "closed"}
      BY <1>1 DEF ConnState
    <2>2. conn' = [conn EXCEPT ![x] = r]
      BY <1>3 DEF Hello
    <2> HIDE DEF stage
    <2>3. r \in ConnState
      BY <1>1, <2>1 DEF ConnState
    <2>4. Introduced(r)
      BY <1>1 DEF ConnState, Introduced
    <2>5. QED
      BY <2>2, <2>3, <2>4, ConnSet
  <1>4. ASSUME Auth(x) PROVE ConnInv'
    <2>1. conn[x].client \in Client
      BY <1>1, <1>4 DEF Introduced, Auth, Open
    <2>2. PICK cs \in SUBSET Client :
              conn' = [conn EXCEPT ![x].nonce = FALSE, ![x].verifying = cs]
      <3>1. CASE conn' = [conn EXCEPT ![x].nonce = FALSE]
        <4>1. conn' = [conn EXCEPT ![x].nonce = FALSE, ![x].verifying = conn[x].verifying]
          BY <1>1, <3>1 DEF ConnState, ConnInv
        <4>2. conn[x].verifying \in SUBSET Client
          BY <1>1 DEF ConnState
        <4>3. QED
          BY <4>1, <4>2
      <3>2. CASE conn' = [conn EXCEPT ![x].nonce = FALSE,
                                      ![x].verifying = @ \union {conn[x].client}]
        <4>1. conn[x].verifying \union {conn[x].client} \in SUBSET Client
          BY <1>1, <2>1 DEF ConnState
        <4>2. QED
          BY <3>2, <4>1
      <3>3. QED
        BY <1>4, <3>1, <3>2 DEF Auth
    <2> DEFINE r == [conn[x] EXCEPT !.nonce = FALSE, !.verifying = cs]
    <2>3. r \in ConnState
      BY <1>1 DEF ConnState
    <2>4. Introduced(r)
      BY <1>1 DEF ConnState, Introduced
    <2>5. QED
      BY <2>2, <2>3, <2>4, ConnSet
  <1>5. ASSUME NEW u \in User \union {NoUser}, NEW c \in conn[x].verifying,
               conn' = [conn EXCEPT ![x].verifying = @ \ {c}, ![x].vouched = @ \union {c},
                                    ![x].completing = u]
        PROVE  ConnInv'
    <2> DEFINE r == [conn[x] EXCEPT !.verifying = @ \ {c}, !.vouched = @ \union {c},
                                    !.completing = u]
    <2>1. r \in ConnState
      BY <1>1 DEF ConnState
    <2>2. Introduced(r)
      BY <1>1 DEF ConnState, Introduced
    <2>3. QED
      BY <1>5, <2>1, <2>2, ConnSet
  <1>6. ASSUME NEW ks \in SUBSET Route, conn' = [conn EXCEPT ![x].keys = ks]
        PROVE  ConnInv'
    <2> DEFINE r == [conn[x] EXCEPT !.keys = ks]
    <2>1. r \in ConnState
      BY <1>1 DEF ConnState
    <2>2. Introduced(r)
      BY <1>1 DEF ConnState, Introduced
    <2>3. QED
      BY <1>6, <2>1, <2>2, ConnSet
  <1>7. ASSUME NEW g \in Grant, NEW right \in BOOLEAN, NEW u \in User, RedeemGrant(x, g, right, u)
        PROVE  ConnInv'
    <2>1. CASE UNCHANGED conn
      BY <1>2, <2>1
    <2>2. CASE conn' # conn
      <3> DEFINE cs == IF grant[g].kind \in {"invite", "guest"}
                       THEN conn[x].vouched \union {conn[x].client} ELSE conn[x].vouched
                 us == IF grant[g].kind = "device"
                       THEN conn[x].linked \union {grant[g].issuer} ELSE conn[x].linked
                 r == [conn[x] EXCEPT !.completing = u, !.vouched = cs, !.linked = us]
      <3>1. conn' = [conn EXCEPT ![x] = r]
        BY <1>7, <2>2 DEF RedeemGrant
      <3>2. grant[g] \in GrantRow
        BY <1>7, <2>2 DEF RedeemGrant, RedeemMints, RedeemAttaches, RedeemShares, MayRedeem, Grants,
                          GrantsTypeOK
      <3>3. conn[x].client \in Client
        BY <1>1, <1>7 DEF RedeemGrant, Open, Introduced
      <3>4. cs \in SUBSET Client /\ us \in SUBSET User
        BY <1>1, <3>2, <3>3 DEF ConnState, GrantRow
      <3> HIDE DEF cs, us
      <3>5. r \in ConnState
        BY <1>1, <3>4 DEF ConnState
      <3>6. Introduced(r)
        BY <1>1 DEF ConnState, Introduced
      <3> HIDE DEF r
      <3>7. QED
        BY <3>1, <3>5, <3>6, ConnSet
    <2>3. QED
      BY <2>1, <2>2
  <1>8. ASSUME Complete(x) PROVE ConnInv'
    <2> DEFINE u == conn[x].completing
               ks == {u} \union conn[x].declared \union keys[u]
               r == [conn[x] EXCEPT !.completing = NoUser, !.user = u, !.keys = ks]
    <2>1. u \in User
      BY <1>1, <1>8 DEF ConnState, Complete
    <2>2. ks \in SUBSET Route
      BY <1>1, <1>8, <2>1 DEF ConnState, Complete, Route, GrantsTypeOK
    <2> HIDE DEF ks
    <2>3. r \in ConnState
      BY <1>1, <2>1, <2>2 DEF ConnState
    <2>4. Introduced(r)
      BY <1>1 DEF ConnState, Introduced
    <2>5. conn' = [conn EXCEPT ![x] = r]
      BY <1>8 DEF Complete, ks
    <2>6. QED
      BY <2>3, <2>4, <2>5, ConnSet
  <1>9. ASSUME NEW c \in Client, AuthKnown(x, c) PROVE ConnInv'
    <2>1. UserToBe(c) \in User \union {NoUser}
      BY DEF UserToBe, Registered, GrantsTypeOK
    <2>2. c \in conn[x].verifying
      BY <1>9 DEF AuthKnown, Verified
    <2>3. QED
      BY <1>5, <1>9, <2>1, <2>2 DEF AuthKnown
  <1>10. ASSUME NEW c \in Client, NEW u \in User, AuthClaims(x, c, u) PROVE ConnInv'
    BY <1>5, <1>10 DEF AuthClaims, Verified
  <1>16. ASSUME NEW c \in Client, AuthFails(x, c) PROVE ConnInv'
    <2> DEFINE r == [conn[x] EXCEPT !.verifying = @ \ {c}]
    <2>1. r \in ConnState
      BY <1>1 DEF ConnState
    <2>2. Introduced(r)
      BY <1>1 DEF ConnState, Introduced
    <2>3. conn' = [conn EXCEPT ![x] = r]
      BY <1>16 DEF AuthFails
    <2>4. QED
      BY <2>1, <2>2, <2>3, ConnSet
  <1>11. ASSUME NEW g \in Grant,
                \/ PeekGrant(x, g)
                \/ CreateGrantFor(x, g)
         PROVE  ConnInv'
    BY <1>2, <1>11 DEF PeekGrant, CreateGrantFor
  <1>12. ASSUME NEW k \in Route, (k \in Key /\ AssociateKey(x, k)) \/ LeaveKey(x, k)
         PROVE  ConnInv'
    <2>1. PICK ks \in SUBSET Route : conn' = [conn EXCEPT ![x].keys = ks]
      BY <1>1, <1>12 DEF AssociateKey, LeaveKey, ConnState
    <2>2. QED
      BY <1>6, <2>1
  <1>13. ASSUME Close(x) PROVE ConnInv'
    <2> DEFINE r == [conn[x] EXCEPT !.stage = "closed"]
    <2>1. r \in ConnState
      BY <1>1 DEF ConnState
    <2>2. Introduced(r)
      BY <1>1 DEF ConnState, Introduced
    <2>3. conn' = [conn EXCEPT ![x] = r]
      BY <1>13 DEF Close
    <2>4. QED
      BY <2>1, <2>2, <2>3, ConnSet
  <1>14. ASSUME NEW g \in Grant,
                \/ \E right \in BOOLEAN, u \in User : RedeemGrant(x, g, right, u)
                \/ PeekGrant(x, g)
                \/ CreateGrantFor(x, g)
         PROVE  ConnInv'
    BY ONLY <1>7, <1>11, <1>14
  <1>15. QED
    BY <1>3, <1>4, <1>8, <1>9, <1>10, <1>12, <1>13, <1>14, <1>16 DEF Handler, Answer, Route

-----------------------------------------------------------------------------
\* A handler runs one transaction of the identity store, or none.
LEMMA HandlerTransacts ==
    ASSUME GrantsTypeOK, ConnInv, NEW x \in Conn, Handler(x)
    PROVE  [GrantsNext]_grantsVars
  <1>1. conn[x] \in ConnState /\ Introduced(conn[x])
    BY DEF ConnInv
  <1>3. ASSUME NEW c \in Client, NEW declared \in SUBSET Key, Hello(x, c, declared)
        PROVE  UNCHANGED grantsVars
    BY <1>3 DEF Hello
  <1>4. ASSUME \/ Auth(x) \/ Close(x)
               \/ \E c \in Client : AuthFails(x, c) \/ AuthKnown(x, c)
        PROVE  UNCHANGED grantsVars
    BY <1>4 DEF Auth, AuthFails, AuthKnown, Close
  <1>5. ASSUME NEW c \in Client, NEW u \in User, AuthClaims(x, c, u) PROVE GrantsNext
    BY <1>5 DEF AuthClaims, GrantsNext
  <1>6. ASSUME Complete(x) PROVE GrantsNext
    <2>1. conn[x].completing \in User /\ conn[x].declared \in SUBSET Key
      BY <1>1, <1>6 DEF ConnState, Complete
    <2>2. QED
      BY <1>6, <2>1 DEF Complete, GrantsNext
  <1>7. ASSUME NEW g \in Grant, NEW right \in BOOLEAN, NEW u \in User, RedeemGrant(x, g, right, u)
        PROVE  GrantsNext
    <2>1. conn[x].client \in Client
      BY <1>1, <1>7 DEF RedeemGrant, Open, Introduced
    <2>2. Redeem(g, conn[x].client, right, u)
      BY <1>7 DEF RedeemGrant, Redeem
    <2>3. QED
      BY <2>1, <2>2 DEF GrantsNext
  <1>8. ASSUME NEW g \in Grant, PeekGrant(x, g) PROVE GrantsNext
    BY <1>8 DEF PeekGrant, GrantsNext
  <1>9. ASSUME NEW g \in Grant, CreateGrantFor(x, g) PROVE GrantsNext
    <2>1. conn[x].user \in User
      BY <1>1, <1>9 DEF ConnState, CreateGrantFor, Handles, Authenticated
    <2>2. IssueGrant(g, conn[x].user)
      BY <1>9 DEF CreateGrantFor
    <2>3. QED
      BY <1>9, <2>1, <2>2 DEF GrantsNext
  <1>10. ASSUME NEW k \in Key, AssociateKey(x, k) PROVE GrantsNext
    <2>1. conn[x].user \in User
      BY <1>1, <1>10 DEF ConnState, AssociateKey, Handles, Authenticated
    <2>2. AssociateUserKeys(conn[x].user, {k})
      BY <1>10 DEF AssociateKey
    <2>3. \E ks \in SUBSET Key : AssociateUserKeys(conn[x].user, ks)
      BY <2>2
    <2>4. QED
      BY <2>1, <2>3 DEF GrantsNext
  <1>13. ASSUME NEW k \in Route, LeaveKey(x, k) PROVE [GrantsNext]_grantsVars
    <2>1. conn[x].user \in User
      BY <1>1, <1>13 DEF ConnState, LeaveKey, Handles, Authenticated
    <2>2. RemoveUserKey(conn[x].user, k)
      BY <1>13 DEF LeaveKey
    <2>3. CASE k \in Key
      BY <2>1, <2>2, <2>3 DEF GrantsNext
    <2>4. CASE k \notin Key
      <3>1. keys[conn[x].user] \ {k} = keys[conn[x].user]
        BY <2>1, <2>4 DEF GrantsTypeOK
      <3>2. keys' = keys
        BY <2>2, <3>1 DEF RemoveUserKey, GrantsTypeOK
      <3>3. QED
        BY <2>2, <3>2 DEF RemoveUserKey, grantsVars
    <2>5. QED
      BY <2>3, <2>4
  <1>11. ASSUME NEW g \in Grant,
                \/ \E right \in BOOLEAN, u \in User : RedeemGrant(x, g, right, u)
                \/ PeekGrant(x, g)
                \/ CreateGrantFor(x, g)
         PROVE  GrantsNext
    BY ONLY <1>7, <1>8, <1>9, <1>11
  <1>12. QED
    BY <1>3, <1>4, <1>5, <1>6, <1>10, <1>11, <1>13 DEF Handler, Answer

\* So does every step.
LEMMA StepTransacts ==
    ASSUME GrantsTypeOK, ConnInv, [SessionsNext]_sessionsVars
    PROVE  ConnInv' /\ [GrantsNext]_grantsVars
  <1>1. CASE \E x \in Conn : Handler(x)
    BY <1>1, HandlerConn, HandlerTransacts
  <1>2. CASE Elsewhere
    BY <1>2 DEF Elsewhere, GrantsNext, ConnInv
  <1>3. CASE UNCHANGED sessionsVars
    BY <1>3 DEF sessionsVars, ConnInv
  <1>4. QED
    BY <1>1, <1>2, <1>3 DEF SessionsNext

LEMMA SessionsInvariant == SessionsSpec => [](GrantsInv /\ ConnInv)
  <1>1. SessionsInit => GrantsInv /\ ConnInv
    BY SessionsInitConn, GrantsInitInv DEF SessionsInit
  <1>2. GrantsInv /\ ConnInv /\ [SessionsNext]_sessionsVars => (GrantsInv /\ ConnInv)'
    BY StepTransacts, GrantsStepInv DEF GrantsInv
  <1>3. QED
    BY <1>1, <1>2, PTL DEF SessionsSpec

-----------------------------------------------------------------------------
(* Subscriptions.                                                          *)

\* While a socket is not closed, every key it holds has a route to it.
RoutesInv ==
    /\ routes \in [Route -> SUBSET Conn]
    /\ \A x \in Conn : conn[x].stage # "closed" => \A k \in conn[x].keys : x \in routes[k]

LEMMA KeysUntouched ==
    ASSUME RoutesInv, UNCHANGED routes,
           \A y \in Conn : /\ conn'[y].keys = conn[y].keys
                           /\ conn[y].stage = "closed" => conn'[y].stage = "closed"
    PROVE  RoutesInv'
  BY DEF RoutesInv

LEMMA HandlerRoutes ==
    ASSUME GrantsTypeOK, ConnInv, RoutesInv, NEW x \in Conn, Handler(x)
    PROVE  RoutesInv'
  <1>1. \A y \in Conn : conn[y] \in ConnState
    BY DEF ConnInv
  <1>2. ASSUME NEW r, r.keys = conn[x].keys, conn[x].stage = "closed" => r.stage = "closed",
               UNCHANGED routes, conn' = [conn EXCEPT ![x] = r]
        PROVE  RoutesInv'
    <2>1. \A y \in Conn : conn'[y] = IF y = x THEN r ELSE conn[y]
      BY <1>2 DEF ConnInv
    <2>2. QED
      BY <1>2, <2>1, KeysUntouched
  <1>3. ASSUME UNCHANGED <<conn, routes>> PROVE RoutesInv'
    BY <1>3 DEF RoutesInv
  <1>4. ASSUME NEW c \in Client, NEW declared \in SUBSET Key, Hello(x, c, declared)
        PROVE  RoutesInv'
    <2> DEFINE stage == IF conn[x].stage = "new" THEN "open" ELSE conn[x].stage
               r == [conn[x] EXCEPT !.stage = stage, !.nonce = TRUE,
                                    !.client = c, !.declared = declared]
    <2>1. r.keys = conn[x].keys /\ (conn[x].stage = "closed" => r.stage = "closed")
      BY <1>1 DEF ConnState
    <2>2. conn' = [conn EXCEPT ![x] = r] /\ UNCHANGED routes
      BY <1>4 DEF Hello
    <2> HIDE DEF r
    <2>3. QED
      BY <1>2, <2>1, <2>2
  <1>5. ASSUME NEW nonce, NEW cs, UNCHANGED routes,
               conn' = [conn EXCEPT ![x].nonce = nonce, ![x].verifying = cs]
        PROVE  RoutesInv'
    <2> DEFINE r == [conn[x] EXCEPT !.nonce = nonce, !.verifying = cs]
    <2>1. r.keys = conn[x].keys /\ r.stage = conn[x].stage
      BY <1>1 DEF ConnState
    <2>2. conn' = [conn EXCEPT ![x] = r]
      BY <1>5
    <2> HIDE DEF r
    <2>3. QED
      BY <1>2, <1>5, <2>1, <2>2
  <1>15. ASSUME Auth(x) PROVE RoutesInv'
    <2>1. UNCHANGED routes
      BY <1>15 DEF Auth
    <2>2. CASE conn' = [conn EXCEPT ![x].nonce = FALSE]
      <3>1. conn' = [conn EXCEPT ![x].nonce = FALSE, ![x].verifying = conn[x].verifying]
        BY <1>1, <2>2 DEF ConnState, ConnInv
      <3>2. QED
        BY <1>5, <2>1, <3>1
    <2>3. CASE conn' = [conn EXCEPT ![x].nonce = FALSE,
                                    ![x].verifying = @ \union {conn[x].client}]
      BY <1>5, <2>1, <2>3
    <2>4. QED
      BY <1>15, <2>2, <2>3 DEF Auth
  <1>16. ASSUME NEW c \in Client, AuthFails(x, c) PROVE RoutesInv'
    <2> DEFINE r == [conn[x] EXCEPT !.verifying = @ \ {c}]
    <2>1. r.keys = conn[x].keys /\ r.stage = conn[x].stage
      BY <1>1 DEF ConnState
    <2>2. conn' = [conn EXCEPT ![x] = r] /\ UNCHANGED routes
      BY <1>16 DEF AuthFails
    <2> HIDE DEF r
    <2>3. QED
      BY <1>2, <2>1, <2>2
  <1>6. ASSUME NEW u, NEW c, UNCHANGED routes,
               conn' = [conn EXCEPT ![x].verifying = @ \ {c}, ![x].vouched = @ \union {c},
                                    ![x].completing = u]
        PROVE  RoutesInv'
    <2> DEFINE r == [conn[x] EXCEPT !.verifying = @ \ {c}, !.vouched = @ \union {c},
                                    !.completing = u]
    <2>1. r.keys = conn[x].keys /\ r.stage = conn[x].stage
      BY <1>1 DEF ConnState
    <2>2. conn' = [conn EXCEPT ![x] = r]
      BY <1>6
    <2> HIDE DEF r
    <2>3. QED
      BY <1>2, <1>6, <2>1, <2>2
  <1>7. ASSUME NEW g \in Grant, NEW right \in BOOLEAN, NEW u \in User, RedeemGrant(x, g, right, u)
        PROVE  RoutesInv'
    <2> DEFINE cs == IF grant[g].kind \in {"invite", "guest"}
                     THEN conn[x].vouched \union {conn[x].client} ELSE conn[x].vouched
               us == IF grant[g].kind = "device"
                     THEN conn[x].linked \union {grant[g].issuer} ELSE conn[x].linked
               r == [conn[x] EXCEPT !.completing = u, !.vouched = cs, !.linked = us]
    <2>1. r.keys = conn[x].keys /\ r.stage = conn[x].stage
      BY <1>1 DEF ConnState
    <2>2. (conn' = [conn EXCEPT ![x] = r] \/ UNCHANGED conn) /\ UNCHANGED routes
      BY <1>7 DEF RedeemGrant
    <2> HIDE DEF r
    <2>3. QED
      BY <1>2, <1>3, <2>1, <2>2
  <1>8. ASSUME NEW g \in Grant,
                \/ \E right \in BOOLEAN, u \in User : RedeemGrant(x, g, right, u)
                \/ PeekGrant(x, g)
                \/ CreateGrantFor(x, g)
        PROVE  RoutesInv'
    BY <1>3, <1>7, <1>8 DEF PeekGrant, CreateGrantFor
  <1>9. ASSUME NEW ks \in SUBSET Route,
               \A y \in Conn : conn'[y].keys = IF y = x THEN ks ELSE conn[y].keys,
               \A y \in Conn : conn'[y].stage = conn[y].stage,
               routes' \in [Route -> SUBSET Conn],
               \A k \in Route : routes[k] \ {x} \subseteq routes'[k],
               \A k \in ks : x \in routes'[k]
        PROVE  RoutesInv'
    <2>1. ASSUME NEW y \in Conn, conn'[y].stage # "closed", NEW k \in conn'[y].keys
          PROVE  y \in routes'[k]
      <3>1. CASE y = x
        BY <1>9, <2>1, <3>1
      <3>2. CASE y # x
        <4>1. conn[y].stage # "closed" /\ k \in conn[y].keys /\ k \in Route
          BY <1>1, <1>9, <2>1, <3>2 DEF ConnState
        <4>2. y \in routes[k]
          BY <4>1 DEF RoutesInv
        <4>3. QED
          BY <1>9, <3>2, <4>1, <4>2
      <3>3. QED
        BY <3>1, <3>2
    <2>2. QED
      BY <1>9, <2>1 DEF RoutesInv
  <1>10. ASSUME Complete(x) PROVE RoutesInv'
    <2> DEFINE u == conn[x].completing
               ks == {u} \union conn[x].declared \union keys[u]
               r == [conn[x] EXCEPT !.completing = NoUser, !.user = u, !.keys = ks]
    <2>1. ks \in SUBSET Route
      BY <1>1, <1>10 DEF ConnState, Complete, Route, GrantsTypeOK
    <2>2. /\ conn' = [conn EXCEPT ![x] = r]
          /\ routes' = [k \in Route |-> IF k \in ks THEN routes[k] \union {x} ELSE routes[k]]
      BY <1>10 DEF Complete
    <2> HIDE DEF ks
    <2>3. r.keys = ks /\ r.stage = conn[x].stage
      BY <1>1 DEF ConnState
    <2> HIDE DEF r
    <2>4. \A y \in Conn : conn'[y] = IF y = x THEN r ELSE conn[y]
      BY <2>2 DEF ConnInv
    <2>5. /\ routes' \in [Route -> SUBSET Conn]
          /\ \A k \in Route : routes[k] \subseteq routes'[k]
          /\ \A k \in ks : x \in routes'[k]
      BY <2>1, <2>2 DEF RoutesInv
    <2>6. QED
      BY <1>9, <2>1, <2>3, <2>4, <2>5
  <1>11. ASSUME NEW k \in Key, AssociateKey(x, k) PROVE RoutesInv'
    <2> DEFINE ks == conn[x].keys \union {k}
               r == [conn[x] EXCEPT !.keys = ks]
    <2>1. ks \in SUBSET Route
      BY <1>1 DEF ConnState, Route
    <2>2. conn' = [conn EXCEPT ![x] = r] /\ routes' = [routes EXCEPT ![k] = @ \union {x}]
      BY <1>11 DEF AssociateKey
    <2>3. \A j \in conn[x].keys : conn[x].stage # "closed" => x \in routes[j]
      BY DEF RoutesInv
    <2>4. conn[x].stage # "closed" /\ k \in Route
      BY <1>11 DEF AssociateKey, Handles, Open, Route
    <2>5. r.keys = ks /\ r.stage = conn[x].stage
      BY <1>1 DEF ConnState
    <2> HIDE DEF r
    <2>6. \A y \in Conn : conn'[y] = IF y = x THEN r ELSE conn[y]
      BY <2>2 DEF ConnInv
    <2>7. /\ routes' \in [Route -> SUBSET Conn]
          /\ \A j \in Route : routes[j] \subseteq routes'[j]
          /\ \A j \in ks : x \in routes'[j]
      BY <2>1, <2>2, <2>3, <2>4 DEF RoutesInv
    <2>8. QED
      BY <1>9, <2>1, <2>5, <2>6, <2>7
  <1>12. ASSUME NEW k \in Route, LeaveKey(x, k) PROVE RoutesInv'
    <2> DEFINE ks == conn[x].keys \ {k}
               r == [conn[x] EXCEPT !.keys = ks]
    <2>1. ks \in SUBSET Route
      BY <1>1 DEF ConnState
    <2>2. conn' = [conn EXCEPT ![x] = r] /\ routes' = [routes EXCEPT ![k] = @ \ {x}]
      BY <1>12 DEF LeaveKey
    <2>3. \A j \in conn[x].keys : conn[x].stage # "closed" => x \in routes[j]
      BY DEF RoutesInv
    <2>4. conn[x].stage # "closed"
      BY <1>12 DEF LeaveKey, Handles, Open
    <2>5. r.keys = ks /\ r.stage = conn[x].stage
      BY <1>1 DEF ConnState
    <2> HIDE DEF r
    <2>6. \A y \in Conn : conn'[y] = IF y = x THEN r ELSE conn[y]
      BY <2>2 DEF ConnInv
    <2>7. /\ routes' \in [Route -> SUBSET Conn]
          /\ \A j \in Route : routes[j] \ {x} \subseteq routes'[j]
          /\ \A j \in ks : x \in routes'[j]
      BY <2>1, <2>2, <2>3, <2>4 DEF RoutesInv
    <2>8. QED
      BY <1>9, <2>1, <2>5, <2>6, <2>7
  <1>13. ASSUME Close(x) PROVE RoutesInv'
    <2> DEFINE r == [conn[x] EXCEPT !.stage = "closed"]
    <2>1. r.stage = "closed"
      BY <1>1 DEF ConnState
    <2>2. /\ conn' = [conn EXCEPT ![x] = r]
          /\ routes' = [k \in Route |->
                          IF k \in conn[x].keys THEN routes[k] \ {x} ELSE routes[k]]
      BY <1>13 DEF Close
    <2> HIDE DEF r
    <2>3. \A y \in Conn : conn'[y] = IF y = x THEN r ELSE conn[y]
      BY <2>2 DEF ConnInv
    <2>4. routes' \in [Route -> SUBSET Conn] /\ \A k \in Route : routes[k] \ {x} \subseteq routes'[k]
      BY <2>2 DEF RoutesInv
    <2>5. ASSUME NEW y \in Conn, conn'[y].stage # "closed", NEW k \in conn'[y].keys
          PROVE  y \in routes'[k]
      <3>1. y # x /\ conn[y].stage # "closed" /\ k \in conn[y].keys
        BY <2>1, <2>3, <2>5
      <3>2. y \in routes[k] /\ k \in Route
        BY <1>1, <3>1 DEF RoutesInv, ConnState
      <3>3. QED
        BY <2>4, <3>1, <3>2
    <2>6. QED
      BY <2>4, <2>5 DEF RoutesInv
  <1>14. QED
    BY <1>4, <1>6, <1>8, <1>10, <1>11, <1>12, <1>13, <1>15, <1>16
       DEF Handler, Answer, AuthKnown, AuthClaims

LEMMA SessionsRoutes == SessionsSpec => []RoutesInv
  <1>1. SessionsInit => RoutesInv
    BY DEF SessionsInit, RoutesInv
  <1>2. ASSUME GrantsInv, ConnInv, RoutesInv, [SessionsNext]_sessionsVars PROVE RoutesInv'
    <2>1. CASE \E x \in Conn : Handler(x)
      BY <1>2, <2>1, HandlerRoutes DEF GrantsInv
    <2>2. CASE UNCHANGED <<conn, routes>>
      BY <1>2, <2>2 DEF RoutesInv
    <2>3. QED
      BY <1>2, <2>1, <2>2 DEF SessionsNext, Elsewhere, sessionsVars
  <1>3. QED
    BY <1>1, <1>2, SessionsInvariant, PTL DEF SessionsSpec

\* Every key the server counts as an open connection's has a route to it.
THEOREM SessionsKeysAreRouted == SessionsSpec => []KeysAreRouted
  <1>1. RoutesInv => KeysAreRouted
    BY DEF RoutesInv, KeysAreRouted, Open
  <1>2. QED
    BY <1>1, SessionsRoutes, PTL

HellosInv == hellos \in Nat

\* The tables, the sockets and the routes are well typed in every state.
THEOREM SessionsTypeCorrect == SessionsSpec => []SessionsTypeOK
  <1>1. GrantsInv /\ ConnInv /\ RoutesInv /\ HellosInv => SessionsTypeOK
    BY DEF GrantsInv, ConnInv, RoutesInv, HellosInv, SessionsTypeOK
  <1>2. SessionsSpec => []HellosInv
    <2>1. SessionsInit => HellosInv
      BY DEF SessionsInit, HellosInv
    <2>2. ASSUME HellosInv, [SessionsNext]_sessionsVars PROVE HellosInv'
      <3>1. ASSUME NEW x \in Conn, Handler(x) PROVE hellos' \in Nat
        <4>1. ASSUME NEW c, NEW declared, Hello(x, c, declared) PROVE hellos' = hellos + 1
          BY <4>1 DEF Hello
        <4>2. hellos' = hellos + 1 \/ hellos' = hellos
          BY <3>1, <4>1 DEF Handler
        <4>3. QED
          BY <2>2, <4>2 DEF HellosInv
      <3>2. CASE UNCHANGED hellos
        BY <2>2, <3>2 DEF HellosInv
      <3>3. QED
        BY <2>2, <3>1, <3>2 DEF SessionsNext, Elsewhere, sessionsVars, HellosInv
    <2>3. QED
      BY <2>1, <2>2, PTL DEF SessionsSpec
  <1>3. QED
    BY <1>1, <1>2, SessionsInvariant, SessionsRoutes, PTL

-----------------------------------------------------------------------------
(* Who a connection acts for.                                              *)

\* Whom a socket acts for, hears of, or is about to act for, it may act for.
OwnInv ==
    \A x \in Conn, u \in User :
        u = conn[x].user \/ u = conn[x].completing \/ x \in routes[u] => u \in MayActFor(x)

\* After the step, u is the user of a client in cs, or one of us.
OwnsNext(cs, us, u) == u \in us \/ \E c \in cs : client'[c] = u

\* A transaction changes no registration.
LEMMA RegistrationsKept ==
    ASSUME GrantsTypeOK, [GrantsNext]_grantsVars
    PROVE  ClientsKept
  <1>1. ASSUME UNCHANGED client PROVE ClientsKept
    BY <1>1 DEF ClientsKept
  <1>2. ASSUME Operate PROVE UNCHANGED client
    BY <1>2 DEF Operate, BootstrapRootUser, SetUserState, PromoteProvisionalUser, GrantAdminCap,
                SetAuthorizedBy
  <1>3. ASSUME NEW c \in Client, NEW u \in User, client[c] = Absent,
               client' = [client EXCEPT ![c] = u]
        PROVE  ClientsKept
    BY <1>3 DEF ClientsKept, GrantsTypeOK
  <1>4. ASSUME NEW g \in Grant, NEW c \in Client, NEW right \in BOOLEAN, NEW u \in User,
               Redeem(g, c, right, u)
        PROVE  ClientsKept
    BY <1>1, <1>3, <1>4 DEF Redeem, RedeemFails, CountAttempt, RedeemMints, RedeemAttaches,
                            RedeemShares, Registered
  <1>5. ASSUME NEW c \in Client, NEW u \in User, ClaimEmptyServer(c, u) PROVE ClientsKept
    BY <1>3, <1>5 DEF ClaimEmptyServer, Registered
  <1>6. ASSUME NEW g \in Grant,
               \/ \E u \in User : IssueGrant(g, u)
               \/ \E c \in Client, right \in BOOLEAN, u \in User : Redeem(g, c, right, u)
               \/ Expire(g)
               \/ PeekFails(g)
        PROVE  ClientsKept
    BY <1>1, <1>4, <1>6 DEF IssueGrant, CreateGrant, Expire, PeekFails, CountAttempt
  <1>7. ASSUME NEW u \in User,
               (\E ks \in SUBSET Key : AssociateUserKeys(u, ks))
               \/ (\E k \in Key : RemoveUserKey(u, k))
        PROVE  ClientsKept
    BY <1>1, <1>7 DEF AssociateUserKeys, RemoveUserKey
  <1>8. QED
    BY <1>1, <1>2, <1>5, <1>6, <1>7 DEF GrantsNext, grantsVars

LEMMA OwnedKept ==
    ASSUME ConnInv, OwnInv, ClientsKept, NEW x \in Conn, NEW u \in User,
           u = conn[x].user \/ u = conn[x].completing \/ x \in routes[u]
    PROVE  OwnsNext(conn[x].vouched, conn[x].linked, u)
  <1>1. conn[x].vouched \in SUBSET Client
    BY DEF ConnInv, ConnState
  <1>2. u \in MayActFor(x)
    BY DEF OwnInv
  <1>3. CASE u \in conn[x].linked
    BY <1>3 DEF OwnsNext
  <1>4. CASE \E c \in conn[x].vouched : client[c] = u
    <2>1. PICK c \in conn[x].vouched : client[c] = u
      BY <1>4
    <2>2. client'[c] = u
      BY <1>1, <2>1, GrantsAssumption DEF ClientsKept
    <2>3. QED
      BY <2>1, <2>2 DEF OwnsNext
  <1>5. QED
    BY <1>2, <1>3, <1>4 DEF MayActFor

\* A handler of x replaces its closure by r; the other sockets are routed as before.
LEMMA OwnedSet ==
    ASSUME ConnInv, OwnInv, ClientsKept, NEW x \in Conn, NEW r,
           conn' = [conn EXCEPT ![x] = r],
           conn[x].vouched \subseteq r.vouched, conn[x].linked \subseteq r.linked,
           \A u \in User, y \in Conn : y # x /\ y \in routes'[u] => y \in routes[u],
           \A u \in User : u = r.user \/ u = r.completing \/ x \in routes'[u] =>
               \/ u = conn[x].user \/ u = conn[x].completing \/ x \in routes[u]
               \/ OwnsNext(r.vouched, r.linked, u)
    PROVE  OwnInv'
  <1>1. \A y \in Conn : conn'[y] = IF y = x THEN r ELSE conn[y]
    BY DEF ConnInv
  <1>2. SUFFICES ASSUME NEW y \in Conn, NEW u \in User,
                        u = conn'[y].user \/ u = conn'[y].completing \/ y \in routes'[u]
                 PROVE  OwnsNext(conn'[y].vouched, conn'[y].linked, u)
    BY DEF OwnInv, MayActFor, OwnsNext
  <1>3. CASE y = x
    <2>1. CASE OwnsNext(r.vouched, r.linked, u)
      BY <1>1, <1>3, <2>1
    <2>2. CASE u = conn[x].user \/ u = conn[x].completing \/ x \in routes[u]
      <3>1. OwnsNext(conn[x].vouched, conn[x].linked, u)
        BY <2>2, OwnedKept
      <3>2. OwnsNext(r.vouched, r.linked, u)
        BY <3>1 DEF OwnsNext
      <3>3. QED
        BY <1>1, <1>3, <3>2
    <2>3. QED
      BY <1>1, <1>2, <1>3, <2>1, <2>2
  <1>4. CASE y # x
    <2>1. u = conn[y].user \/ u = conn[y].completing \/ y \in routes[u]
      BY <1>1, <1>2, <1>4
    <2>2. QED
      BY <1>1, <1>4, <2>1, OwnedKept
  <1>5. QED
    BY <1>3, <1>4

LEMMA OwnedUntouched ==
    ASSUME ConnInv, OwnInv, ClientsKept, UNCHANGED conn,
           \A u \in User, y \in Conn : y \in routes'[u] => y \in routes[u]
    PROVE  OwnInv'
  <1>1. SUFFICES ASSUME NEW y \in Conn, NEW u \in User,
                        u = conn[y].user \/ u = conn[y].completing \/ y \in routes'[u]
                 PROVE  OwnsNext(conn[y].vouched, conn[y].linked, u)
    BY DEF OwnInv, MayActFor, OwnsNext
  <1>2. QED
    BY <1>1, OwnedKept

\* No handler makes a connection act for anybody else.
LEMMA HandlerOwned ==
    ASSUME GrantsInv, ConnInv, RoutesInv, OwnInv, ClientsKept,
           NEW x \in Conn, Handler(x)
    PROVE  OwnInv'
  <1>1. conn[x] \in ConnState /\ Introduced(conn[x])
    BY DEF ConnInv
  <1>2. GrantsTypeOK
    BY DEF GrantsInv
  <1>3. ASSUME UNCHANGED <<conn, routes>> PROVE OwnInv'
    BY <1>3, OwnedUntouched
  <1>4. ASSUME NEW r, conn' = [conn EXCEPT ![x] = r], r.user = conn[x].user,
               r.completing = conn[x].completing,
               r.vouched = conn[x].vouched, r.linked = conn[x].linked,
               \A u \in User, y \in Conn : y \in routes'[u] => y \in routes[u]
        PROVE  OwnInv'
    BY <1>4, OwnedSet
  <1>5. ASSUME NEW c \in Client, NEW declared \in SUBSET Key, Hello(x, c, declared)
        PROVE  OwnInv'
    <2> DEFINE stage == IF conn[x].stage = "new" THEN "open" ELSE conn[x].stage
               r == [conn[x] EXCEPT !.stage = stage, !.nonce = TRUE,
                                    !.client = c, !.declared = declared]
    <2>1. /\ r.user = conn[x].user /\ r.completing = conn[x].completing
          /\ r.vouched = conn[x].vouched /\ r.linked = conn[x].linked
      BY <1>1 DEF ConnState
    <2>2. conn' = [conn EXCEPT ![x] = r] /\ UNCHANGED routes
      BY <1>5 DEF Hello
    <2> HIDE DEF r
    <2>3. QED
      BY <1>4, <2>1, <2>2
  <1>6. ASSUME NEW nonce, NEW cs, UNCHANGED routes,
               conn' = [conn EXCEPT ![x].nonce = nonce, ![x].verifying = cs]
        PROVE  OwnInv'
    <2> DEFINE r == [conn[x] EXCEPT !.nonce = nonce, !.verifying = cs]
    <2>1. /\ r.user = conn[x].user /\ r.completing = conn[x].completing
          /\ r.vouched = conn[x].vouched /\ r.linked = conn[x].linked
      BY <1>1 DEF ConnState
    <2>2. conn' = [conn EXCEPT ![x] = r]
      BY <1>6
    <2> HIDE DEF r
    <2>3. QED
      BY <1>4, <1>6, <2>1, <2>2
  <1>7. ASSUME Auth(x) PROVE OwnInv'
    <2>1. UNCHANGED routes
      BY <1>7 DEF Auth
    <2>2. CASE conn' = [conn EXCEPT ![x].nonce = FALSE]
      <3>1. conn' = [conn EXCEPT ![x].nonce = FALSE, ![x].verifying = conn[x].verifying]
        BY <1>1, <2>2 DEF ConnState, ConnInv
      <3>2. QED
        BY <1>6, <2>1, <3>1
    <2>3. CASE conn' = [conn EXCEPT ![x].nonce = FALSE,
                                    ![x].verifying = @ \union {conn[x].client}]
      BY <1>6, <2>1, <2>3
    <2>4. QED
      BY <1>7, <2>2, <2>3 DEF Auth
  <1>8. ASSUME NEW c \in Client, AuthFails(x, c) PROVE OwnInv'
    <2> DEFINE r == [conn[x] EXCEPT !.verifying = @ \ {c}]
    <2>1. /\ r.user = conn[x].user /\ r.completing = conn[x].completing
          /\ r.vouched = conn[x].vouched /\ r.linked = conn[x].linked
      BY <1>1 DEF ConnState
    <2>2. conn' = [conn EXCEPT ![x] = r] /\ UNCHANGED routes
      BY <1>8 DEF AuthFails
    <2> HIDE DEF r
    <2>3. QED
      BY <1>4, <2>1, <2>2
  <1>9. ASSUME NEW c \in Client, NEW u \in User \union {NoUser}, UNCHANGED routes,
               conn' = [conn EXCEPT ![x].verifying = @ \ {c}, ![x].vouched = @ \union {c},
                                    ![x].completing = u],
               u \in User => client'[c] = u
        PROVE  OwnInv'
    <2> DEFINE r == [conn[x] EXCEPT !.verifying = @ \ {c}, !.vouched = @ \union {c},
                                    !.completing = u]
    <2>1. /\ r.user = conn[x].user /\ r.completing = u
          /\ r.vouched = conn[x].vouched \union {c} /\ r.linked = conn[x].linked
      BY <1>1 DEF ConnState
    <2>2. conn' = [conn EXCEPT ![x] = r]
      BY <1>9
    <2> HIDE DEF r
    <2>3. \A v \in User : v = r.completing => OwnsNext(r.vouched, r.linked, v)
      BY <1>9, <2>1 DEF OwnsNext
    <2>4. conn[x].vouched \subseteq r.vouched /\ conn[x].linked \subseteq r.linked
      BY <2>1
    <2>5. QED
      BY ONLY <1>9, <2>1, <2>2, <2>3, <2>4, OwnedSet, ConnInv, OwnInv, ClientsKept
  <1>10. ASSUME NEW c \in Client, AuthKnown(x, c) PROVE OwnInv'
    <2>1. UserToBe(c) \in User \union {NoUser}
      BY <1>2 DEF UserToBe, Registered, GrantsTypeOK
    <2>2. UserToBe(c) \in User => client'[c] = UserToBe(c)
      BY <1>10, GrantsAssumption DEF AuthKnown, UserToBe, grantsVars
    <2>3. QED
      BY <1>9, <1>10, <2>1, <2>2 DEF AuthKnown
  <1>11. ASSUME NEW c \in Client, NEW u \in User, AuthClaims(x, c, u) PROVE OwnInv'
    <2>1. client'[c] = u
      BY <1>2, <1>11 DEF AuthClaims, ClaimEmptyServer, GrantsTypeOK
    <2>2. QED
      BY <1>9, <1>11, <2>1 DEF AuthClaims
  <1>12. ASSUME Complete(x) PROVE OwnInv'
    <2> DEFINE u == conn[x].completing
               ks == {u} \union conn[x].declared \union keys[u]
               r == [conn[x] EXCEPT !.completing = NoUser, !.user = u, !.keys = ks]
    <2>1. /\ conn' = [conn EXCEPT ![x] = r]
          /\ routes' = [k \in Route |-> IF k \in ks THEN routes[k] \union {x} ELSE routes[k]]
      BY <1>12 DEF Complete
    <2>2. u \in User
      BY <1>1, <1>12 DEF ConnState, Complete
    <2>3. \A k \in ks : k \in User => k = u
      BY <1>1, <1>2, <2>2, SessionsAssumption DEF ConnState, GrantsTypeOK
    <2> HIDE DEF ks
    <2>4. /\ r.user = u /\ r.completing = NoUser
          /\ r.vouched = conn[x].vouched /\ r.linked = conn[x].linked
      BY <1>1 DEF ConnState
    <2> HIDE DEF r
    <2>5. \A k \in User : routes'[k] = IF k \in ks THEN routes[k] \union {x} ELSE routes[k]
      BY <2>1 DEF Route
    <2>6. ASSUME NEW k \in User, k = r.user \/ k = r.completing \/ x \in routes'[k]
          PROVE  k = conn[x].completing \/ x \in routes[k]
      BY <2>3, <2>4, <2>5, <2>6, GrantsAssumption
    <2>7. \A k \in User, y \in Conn : y # x /\ y \in routes'[k] => y \in routes[k]
      BY <2>5
    <2>8. QED
      BY <2>1, <2>4, <2>6, <2>7, OwnedSet
  <1>13. ASSUME NEW g \in Grant, NEW right \in BOOLEAN, NEW u \in User, RedeemGrant(x, g, right, u)
         PROVE  OwnInv'
    <2> DEFINE c == conn[x].client
               cs == IF grant[g].kind \in {"invite", "guest"}
                     THEN conn[x].vouched \union {c} ELSE conn[x].vouched
               us == IF grant[g].kind = "device"
                     THEN conn[x].linked \union {grant[g].issuer} ELSE conn[x].linked
               r == [conn[x] EXCEPT !.completing = u, !.vouched = cs, !.linked = us]
    <2>1. /\ r.user = conn[x].user /\ r.completing = u
          /\ r.vouched = cs /\ r.linked = us
      BY <1>1 DEF ConnState
    <2>2. conn[x].vouched \subseteq cs /\ conn[x].linked \subseteq us /\ UNCHANGED routes
      BY <1>13 DEF RedeemGrant
    <2>3. c \in Client
      BY <1>1, <1>13 DEF RedeemGrant, Introduced, Open
    <2>4. CASE UNCHANGED conn
      BY <1>3, <2>2, <2>4
    <2>5. ASSUME conn' = [conn EXCEPT ![x] = r], OwnsNext(cs, us, u) \/ u = conn[x].user
          PROVE  OwnInv'
      <3> HIDE DEF cs, us, r
      <3>1. QED
        BY <2>1, <2>2, <2>5, OwnedSet
    <2>6. CASE RedeemMints(g, c, right, u) /\ conn' = [conn EXCEPT ![x] = r]
      <3>1. client[c] = Absent /\ grant[g].kind \in {"invite", "guest"}
        BY <2>6 DEF RedeemMints, MayRedeem, Registered
      <3>2. client'[c] = u
        BY <1>2, <2>3, <2>6, <3>1 DEF RedeemMints, Registered, GrantsTypeOK
      <3>3. OwnsNext(cs, us, u)
        BY <3>1, <3>2 DEF OwnsNext
      <3>4. QED
        BY ONLY <2>5, <2>6, <3>3
    <2>7. CASE RedeemAttaches(g, c, right, u) /\ conn' = [conn EXCEPT ![x] = r]
      <3>1. OwnsNext(cs, us, u)
        BY <2>7 DEF RedeemAttaches, OwnsNext
      <3>2. QED
        BY ONLY <2>5, <2>7, <3>1
    <2>8. CASE /\ RedeemShares(g, c, right, u) /\ conn' = [conn EXCEPT ![x] = r]
               /\ grant[g].kind = "share" => u = conn[x].user
      <3>1. CASE grant[g].kind = "share"
        BY ONLY <2>5, <2>8, <3>1
      <3>2. CASE grant[g].kind # "share"
        <4>1. client'[c] = u /\ grant[g].kind = "guest"
          BY <2>8, <3>2 DEF RedeemShares
        <4>2. OwnsNext(cs, us, u)
          BY <4>1 DEF OwnsNext
        <4>3. QED
          BY ONLY <2>5, <2>8, <4>2
      <3>3. QED
        BY <3>1, <3>2
    <2>9. QED
      BY <1>13, <2>4, <2>6, <2>7, <2>8 DEF RedeemGrant
  <1>14. ASSUME NEW ks, conn' = [conn EXCEPT ![x].keys = ks],
                \A u \in User, y \in Conn : y \in routes'[u] => y \in routes[u]
         PROVE  OwnInv'
    <2> DEFINE r == [conn[x] EXCEPT !.keys = ks]
    <2>1. /\ r.user = conn[x].user /\ r.completing = conn[x].completing
          /\ r.vouched = conn[x].vouched /\ r.linked = conn[x].linked
      BY <1>1 DEF ConnState
    <2>2. conn' = [conn EXCEPT ![x] = r]
      BY <1>14
    <2> HIDE DEF r
    <2>3. QED
      BY <1>4, <1>14, <2>1, <2>2
  <1>15. ASSUME NEW k \in Key, AssociateKey(x, k) PROVE OwnInv'
    <2>1. \A u \in User : routes'[u] = routes[u]
      BY <1>15, SessionsAssumption DEF AssociateKey, RoutesInv, Route
    <2>2. QED
      BY <1>14, <1>15, <2>1 DEF AssociateKey
  <1>16. ASSUME NEW k \in Route, LeaveKey(x, k) PROVE OwnInv'
    <2>1. \A u \in User : routes'[u] \subseteq routes[u]
      BY <1>16 DEF LeaveKey, RoutesInv, Route
    <2>2. QED
      BY <1>14, <1>16, <2>1 DEF LeaveKey
  <1>17. ASSUME Close(x) PROVE OwnInv'
    <2> DEFINE r == [conn[x] EXCEPT !.stage = "closed"]
    <2>1. /\ r.user = conn[x].user /\ r.completing = conn[x].completing
          /\ r.vouched = conn[x].vouched /\ r.linked = conn[x].linked
      BY <1>1 DEF ConnState
    <2>2. conn' = [conn EXCEPT ![x] = r]
      BY <1>17 DEF Close
    <2>3. \A u \in User : routes'[u] \subseteq routes[u]
      BY <1>17 DEF Close, Route
    <2> HIDE DEF r
    <2>4. QED
      BY <1>4, <2>1, <2>2, <2>3
  <1>18. ASSUME NEW g \in Grant,
                \/ \E right \in BOOLEAN, u \in User : RedeemGrant(x, g, right, u)
                \/ PeekGrant(x, g)
                \/ CreateGrantFor(x, g)
         PROVE  OwnInv'
    BY <1>3, <1>13, <1>18 DEF PeekGrant, CreateGrantFor
  <1>19. QED
    BY <1>5, <1>7, <1>8, <1>10, <1>11, <1>12, <1>15, <1>16, <1>17, <1>18 DEF Handler, Answer

\* A socket acts for, and hears of, nobody but the users of the clients that signed on it
\* or got an account on it, and the issuers of device links redeemed on it, however often
\* it says hello while a signature is verified and whatever happens to the tables.
THEOREM SessionsActForOwner == SessionsSpec => []ActsForOwner
  <1>1. SessionsInit => OwnInv
    BY GrantsAssumption DEF SessionsInit, OwnInv, Route
  <1>2. ASSUME GrantsInv, ConnInv, RoutesInv, OwnInv, [SessionsNext]_sessionsVars PROVE OwnInv'
    <2>1. ClientsKept
      BY <1>2, StepTransacts, RegistrationsKept DEF GrantsInv
    <2>2. CASE \E x \in Conn : Handler(x)
      BY <1>2, <2>1, <2>2, HandlerOwned
    <2>3. CASE UNCHANGED <<conn, routes>>
      BY <1>2, <2>1, <2>3, OwnedUntouched
    <2>4. QED
      BY <1>2, <2>2, <2>3 DEF SessionsNext, Elsewhere, sessionsVars
  <1>3. ASSUME ConnInv, OwnInv PROVE ActsForOwner
    <2>1. \A x \in Conn : conn[x].user \in User \union {NoUser}
      BY <1>3 DEF ConnInv, ConnState
    <2>2. QED
      BY <1>3, <2>1 DEF OwnInv, ActsForOwner, ActsFor
  <1>4. QED
    BY <1>1, <1>2, <1>3, SessionsInvariant, SessionsRoutes, PTL DEF SessionsSpec
=============================================================================
