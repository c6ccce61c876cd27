-------------------------- MODULE ListrStore_proofs --------------------------
(***************************************************************************)
(* Proofs about the entity store, for every set of entities, keys and      *)
(* blobs, every clock bound and every allowance.                           *)
(*                                                                         *)
(* Every step of the store is one of five: the clock ticks, a stored row   *)
(* moves to another namespace, a write is accepted, a deletion is accepted, *)
(* or nothing changes (StepCases).  The proofs below follow those cases.   *)
(***************************************************************************)
EXTENDS ListrStoreHistory, TLAPS

\* The clamp returns a non-zero stamp no further ahead than the allowance.
LEMMA ClampBound ==
    ASSUME TypeOK, NEW t \in ClientStamp
    PROVE  /\ ClampToServerTime(t) \in Nat \ {0}
           /\ ClampToServerTime(t) <= now + MaxSkew
  BY StoreAssumption DEF TypeOK, ClientStamp, ClampToServerTime

\* The associations a push records are pairs of an asset and a namespace.
LEMMA AssociationsType ==
    ASSUME NEW e \in Entity, NEW c \in Content, NEW k \in Key
    PROVE  AssociationsFor(e, c, k) \subseteq Asset \X Key
  <1>1. CASE e \in Asset
    BY <1>1 DEF AssociationsFor
  <1>2. CASE e \notin Asset
    <2>1. Refs[c] \subseteq Asset
      BY StoreAssumption
    <2>2. QED
      BY <1>2, <2>1 DEF AssociationsFor
  <1>3. QED
    BY <1>1, <1>2

\* The cases of a step of the store, with the clamped stamp named.
LEMMA StepCases ==
    ASSUME TypeOK, [Next]_storeVars
    PROVE  \/ Tick
           \/ \E e \in Entity, c \in Content, k \in Key, u \in Nat \ {0} :
                /\ u <= now + MaxSkew
                /\ RekeyStored(e, u, c, k)
           \/ \E e \in Entity, c \in Content, k \in Key, u \in Nat \ {0} :
                /\ u <= now + MaxSkew
                /\ AcceptEntity(e, u, c, k)
           \/ \E e \in Entity, k \in Key, u \in Nat \ {0} :
                /\ u <= now + MaxSkew
                /\ AcceptTombstone(e, u, k)
           \/ UNCHANGED storeVars
  <1>1. CASE Tick
    BY <1>1
  <1>2. ASSUME NEW e \in Entity, NEW t \in ClientStamp, NEW c \in Content,
               NEW k \in Key, UpsertEntity(e, t, c, k)
        PROVE  \/ \E u \in Nat \ {0} : u <= now + MaxSkew /\ RekeyStored(e, u, c, k)
               \/ \E u \in Nat \ {0} : u <= now + MaxSkew /\ AcceptEntity(e, u, c, k)
               \/ UNCHANGED storeVars
    <2> DEFINE u == ClampToServerTime(t)
    <2>1. u \in Nat \ {0} /\ u <= now + MaxSkew
      BY ClampBound
    <2>2. \/ RekeyStored(e, u, c, k)
          \/ AcceptEntity(e, u, c, k)
          \/ UNCHANGED storeVars
      BY <1>2 DEF UpsertEntity, RefuseLegacy, RefuseStale, RefuseDeleted
    <2> HIDE DEF u
    <2>3. QED
      BY <2>1, <2>2
  <1>3. ASSUME NEW e \in Entity, NEW t \in ClientStamp, NEW k \in Key,
               ApplyTombstone(e, t, k)
        PROVE  \/ \E u \in Nat \ {0} : u <= now + MaxSkew /\ AcceptTombstone(e, u, k)
               \/ UNCHANGED storeVars
    <2> DEFINE u == ClampToServerTime(t)
    <2>1. u \in Nat \ {0} /\ u <= now + MaxSkew
      BY ClampBound
    <2>2. AcceptTombstone(e, u, k) \/ UNCHANGED storeVars
      BY <1>3 DEF ApplyTombstone, RefuseTombstone
    <2> HIDE DEF u
    <2>3. QED
      BY <2>1, <2>2
  <1>4. CASE UNCHANGED storeVars
    BY <1>4
  <1>5. QED
    BY <1>1, <1>2, <1>3, <1>4 DEF Next

-----------------------------------------------------------------------------
(* Type correctness.                                                       *)

\* A step keeps every table well-formed.
LEMMA TypeStep == TypeOK /\ [Next]_storeVars => TypeOK'
  <1> SUFFICES ASSUME TypeOK, [Next]_storeVars PROVE TypeOK'
    OBVIOUS
  <1>1. CASE Tick
    BY <1>1, StoreAssumption DEF TypeOK, Tick
  <1>2. ASSUME NEW e \in Entity, NEW c \in Content, NEW k \in Key, NEW u \in Nat \ {0},
               RekeyStored(e, u, c, k)
        PROVE  TypeOK'
    <2>1. Stored(e)
      BY <1>2 DEF RekeyStored, RowWins
    <2>2. row[e] \in Row
      BY <2>1 DEF Stored, TypeOK
    <2>3. row' \in [Entity -> Row \union {NoRow}]
      <3>1. CASE e \in Asset
        BY <1>2, <3>1 DEF TypeOK, RekeyStored
      <3>2. CASE e \notin Asset
        <4>1. [row[e] EXCEPT !.key = k] \in Row
          BY <2>2 DEF Row
        <4>2. row' = [row EXCEPT ![e] = [row[e] EXCEPT !.key = k]]
          BY <1>2, <3>2 DEF RekeyStored
        <4>3. QED
          BY <4>1, <4>2 DEF TypeOK
      <3>3. QED
        BY <3>1, <3>2
    <2>4. assetKeys' \subseteq Asset \X Key
      <3>1. row[e].content \in Content
        BY <2>2 DEF Row
      <3>2. AssociationsFor(e, row[e].content, k) \subseteq Asset \X Key
        BY <3>1, AssociationsType
      <3>3. QED
        BY <1>2, <3>2 DEF RekeyStored, TypeOK
    <2>5. QED
      BY <1>2, <2>3, <2>4 DEF RekeyStored, TypeOK
  <1>3. ASSUME NEW e \in Entity, NEW c \in Content, NEW k \in Key, NEW u \in Nat \ {0},
               AcceptEntity(e, u, c, k)
        PROVE  TypeOK'
    <2>1. [ts |-> u, content |-> c, key |-> KeyColumn(e, k)] \in Row
      BY DEF Row, Stamp, KeyColumn
    <2>2. row' \in [Entity -> Row \union {NoRow}]
      BY <1>3, <2>1 DEF AcceptEntity, TypeOK
    <2>3. assetKeys' \subseteq Asset \X Key
      BY <1>3, AssociationsType DEF AcceptEntity, TypeOK
    <2>4. QED
      BY <1>3, <2>2, <2>3 DEF AcceptEntity, TypeOK
  <1>4. ASSUME NEW e \in Entity, NEW k \in Key, NEW u \in Nat \ {0},
               AcceptTombstone(e, u, k)
        PROVE  TypeOK'
    <2>1. tomb[e] \in Tomb
      BY DEF TypeOK
    <2>2. [at |-> u, key |-> IF tomb[e].at = 0 THEN k ELSE tomb[e].key] \in Tomb
      BY <2>1 DEF Tomb, Stamp
    <2>3. tomb' \in [Entity -> Tomb]
      BY <1>4, <2>2 DEF AcceptTombstone, TypeOK
    <2>4. row' \in [Entity -> Row \union {NoRow}]
      BY <1>4 DEF AcceptTombstone, TypeOK
    <2>5. QED
      BY <1>4, <2>3, <2>4 DEF AcceptTombstone, TypeOK
  <1>5. CASE UNCHANGED storeVars
    BY <1>5 DEF storeVars, TypeOK
  <1>6. QED
    BY <1>1, <1>2, <1>3, <1>4, <1>5, StepCases

\* The tables start empty and well-formed.
LEMMA TypeInit == Init => TypeOK
  BY StoreAssumption DEF Init, TypeOK, NoTomb, Tomb, Stamp

\* Type correctness: the tables of the store keep their shape for ever.
THEOREM StoreTypeCorrect == Spec => []TypeOK
  BY TypeInit, TypeStep, PTL DEF Spec

-----------------------------------------------------------------------------
(* The safety invariants.  Their conjunction with TypeOK is inductive.     *)

StoreInv ==
    /\ TypeOK
    /\ TombstoneWins
    /\ StampsBounded
    /\ ReferencedAssetsVisible
    /\ NoOrphanAsset

\* No row survives beside a tombstone at least as recent.
LEMMA TombstoneWinsStep ==
    ASSUME TypeOK, TombstoneWins, [Next]_storeVars
    PROVE  TombstoneWins'
  <1> SUFFICES ASSUME NEW x \in Entity, Stored(x)'
               PROVE  row'[x].ts > tomb'[x].at
    BY DEF TombstoneWins
  <1>0. /\ row[x] \in Row \union {NoRow}
        /\ tomb[x] \in Tomb
    BY DEF TypeOK
  <1>1. CASE Tick \/ UNCHANGED storeVars
    BY <1>1 DEF Tick, storeVars, TombstoneWins, Stored
  <1>2. ASSUME NEW e \in Entity, NEW c \in Content, NEW k \in Key, NEW u \in Nat \ {0},
               RekeyStored(e, u, c, k)
        PROVE  row'[x].ts > tomb'[x].at
    <2>1. Stored(x) /\ row'[x].ts = row[x].ts
      BY <1>0, <1>2 DEF RekeyStored, RowWins, Stored, TypeOK, Row
    <2>2. QED
      BY <1>2, <2>1 DEF RekeyStored, TombstoneWins
  <1>3. ASSUME NEW e \in Entity, NEW c \in Content, NEW k \in Key, NEW u \in Nat \ {0},
               AcceptEntity(e, u, c, k)
        PROVE  row'[x].ts > tomb'[x].at
    <2>1. CASE x = e
      BY <1>0, <1>3, <2>1 DEF AcceptEntity, TypeOK, Tomb, Stamp
    <2>2. CASE x # e
      BY <1>3, <2>2 DEF AcceptEntity, TypeOK, Stored, TombstoneWins
    <2>3. QED
      BY <2>1, <2>2
  <1>4. ASSUME NEW e \in Entity, NEW k \in Key, NEW u \in Nat \ {0},
               AcceptTombstone(e, u, k)
        PROVE  row'[x].ts > tomb'[x].at
    <2>1. CASE x = e
      <3>1. tomb'[x].at = u
        BY <1>4, <2>1 DEF AcceptTombstone, TypeOK
      <3>2. Stored(e) /\ ~(row[e].ts <= u) /\ row' = row
        BY <1>4, <2>1 DEF AcceptTombstone, TypeOK, Stored
      <3>3. QED
        BY <1>0, <2>1, <3>1, <3>2 DEF Stored, Row, Stamp
    <2>2. CASE x # e
      BY <1>4, <2>2 DEF AcceptTombstone, TypeOK, Stored, TombstoneWins
    <2>3. QED
      BY <2>1, <2>2
  <1>5. QED
    BY <1>1, <1>2, <1>3, <1>4, StepCases

\* No stamp gets ahead of the server's clock by more than the allowance.
LEMMA StampsBoundedStep ==
    ASSUME TypeOK, StampsBounded, [Next]_storeVars
    PROVE  StampsBounded'
  <1> SUFFICES ASSUME NEW x \in Entity
               PROVE  /\ Stored(x)' => row'[x].ts <= now' + MaxSkew
                      /\ tomb'[x].at <= now' + MaxSkew
    BY DEF StampsBounded
  <1>0. /\ row[x] \in Row \union {NoRow}
        /\ tomb[x] \in Tomb
        /\ now \in Nat
        /\ MaxSkew \in Nat
    BY StoreAssumption DEF TypeOK
  <1>1. CASE Tick
    <2>1. /\ Stored(x) => row[x].ts <= now + MaxSkew
          /\ tomb[x].at <= now + MaxSkew
      BY DEF StampsBounded
    <2>2. QED
      BY <1>0, <1>1, <2>1 DEF Tick, Stored, Row, Tomb, Stamp
  <1>2. ASSUME NEW e \in Entity, NEW c \in Content, NEW k \in Key, NEW u \in Nat \ {0},
               RekeyStored(e, u, c, k)
        PROVE  /\ Stored(x)' => row'[x].ts <= now' + MaxSkew
               /\ tomb'[x].at <= now' + MaxSkew
    <2>1. Stored(x)' => Stored(x) /\ row'[x].ts = row[x].ts
      BY <1>0, <1>2 DEF RekeyStored, RowWins, Stored, TypeOK, Row
    <2>2. QED
      BY <1>2, <2>1 DEF RekeyStored, StampsBounded
  <1>3. ASSUME NEW e \in Entity, NEW c \in Content, NEW k \in Key, NEW u \in Nat \ {0},
               u <= now + MaxSkew, AcceptEntity(e, u, c, k)
        PROVE  /\ Stored(x)' => row'[x].ts <= now' + MaxSkew
               /\ tomb'[x].at <= now' + MaxSkew
    BY <1>3 DEF AcceptEntity, TypeOK, Stored, StampsBounded
  <1>4. ASSUME NEW e \in Entity, NEW k \in Key, NEW u \in Nat \ {0},
               u <= now + MaxSkew, AcceptTombstone(e, u, k)
        PROVE  /\ Stored(x)' => row'[x].ts <= now' + MaxSkew
               /\ tomb'[x].at <= now' + MaxSkew
    BY <1>4 DEF AcceptTombstone, TypeOK, Stored, StampsBounded
  <1>5. CASE UNCHANGED storeVars
    BY <1>5 DEF storeVars, StampsBounded, Stored
  <1>6. QED
    BY <1>1, <1>2, <1>3, <1>4, <1>5, StepCases

\* Associations are only ever added.
LEMMA AssociationsGrow ==
    ASSUME TypeOK, [Next]_storeVars
    PROVE  assetKeys \subseteq assetKeys'
  BY StepCases DEF Tick, RekeyStored, AcceptEntity, AcceptTombstone, storeVars

\* Whoever can pull an entity can pull the assets it references.
LEMMA ReferencedAssetsVisibleStep ==
    ASSUME TypeOK, ReferencedAssetsVisible, [Next]_storeVars
    PROVE  ReferencedAssetsVisible'
  <1> SUFFICES ASSUME NEW x \in Entity \ Asset, Stored(x)',
                      NEW a \in Refs[row'[x].content]
               PROVE  <<a, row'[x].key>> \in assetKeys'
    BY DEF ReferencedAssetsVisible
  <1>0. row[x] \in Row \union {NoRow}
    BY DEF TypeOK
  <1>1. CASE row'[x] = row[x]
    BY <1>1, AssociationsGrow DEF ReferencedAssetsVisible, Stored
  <1>2. ASSUME NEW e \in Entity, NEW c \in Content, NEW k \in Key, NEW u \in Nat \ {0},
               RekeyStored(e, u, c, k), row'[x] # row[x]
        PROVE  <<a, row'[x].key>> \in assetKeys'
    <2>1. x = e
      BY <1>2 DEF RekeyStored, TypeOK
    <2>2. Stored(x)
      BY <1>2, <2>1 DEF RekeyStored, RowWins
    <2>3. row'[x].content = row[x].content /\ row'[x].key = k
      BY <1>0, <1>2, <2>1, <2>2 DEF RekeyStored, Stored, TypeOK, Row
    <2>4. <<a, k>> \in AssociationsFor(x, row[x].content, k)
      BY <2>3 DEF AssociationsFor
    <2>5. QED
      BY <1>2, <2>1, <2>3, <2>4 DEF RekeyStored
  <1>3. ASSUME NEW e \in Entity, NEW c \in Content, NEW k \in Key, NEW u \in Nat \ {0},
               AcceptEntity(e, u, c, k), row'[x] # row[x]
        PROVE  <<a, row'[x].key>> \in assetKeys'
    <2>1. x = e
      BY <1>3 DEF AcceptEntity, TypeOK
    <2>2. row'[x].content = c /\ row'[x].key = k
      BY <1>3, <2>1 DEF AcceptEntity, TypeOK, KeyColumn
    <2>3. <<a, k>> \in AssociationsFor(x, c, k)
      BY <2>2 DEF AssociationsFor
    <2>4. QED
      BY <1>3, <2>1, <2>2, <2>3 DEF AcceptEntity
  <1>4. ASSUME NEW e \in Entity, NEW k \in Key, NEW u \in Nat \ {0},
               AcceptTombstone(e, u, k)
        PROVE  row'[x] = row[x]
    BY <1>4 DEF AcceptTombstone, TypeOK, Stored
  <1>5. Tick \/ UNCHANGED storeVars => row'[x] = row[x]
    BY DEF Tick, storeVars
  <1>6. QED
    BY <1>1, <1>2, <1>3, <1>4, <1>5, StepCases

\* A stored asset stays reachable.
LEMMA NoOrphanAssetStep ==
    ASSUME TypeOK, NoOrphanAsset, [Next]_storeVars
    PROVE  NoOrphanAsset'
  <1> SUFFICES ASSUME NEW x \in Asset, Stored(x)'
               PROVE  \E k \in Key : <<x, k>> \in assetKeys'
    BY DEF NoOrphanAsset
  <1>0. x \in Entity
    BY StoreAssumption
  <1>1. CASE Stored(x)
    BY <1>1, AssociationsGrow DEF NoOrphanAsset
  <1>2. CASE ~Stored(x)
    <2>1. ASSUME NEW e \in Entity, NEW c \in Content, NEW k \in Key, NEW u \in Nat \ {0},
                 AcceptEntity(e, u, c, k)
          PROVE  \E h \in Key : <<x, h>> \in assetKeys'
      <3>1. x = e
        BY <1>0, <1>2, <2>1 DEF AcceptEntity, TypeOK, Stored
      <3>2. <<x, k>> \in assetKeys'
        BY <2>1, <3>1 DEF AcceptEntity, AssociationsFor
      <3>3. QED
        BY <3>2
    <2>2. ASSUME NEW e \in Entity, NEW c \in Content, NEW k \in Key, NEW u \in Nat \ {0},
                 RekeyStored(e, u, c, k)
          PROVE  FALSE
      BY <1>0, <1>2, <2>2, StoreAssumption DEF RekeyStored, RowWins, TypeOK, Stored
    <2>3. ASSUME NEW e \in Entity, NEW k \in Key, NEW u \in Nat \ {0},
                 AcceptTombstone(e, u, k)
          PROVE  FALSE
      BY <1>0, <1>2, <2>3 DEF AcceptTombstone, TypeOK, Stored
    <2>4. ~(Tick \/ UNCHANGED storeVars)
      BY <1>2 DEF Tick, storeVars, Stored
    <2>5. \E e \in Entity, c \in Content, k \in Key, u \in Nat \ {0} :
             AcceptEntity(e, u, c, k)
      BY <2>2, <2>3, <2>4, StepCases
    <2>6. QED
      BY <2>1, <2>5
  <1>3. QED
    BY <1>1, <1>2

\* The empty store satisfies all of it.
LEMMA StoreInvInit == Init => StoreInv
  <1> SUFFICES ASSUME Init PROVE StoreInv
    OBVIOUS
  <1>1. TypeOK
    BY TypeInit
  <1>2. \A e \in Entity : ~Stored(e) /\ tomb[e].at = 0
    BY DEF Init, Stored, NoTomb
  <1>3. StampsBounded
    <2>1. now \in Nat /\ MaxSkew \in Nat
      BY <1>1, StoreAssumption DEF TypeOK
    <2>2. 0 <= now + MaxSkew
      BY <2>1
    <2>3. QED
      BY <1>2, <2>2 DEF StampsBounded
  <1>4. QED
    BY <1>1, <1>2, <1>3, StoreAssumption
       DEF StoreInv, TombstoneWins, ReferencedAssetsVisible, NoOrphanAsset

\* The invariant is inductive.
LEMMA StoreInvStep == StoreInv /\ [Next]_storeVars => StoreInv'
  BY TypeStep, TombstoneWinsStep, StampsBoundedStep,
     ReferencedAssetsVisibleStep, NoOrphanAssetStep DEF StoreInv

\* Every safety invariant of the store, for every value of its constants.
THEOREM StoreInvariant == Spec => []StoreInv
  BY StoreInvInit, StoreInvStep, PTL DEF Spec

\* A tombstone and a row it should have removed never coexist.
THEOREM StoreTombstoneWins == Spec => []TombstoneWins
  <1>1. StoreInv => TombstoneWins
    BY DEF StoreInv
  <1>2. QED
    BY <1>1, StoreInvariant, PTL

\* No clock makes a write unbeatable.
THEOREM StoreStampsBounded == Spec => []StampsBounded
  <1>1. StoreInv => StampsBounded
    BY DEF StoreInv
  <1>2. QED
    BY <1>1, StoreInvariant, PTL

\* Whoever can pull an entity can pull every asset it references.
THEOREM StoreReferencedAssetsVisible == Spec => []ReferencedAssetsVisible
  <1>1. StoreInv => ReferencedAssetsVisible
    BY DEF StoreInv
  <1>2. QED
    BY <1>1, StoreInvariant, PTL

-----------------------------------------------------------------------------
(* Last writer wins, step by step.                                         *)

\* One step never takes the winning stamp of an entity back.
LEMMA NeverRegressStep ==
    ASSUME StoreInv, [Next]_storeVars
    PROVE  NeverRegress
  <1> SUFFICES ASSUME NEW x \in Entity
               PROVE  /\ WinningStamp(x)' >= WinningStamp(x)
                      /\ (Stored(x) /\ Stored(x)' /\ row'[x].content # row[x].content)
                            => row'[x].ts > row[x].ts
    BY DEF NeverRegress
  <1>0. /\ TypeOK
        /\ TypeOK'
        /\ row[x] \in Row \union {NoRow}
        /\ row'[x] \in Row \union {NoRow}
        /\ tomb[x] \in Tomb
        /\ tomb'[x] \in Tomb
    BY TypeStep DEF StoreInv, TypeOK
  <1>1. CASE row'[x] = row[x] /\ tomb'[x].at >= tomb[x].at
    BY <1>0, <1>1 DEF WinningStamp, Stored, Row, Tomb, Stamp
  <1>2. ASSUME NEW e \in Entity, NEW c \in Content, NEW k \in Key, NEW u \in Nat \ {0},
               RekeyStored(e, u, c, k), x = e
        PROVE  /\ WinningStamp(x)' >= WinningStamp(x)
               /\ row'[x].content = row[x].content
    <2>1. /\ Stored(x) /\ Stored(x)'
          /\ row'[x].ts = row[x].ts
          /\ row'[x].content = row[x].content
          /\ tomb' = tomb
      BY <1>0, <1>2, StoreAssumption DEF RekeyStored, RowWins, Stored, TypeOK, Row
    <2>2. QED
      BY <1>0, <2>1 DEF WinningStamp, Stored, Row, Tomb, Stamp
  <1>3. ASSUME NEW e \in Entity, NEW c \in Content, NEW k \in Key, NEW u \in Nat \ {0},
               AcceptEntity(e, u, c, k), x = e
        PROVE  /\ WinningStamp(x)' >= WinningStamp(x)
               /\ Stored(x) => row'[x].ts > row[x].ts
    <2>1. /\ row'[x].ts = u /\ row'[x] # NoRow
          /\ tomb' = tomb /\ tomb[x].at < u
          /\ Stored(x) => row[x].ts < u
      <3>1. row'[x] = [ts |-> u, content |-> c, key |-> KeyColumn(x, k)]
        BY <1>0, <1>3 DEF AcceptEntity, TypeOK
      <3>2. row'[x] \in Row
        BY <3>1 DEF Row, Stamp, KeyColumn
      <3>3. Stored(x) => row[x].ts < u
        BY <1>0, <1>3 DEF AcceptEntity, RowWins, Stored, Row, Stamp
      <3>4. QED
        BY <1>3, <3>1, <3>2, <3>3, StoreAssumption DEF AcceptEntity
    <2>2. QED
      BY <1>0, <2>1 DEF WinningStamp, Stored, Row, Tomb, Stamp
  <1>4. ASSUME NEW e \in Entity, NEW k \in Key, NEW u \in Nat \ {0},
               AcceptTombstone(e, u, k), x = e
        PROVE  /\ WinningStamp(x)' >= WinningStamp(x)
               /\ Stored(x)' => row'[x] = row[x]
    <2>1. /\ tomb'[x].at = u /\ tomb[x].at < u
          /\ row'[x] = row[x] \/ (Stored(x) /\ row[x].ts <= u /\ row'[x] = NoRow)
      BY <1>0, <1>4 DEF AcceptTombstone, TypeOK, Stored
    <2>2. QED
      BY <1>0, <2>1 DEF WinningStamp, Stored, Row, Tomb, Stamp
  <1>5. CASE row'[x] = row[x] /\ tomb'[x] = tomb[x]
    <2>1. tomb[x].at \in Nat
      BY <1>0 DEF Tomb, Stamp
    <2>2. QED
      BY <1>1, <1>5, <2>1
  <1>6. ASSUME NEW e \in Entity, NEW c \in Content, NEW k \in Key, NEW u \in Nat \ {0},
               x # e,
               RekeyStored(e, u, c, k) \/ AcceptEntity(e, u, c, k)
        PROVE  row'[x] = row[x] /\ tomb'[x] = tomb[x]
    BY <1>0, <1>6 DEF RekeyStored, AcceptEntity, TypeOK
  <1>7. Tick \/ UNCHANGED storeVars => row'[x] = row[x] /\ tomb'[x] = tomb[x]
    BY DEF Tick, storeVars
  <1>8. CASE \E e \in Entity, c \in Content, k \in Key, u \in Nat \ {0} :
                RekeyStored(e, u, c, k)
    BY <1>2, <1>5, <1>6, <1>8
  <1>9. CASE \E e \in Entity, c \in Content, k \in Key, u \in Nat \ {0} :
                AcceptEntity(e, u, c, k)
    BY <1>3, <1>5, <1>6, <1>9
  <1>10. CASE \E e \in Entity, k \in Key, u \in Nat \ {0} : AcceptTombstone(e, u, k)
    <2>1. PICK e \in Entity, k \in Key, u \in Nat \ {0} : AcceptTombstone(e, u, k)
      BY <1>10
    <2>2. CASE x = e
      BY <1>4, <2>1, <2>2
    <2>3. CASE x # e
      <3>1. row'[x] = row[x] /\ tomb'[x] = tomb[x]
        BY <1>0, <2>1, <2>3 DEF AcceptTombstone, TypeOK
      <3>2. QED
        BY <1>5, <3>1
    <2>4. QED
      BY <2>2, <2>3
  <1>11. QED
    <2>1. \/ Tick \/ UNCHANGED storeVars
          \/ \E e \in Entity, c \in Content, k \in Key, u \in Nat \ {0} :
                RekeyStored(e, u, c, k)
          \/ \E e \in Entity, c \in Content, k \in Key, u \in Nat \ {0} :
                AcceptEntity(e, u, c, k)
          \/ \E e \in Entity, k \in Key, u \in Nat \ {0} : AcceptTombstone(e, u, k)
      BY <1>0, StepCases
    <2>2. QED
      BY <1>5, <1>7, <1>8, <1>9, <1>10, <2>1

\* Last writer wins: no behaviour of the store ever takes a winning stamp
\* back, or changes what an entity holds without a larger stamp.
THEOREM StoreNeverRegresses == Spec => NeverRegresses
  <1>1. StoreInv /\ [Next]_storeVars => [NeverRegress]_storeVars
    BY NeverRegressStep
  <1>2. QED
    BY <1>1, StoreInvariant, PTL DEF Spec, NeverRegresses

-----------------------------------------------------------------------------
(***************************************************************************)
(* The entity store implements the last-writer-wins register.              *)
(*                                                                         *)
(* The inductive invariant adds to the invariant of the store that its two *)
(* tables are what the received operations add up to.  It determines the   *)
(* winners of the register in every state, so that each step of the store  *)
(* only has to be shown to leave the tables in agreement with the history: *)
(* that the register then shows a winner follows (ShownWins).              *)
(***************************************************************************)

HistInv ==
    /\ StoreInv
    /\ received \in [Entity -> SUBSET Register!Op]
    /\ TablesMatchHistory

\* A step of the store with history is a step of the store.
LEMMA HistStepIsStoreStep == [HNext]_histVars => [Next]_storeVars
  BY DEF HNext, HTick, HUpsert, HDelete, Next, histVars, storeVars

\* The clamp lets through the stamps the register knows.
LEMMA ClampedType ==
    ASSUME TypeOK, NEW t \in ClientStamp
    PROVE  ClampToServerTime(t) \in ClampedStamp
  <1>1. /\ ClampToServerTime(t) \in Nat \ {0}
        /\ ClampToServerTime(t) <= now + MaxSkew
    BY ClampBound
  <1>2. now \in Nat /\ now <= MaxTime /\ MaxTime \in Nat /\ MaxSkew \in Nat
    BY StoreAssumption DEF TypeOK
  <1>3. QED
    BY <1>1, <1>2 DEF ClampedStamp

\* When the tables match the history, what an entity shows is a winner.
LEMMA ShownWins ==
    ASSUME HistInv, NEW e \in Entity
    PROVE  Shown[e] \in Register!Winners(received[e])
  <1>0. /\ row[e] \in Row \union {NoRow}
        /\ tomb[e] \in Tomb
        /\ received[e] \in SUBSET Register!Op
    BY DEF HistInv, StoreInv, TypeOK
  <1>1. CASE received[e] = {}
    <2>1. ~Stored(e)
      BY <1>1 DEF HistInv, TablesMatchHistory
    <2>2. QED
      BY <1>1, <2>1 DEF Shown, Register!Winners
  <1>2. CASE Stored(e)
    <2> DEFINE w == WriteOp(row[e].ts, row[e].content)
    <2>1. w \in received[e] /\ w.what = row[e].content /\ w.ts = row[e].ts
      BY <1>2 DEF HistInv, TablesMatchHistory, WriteOp
    <2>2. row[e].content # Gone /\ row[e].ts \in Nat
      BY <1>0, <1>2, GoneAssumption DEF Stored, Row, Stamp
    <2>3. ASSUME NEW p \in received[e]
          PROVE  Register!Beats(w, p)
      <3>1. p.ts \in Nat
        BY <1>0 DEF Register!Op, ClampedStamp
      <3>2. CASE p.what = Gone
        <4>1. p.ts <= tomb[e].at /\ tomb[e].at < row[e].ts /\ tomb[e].at \in Nat
          BY <1>0, <1>2, <3>2 DEF HistInv, StoreInv, TombstoneWins, TablesMatchHistory, Tomb, Stamp, Row, Stored
        <4>2. QED
          BY <2>1, <2>2, <3>1, <4>1 DEF Register!Beats
      <3>3. CASE p.what # Gone
        <4>1. p.ts <= row[e].ts
          BY <1>2, <3>3 DEF HistInv, TablesMatchHistory
        <4>2. QED
          BY <2>1, <2>2, <3>1, <3>3, <4>1 DEF Register!Beats
      <3>4. QED
        BY <3>2, <3>3
    <2>4. Shown[e] = w.what
      BY <1>2, <2>1 DEF Shown
    <2> HIDE DEF w
    <2>5. QED
      BY <2>1, <2>3, <2>4 DEF Register!Winners
  <1>3. CASE ~Stored(e) /\ received[e] # {}
    <2> DEFINE d == DeleteOp(tomb[e].at)
    <2>1. PICK p \in received[e] : TRUE
      BY <1>3
    <2>2. p.ts \in Nat \ {0} /\ p.ts <= tomb[e].at
      BY <1>0, <1>3 DEF HistInv, TablesMatchHistory, Register!Op, ClampedStamp
    <2>3. tomb[e].at \in Nat /\ tomb[e].at # 0
      BY <1>0, <2>2 DEF Tomb, Stamp
    <2>4. d \in received[e] /\ d.what = Gone /\ d.ts = tomb[e].at
      BY <2>3 DEF HistInv, TablesMatchHistory, DeleteOp
    <2>5. ASSUME NEW q \in received[e]
          PROVE  Register!Beats(d, q)
      <3>1. q.ts \in Nat /\ q.ts <= tomb[e].at
        BY <1>0, <1>3 DEF HistInv, TablesMatchHistory, Register!Op, ClampedStamp
      <3>2. QED
        BY <2>3, <2>4, <3>1 DEF Register!Beats
    <2>6. Shown[e] = d.what
      BY <1>3, <2>4 DEF Shown
    <2> HIDE DEF d
    <2>7. QED
      BY <2>4, <2>5, <2>6 DEF Register!Winners
  <1>4. QED
    BY <1>1, <1>2, <1>3

LEMMA WinnerIsShown == HistInv => Register!WinnerShown
  BY ShownWins DEF Register!WinnerShown

-----------------------------------------------------------------------------
(* The tables keep matching the history.                                   *)

\* What a push leaves in the tables and in the history.
LEMMA HistUpsertMatches ==
    ASSUME HistInv, NEW e \in Entity, NEW t \in ClientStamp, NEW c \in Content,
           NEW k \in Key, HUpsert(e, t, c, k)
    PROVE  TablesMatchHistory'
  <1> DEFINE u == ClampToServerTime(t)
             o == WriteOp(u, c)
  <1>0. /\ TypeOK
        /\ row[e] \in Row \union {NoRow}
        /\ tomb[e] \in Tomb
        /\ received[e] \in SUBSET Register!Op
        /\ u \in Nat \ {0}
        /\ o.ts = u /\ o.what = c /\ c # Gone
    BY ClampBound, GoneAssumption DEF HistInv, StoreInv, TypeOK, WriteOp
  <1>1. CASE IsLegacy(e, c)
    <2>1. UNCHANGED <<row, tomb, received>>
      BY <1>1 DEF HUpsert, UpsertEntity, RefuseLegacy, RefuseStale, RekeyStored,
                  RefuseDeleted, AcceptEntity, storeVars
    <2>2. QED
      BY <2>1 DEF HistInv, TablesMatchHistory, Stored
  <1>2. CASE ~IsLegacy(e, c)
    <2>1. received' = [received EXCEPT ![e] = @ \union {o}]
      BY <1>2 DEF HUpsert, Record
    <2>2. \/ RowWins(e, u) /\ UNCHANGED <<row, tomb>>
          \/ RekeyStored(e, u, c, k)
          \/ tomb[e].at >= u /\ ~RowWins(e, u) /\ UNCHANGED <<row, tomb>>
          \/ AcceptEntity(e, u, c, k)
      BY <1>2 DEF HUpsert, UpsertEntity, RefuseLegacy, RefuseStale, RefuseDeleted, storeVars
    <2> HIDE DEF u, o
    <2> SUFFICES ASSUME NEW x \in Entity
                 PROVE  /\ \A p \in received'[x] :
                              IF p.what = Gone THEN p.ts <= tomb'[x].at
                              ELSE IF Stored(x)' THEN p.ts <= row'[x].ts
                              ELSE p.ts <= tomb'[x].at
                        /\ tomb'[x].at # 0 => DeleteOp(tomb'[x].at) \in received'[x]
                        /\ Stored(x)' => WriteOp(row'[x].ts, row'[x].content) \in received'[x]
      BY DEF TablesMatchHistory, DeleteOp, WriteOp
    <2>3. CASE x # e
      <3>1. received'[x] = received[x] /\ row'[x] = row[x] /\ tomb'[x] = tomb[x]
        BY <1>0, <2>1, <2>2, <2>3 DEF HistInv, RekeyStored, AcceptEntity, TypeOK
      <3>2. QED
        BY <3>1 DEF HistInv, TablesMatchHistory, Stored
    <2>4. CASE x = e
      <3>1. received'[x] = received[x] \union {o} /\ tomb' = tomb
        BY <2>1, <2>2, <2>4 DEF HistInv, RekeyStored, AcceptEntity
      <3>2. CASE RowWins(e, u) /\ UNCHANGED <<row, tomb>>
        BY <1>0, <2>4, <3>1, <3>2 DEF HistInv, TablesMatchHistory, RowWins, Stored
      <3>3. CASE RekeyStored(e, u, c, k)
        <4>1. /\ RowWins(e, u) /\ Stored(x) /\ Stored(x)'
              /\ row'[x].ts = row[x].ts /\ row'[x].content = row[x].content
          BY <1>0, <2>4, <3>3, StoreAssumption DEF RekeyStored, RowWins, Stored, TypeOK, Row
        <4>2. QED
          BY <1>0, <2>4, <3>1, <4>1 DEF HistInv, TablesMatchHistory, RowWins
      <3>4. CASE tomb[e].at >= u /\ ~RowWins(e, u) /\ UNCHANGED <<row, tomb>>
        <4>1. ~Stored(e)
          BY <1>0, <3>4 DEF HistInv, StoreInv, TombstoneWins, RowWins, Stored, Row, Tomb, Stamp
        <4>2. QED
          BY <1>0, <2>4, <3>1, <3>4, <4>1 DEF HistInv, TablesMatchHistory, Stored
      <3>5. CASE AcceptEntity(e, u, c, k)
        <4>1. /\ Stored(x)' /\ row'[x].ts = u /\ row'[x].content = c
          <5>1. row'[x] = [ts |-> u, content |-> c, key |-> KeyColumn(x, k)]
            BY <1>0, <2>4, <3>5 DEF AcceptEntity, TypeOK
          <5>2. row'[x] \in Row
            BY <1>0, <5>1 DEF Row, Stamp, KeyColumn
          <5>3. QED
            BY <5>1, <5>2, StoreAssumption DEF Stored
        <4>2. tomb[x].at < u /\ (Stored(x) => row[x].ts < u)
          BY <1>0, <2>4, <3>5 DEF AcceptEntity, RowWins, Stored, Row, Stamp
        <4>3. \A p \in received[x] : p.what # Gone => p.ts <= u
          BY <1>0, <2>4, <4>2 DEF HistInv, TablesMatchHistory, Stored, Row, Tomb, Stamp,
                                  Register!Op, ClampedStamp
        <4>4. WriteOp(u, c) = o
          BY DEF o, WriteOp
        <4>5. QED
          BY <1>0, <2>4, <3>1, <4>1, <4>3, <4>4 DEF HistInv, TablesMatchHistory
      <3>6. QED
        BY <2>2, <3>2, <3>3, <3>4, <3>5
    <2>5. QED
      BY <2>3, <2>4
  <1>3. QED
    BY <1>1, <1>2

\* What a deletion leaves in the tables and in the history.
LEMMA HistDeleteMatches ==
    ASSUME HistInv, NEW e \in Entity, NEW t \in ClientStamp, NEW k \in Key,
           HDelete(e, t, k)
    PROVE  TablesMatchHistory'
  <1> DEFINE u == ClampToServerTime(t)
             o == DeleteOp(u)
  <1>0. /\ TypeOK
        /\ row[e] \in Row \union {NoRow}
        /\ tomb[e] \in Tomb
        /\ received[e] \in SUBSET Register!Op
        /\ u \in Nat \ {0}
        /\ o.ts = u /\ o.what = Gone /\ DeleteOp(u) = o
    BY ClampBound DEF HistInv, StoreInv, TypeOK, DeleteOp
  <1>1. received' = [received EXCEPT ![e] = @ \union {o}]
    BY DEF HDelete, Record
  <1>2. \/ tomb[e].at >= u /\ UNCHANGED <<row, tomb>>
        \/ AcceptTombstone(e, u, k)
    BY DEF HDelete, ApplyTombstone, RefuseTombstone, storeVars
  <1> HIDE DEF u, o
  <1> SUFFICES ASSUME NEW x \in Entity
               PROVE  /\ \A p \in received'[x] :
                            IF p.what = Gone THEN p.ts <= tomb'[x].at
                            ELSE IF Stored(x)' THEN p.ts <= row'[x].ts
                            ELSE p.ts <= tomb'[x].at
                      /\ tomb'[x].at # 0 => DeleteOp(tomb'[x].at) \in received'[x]
                      /\ Stored(x)' => WriteOp(row'[x].ts, row'[x].content) \in received'[x]
    BY DEF TablesMatchHistory, DeleteOp, WriteOp
  <1>3. CASE x # e
    <2>1. received'[x] = received[x] /\ row'[x] = row[x] /\ tomb'[x] = tomb[x]
      BY <1>0, <1>1, <1>2, <1>3 DEF HistInv, AcceptTombstone, TypeOK
    <2>2. QED
      BY <2>1 DEF HistInv, TablesMatchHistory, Stored
  <1>4. CASE x = e
    <2>1. received'[x] = received[x] \union {o}
      BY <1>1, <1>4 DEF HistInv
    <2>2. CASE tomb[e].at >= u /\ UNCHANGED <<row, tomb>>
      BY <1>0, <1>4, <2>1, <2>2 DEF HistInv, TablesMatchHistory, Stored
    <2>3. CASE AcceptTombstone(e, u, k)
      <3>1. /\ tomb'[x].at = u /\ tomb[x].at < u
            /\ \/ row'[x] = row[x] /\ ~(Stored(x) /\ row[x].ts <= u)
               \/ row'[x] = NoRow /\ Stored(x) /\ row[x].ts <= u
        BY <1>0, <1>4, <2>3 DEF AcceptTombstone, TypeOK, Stored
      <3>2. \A p \in received[x] : p.ts \in Nat
        BY <1>0, <1>4 DEF Register!Op, ClampedStamp
      <3>3. CASE row'[x] = row[x]
        BY <1>0, <1>4, <2>1, <3>1, <3>2, <3>3 DEF HistInv, TablesMatchHistory, Stored, Tomb, Stamp
      <3>4. CASE row'[x] = NoRow /\ Stored(x) /\ row[x].ts <= u
        BY <1>0, <1>4, <2>1, <3>1, <3>2, <3>4 DEF HistInv, TablesMatchHistory, Stored, Tomb, Stamp, Row
      <3>5. QED
        BY <3>1, <3>3, <3>4
    <2>4. QED
      BY <1>2, <2>2, <2>3
  <1>5. QED
    BY <1>3, <1>4

LEMMA HistInvInit == HInit => HistInv
  <1> SUFFICES ASSUME HInit PROVE HistInv
    OBVIOUS
  <1>1. StoreInv
    BY StoreInvInit DEF HInit
  <1>2. QED
    BY <1>1 DEF HInit, Init, HistInv, TablesMatchHistory, Stored, NoTomb

LEMMA HistInvStep == HistInv /\ [HNext]_histVars => HistInv'
  <1> SUFFICES ASSUME HistInv, [HNext]_histVars PROVE HistInv'
    OBVIOUS
  <1>1. StoreInv'
    BY StoreInvStep, HistStepIsStoreStep DEF HistInv
  <1>2. received' \in [Entity -> SUBSET Register!Op]
    <2>1. ASSUME NEW e \in Entity, NEW t \in ClientStamp, NEW c \in Content, NEW k \in Key,
                 HUpsert(e, t, c, k)
          PROVE  received' \in [Entity -> SUBSET Register!Op]
      <3>1. WriteOp(ClampToServerTime(t), c) \in Register!Op
        BY ClampedType DEF HistInv, StoreInv, WriteOp, Register!Op
      <3>2. QED
        BY <2>1, <3>1 DEF HUpsert, Record, HistInv
    <2>2. ASSUME NEW e \in Entity, NEW t \in ClientStamp, NEW k \in Key, HDelete(e, t, k)
          PROVE  received' \in [Entity -> SUBSET Register!Op]
      <3>1. DeleteOp(ClampToServerTime(t)) \in Register!Op
        BY ClampedType DEF HistInv, StoreInv, DeleteOp, Register!Op
      <3>2. QED
        BY <2>2, <3>1 DEF HDelete, Record, HistInv
    <2>3. CASE HTick \/ UNCHANGED histVars
      BY <2>3 DEF HTick, histVars, HistInv
    <2>4. QED
      BY <2>1, <2>2, <2>3 DEF HNext
  <1>3. TablesMatchHistory'
    <2>1. CASE HTick \/ UNCHANGED histVars
      BY <2>1 DEF HTick, Tick, histVars, HistInv, TablesMatchHistory, Stored
    <2>2. QED
      BY <2>1, HistUpsertMatches, HistDeleteMatches DEF HNext
  <1>4. QED
    BY <1>1, <1>2, <1>3 DEF HistInv

\* In every reachable state the tables are what the received operations add up
\* to.
THEOREM StoreTablesMatchHistory == HSpec => []TablesMatchHistory
  <1>1. HistInv => TablesMatchHistory
    BY DEF HistInv
  <1>2. QED
    BY <1>1, HistInvInit, HistInvStep, PTL DEF HSpec

-----------------------------------------------------------------------------
(* The refinement: each step is one receipt of the register, or a stutter.  *)

\* An operation at least as large as every other, and larger than every other
\* that says something else, is the only winner.
LEMMA OnlyWinner ==
    ASSUME NEW S \in SUBSET Register!Op, NEW o \in S,
           \A p \in S : p.ts < o.ts \/ p.what = o.what \/ (p.ts = o.ts /\ o.what = Gone)
    PROVE  Register!Winners(S) \subseteq {o.what}
  <1> SUFFICES ASSUME NEW w \in S, \A p \in S : Register!Beats(w, p)
               PROVE  w.what = o.what
    BY DEF Register!Winners
  <1>1. w.ts \in Nat /\ o.ts \in Nat
    BY DEF Register!Op, ClampedStamp
  <1>2. Register!Beats(w, o)
    OBVIOUS
  <1>3. QED
    BY <1>1, <1>2 DEF Register!Beats

\* To show a step is a receipt it is enough that the history records it, that no
\* other entity changes, and that the entity itself keeps what it shows or now
\* shows the only winner.
LEMMA ReceiptByShown ==
    ASSUME HistInv, HistInv', NEW e \in Entity, NEW o \in Register!Op,
           received' = [received EXCEPT ![e] = @ \union {o}],
           \A x \in Entity \ {e} : row'[x] = row[x],
           \/ Shown'[e] = Shown[e]
           \/ Register!Winners(received'[e]) \subseteq {Shown'[e]}
    PROVE  Register!Next
  <1> DEFINE S == received[e] \union {o}
             v == Shown'[e]
  <1>1. received'[e] = S /\ received' = [received EXCEPT ![e] = S]
    BY DEF HistInv
  <1>2. v \in Register!Winners(S)
    <2>1. Register!WinnerShown'
      BY WinnerIsShown, PTL
    <2>2. Shown'[e] \in Register!Winners(received'[e])
      BY <2>1 DEF Register!WinnerShown, Register!Winners, Register!Beats
    <2>3. QED
      BY <1>1, <2>2
  <1>3. Shown' = [Shown EXCEPT ![e] = v]
    <2>1. \A x \in Entity \ {e} : Shown'[x] = Shown[x]
      BY DEF Shown, Stored
    <2>2. QED
      BY <2>1 DEF Shown
  <1>4. Shown[e] \in Register!Winners(S) => v = Shown[e]
    BY <1>1
  <1>5. Register!Receive(e, o)
    BY <1>1, <1>2, <1>3, <1>4 DEF Register!Receive
  <1>6. QED
    BY <1>5 DEF Register!Next

LEMMA HistStepIsRegisterStep ==
    ASSUME HistInv, HistInv', [HNext]_histVars
    PROVE  [Register!Next]_Register!registerVars
  <1>0. TypeOK
    BY DEF HistInv, StoreInv
  <1>1. ASSUME NEW e \in Entity, NEW t \in ClientStamp, NEW c \in Content, NEW k \in Key,
               HUpsert(e, t, c, k)
        PROVE  [Register!Next]_Register!registerVars
    <2> DEFINE u == ClampToServerTime(t)
               o == WriteOp(u, c)
    <2>1. CASE IsLegacy(e, c)
      <3>1. UNCHANGED <<row, received>>
        BY <1>1, <2>1 DEF HUpsert, UpsertEntity, RefuseLegacy, RefuseStale, RekeyStored,
                          RefuseDeleted, AcceptEntity, storeVars
      <3>2. UNCHANGED <<received, Shown>>
        BY <3>1 DEF Shown, Stored
      <3>3. QED
        BY <3>2 DEF Register!registerVars
    <2>2. CASE ~IsLegacy(e, c)
      <3>1. received' = [received EXCEPT ![e] = @ \union {o}]
        BY <1>1, <2>2 DEF HUpsert, Record
      <3>2. o \in Register!Op /\ o.ts = u /\ o.what = c /\ c # Gone /\ u \in Nat
        BY <1>0, ClampedType, GoneAssumption DEF WriteOp, Register!Op, ClampedStamp
      <3>3. \/ UNCHANGED row
            \/ RekeyStored(e, u, c, k)
            \/ AcceptEntity(e, u, c, k)
        BY <1>1, <2>2 DEF HUpsert, UpsertEntity, RefuseLegacy, RefuseStale, RefuseDeleted, storeVars
      <3> HIDE DEF u, o
      <3>4. \A x \in Entity \ {e} : row'[x] = row[x]
        BY <1>0, <3>3 DEF RekeyStored, AcceptEntity, TypeOK
      <3>5. CASE UNCHANGED row \/ RekeyStored(e, u, c, k)
        <4>1. row[e] \in Row \union {NoRow}
          BY <1>0 DEF TypeOK
        <4>2. Stored(e)' = Stored(e) /\ (Stored(e) => row'[e].content = row[e].content)
          BY <1>0, <3>5, <4>1, StoreAssumption DEF RekeyStored, RowWins, Stored, TypeOK, Row
        <4>3. Shown'[e] = Shown[e]
          BY <4>2 DEF Shown, Stored
        <4>4. QED
          BY <3>1, <3>2, <3>4, <4>3, ReceiptByShown
      <3>6. CASE AcceptEntity(e, u, c, k)
        <4>1. Shown'[e] = c
          <5>1. row'[e] = [ts |-> u, content |-> c, key |-> KeyColumn(e, k)]
            BY <1>0, <3>6 DEF AcceptEntity, TypeOK
          <5>2. row'[e] \in Row
            BY <3>2, <5>1 DEF Row, Stamp, KeyColumn
          <5>3. QED
            BY <5>1, <5>2, StoreAssumption DEF Shown, Stored
        <4>2. received'[e] = received[e] \union {o} /\ received'[e] \in SUBSET Register!Op
          BY <3>1 DEF HistInv
        <4>3. /\ row[e] \in Row \union {NoRow}
              /\ tomb[e] \in Tomb
          BY <1>0 DEF TypeOK
        <4>4. tomb[e].at < u /\ (Stored(e) => row[e].ts < u)
          BY <3>2, <3>6, <4>3 DEF AcceptEntity, RowWins, Stored, Row, Stamp
        <4>5. \A p \in received[e] : p.ts < u
          BY <3>2, <4>3, <4>4, <4>2 DEF HistInv, TablesMatchHistory, Stored, Row, Tomb, Stamp,
                                       Register!Op, ClampedStamp
        <4>6. Register!Winners(received'[e]) \subseteq {c}
          BY <3>2, <4>2, <4>5, OnlyWinner
        <4>7. QED
          BY <3>1, <3>2, <3>4, <4>1, <4>6, ReceiptByShown
      <3>7. QED
        BY <3>3, <3>5, <3>6
    <2>3. QED
      BY <2>1, <2>2
  <1>2. ASSUME NEW e \in Entity, NEW t \in ClientStamp, NEW k \in Key, HDelete(e, t, k)
        PROVE  [Register!Next]_Register!registerVars
    <2> DEFINE u == ClampToServerTime(t)
               o == DeleteOp(u)
    <2>1. received' = [received EXCEPT ![e] = @ \union {o}]
      BY <1>2 DEF HDelete, Record
    <2>2. o \in Register!Op /\ o.ts = u /\ o.what = Gone /\ u \in Nat
      BY <1>0, ClampedType DEF DeleteOp, Register!Op, ClampedStamp
    <2>3. UNCHANGED row \/ AcceptTombstone(e, u, k)
      BY <1>2 DEF HDelete, ApplyTombstone, RefuseTombstone, storeVars
    <2> HIDE DEF u, o
    <2>4. \A x \in Entity \ {e} : row'[x] = row[x]
      BY <1>0, <2>3 DEF AcceptTombstone, TypeOK
    <2>5. CASE row'[e] = row[e]
      <3>1. Shown'[e] = Shown[e]
        BY <2>5 DEF Shown, Stored
      <3>2. QED
        BY <2>1, <2>2, <2>4, <3>1, ReceiptByShown
    <2>6. CASE row'[e] # row[e]
      <3>1. /\ Stored(e) /\ row[e].ts <= u /\ row'[e] = NoRow
            /\ tomb[e].at < u
        BY <1>0, <2>3, <2>6 DEF AcceptTombstone, TypeOK
      <3>2. Shown'[e] = Gone
        BY <3>1 DEF Shown, Stored
      <3>3. received'[e] = received[e] \union {o} /\ received'[e] \in SUBSET Register!Op
        BY <2>1 DEF HistInv
      <3>4. /\ row[e] \in Row
            /\ tomb[e] \in Tomb
        BY <1>0, <3>1 DEF TypeOK, Stored
      <3>5. \A p \in received[e] : p.ts <= u
        BY <2>2, <3>1, <3>3, <3>4 DEF HistInv, TablesMatchHistory, Row, Tomb, Stamp,
                                     Register!Op, ClampedStamp
      <3>6. \A p \in received'[e] : p.ts < o.ts \/ p.ts = o.ts
        BY <2>2, <3>3, <3>5 DEF Register!Op, ClampedStamp
      <3>7. Register!Winners(received'[e]) \subseteq {Gone}
        BY <2>2, <3>3, <3>6, OnlyWinner
      <3>8. QED
        BY <2>1, <2>2, <2>4, <3>2, <3>7, ReceiptByShown
    <2>7. QED
      BY <2>5, <2>6
  <1>3. CASE HTick \/ UNCHANGED histVars
    <2>1. UNCHANGED <<received, Shown>>
      BY <1>3 DEF HTick, Tick, histVars, Shown, Stored
    <2>2. QED
      BY <2>1 DEF Register!registerVars
  <1>4. QED
    BY <1>1, <1>2, <1>3 DEF HNext

LEMMA HistInitIsRegisterInit == HInit => Register!Init
  BY DEF HInit, Init, Register!Init, Shown, Stored

\* The server's entity store is a last-writer-wins register per entity: what an
\* entity reads as depends on the set of operations received and not on their
\* order.
THEOREM StoreImplementsRegister == HSpec => ImplementsRegister
  <1>1. HSpec => []HistInv
    BY HistInvInit, HistInvStep, PTL DEF HSpec
  <1>2. HistInv /\ HistInv' /\ [HNext]_histVars => [Register!Next]_Register!registerVars
    BY HistStepIsRegisterStep
  <1>3. QED
    BY <1>1, <1>2, HistInitIsRegisterInit, PTL DEF HSpec, ImplementsRegister, Register!Spec
=============================================================================
