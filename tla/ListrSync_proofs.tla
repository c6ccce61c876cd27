--------------------------- MODULE ListrSync_proofs ---------------------------
(***************************************************************************)
(* Proofs about the sync protocol, for any number of devices, entities,    *)
(* drops, resyncs and operations, and any clocks.                          *)
(*                                                                         *)
(* The argument has four layers.  BaseInv: the types, the server's tables, *)
(* and what the channels can hold at each point of a connection.  Devices, *)
(* as long as no clock is beyond the allowance: the server has all that it *)
(* tells, and an initial sync has sent what is stamped after its cursor;   *)
(* from it NothingStranded.  Exact: the snapshot of a full resync is all   *)
(* that the server has; from it FullResyncAgrees.  CalmInv: where nothing  *)
(* is deleted and nothing drops, every device has been told every version, *)
(* or is being told, or is still to ask; from it SettledAgrees.            *)
(***************************************************************************)
EXTENDS ListrSync, ListrStore_proofs, FiniteSetTheorems, TLAPS

-----------------------------------------------------------------------------
(* Channels as sets of messages.                                           *)

\* Appending to a channel adds a message; it does not change what is read first.
LEMMA SetOfAppend ==
    ASSUME NEW S, NEW s \in Seq(S), NEW x \in S
    PROVE  /\ Append(s, x) \in Seq(S)
           /\ Append(s, x) # <<>>
           /\ Last(Append(s, x)) = x
           /\ s # <<>> => Head(Append(s, x)) = Head(s)
           /\ s # <<>> => Tail(Append(s, x)) = Append(Tail(s), x)
           /\ ToSet(Append(s, x)) = ToSet(s) \union {x}
  <1>1. /\ Append(s, x) \in Seq(S)
        /\ Append(s, x) # <<>>
        /\ Last(Append(s, x)) = x
        /\ s # <<>> => Head(Append(s, x)) = Head(s)
    <2>1. Len(Append(s, x)) = Len(s) + 1 /\ Append(s, x)[Len(s) + 1] = x
      OBVIOUS
    <2>2. QED
      BY <2>1 DEF Last
  <1>2. s # <<>> => Tail(Append(s, x)) = Append(Tail(s), x)
    OBVIOUS
  <1>3. ToSet(Append(s, x)) = ToSet(s) \union {x}
    <2>1. DOMAIN Append(s, x) = 1 .. Len(s) + 1 /\ DOMAIN s = 1 .. Len(s) /\ Len(s) \in Nat
      OBVIOUS
    <2>2. \A i \in 1 .. Len(s) : Append(s, x)[i] = s[i]
      OBVIOUS
    <2>3. Append(s, x)[Len(s) + 1] = x
      OBVIOUS
    <2>4. 1 .. Len(s) + 1 = (1 .. Len(s)) \union {Len(s) + 1}
      BY <2>1
    <2>5. QED
      BY <2>1, <2>2, <2>3, <2>4 DEF ToSet
  <1>4. QED
    BY <1>1, <1>2, <1>3

\* Reading the first message leaves the others, and the last one last.
LEMMA SetOfTail ==
    ASSUME NEW S, NEW s \in Seq(S), s # <<>>
    PROVE  /\ Head(s) \in ToSet(s)
           /\ Tail(s) \in Seq(S)
           /\ ToSet(s) = ToSet(Tail(s)) \union {Head(s)}
           /\ Tail(s) # <<>> => Last(Tail(s)) = Last(s)
           /\ Tail(s) = <<>> => Last(s) = Head(s)
           /\ Len(s) = 1 => Tail(s) = <<>>
  <1>1. /\ Tail(s) \in Seq(S)
        /\ DOMAIN s = 1 .. Len(s) /\ Len(s) \in Nat \ {0}
        /\ DOMAIN Tail(s) = 1 .. Len(s) - 1 /\ Len(Tail(s)) = Len(s) - 1
        /\ \A i \in 1 .. Len(s) - 1 : Tail(s)[i] = s[i + 1]
        /\ Head(s) = s[1]
    OBVIOUS
  <1>2. ToSet(s) \subseteq ToSet(Tail(s)) \union {Head(s)}
    <2>1. ASSUME NEW y \in ToSet(s), y # Head(s) PROVE y \in ToSet(Tail(s))
      <3>1. PICK i \in 1 .. Len(s) : y = s[i]
        BY <1>1, Zenon DEF ToSet
      <3>2. i # 1
        BY <1>1, <2>1, <3>1
      <3>3. i - 1 \in DOMAIN Tail(s) /\ y = Tail(s)[i - 1]
        BY <1>1, <3>1, <3>2
      <3>4. QED
        BY <3>3, Zenon DEF ToSet
    <2>2. QED
      BY <2>1
  <1>3. ToSet(Tail(s)) \subseteq ToSet(s)
    <2>1. \A i \in 1 .. Len(s) - 1 : i + 1 \in 1 .. Len(s) /\ Tail(s)[i] = s[i + 1]
      BY <1>1
    <2>2. ASSUME NEW y \in ToSet(Tail(s)) PROVE y \in ToSet(s)
      <3>1. PICK i \in 1 .. Len(s) - 1 : y = Tail(s)[i]
        BY <1>1, Zenon DEF ToSet
      <3>2. y = s[i + 1] /\ i + 1 \in DOMAIN s
        BY <1>1, <2>1, <3>1
      <3>3. QED
        BY <3>2, Zenon DEF ToSet
    <2>3. QED
      BY <2>2
  <1>4. Head(s) \in ToSet(s)
    BY <1>1 DEF ToSet
  <1>5. /\ Tail(s) # <<>> => Last(Tail(s)) = Last(s)
        /\ Tail(s) = <<>> => Last(s) = Head(s)
        /\ Len(s) = 1 => Tail(s) = <<>>
    <2>1. CASE Len(s) = 1
      <3>1. Tail(s) = <<>>
        BY <1>1, <2>1
      <3>2. QED
        BY <1>1, <2>1, <3>1 DEF Last
    <2>2. CASE Len(s) # 1
      <3>0. Len(s) - 1 \in Nat \ {0}
        BY <1>1, <2>2
      <3>1. Len(s) - 1 \in 1 .. Len(s) - 1
        BY <1>1, <3>0
      <3>2. Tail(s) # <<>>
        BY <1>1, <3>0
      <3>3. Tail(s)[Len(s) - 1] = s[Len(s)]
        BY <1>1, <3>1
      <3>4. QED
        BY <1>1, <3>2, <3>3 DEF Last
    <2>3. QED
      BY <2>1, <2>2
  <1>6. QED
    BY <1>1, <1>2, <1>3, <1>4, <1>5

\* The messages of two channels put together.
LEMMA SetOfConcat ==
    ASSUME NEW S, NEW s \in Seq(S), NEW t \in Seq(S)
    PROVE  /\ s \o t \in Seq(S)
           /\ ToSet(s \o t) = ToSet(s) \union ToSet(t)
  <1>1. /\ s \o t \in Seq(S)
        /\ DOMAIN (s \o t) = 1 .. Len(s) + Len(t)
        /\ DOMAIN s = 1 .. Len(s) /\ Len(s) \in Nat
        /\ DOMAIN t = 1 .. Len(t) /\ Len(t) \in Nat
        /\ \A i \in 1 .. Len(s) : (s \o t)[i] = s[i]
        /\ \A i \in 1 .. Len(t) : (s \o t)[Len(s) + i] = t[i]
    OBVIOUS
  <1>2. ToSet(s \o t) \subseteq ToSet(s) \union ToSet(t)
    <2>1. SUFFICES ASSUME NEW i \in 1 .. Len(s) + Len(t), i \notin 1 .. Len(s)
                   PROVE  \E j \in 1 .. Len(t) : (s \o t)[i] = t[j]
      BY <1>1 DEF ToSet
    <2>2. i - Len(s) \in 1 .. Len(t) /\ i = Len(s) + (i - Len(s))
      BY <1>1, <2>1
    <2>3. QED
      BY <1>1, <2>2
  <1>3. ToSet(s) \union ToSet(t) \subseteq ToSet(s \o t)
    <2>1. \A i \in 1 .. Len(s) : i \in 1 .. Len(s) + Len(t)
      BY <1>1
    <2>2. \A i \in 1 .. Len(t) : Len(s) + i \in 1 .. Len(s) + Len(t)
      BY <1>1
    <2>3. QED
      BY <1>1, <2>1, <2>2 DEF ToSet
  <1>4. QED
    BY <1>1, <1>2, <1>3

\* SetToSeq lists a finite set, all of it.
LEMMA SetOfSequence ==
    ASSUME NEW S, IsFiniteSet(S)
    PROVE  /\ SetToSeq(S) \in Seq(S)
           /\ ToSet(SetToSeq(S)) = S
  <1> DEFINE n == Cardinality(S)
             q == SetToSeq(S)
  <1>1. n \in Nat /\ \E f \in Bijection(1 .. n, S) : TRUE
    BY FS_CardinalityType, Zenon DEF ExistsBijection
  <1>2. \E f \in [1 .. n -> S] : IsInjective(f)
    BY <1>1, Zenon DEF Bijection, Injection
  <1>3. q \in [1 .. n -> S] /\ IsInjective(q)
    BY <1>2, Zenon DEF SetToSeq
  <1>4. q \in Injection(1 .. n, S)
    BY <1>3, Zenon DEF Injection
  <1>5. IsFiniteSet(1 .. n) /\ Cardinality(1 .. n) = n
    BY <1>1, FS_Interval
  <1>6. q \in Surjection(1 .. n, S)
    BY <1>4, <1>5, FS_Injection, Zenon
  <1> HIDE DEF n, q
  <1>7. q \in Seq(S) /\ DOMAIN q = 1 .. n
    BY <1>1, <1>3
  <1>8. ToSet(q) = S
    BY <1>3, <1>6, <1>7 DEF Surjection, ToSet
  <1>9. QED
    BY <1>7, <1>8 DEF q

\* A burst is the messages of its family.
LEMMA SetOfBurst ==
    ASSUME NEW S, IsFiniteSet(S), NEW M, NEW msg \in [S -> M]
    PROVE  /\ Burst(msg) \in Seq(M)
           /\ ToSet(Burst(msg)) = {msg[e] : e \in S}
  <1> DEFINE q == SetToSeq(S)
  <1>1. q \in Seq(S) /\ ToSet(q) = S
    BY SetOfSequence
  <1>2. Burst(msg) = [i \in DOMAIN q |-> msg[q[i]]]
    BY DEF Burst
  <1> HIDE DEF q
  <1>3. DOMAIN q = 1 .. Len(q) /\ Len(q) \in Nat /\ \A i \in DOMAIN q : q[i] \in S
    BY <1>1
  <1>4. Burst(msg) \in Seq(M)
    BY <1>2, <1>3
  <1>5. ASSUME NEW e \in S PROVE \E i \in DOMAIN q : q[i] = e
    BY <1>1, Zenon DEF ToSet
  <1>6. ToSet(Burst(msg)) = {msg[e] : e \in S}
    BY <1>2, <1>3, <1>5 DEF ToSet
  <1>7. QED
    BY <1>4, <1>6

-----------------------------------------------------------------------------
(* The store, seen from the protocol.                                      *)

\* The fields of the messages.
LEMMA UpFields ==
    ASSUME NEW m \in UpMsg
    PROVE  /\ m.op \in {"entity", "delete", "pull"}
           /\ m.op = "entity" => m.e \in Entity /\ m.ts \in Pos /\ m.content \in Content
           /\ m.op = "entity" => m = [op |-> "entity", e |-> m.e, ts |-> m.ts, content |-> m.content]
           /\ m.op = "delete" => m.e \in Entity /\ m.at \in Pos
           /\ m.op = "delete" => m = [op |-> "delete", e |-> m.e, at |-> m.at]
           /\ m.op = "pull" => m.since \in 0 .. MaxTime
  BY DEF UpMsg, WriteMsg

\* What a message from the server carries.
LEMMA DownFields ==
    ASSUME NEW m \in DownMsg
    PROVE  /\ m.op \in {"ok", "entity", "delete", "snapshot"}
           /\ m.op = "entity" => m.e \in Entity /\ m.ts \in Pos /\ m.content \in Content
           /\ m.op = "delete" => m.e \in Entity /\ m.at \in Pos
           /\ m.op = "snapshot" =>
                 /\ m.rows \in [Entity -> DeviceRow \union {NoRow}]
                 /\ m.tombs \in [Entity -> Nat]
                 /\ m.time \in 0 .. MaxTime
  BY DEF DownMsg, WriteMsg

\* The head of a channel is one of its messages.
LEMMA HeadOfUp ==
    ASSUME SyncTypeOK, NEW d \in Device, up[d] # <<>>
    PROVE  /\ up[d] \in Seq(UpMsg)
           /\ Head(up[d]) \in UpMsg
           /\ Head(up[d]) \in ToSet(up[d])
  BY SetOfTail DEF SyncTypeOK

\* The first message from the server is one of its kind.
LEMMA HeadOfDown ==
    ASSUME SyncTypeOK, NEW d \in Device, down[d] # <<>>
    PROVE  /\ down[d] \in Seq(DownMsg)
           /\ Head(down[d]) \in DownMsg
           /\ Head(down[d]) \in ToSet(down[d])
  BY SetOfTail DEF SyncTypeOK

\* What the server makes of a client's stamp is within the allowance, and the store
\* has an operation with just that stamp.
LEMMA Clamped ==
    ASSUME TypeOK, NEW t \in Pos
    PROVE  LET u == ClampToServerTime(t) IN
           /\ u \in ClientStamp /\ u \in Pos
           /\ u <= t /\ u <= now + MaxSkew
           /\ ClampToServerTime(u) = u
           /\ t <= now + MaxSkew => u = t
  BY StoreAssumption DEF TypeOK, ClientStamp, ClampToServerTime, Pos

\* Every step of the protocol is a step of the store, or leaves the store alone.
LEMMA StepOfStore ==
    ASSUME SyncTypeOK, [SyncNext]_vars
    PROVE  [Next]_storeVars
  <1>0. TypeOK
    BY DEF SyncTypeOK
  <1>1. CASE SyncTick
    BY <1>1 DEF SyncTick, Next
  <1>2. ASSUME NEW d \in Device, HandleEntity(d)
        PROVE  [Next]_storeVars
    <2> DEFINE m == Head(up[d])
               u == ClampToServerTime(m.ts)
    <2>1. m \in UpMsg /\ m.op = "entity"
      BY <1>2, HeadOfUp DEF HandleEntity, Consume
    <2>2. m.e \in Entity /\ m.ts \in Pos /\ m.content \in Content /\ shared \in Key
      BY <2>1, UpFields, SyncAssumption
    <2>3. u \in ClientStamp /\ ClampToServerTime(u) = u
      BY <1>0, <2>2, Clamped
    <2>4. \/ UNCHANGED storeVars
          \/ AcceptEntity(m.e, u, m.content, shared)
      BY <1>2 DEF HandleEntity, RefuseStale, RefuseDeleted
    <2> HIDE DEF m, u
    <2>5. AcceptEntity(m.e, u, m.content, shared) => UpsertEntity(m.e, u, m.content, shared)
      BY <2>3 DEF UpsertEntity
    <2>6. QED
      BY <2>2, <2>3, <2>4, <2>5 DEF Next
  <1>3. ASSUME NEW d \in Device, HandleDelete(d)
        PROVE  [Next]_storeVars
    <2> DEFINE m == Head(up[d])
               u == ClampToServerTime(m.at)
    <2>1. m \in UpMsg /\ m.op = "delete"
      BY <1>3, HeadOfUp DEF HandleDelete, Consume
    <2>2. m.e \in Entity /\ m.at \in Pos /\ shared \in Key
      BY <2>1, UpFields, SyncAssumption
    <2>3. u \in ClientStamp /\ ClampToServerTime(u) = u
      BY <1>0, <2>2, Clamped
    <2>4. \/ UNCHANGED storeVars
          \/ AcceptTombstone(m.e, u, shared)
      BY <1>3 DEF HandleDelete, RefuseTombstone
    <2> HIDE DEF m, u
    <2>5. AcceptTombstone(m.e, u, shared) => ApplyTombstone(m.e, u, shared)
      BY <2>3 DEF ApplyTombstone
    <2>6. QED
      BY <2>2, <2>3, <2>4, <2>5 DEF Next
  <1>4. ASSUME NEW d \in Device,
               User(d) \/ Connect(d) \/ Failure(d) \/ (Progress(d) /\ ~HandleEntity(d) /\ ~HandleDelete(d))
        PROVE  UNCHANGED storeVars
    BY <1>4 DEF User, Create, Update, Delete, WriteLocal, Connect, Failure, Drop, ForcePushAll,
                ForceFullSync, Hangup, Progress, RecvOk, PushRows, PushTombsAndPull, HandlePull,
                RecvEntity, RecvDeleted, RecvSnapshot, Receive
  <1>5. CASE UNCHANGED vars
    BY <1>5 DEF vars
  <1>6. QED
    BY <1>1, <1>2, <1>3, <1>4, <1>5 DEF SyncNext, Progress

-----------------------------------------------------------------------------
(* Type correctness.                                                       *)

\* The messages that are sent are messages.
LEMMA SentTypes ==
    /\ \A e \in Entity, r \in DeviceRow : EntityMsg(e, r) \in UpMsg
    /\ \A e \in Entity, t \in Pos : DeleteMsg(e, t) \in UpMsg
    /\ \A t \in 0 .. MaxTime : PullMsg(t) \in UpMsg
    /\ OkMsg \in DownMsg
  BY DEF EntityMsg, DeleteMsg, PullMsg, OkMsg, UpMsg, DownMsg, WriteMsg, DeviceRow

\* The stamps of the store are positive.
LEMMA StoredRow ==
    ASSUME TypeOK, TombstoneWins, NEW e \in Entity, Stored(e)
    PROVE  /\ row[e] \in Row
           /\ row[e].ts \in Pos /\ row[e].content \in Content
           /\ tomb[e].at \in Nat
           /\ WinningStamp(e) = row[e].ts
  BY DEF TypeOK, TombstoneWins, Stored, WinningStamp, Row, Tomb, Stamp, Pos

\* A snapshot of stored entities is a message.
LEMMA SnapshotType ==
    ASSUME TypeOK, TombstoneWins, NEW E \in SUBSET Entity, \A e \in E : Stored(e),
           NEW T \in SUBSET Entity, NEW t \in 0 .. MaxTime
    PROVE  SnapshotMsg(E, T, t) \in DownMsg
  <1>1. \A e \in E : [ts |-> row[e].ts, content |-> row[e].content] \in DeviceRow
    BY StoredRow DEF DeviceRow
  <1>2. \A e \in Entity : tomb[e].at \in Nat
    BY DEF TypeOK, Tomb, Stamp
  <1>3. QED
    BY <1>1, <1>2 DEF SnapshotMsg, DownMsg

\* A row of a device.
LEMMA DeviceTypes ==
    ASSUME SyncTypeOK, NEW d \in Device, NEW e \in Entity
    PROVE  /\ Has(d, e) => dRow[d][e] \in DeviceRow /\ dRow[d][e].ts \in Pos
           /\ dTomb[d][e] \in Nat
           /\ now \in 1 .. MaxTime
           /\ world \in World
           /\ Clock(d) \in Int
  BY SyncAssumption DEF SyncTypeOK, TypeOK, Has, DeviceRow, Clock, World

\* The user's writes.
LEMMA WriteLocalType ==
    ASSUME SyncTypeOK, NEW d \in Device, NEW e \in Entity, WriteLocal(d, e),
           born' \subseteq Entity, TypeOK'
    PROVE  SyncTypeOK'
  <1> DEFINE r == [ts |-> Clock(d), content |-> ops + 1]
  <1>1. r \in DeviceRow
    BY DeviceTypes, SyncAssumption DEF WriteLocal, DeviceRow, Pos, World, SyncTypeOK
  <1>2. EntityMsg(e, r) \in UpMsg
    BY <1>1, SentTypes
  <1>3. up' \in [Device -> Seq(UpMsg)]
    BY <1>2, SetOfAppend DEF WriteLocal, Push, SyncTypeOK
  <1>4. dRow' \in [Device -> [Entity -> DeviceRow \union {NoRow}]]
    BY <1>1 DEF WriteLocal, SyncTypeOK
  <1>5. ops' \in 0 .. world.maxOps
    BY DeviceTypes DEF WriteLocal, SyncTypeOK, World
  <1>6. exact' \in [Device -> BOOLEAN]
    BY DEF WriteLocal, SyncTypeOK
  <1>7. QED
    BY <1>3, <1>4, <1>5, <1>6 DEF WriteLocal, SyncTypeOK, linkVars

\* A user operation keeps the types.
LEMMA UserType ==
    ASSUME SyncTypeOK, NEW d \in Device, User(d), TypeOK'
    PROVE  SyncTypeOK'
  <1>1. ASSUME NEW e \in Entity, Create(d, e) PROVE SyncTypeOK'
    <2>1. born' \subseteq Entity
      BY <1>1 DEF Create, SyncTypeOK
    <2>2. QED
      BY <1>1, <2>1, WriteLocalType DEF Create
  <1>2. ASSUME NEW e \in Entity, Update(d, e) PROVE SyncTypeOK'
    BY <1>2, WriteLocalType DEF Update, SyncTypeOK
  <1>3. ASSUME NEW e \in Entity, Delete(d, e) PROVE SyncTypeOK'
    <2>1. Clock(d) \in Pos
      BY <1>3, DeviceTypes DEF Delete, Pos
    <2>2. up' \in [Device -> Seq(UpMsg)]
      <3>1. DeleteMsg(e, Clock(d)) \in UpMsg
        BY <2>1 DEF DeleteMsg, UpMsg, WriteMsg
      <3>2. QED
        BY <1>3, <3>1, SetOfAppend DEF Delete, Push, SyncTypeOK
    <2>3. dTomb' \in [Device -> [Entity -> Nat]]
      BY <1>3, <2>1 DEF Delete, SyncTypeOK, Pos
    <2>4. dRow' \in [Device -> [Entity -> DeviceRow \union {NoRow}]]
      BY <1>3 DEF Delete, SyncTypeOK
    <2>5. ops' \in 0 .. world.maxOps
      BY <1>3, DeviceTypes DEF Delete, SyncTypeOK, World
    <2>6. exact' \in [Device -> BOOLEAN]
      BY <1>3 DEF Delete, SyncTypeOK
    <2>7. QED
      BY <1>3, <2>2, <2>3, <2>4, <2>5, <2>6 DEF Delete, SyncTypeOK, linkVars
  <1>4. QED
    BY <1>1, <1>2, <1>3 DEF User

\* Connections come and go.
LEMMA ConnectionType ==
    ASSUME SyncTypeOK, NEW d \in Device, Connect(d) \/ Failure(d), TypeOK'
    PROVE  SyncTypeOK'
  <1>1. CASE Connect(d)
    <2>1. <<OkMsg>> \in Seq(DownMsg)
      BY DEF OkMsg, DownMsg
    <2>2. QED
      BY <1>1, <2>1 DEF Connect, SyncTypeOK, deviceVars, userVars
  <1>2. CASE Failure(d)
    <2>1. /\ link' \in [Device -> {"down", "greeted", "ready"}]
          /\ stage' \in [Device -> {"idle", "rows", "tombs"}]
          /\ since' \in [Device -> 0 .. MaxTime]
          /\ up' \in [Device -> Seq(UpMsg)]
          /\ down' \in [Device -> Seq(DownMsg)]
          /\ exact' \in [Device -> BOOLEAN]
          /\ drops' \in 0 .. world.maxDrops
          /\ UNCHANGED <<userVars, deferred>>
      <3>1. Hangup(d)
        BY <1>2 DEF Failure, Drop, ForcePushAll, ForceFullSync
      <3>2. world.maxDrops \in Nat
        BY DeviceTypes, SyncAssumption DEF World, SyncTypeOK
      <3>3. 0 \in 0 .. MaxTime
        BY StoreAssumption
      <3>4. drops' \in 0 .. world.maxDrops
        BY <3>1, <3>2 DEF Hangup, SyncTypeOK
      <3>5. up' \in [Device -> Seq(UpMsg)] /\ down' \in [Device -> Seq(DownMsg)]
        BY <3>1 DEF Hangup, SyncTypeOK
      <3>6. QED
        BY <3>1, <3>3, <3>4, <3>5 DEF Hangup, SyncTypeOK
    <2>2. /\ dRow' \in [Device -> [Entity -> DeviceRow \union {NoRow}]]
          /\ dTomb' \in [Device -> [Entity -> Nat]]
          /\ cursor' \in [Device -> 0 .. MaxTime]
      <3>1. CASE UNCHANGED deviceVars
        BY <3>1 DEF SyncTypeOK, deviceVars
      <3>2. CASE ForcePushAll(d)
        BY <3>2, StoreAssumption DEF ForcePushAll, SyncTypeOK
      <3>3. CASE ForceFullSync(d)
        <4>1. dTomb' \in [Device -> [Entity -> Nat]] /\ cursor' \in [Device -> 0 .. MaxTime]
          BY <3>3, StoreAssumption DEF ForceFullSync, SyncTypeOK
        <4>2. [e \in Entity |-> NoRow] \in [Entity -> DeviceRow \union {NoRow}]
          OBVIOUS
        <4>3. dRow' \in [Device -> [Entity -> DeviceRow \union {NoRow}]]
          BY <3>3, <4>2 DEF ForceFullSync, SyncTypeOK
        <4>4. QED
          BY <4>1, <4>3
      <3>4. QED
        BY <1>2, <3>1, <3>2, <3>3 DEF Failure, Drop
    <2>3. QED
      BY <2>1, <2>2 DEF SyncTypeOK, userVars
  <1>3. QED
    BY <1>1, <1>2

\* What is on a device, not secured or newer than a cursor, is a family of messages.
LEMMA BurstTypes ==
    ASSUME SyncTypeOK, NEW d \in Device
    PROVE  /\ LET changed == {e \in Entity : Has(d, e) /\ dRow[d][e].ts > since[d]}
                  msg == [e \in changed |-> EntityMsg(e, dRow[d][e])]
              IN  /\ Burst(msg) \in Seq(UpMsg)
                  /\ ToSet(Burst(msg)) = {EntityMsg(e, dRow[d][e]) : e \in changed}
           /\ LET changed == {e \in Entity : dTomb[d][e] > since[d]}
                  msg == [e \in changed |-> DeleteMsg(e, dTomb[d][e])]
              IN  /\ Burst(msg) \in Seq(UpMsg)
                  /\ ToSet(Burst(msg)) = {DeleteMsg(e, dTomb[d][e]) : e \in changed}
  <1>0. IsFiniteSet(Entity) /\ since[d] \in Nat
    BY SyncAssumption DEF SyncTypeOK
  <1>1. ASSUME NEW S \in SUBSET Entity, NEW msg \in [S -> UpMsg]
        PROVE  Burst(msg) \in Seq(UpMsg) /\ ToSet(Burst(msg)) = {msg[e] : e \in S}
    <2>1. IsFiniteSet(S)
      BY <1>0, FS_Subset
    <2>2. QED
      BY <2>1, SetOfBurst
  <1>2. ASSUME NEW S, S = {e \in Entity : Has(d, e) /\ dRow[d][e].ts > since[d]},
               NEW msg, msg = [e \in S |-> EntityMsg(e, dRow[d][e])]
        PROVE  /\ Burst(msg) \in Seq(UpMsg)
               /\ ToSet(Burst(msg)) = {EntityMsg(e, dRow[d][e]) : e \in S}
    <2>1. \A e \in S : EntityMsg(e, dRow[d][e]) \in UpMsg
      BY <1>2, DeviceTypes, SentTypes
    <2>2. S \in SUBSET Entity /\ msg \in [S -> UpMsg] /\ \A e \in S : msg[e] = EntityMsg(e, dRow[d][e])
      BY <1>2, <2>1
    <2>3. Burst(msg) \in Seq(UpMsg) /\ ToSet(Burst(msg)) = {msg[e] : e \in S}
      BY <1>1, <2>2
    <2>4. QED
      BY <2>2, <2>3
  <1>3. ASSUME NEW S, S = {e \in Entity : dTomb[d][e] > since[d]},
               NEW msg, msg = [e \in S |-> DeleteMsg(e, dTomb[d][e])]
        PROVE  /\ Burst(msg) \in Seq(UpMsg)
               /\ ToSet(Burst(msg)) = {DeleteMsg(e, dTomb[d][e]) : e \in S}
    <2>1. \A e \in S : DeleteMsg(e, dTomb[d][e]) \in UpMsg
      <3>1. \A e \in S : dTomb[d][e] \in Pos
        <4>1. \A e \in S : e \in Entity /\ dTomb[d][e] > since[d] /\ dTomb[d][e] \in Nat
          BY <1>3 DEF SyncTypeOK
        <4>2. QED
          BY <1>0, <4>1 DEF Pos
      <3>2. QED
        BY <1>3, <3>1, SentTypes
    <2>2. S \in SUBSET Entity /\ msg \in [S -> UpMsg] /\ \A e \in S : msg[e] = DeleteMsg(e, dTomb[d][e])
      BY <1>3, <2>1
    <2>3. Burst(msg) \in Seq(UpMsg) /\ ToSet(Burst(msg)) = {msg[e] : e \in S}
      BY <1>1, <2>2
    <2>4. QED
      BY <2>2, <2>3
  <1>4. QED
    BY <1>2, <1>3

\* The initial sync fills the channel to the server: the rows and the tombstones
\* stamped after the cursor, and the pull.
LEMMA PushRowsSends ==
    ASSUME SyncTypeOK, NEW d \in Device, PushRows(d)
    PROVE  \E s \in Seq(UpMsg) :
              /\ up' = [up EXCEPT ![d] = s]
              /\ ToSet(s) = ToSet(up[d]) \union
                    {EntityMsg(e, dRow[d][e]) :
                        e \in {x \in Entity : Has(d, x) /\ dRow[d][x].ts > since[d]}}
  <1> DEFINE changed == {e \in Entity : Has(d, e) /\ dRow[d][e].ts > since[d]}
             msg == [e \in changed |-> EntityMsg(e, dRow[d][e])]
             sent == {EntityMsg(e, dRow[d][e]) : e \in changed}
             b == Burst(msg)
  <1>1. b \in Seq(UpMsg) /\ ToSet(b) = sent
    BY BurstTypes
  <1>2. up' = [up EXCEPT ![d] = up[d] \o b] /\ up[d] \in Seq(UpMsg)
    BY DEF PushRows, SyncTypeOK
  <1> HIDE DEF b, sent
  <1>3. up[d] \o b \in Seq(UpMsg) /\ ToSet(up[d] \o b) = ToSet(up[d]) \union sent
    BY <1>1, <1>2, SetOfConcat
  <1>4. QED
    BY <1>2, <1>3 DEF sent

\* PushTombsAndPull sends the tombstones after the cursor and then the pull.
LEMMA PushTombsSends ==
    ASSUME SyncTypeOK, NEW d \in Device, PushTombsAndPull(d)
    PROVE  \E s \in Seq(UpMsg) :
              /\ up' = [up EXCEPT ![d] = s]
              /\ ToSet(s) = ToSet(up[d]) \union
                    {DeleteMsg(e, dTomb[d][e]) : e \in {x \in Entity : dTomb[d][x] > since[d]}}
                        \union {PullMsg(since[d])}
  <1> DEFINE changed == {e \in Entity : dTomb[d][e] > since[d]}
             msg == [e \in changed |-> DeleteMsg(e, dTomb[d][e])]
             sent == {DeleteMsg(e, dTomb[d][e]) : e \in changed}
             b == Burst(msg)
             p == PullMsg(since[d])
  <1>1. b \in Seq(UpMsg) /\ ToSet(b) = sent
    BY BurstTypes
  <1>2. /\ up' = [up EXCEPT ![d] = (up[d] \o b) \o <<p>>]
        /\ up[d] \in Seq(UpMsg)
    BY DEF PushTombsAndPull, SyncTypeOK
  <1>3. p \in UpMsg
    BY SentTypes DEF SyncTypeOK
  <1> HIDE DEF b, sent, p
  <1>4. up[d] \o b \in Seq(UpMsg) /\ ToSet(up[d] \o b) = ToSet(up[d]) \union sent
    BY <1>1, <1>2, SetOfConcat
  <1>5. <<p>> \in Seq(UpMsg) /\ ToSet(<<p>>) = {p}
    BY <1>3 DEF ToSet
  <1> DEFINE c == up[d] \o b
             l == <<p>>
  <1>6. c \o l \in Seq(UpMsg) /\ ToSet(c \o l) = ToSet(c) \union ToSet(l)
    <2>1. c \in Seq(UpMsg) /\ l \in Seq(UpMsg)
      BY <1>4, <1>5
    <2> HIDE DEF c, l
    <2>2. QED
      BY <2>1, SetOfConcat
  <1>7. QED
    BY <1>2, <1>4, <1>5, <1>6 DEF sent, p

\* doInitialSync.
LEMMA InitialSyncType ==
    ASSUME SyncTypeOK, NEW d \in Device, RecvOk(d) \/ PushRows(d) \/ PushTombsAndPull(d), TypeOK'
    PROVE  SyncTypeOK'
  <1>1. CASE RecvOk(d)
    <2>1. Tail(down[d]) \in Seq(DownMsg)
      BY <1>1, SetOfTail DEF RecvOk, SyncTypeOK
    <2>2. QED
      BY <1>1, <2>1 DEF RecvOk, SyncTypeOK, deviceVars, userVars
  <1>2. CASE PushRows(d)
    <2>1. up' \in [Device -> Seq(UpMsg)]
      BY <1>2, PushRowsSends DEF SyncTypeOK
    <2>2. QED
      BY <1>2, <2>1 DEF PushRows, SyncTypeOK, deviceVars, userVars
  <1>3. CASE PushTombsAndPull(d)
    <2>1. up' \in [Device -> Seq(UpMsg)]
      BY <1>3, PushTombsSends DEF SyncTypeOK
    <2>2. QED
      BY <1>3, <2>1 DEF PushTombsAndPull, SyncTypeOK, deviceVars, userVars
  <1>4. QED
    BY <1>1, <1>2, <1>3

\* A handler consumes the head of its channel, and a broadcast adds one message to the
\* channels of the others.
LEMMA ConsumeType ==
    ASSUME SyncTypeOK, NEW d \in Device, NEW kind, Consume(d, kind)
    PROVE  /\ up' \in [Device -> Seq(UpMsg)]
           /\ up'[d] = Tail(up[d])
           /\ \A x \in Device \ {d} : up'[x] = up[x]
  BY SetOfTail DEF Consume, SyncTypeOK

\* A broadcast appends its message to the channels of others, and ends every "exact".
LEMMA AnnounceType ==
    ASSUME SyncTypeOK, NEW d \in Device, NEW m \in DownMsg, Announce(d, m)
    PROVE  /\ down' \in [Device -> Seq(DownMsg)]
           /\ exact' = [x \in Device |-> FALSE]
           /\ \A x \in Device :
                 \/ down'[x] = down[x]
                 \/ x # d /\ link[x] # "down" /\ down'[x] = Append(down[x], m)
  BY SetOfAppend DEF Announce, Broadcast, SyncTypeOK

\* What the server does with the head of a channel.
LEMMA HandleEntityCases ==
    ASSUME SyncTypeOK, NEW d \in Device, HandleEntity(d)
    PROVE  \E m \in UpMsg, u \in Pos :
              /\ m = Head(up[d]) /\ m \in ToSet(up[d]) /\ up[d] # <<>>
              /\ m.op = "entity" /\ m.e \in Entity /\ m.ts \in Pos /\ m.content \in Content
              /\ u = ClampToServerTime(m.ts)
              /\ u <= m.ts /\ u <= now + MaxSkew
              /\ m.ts <= now + MaxSkew => u = m.ts
              /\ Consume(d, "entity")
              /\ UNCHANGED <<deviceVars, linkVars, userVars, deferred>>
              /\ \/ RefuseStale(m.e, u, m.content, shared) /\ UNCHANGED <<down, exact>>
                 \/ RefuseDeleted(m.e, u, m.content) /\ UNCHANGED <<down, exact>>
                 \/ /\ AcceptEntity(m.e, u, m.content, shared)
                    /\ Announce(d, EntityMsg(m.e, [ts |-> u, content |-> m.content]))
                    /\ EntityMsg(m.e, [ts |-> u, content |-> m.content]) \in DownMsg
  <1> DEFINE m == Head(up[d])
             u == ClampToServerTime(m.ts)
  <1>1. m \in UpMsg /\ m \in ToSet(up[d]) /\ up[d] # <<>> /\ m.op = "entity"
    BY HeadOfUp DEF HandleEntity, Consume
  <1>2. m.e \in Entity /\ m.ts \in Pos /\ m.content \in Content
    BY <1>1, UpFields
  <1>3. u \in Pos /\ u <= m.ts /\ u <= now + MaxSkew /\ (m.ts <= now + MaxSkew => u = m.ts)
    BY <1>2, Clamped DEF SyncTypeOK
  <1>4. [m EXCEPT !.ts = u] = EntityMsg(m.e, [ts |-> u, content |-> m.content])
    <2>1. m = [op |-> "entity", e |-> m.e, ts |-> m.ts, content |-> m.content]
      BY <1>1, UpFields
    <2> HIDE DEF m, u
    <2>2. QED
      BY <2>1 DEF EntityMsg
  <1>5. EntityMsg(m.e, [ts |-> u, content |-> m.content]) \in DownMsg
    BY <1>2, <1>3 DEF EntityMsg, DownMsg, WriteMsg
  <1>6. /\ Consume(d, "entity")
        /\ UNCHANGED <<deviceVars, linkVars, userVars, deferred>>
        /\ \/ RefuseStale(m.e, u, m.content, shared) /\ UNCHANGED <<down, exact>>
           \/ RefuseDeleted(m.e, u, m.content) /\ UNCHANGED <<down, exact>>
           \/ /\ AcceptEntity(m.e, u, m.content, shared)
              /\ Announce(d, [m EXCEPT !.ts = u])
    BY DEF HandleEntity
  <1> HIDE DEF m
  <1>7. QED
    BY <1>1, <1>2, <1>3, <1>4, <1>5, <1>6 DEF m

\* What push_delete does with its message.
LEMMA HandleDeleteCases ==
    ASSUME SyncTypeOK, NEW d \in Device, HandleDelete(d)
    PROVE  \E m \in UpMsg, u \in Pos :
              /\ m = Head(up[d]) /\ m \in ToSet(up[d]) /\ up[d] # <<>>
              /\ m.op = "delete" /\ m.e \in Entity /\ m.at \in Pos /\ m \in DownMsg
              /\ u = ClampToServerTime(m.at)
              /\ u <= m.at /\ u <= now + MaxSkew
              /\ m.at <= now + MaxSkew => u = m.at
              /\ Consume(d, "delete")
              /\ UNCHANGED <<deviceVars, linkVars, userVars, deferred>>
              /\ \/ RefuseTombstone(m.e, u) /\ UNCHANGED <<down, exact>>
                 \/ AcceptTombstone(m.e, u, shared) /\ Announce(d, m)
  <1> DEFINE m == Head(up[d])
             u == ClampToServerTime(m.at)
  <1>1. m \in UpMsg /\ m \in ToSet(up[d]) /\ up[d] # <<>> /\ m.op = "delete"
    BY HeadOfUp DEF HandleDelete, Consume
  <1>2. m.e \in Entity /\ m.at \in Pos
    BY <1>1, UpFields
  <1>3. m \in DownMsg
    BY <1>1 DEF UpMsg, DownMsg
  <1>4. u \in Pos /\ u <= m.at /\ u <= now + MaxSkew /\ (m.at <= now + MaxSkew => u = m.at)
    BY <1>2, Clamped DEF SyncTypeOK
  <1>5. /\ Consume(d, "delete")
        /\ UNCHANGED <<deviceVars, linkVars, userVars, deferred>>
        /\ \/ RefuseTombstone(m.e, u) /\ UNCHANGED <<down, exact>>
           \/ AcceptTombstone(m.e, u, shared) /\ Announce(d, m)
    BY DEF HandleDelete
  <1> HIDE DEF m
  <1>6. QED
    BY <1>1, <1>2, <1>3, <1>4, <1>5 DEF m

\* The answer to a pull: everything since, or nothing.
Answer(m) ==
    LET E == EntitiesSince(shared, m.since)
        T == TombstonesSince(shared, m.since)
    IN  IF Cardinality(E) + Cardinality(T) <= MaxPull THEN SnapshotMsg(E, T, now)
        ELSE SnapshotMsg({}, {}, 0)

\* What a pull does with its message.
LEMMA HandlePullCases ==
    ASSUME SyncTypeOK, TombstoneWins, NEW d \in Device, HandlePull(d)
    PROVE  \E m \in UpMsg :
              /\ m = Head(up[d]) /\ m \in ToSet(up[d]) /\ up[d] # <<>>
              /\ m.op = "pull" /\ m.since \in 0 .. MaxTime
              /\ Consume(d, "pull")
              /\ Answer(m) \in DownMsg
              /\ down' = [down EXCEPT ![d] = Append(down[d], Answer(m))]
              /\ exact' \in [Device -> BOOLEAN]
              /\ \A x \in Device \ {d} : exact'[x] = exact[x]
              /\ exact'[d] =>
                    /\ m.since = 0 /\ Len(up[d]) = 1
                    /\ Answer(m) = SnapshotMsg(EntitiesSince(shared, m.since),
                                                  TombstonesSince(shared, m.since), now)
              /\ deferred' \in [Device -> Nat]
              /\ UNCHANGED <<storeVars, deviceVars, linkVars, userVars>>
  <1> DEFINE m == Head(up[d])
             E == EntitiesSince(shared, m.since)
             T == TombstonesSince(shared, m.since)
             fits == Cardinality(E) + Cardinality(T) <= MaxPull
  <1>1. m \in UpMsg /\ m \in ToSet(up[d]) /\ up[d] # <<>> /\ m.op = "pull"
    BY HeadOfUp DEF HandlePull, Consume
  <1>2. m.since \in 0 .. MaxTime
    BY <1>1, UpFields
  <1>3. E \in SUBSET Entity /\ T \in SUBSET Entity /\ \A e \in E : Stored(e)
    BY DEF EntitiesSince, TombstonesSince
  <1>4. now \in 0 .. MaxTime /\ 0 \in 0 .. MaxTime /\ TypeOK
    BY StoreAssumption DEF SyncTypeOK, TypeOK
  <1>5. Answer(m) = IF fits THEN SnapshotMsg(E, T, now) ELSE SnapshotMsg({}, {}, 0)
    BY DEF Answer
  <1>6. Answer(m) \in DownMsg
    <2> HIDE DEF m, E, T, fits
    <2>1. SnapshotMsg(E, T, now) \in DownMsg
      BY <1>3, <1>4, SnapshotType
    <2>2. SnapshotMsg({}, {}, 0) \in DownMsg
      BY <1>4, SnapshotType
    <2>3. QED
      BY <1>5, <2>1, <2>2
  <1>7. /\ Consume(d, "pull")
        /\ down' = [down EXCEPT ![d] = Append(down[d],
              IF fits THEN SnapshotMsg(E, T, now) ELSE SnapshotMsg({}, {}, 0))]
        /\ exact' = [exact EXCEPT ![d] = fits /\ m.since = 0 /\ Len(up[d]) = 1]
        /\ deferred' = [deferred EXCEPT ![d] = IF fits THEN 0 ELSE deferred[d] + 1]
        /\ UNCHANGED <<storeVars, deviceVars, linkVars, userVars>>
    BY DEF HandlePull, SyncTypeOK
  <1> HIDE DEF m, E, T, fits
  <1>8. /\ exact' \in [Device -> BOOLEAN]
        /\ \A x \in Device \ {d} : exact'[x] = exact[x]
        /\ exact'[d] => fits /\ m.since = 0 /\ Len(up[d]) = 1
    BY <1>7, Zenon DEF SyncTypeOK
  <1>9. deferred' \in [Device -> Nat]
    BY <1>7 DEF SyncTypeOK
  <1>10. exact'[d] => Answer(m) = SnapshotMsg(EntitiesSince(shared, m.since),
                                                 TombstonesSince(shared, m.since), now)
    BY <1>5, <1>8 DEF E, T
  <1>11. QED
    BY <1>1, <1>2, <1>5, <1>6, <1>7, <1>8, <1>9, <1>10 DEF m

\* The server's handlers.
LEMMA HandlerType ==
    ASSUME SyncTypeOK, TombstoneWins, NEW d \in Device,
           HandleEntity(d) \/ HandleDelete(d) \/ HandlePull(d), TypeOK'
    PROVE  SyncTypeOK'
  <1>1. \E kind : Consume(d, kind)
    BY DEF HandleEntity, HandleDelete, HandlePull
  <1>2. up' \in [Device -> Seq(UpMsg)]
    BY <1>1, ConsumeType
  <1>3. CASE HandlePull(d)
    <2>1. down' \in [Device -> Seq(DownMsg)]
      <3>1. PICK m \in DownMsg : down' = [down EXCEPT ![d] = Append(down[d], m)]
        BY <1>3, HandlePullCases
      <3>2. Append(down[d], m) \in Seq(DownMsg)
        BY SetOfAppend DEF SyncTypeOK
      <3>3. QED
        BY <3>1, <3>2 DEF SyncTypeOK
    <2>2. QED
      BY <1>2, <1>3, <2>1, HandlePullCases DEF SyncTypeOK, deviceVars, linkVars, userVars
  <1>4. CASE HandleEntity(d) \/ HandleDelete(d)
    <2>1. /\ UNCHANGED <<deviceVars, linkVars, userVars, deferred>>
          /\ \/ UNCHANGED <<down, exact>>
             \/ \E m \in DownMsg : Announce(d, m)
      BY <1>4, HandleEntityCases, HandleDeleteCases
    <2>2. down' \in [Device -> Seq(DownMsg)] /\ exact' \in [Device -> BOOLEAN]
      BY <2>1, AnnounceType DEF SyncTypeOK
    <2>3. QED
      BY <1>2, <2>1, <2>2 DEF SyncTypeOK, deviceVars, linkVars, userVars
  <1>5. QED
    BY <1>3, <1>4

\* What the device makes of the head of its channel.
LEMMA ReceiveType ==
    ASSUME SyncTypeOK, NEW d \in Device, NEW kind, Receive(d, kind)
    PROVE  /\ down[d] # <<>> /\ Head(down[d]) \in DownMsg /\ Head(down[d]) \in ToSet(down[d])
           /\ Head(down[d]).op = kind
           /\ down' \in [Device -> Seq(DownMsg)]
           /\ down'[d] = Tail(down[d])
           /\ \A x \in Device \ {d} : down'[x] = down[x]
           /\ UNCHANGED <<storeVars, linkVars, up, userVars, exact, deferred>>
  BY SetOfTail, HeadOfDown DEF Receive, SyncTypeOK

\* The rows, the tombstones and the cursor of d after a message, entity by entity.
LEMMA RecvEntityRows ==
    ASSUME SyncTypeOK, NEW d \in Device, RecvEntity(d)
    PROVE  LET m == Head(down[d]) IN
           /\ Receive(d, "entity") /\ m \in DownMsg /\ m \in ToSet(down[d]) /\ m.op = "entity"
           /\ m.e \in Entity /\ [ts |-> m.ts, content |-> m.content] \in DeviceRow
           /\ dRow' \in [Device -> [Entity -> DeviceRow \union {NoRow}]]
           /\ \A x \in Device, e \in Entity :
                 dRow'[x][e] = IF x = d /\ e = m.e /\ Newer(m, dRow[d][e])
                               THEN [ts |-> m.ts, content |-> m.content] ELSE dRow[x][e]
           /\ UNCHANGED <<dTomb, cursor>>
  <1> DEFINE m == Head(down[d])
             r == [ts |-> m.ts, content |-> m.content]
  <1>1. /\ Receive(d, "entity") /\ m \in DownMsg /\ m \in ToSet(down[d]) /\ m.op = "entity"
        /\ UNCHANGED <<dTomb, cursor>>
    BY ReceiveType DEF RecvEntity
  <1>2. m.e \in Entity /\ r \in DeviceRow
    BY <1>1, DownFields DEF DeviceRow
  <1>3. dRow' = IF Newer(m, dRow[d][m.e]) THEN [dRow EXCEPT ![d][m.e] = r] ELSE dRow
    BY DEF RecvEntity
  <1> HIDE DEF m, r
  <1>4. dRow' \in [Device -> [Entity -> DeviceRow \union {NoRow}]]
    BY <1>2, <1>3 DEF SyncTypeOK
  <1>5. \A x \in Device, e \in Entity :
           dRow'[x][e] = IF x = d /\ e = m.e /\ Newer(m, dRow[d][e]) THEN r ELSE dRow[x][e]
    BY <1>2, <1>3 DEF SyncTypeOK
  <1>6. QED
    BY <1>1, <1>2, <1>4, <1>5 DEF m, r

\* What a "deleted" message makes of the device's tables.
LEMMA RecvDeletedRows ==
    ASSUME SyncTypeOK, NEW d \in Device, RecvDeleted(d)
    PROVE  LET m == Head(down[d]) IN
           /\ Receive(d, "delete") /\ m \in DownMsg /\ m \in ToSet(down[d]) /\ m.op = "delete"
           /\ m.e \in Entity /\ m.at \in Pos
           /\ dRow' \in [Device -> [Entity -> DeviceRow \union {NoRow}]]
           /\ dTomb' \in [Device -> [Entity -> Nat]]
           /\ \A x \in Device, e \in Entity :
                 /\ dRow'[x][e] = IF x = d /\ e = m.e /\ ShouldDelete(dRow[d][e], m.at)
                                  THEN NoRow ELSE dRow[x][e]
                 /\ dTomb'[x][e] = IF x = d /\ e = m.e THEN m.at ELSE dTomb[x][e]
           /\ UNCHANGED cursor
  <1> DEFINE m == Head(down[d])
  <1>1. /\ Receive(d, "delete") /\ m \in DownMsg /\ m \in ToSet(down[d]) /\ m.op = "delete"
        /\ UNCHANGED cursor
    BY ReceiveType DEF RecvDeleted
  <1>2. m.e \in Entity /\ m.at \in Pos
    BY <1>1, DownFields
  <1>3. /\ dRow' = IF ShouldDelete(dRow[d][m.e], m.at) THEN [dRow EXCEPT ![d][m.e] = NoRow] ELSE dRow
        /\ dTomb' = [dTomb EXCEPT ![d][m.e] = m.at]
    BY DEF RecvDeleted
  <1> HIDE DEF m
  <1>4. dRow' \in [Device -> [Entity -> DeviceRow \union {NoRow}]]
    BY <1>2, <1>3 DEF SyncTypeOK
  <1>5. dTomb' \in [Device -> [Entity -> Nat]]
    BY <1>2, <1>3 DEF SyncTypeOK, Pos
  <1>6. \A x \in Device, e \in Entity :
           dRow'[x][e] = IF x = d /\ e = m.e /\ ShouldDelete(dRow[d][e], m.at)
                         THEN NoRow ELSE dRow[x][e]
    BY <1>2, <1>3 DEF SyncTypeOK
  <1>7. \A x \in Device, e \in Entity :
           dTomb'[x][e] = IF x = d /\ e = m.e THEN m.at ELSE dTomb[x][e]
    BY <1>2, <1>3 DEF SyncTypeOK
  <1>8. QED
    BY <1>1, <1>2, <1>4, <1>5, <1>6, <1>7 DEF m

\* The row of a snapshot, where it is newer, and then its tombstone.
Merged(d, m, e) ==
    IF m.rows[e] # NoRow /\ Newer(m.rows[e], dRow[d][e]) THEN m.rows[e] ELSE dRow[d][e]

\* What a snapshot makes of the device's tables.
LEMMA RecvSnapshotRows ==
    ASSUME SyncTypeOK, NEW d \in Device, RecvSnapshot(d)
    PROVE  LET m == Head(down[d]) IN
           /\ Receive(d, "snapshot") /\ m \in DownMsg /\ m \in ToSet(down[d]) /\ m.op = "snapshot"
           /\ m.rows \in [Entity -> DeviceRow \union {NoRow}]
           /\ m.tombs \in [Entity -> Nat]
           /\ m.time \in 0 .. MaxTime
           /\ dRow' \in [Device -> [Entity -> DeviceRow \union {NoRow}]]
           /\ dTomb' \in [Device -> [Entity -> Nat]]
           /\ cursor' \in [Device -> 0 .. MaxTime]
           /\ \A e \in Entity :
                 /\ dRow'[d][e] = IF m.tombs[e] # 0 /\ ShouldDelete(Merged(d, m, e), m.tombs[e])
                                  THEN NoRow ELSE Merged(d, m, e)
                 /\ dTomb'[d][e] = IF m.tombs[e] # 0 THEN m.tombs[e] ELSE dTomb[d][e]
           /\ cursor'[d] = IF m.time = 0 THEN cursor[d] ELSE m.time
           /\ \A x \in Device \ {d} :
                 dRow'[x] = dRow[x] /\ dTomb'[x] = dTomb[x] /\ cursor'[x] = cursor[x]
  <1> DEFINE m == Head(down[d])
             r == [e \in Entity |->
                     IF m.tombs[e] # 0 /\ ShouldDelete(Merged(d, m, e), m.tombs[e])
                     THEN NoRow ELSE Merged(d, m, e)]
             t == [e \in Entity |-> IF m.tombs[e] # 0 THEN m.tombs[e] ELSE dTomb[d][e]]
  <1>1. Receive(d, "snapshot") /\ m \in DownMsg /\ m \in ToSet(down[d]) /\ m.op = "snapshot"
    BY ReceiveType DEF RecvSnapshot
  <1>2. /\ m.rows \in [Entity -> DeviceRow \union {NoRow}]
        /\ m.tombs \in [Entity -> Nat]
        /\ m.time \in 0 .. MaxTime
    BY <1>1, DownFields
  <1>3. /\ dRow' = [dRow EXCEPT ![d] = r]
        /\ dTomb' = [dTomb EXCEPT ![d] = t]
        /\ cursor' = IF m.time = 0 THEN cursor ELSE [cursor EXCEPT ![d] = m.time]
    <2>1. r = [e \in Entity |->
                 IF e \in {x \in Entity : m.tombs[x] # 0} /\ ShouldDelete(Merged(d, m, e), m.tombs[e])
                 THEN NoRow ELSE Merged(d, m, e)]
      OBVIOUS
    <2>2. t = [e \in Entity |->
                 IF e \in {x \in Entity : m.tombs[x] # 0} THEN m.tombs[e] ELSE dTomb[d][e]]
      OBVIOUS
    <2>3. QED
      BY <2>1, <2>2 DEF RecvSnapshot, Merged, SyncTypeOK
  <1> HIDE DEF m
  <1>4. r \in [Entity -> DeviceRow \union {NoRow}]
    BY <1>2 DEF Merged, SyncTypeOK
  <1>5. t \in [Entity -> Nat]
    BY <1>2 DEF SyncTypeOK
  <1>6. \A e \in Entity :
           /\ r[e] = IF m.tombs[e] # 0 /\ ShouldDelete(Merged(d, m, e), m.tombs[e])
                     THEN NoRow ELSE Merged(d, m, e)
           /\ t[e] = IF m.tombs[e] # 0 THEN m.tombs[e] ELSE dTomb[d][e]
    OBVIOUS
  <1> HIDE DEF r, t
  <1>7. /\ dRow' \in [Device -> [Entity -> DeviceRow \union {NoRow}]]
        /\ dTomb' \in [Device -> [Entity -> Nat]]
        /\ cursor' \in [Device -> 0 .. MaxTime]
    BY <1>2, <1>3, <1>4, <1>5 DEF SyncTypeOK
  <1>8. dRow'[d] = r /\ dTomb'[d] = t /\ cursor'[d] = IF m.time = 0 THEN cursor[d] ELSE m.time
    BY <1>3 DEF SyncTypeOK
  <1>9. \A x \in Device \ {d} :
           dRow'[x] = dRow[x] /\ dTomb'[x] = dTomb[x] /\ cursor'[x] = cursor[x]
    BY <1>3 DEF SyncTypeOK
  <1>10. QED
    BY <1>1, <1>2, <1>6, <1>7, <1>8, <1>9 DEF m

\* A merge keeps the types.
LEMMA RecvType ==
    ASSUME SyncTypeOK, NEW d \in Device,
           RecvEntity(d) \/ RecvDeleted(d) \/ RecvSnapshot(d), TypeOK'
    PROVE  SyncTypeOK'
  <1>1. \E kind : Receive(d, kind)
    BY DEF RecvEntity, RecvDeleted, RecvSnapshot
  <1>2. /\ down' \in [Device -> Seq(DownMsg)]
        /\ UNCHANGED <<storeVars, linkVars, up, userVars, exact, deferred>>
    BY <1>1, ReceiveType
  <1>3. /\ dRow' \in [Device -> [Entity -> DeviceRow \union {NoRow}]]
        /\ dTomb' \in [Device -> [Entity -> Nat]]
        /\ cursor' \in [Device -> 0 .. MaxTime]
    <2>1. CASE RecvEntity(d)
      BY <2>1, RecvEntityRows DEF SyncTypeOK
    <2>2. CASE RecvDeleted(d)
      BY <2>2, RecvDeletedRows DEF SyncTypeOK
    <2>3. CASE RecvSnapshot(d)
      BY <2>3, RecvSnapshotRows
    <2>4. QED
      BY <2>1, <2>2, <2>3
  <1>4. QED
    BY <1>2, <1>3 DEF SyncTypeOK, linkVars, userVars

\* Every step keeps the types.
LEMMA SyncTypeStep ==
    ASSUME SyncTypeOK, TombstoneWins, [SyncNext]_vars
    PROVE  SyncTypeOK'
  <1>1. TypeOK'
    BY StepOfStore, TypeStep DEF SyncTypeOK
  <1>2. CASE UNCHANGED vars
    BY <1>1, <1>2 DEF vars, SyncTypeOK, deviceVars, linkVars, userVars
  <1>3. CASE SyncTick
    BY <1>1, <1>3 DEF SyncTick, SyncTypeOK, deviceVars, linkVars, userVars
  <1>4. ASSUME NEW d \in Device, User(d) \/ Connect(d) \/ Failure(d) \/ Progress(d)
        PROVE  SyncTypeOK'
    BY <1>1, <1>4, UserType, ConnectionType, InitialSyncType, HandlerType, RecvType DEF Progress
  <1>5. QED
    BY <1>2, <1>3, <1>4 DEF SyncNext

\* The types at the start.
LEMMA SyncTypeInit == SyncInit => SyncTypeOK
  <1> SUFFICES ASSUME SyncInit PROVE SyncTypeOK
    OBVIOUS
  <1>1. TypeOK /\ 0 \in 0 .. MaxTime
    BY TypeInit, StoreAssumption DEF SyncInit
  <1>2. world \in World
    BY SyncAssumption DEF SyncInit
  <1>3. ops \in 0 .. world.maxOps /\ drops \in 0 .. world.maxDrops
    BY <1>2 DEF SyncInit, World
  <1>4. QED
    BY <1>1, <1>3 DEF SyncInit, SyncTypeOK

-----------------------------------------------------------------------------
(* What the channels hold.                                                 *)

\* The channels of d at each point of a connection: a pull only after the tombstones, a
\* snapshot only after the pull, and "ok" before anything that is not a broadcast.
ChannelsOf(d) ==
    /\ link[d] = "down" => up[d] = <<>> /\ down[d] = <<>>
    /\ link[d] = "greeted" =>
          /\ up[d] = <<>> /\ down[d] # <<>> /\ Head(down[d]) = OkMsg
          /\ \A m \in ToSet(Tail(down[d])) : m.op \in {"entity", "delete"}
    /\ link[d] = "ready" => \A m \in ToSet(down[d]) : m.op # "ok"
    /\ link[d] # "ready" => stage[d] = "idle" /\ ~exact[d]
    /\ stage[d] # "idle" =>
          /\ since[d] = cursor[d]
          /\ \A m \in ToSet(up[d]) : m.op # "pull"
          /\ \A m \in ToSet(down[d]) : m.op # "snapshot"
    /\ \A m \in ToSet(up[d]) : m.op = "pull" => m.since = since[d]

Channels == \A d \in Device : ChannelsOf(d)

\* A device that a step does not touch.
LEMMA ChannelFrame ==
    ASSUME NEW x \in Device, ChannelsOf(x),
           link'[x] = link[x], stage'[x] = stage[x], since'[x] = since[x],
           cursor'[x] = cursor[x], up'[x] = up[x], down'[x] = down[x], exact'[x] => exact[x]
    PROVE  ChannelsOf(x)'
  BY DEF ChannelsOf

\* A write pushed on a ready connection.
LEMMA PushChannel ==
    ASSUME SyncTypeOK, Channels, NEW d \in Device, NEW m \in UpMsg, m.op # "pull", Push(d, m),
           exact' = [exact EXCEPT ![d] = FALSE], UNCHANGED <<cursor, linkVars, down>>
    PROVE  Channels'
  <1> SUFFICES ASSUME NEW x \in Device PROVE ChannelsOf(x)'
    BY DEF Channels
  <1>1. CASE up'[x] = up[x]
    BY <1>1, ChannelFrame DEF Channels, linkVars, SyncTypeOK
  <1>2. CASE x = d /\ link[d] = "ready" /\ up'[d] = Append(up[d], m)
    <2>1. up[d] \in Seq(UpMsg)
      BY DEF SyncTypeOK
    <2>2. ToSet(up'[d]) = ToSet(up[d]) \union {m}
      BY <1>2, <2>1, SetOfAppend
    <2>3. QED
      BY <1>2, <2>2 DEF Channels, ChannelsOf, linkVars
  <1>3. QED
    BY <1>1, <1>2 DEF Push, SyncTypeOK

\* User operations keep what the channels hold.
LEMMA UserChannels ==
    ASSUME SyncTypeOK, Channels, NEW d \in Device, User(d)
    PROVE  Channels'
  <1>1. ASSUME NEW e \in Entity, WriteLocal(d, e) PROVE Channels'
    <2> DEFINE r == [ts |-> Clock(d), content |-> ops + 1]
    <2>1. r \in DeviceRow
      BY <1>1, DeviceTypes, SyncAssumption DEF WriteLocal, DeviceRow, Pos, World, SyncTypeOK
    <2>2. EntityMsg(e, r) \in UpMsg /\ EntityMsg(e, r).op = "entity"
      BY <2>1, SentTypes DEF EntityMsg
    <2>3. QED
      BY <1>1, <2>2, PushChannel DEF WriteLocal
  <1>2. ASSUME NEW e \in Entity, Delete(d, e) PROVE Channels'
    <2>1. Clock(d) \in Pos
      BY <1>2, DeviceTypes DEF Delete, Pos
    <2>2. DeleteMsg(e, Clock(d)) \in UpMsg /\ DeleteMsg(e, Clock(d)).op = "delete"
      BY <2>1, SentTypes DEF DeleteMsg
    <2>3. QED
      BY <1>2, <2>2, PushChannel DEF Delete
  <1>3. QED
    BY <1>1, <1>2 DEF User, Create, Update

\* So do connecting and failing.
LEMMA ConnectionChannels ==
    ASSUME SyncTypeOK, Channels, NEW d \in Device, Connect(d) \/ Failure(d)
    PROVE  Channels'
  <1> SUFFICES ASSUME NEW x \in Device PROVE ChannelsOf(x)'
    BY DEF Channels
  <1>1. CASE Connect(d)
    <2>1. CASE x = d
      <3>1. /\ link'[d] = "greeted" /\ down'[d] = <<OkMsg>>
            /\ UNCHANGED <<stage, since, up, exact, cursor>>
            /\ link[d] = "down"
        BY <1>1 DEF Connect, SyncTypeOK, deviceVars
      <3>2. Tail(<<OkMsg>>) = <<>> /\ Head(<<OkMsg>>) = OkMsg /\ <<OkMsg>> # <<>>
        OBVIOUS
      <3>3. \A m \in ToSet(<<>>) : FALSE
        BY DEF ToSet
      <3>4. up[d] = <<>> /\ stage[d] = "idle" /\ ~exact[d]
        BY <2>1, <3>1 DEF Channels, ChannelsOf
      <3>5. QED
        BY <2>1, <3>1, <3>2, <3>3, <3>4 DEF ChannelsOf
    <2>2. CASE x # d
      BY <1>1, <2>2, ChannelFrame DEF Connect, Channels, SyncTypeOK, deviceVars
    <2>3. QED
      BY <2>1, <2>2
  <1>2. CASE Failure(d)
    <2>0. Hangup(d)
      BY <1>2 DEF Failure, Drop, ForcePushAll, ForceFullSync
    <2>1. CASE x = d
      <3>1. /\ link'[d] = "down" /\ stage'[d] = "idle" /\ up'[d] = <<>> /\ down'[d] = <<>>
            /\ exact'[d] = FALSE
        BY <2>0 DEF Hangup, SyncTypeOK
      <3>2. \A m \in ToSet(<<>>) : FALSE
        BY DEF ToSet
      <3>3. QED
        BY <2>1, <3>1, <3>2 DEF ChannelsOf
    <2>2. CASE x # d
      <3>1. cursor'[x] = cursor[x]
        BY <1>2, <2>2 DEF Failure, Drop, ForcePushAll, ForceFullSync, deviceVars, SyncTypeOK
      <3>2. QED
        BY <2>0, <2>2, <3>1, ChannelFrame DEF Hangup, Channels, SyncTypeOK
    <2>3. QED
      BY <2>1, <2>2
  <1>3. QED
    BY <1>1, <1>2

\* So does the initial sync.
LEMMA InitialSyncChannels ==
    ASSUME SyncTypeOK, Channels, NEW d \in Device,
           RecvOk(d) \/ PushRows(d) \/ PushTombsAndPull(d)
    PROVE  Channels'
  <1> SUFFICES ASSUME NEW x \in Device PROVE ChannelsOf(x)'
    BY DEF Channels
  <1>0. ChannelsOf(d) /\ ChannelsOf(x)
    BY DEF Channels
  <1>1. CASE x # d
    <2>1. UNCHANGED <<cursor, exact>>
      BY DEF RecvOk, PushRows, PushTombsAndPull, deviceVars
    <2>2. /\ link'[x] = link[x] /\ stage'[x] = stage[x] /\ since'[x] = since[x]
          /\ up'[x] = up[x] /\ down'[x] = down[x]
      BY <1>1 DEF RecvOk, PushRows, PushTombsAndPull, SyncTypeOK
    <2>3. QED
      BY <1>0, <2>1, <2>2, ChannelFrame
  <1>2. CASE x = d /\ RecvOk(d)
    <2>1. /\ down[d] # <<>> /\ Head(down[d]).op = "ok"
          /\ down'[d] = Tail(down[d]) /\ link'[d] = "ready" /\ stage'[d] = "rows"
          /\ since'[d] = cursor[d] /\ UNCHANGED <<cursor, up, exact>>
      BY <1>2 DEF RecvOk, SyncTypeOK, deviceVars
    <2>2. link[d] = "greeted"
      BY <1>0, <2>1, HeadOfDown DEF ChannelsOf, SyncTypeOK
    <2>3. up[d] = <<>> /\ \A m \in ToSet(down'[d]) : m.op \in {"entity", "delete"}
      BY <1>0, <2>1, <2>2 DEF ChannelsOf
    <2>4. \A m \in ToSet(<<>>) : FALSE
      BY DEF ToSet
    <2>5. QED
      BY <1>2, <2>1, <2>3, <2>4 DEF ChannelsOf
  <1>3. CASE x = d /\ PushRows(d)
    <2>1. PICK s \in Seq(UpMsg) :
             /\ up'[d] = s
             /\ ToSet(s) = ToSet(up[d]) \union
                    {EntityMsg(e, dRow[d][e]) :
                        e \in {y \in Entity : Has(d, y) /\ dRow[d][y].ts > since[d]}}
      BY <1>3, PushRowsSends DEF SyncTypeOK
    <2>2. /\ stage[d] = "rows" /\ stage'[d] = "tombs"
          /\ UNCHANGED <<cursor, exact, link, since, down>>
      BY <1>3 DEF PushRows, SyncTypeOK, deviceVars
    <2>3. \A m \in ToSet(up'[d]) : m.op # "pull"
      BY <1>0, <2>1, <2>2 DEF ChannelsOf, EntityMsg
    <2>4. link[d] = "ready"
      BY <1>0, <2>2 DEF ChannelsOf
    <2>5. QED
      BY <1>0, <1>3, <2>2, <2>3, <2>4 DEF ChannelsOf
  <1>4. CASE x = d /\ PushTombsAndPull(d)
    <2>1. PICK s \in Seq(UpMsg) :
             /\ up'[d] = s
             /\ ToSet(s) = ToSet(up[d]) \union
                    {DeleteMsg(e, dTomb[d][e]) : e \in {y \in Entity : dTomb[d][y] > since[d]}}
                        \union {PullMsg(since[d])}
      BY <1>4, PushTombsSends DEF SyncTypeOK
    <2>2. /\ stage[d] = "tombs" /\ stage'[d] = "idle"
          /\ UNCHANGED <<cursor, exact, link, since, down>>
      BY <1>4 DEF PushTombsAndPull, SyncTypeOK, deviceVars
    <2>3. \A m \in ToSet(up'[d]) : m.op = "pull" => m.since = since[d]
      BY <1>0, <2>1, <2>2 DEF ChannelsOf, DeleteMsg, PullMsg
    <2>4. link[d] = "ready"
      BY <1>0, <2>2 DEF ChannelsOf
    <2>5. QED
      BY <1>0, <1>4, <2>2, <2>3, <2>4 DEF ChannelsOf
  <1>5. QED
    BY <1>1, <1>2, <1>3, <1>4

\* So do the server's handlers.
LEMMA HandlerChannels ==
    ASSUME SyncTypeOK, TombstoneWins, Channels, NEW d \in Device,
           HandleEntity(d) \/ HandleDelete(d) \/ HandlePull(d)
    PROVE  Channels'
  <1> SUFFICES ASSUME NEW x \in Device PROVE ChannelsOf(x)'
    BY DEF Channels
  <1>0. ChannelsOf(d) /\ ChannelsOf(x) /\ down[x] \in Seq(DownMsg) /\ UNCHANGED <<link, stage, since, cursor>>
    BY DEF Channels, HandleEntity, HandleDelete, HandlePull, deviceVars, linkVars, SyncTypeOK
  <1>1. /\ up[d] # <<>> /\ up'[d] = Tail(up[d])
        /\ ToSet(up[d]) = ToSet(up'[d]) \union {Head(up[d])}
        /\ \A y \in Device \ {d} : up'[y] = up[y]
    <2>1. PICK kind : Consume(d, kind)
      BY DEF HandleEntity, HandleDelete, HandlePull
    <2>2. up[d] # <<>> /\ up[d] \in Seq(UpMsg)
      BY <2>1, HeadOfUp DEF Consume
    <2>3. QED
      BY <2>1, <2>2, ConsumeType, SetOfTail
  <1>2. link[d] = "ready" /\ Head(up[d]) \in UpMsg /\ Head(up[d]) \in ToSet(up[d])
    BY <1>0, <1>1, HeadOfUp DEF ChannelsOf, SyncTypeOK
  <1>3. \/ up'[x] = up[x]
        \/ x = d /\ up'[x] # <<>> /\ link[x] = "ready"
        \/ x = d /\ up'[x] = <<>> /\ link[x] = "ready"
    BY <1>1, <1>2
  <1>4. \A m \in ToSet(up'[x]) : m \in ToSet(up[x])
    BY <1>1
  <1>5. link[x] # "ready" => up'[x] = up[x]
    BY <1>1, <1>2
  <1>6. CASE down'[x] = down[x] /\ (exact'[x] => exact[x])
    BY <1>0, <1>4, <1>5, <1>6 DEF ChannelsOf
  <1>7. ASSUME NEW m \in DownMsg, down'[x] = Append(down[x], m), m.op \in {"entity", "delete"},
               link[x] # "down", ~exact'[x]
        PROVE  ChannelsOf(x)'
    <2>1. /\ ToSet(down'[x]) = ToSet(down[x]) \union {m}
          /\ down'[x] # <<>>
          /\ down[x] # <<>> =>
                /\ Head(down'[x]) = Head(down[x])
                /\ Tail(down'[x]) = Append(Tail(down[x]), m)
      BY <1>0, <1>7, SetOfAppend
    <2>2. down[x] # <<>> => ToSet(Tail(down'[x])) = ToSet(Tail(down[x])) \union {m}
      <3>1. SUFFICES ASSUME down[x] # <<>>
                     PROVE  ToSet(Tail(down'[x])) = ToSet(Tail(down[x])) \union {m}
        OBVIOUS
      <3> DEFINE t == Tail(down[x])
      <3>2. t \in Seq(DownMsg)
        BY <1>0, <3>1
      <3> HIDE DEF t
      <3>3. ToSet(Append(t, m)) = ToSet(t) \union {m}
        BY <3>2, SetOfAppend
      <3>4. QED
        BY <2>1, <3>1, <3>3 DEF t
    <2>3. QED
      BY <1>0, <1>4, <1>5, <1>7, <2>1, <2>2 DEF ChannelsOf
  <1>8. ASSUME NEW m \in DownMsg, Announce(d, m), m.op \in {"entity", "delete"}
        PROVE  ChannelsOf(x)'
    <2>1. ~exact'[x]
      BY <1>8, AnnounceType
    <2>2. QED
      BY <1>6, <1>7, <1>8, <2>1, AnnounceType
  <1>9. CASE HandleEntity(d)
    <2>1. \/ UNCHANGED <<down, exact>>
          \/ \E m \in DownMsg : m.op \in {"entity", "delete"} /\ Announce(d, m)
      <3>1. \/ UNCHANGED <<down, exact>>
            \/ \E m \in UpMsg, u \in Pos :
                  /\ Announce(d, EntityMsg(m.e, [ts |-> u, content |-> m.content]))
                  /\ EntityMsg(m.e, [ts |-> u, content |-> m.content]) \in DownMsg
        BY <1>9, HandleEntityCases
      <3>2. ASSUME NEW m \in UpMsg, NEW u \in Pos
            PROVE  EntityMsg(m.e, [ts |-> u, content |-> m.content]).op = "entity"
        BY DEF EntityMsg
      <3>3. QED
        BY <3>1, <3>2
    <2>2. QED
      BY <1>6, <1>8, <2>1
  <1>10. CASE HandleDelete(d)
    <2>1. \/ UNCHANGED <<down, exact>>
          \/ \E m \in DownMsg : m.op \in {"entity", "delete"} /\ Announce(d, m)
      BY <1>10, HandleDeleteCases
    <2>2. QED
      BY <1>6, <1>8, <2>1
  <1>11. CASE HandlePull(d)
    <2>1. PICK m \in UpMsg :
              /\ m = Head(up[d]) /\ m.op = "pull"
              /\ Answer(m) \in DownMsg
              /\ down' = [down EXCEPT ![d] = Append(down[d], Answer(m))]
              /\ \A y \in Device \ {d} : exact'[y] = exact[y]
      BY <1>11, HandlePullCases
    <2>2. CASE x # d
      BY <1>6, <2>1, <2>2 DEF SyncTypeOK
    <2>3. CASE x = d
      <3>1. Answer(m).op = "snapshot"
        BY DEF Answer, SnapshotMsg
      <3>2. ToSet(down'[d]) = ToSet(down[d]) \union {Answer(m)}
        BY <1>0, <2>1, <2>3, SetOfAppend DEF SyncTypeOK
      <3>3. stage[d] = "idle"
        BY <1>0, <1>2, <2>1 DEF ChannelsOf
      <3>4. QED
        BY <1>0, <1>2, <1>4, <2>3, <3>1, <3>2, <3>3 DEF ChannelsOf
    <2>4. QED
      BY <2>2, <2>3
  <1>12. QED
    BY <1>9, <1>10, <1>11

\* So do the merges.
LEMMA RecvChannels ==
    ASSUME SyncTypeOK, Channels, NEW d \in Device,
           RecvEntity(d) \/ RecvDeleted(d) \/ RecvSnapshot(d)
    PROVE  Channels'
  <1> SUFFICES ASSUME NEW x \in Device PROVE ChannelsOf(x)'
    BY DEF Channels
  <1>0. ChannelsOf(d) /\ ChannelsOf(x)
    BY DEF Channels
  <1>1. PICK kind \in {"entity", "delete", "snapshot"} : Receive(d, kind)
    BY DEF RecvEntity, RecvDeleted, RecvSnapshot
  <1>2. /\ down[d] # <<>> /\ Head(down[d]).op = kind /\ Head(down[d]) \in ToSet(down[d])
        /\ down'[d] = Tail(down[d])
        /\ \A y \in Device \ {d} : down'[y] = down[y]
        /\ UNCHANGED <<linkVars, up, exact>>
    BY <1>1, ReceiveType
  <1>3. CASE x # d
    <2>1. cursor'[x] = cursor[x]
      BY <1>3, RecvEntityRows, RecvDeletedRows, RecvSnapshotRows
    <2>2. QED
      BY <1>0, <1>2, <1>3, <2>1, ChannelFrame DEF linkVars
  <1>4. CASE x = d
    <2>1. link[d] = "ready"
      BY <1>0, <1>2 DEF ChannelsOf, OkMsg, SyncTypeOK
    <2>2. \A m \in ToSet(down'[d]) : m \in ToSet(down[d])
      BY <1>2, SetOfTail DEF SyncTypeOK
    <2>3. stage[d] # "idle" => cursor'[d] = cursor[d]
      <3>1. stage[d] # "idle" => kind # "snapshot"
        BY <1>0, <1>2 DEF ChannelsOf
      <3>2. CASE RecvEntity(d) \/ RecvDeleted(d)
        BY <3>2 DEF RecvEntity, RecvDeleted
      <3>3. CASE RecvSnapshot(d)
        <4>1. Head(down[d]).op = "snapshot"
          BY <3>3 DEF RecvSnapshot, Receive
        <4>2. QED
          BY <1>2, <3>1, <4>1
      <3>4. QED
        BY <3>2, <3>3
    <2>4. QED
      BY <1>0, <1>2, <1>4, <2>1, <2>2, <2>3 DEF ChannelsOf, linkVars
  <1>5. QED
    BY <1>3, <1>4

\* Every step does.
LEMMA ChannelsStep ==
    ASSUME SyncTypeOK, TombstoneWins, Channels, [SyncNext]_vars
    PROVE  Channels'
  <1>1. CASE UNCHANGED vars
    BY <1>1 DEF vars, deviceVars, linkVars, Channels, ChannelsOf
  <1>2. CASE SyncTick
    BY <1>2 DEF SyncTick, deviceVars, linkVars, Channels, ChannelsOf
  <1>3. ASSUME NEW d \in Device, User(d) \/ Connect(d) \/ Failure(d) \/ Progress(d)
        PROVE  Channels'
    BY <1>3, UserChannels, ConnectionChannels, InitialSyncChannels, HandlerChannels, RecvChannels
       DEF Progress
  <1>4. QED
    BY <1>1, <1>2, <1>3 DEF SyncNext

\* At the start all channels are empty.
LEMMA ChannelsInit == SyncInit => Channels
  <1>1. \A m \in ToSet(<<>>) : FALSE
    BY DEF ToSet
  <1>2. QED
    BY <1>1 DEF SyncInit, Channels, ChannelsOf

-----------------------------------------------------------------------------
(* The tables of the server under the protocol.                            *)

\* Everything in the store is in the one namespace.
InShared ==
    \A e \in Entity :
        /\ Stored(e) => row[e].key = shared
        /\ tomb[e].at # 0 => tomb[e].key = shared

\* The handlers write under the one key only.
LEMMA InSharedStep ==
    ASSUME SyncTypeOK, InShared, [SyncNext]_vars
    PROVE  InShared'
  <1>1. CASE row' = row /\ tomb' = tomb
    BY <1>1 DEF InShared, Stored
  <1>2. ASSUME NEW e \in Entity, NEW u \in Pos, NEW c, AcceptEntity(e, u, c, shared)
        PROVE  InShared'
    <2>1. row' = [row EXCEPT ![e] = [ts |-> u, content |-> c, key |-> shared]] /\ tomb' = tomb
      BY <1>2, SyncAssumption DEF AcceptEntity, KeyColumn
    <2>2. QED
      BY <2>1 DEF InShared, Stored, SyncTypeOK, TypeOK
  <1>3. ASSUME NEW e \in Entity, NEW u \in Pos, AcceptTombstone(e, u, shared)
        PROVE  InShared'
    <2>1. /\ tomb' = [tomb EXCEPT ![e] = [at |-> u, key |-> IF tomb[e].at = 0 THEN shared ELSE tomb[e].key]]
          /\ \A x \in Entity : row'[x] = row[x] \/ row'[x] = NoRow
      BY <1>3 DEF AcceptTombstone, SyncTypeOK, TypeOK
    <2>2. QED
      BY <2>1 DEF InShared, Stored, SyncTypeOK, TypeOK
  <1>4. ASSUME NEW d \in Device, HandleEntity(d)
        PROVE  InShared'
    <2>1. \/ row' = row /\ tomb' = tomb
          \/ \E m \in UpMsg, u \in Pos : m.e \in Entity /\ AcceptEntity(m.e, u, m.content, shared)
      BY <1>4, HandleEntityCases DEF RefuseStale, RefuseDeleted, storeVars
    <2>2. QED
      BY <1>1, <1>2, <2>1
  <1>5. ASSUME NEW d \in Device, HandleDelete(d)
        PROVE  InShared'
    <2>1. \/ row' = row /\ tomb' = tomb
          \/ \E m \in UpMsg, u \in Pos : m.e \in Entity /\ AcceptTombstone(m.e, u, shared)
      BY <1>5, HandleDeleteCases DEF RefuseTombstone, storeVars
    <2>2. QED
      BY <1>1, <1>3, <2>1
  <1>6. ASSUME ~\E d \in Device : HandleEntity(d) \/ HandleDelete(d)
        PROVE  row' = row /\ tomb' = tomb
    BY <1>6 DEF SyncNext, SyncTick, Tick, User, Create, Update, Delete, WriteLocal, Connect, Failure,
                Drop, ForcePushAll, ForceFullSync, Hangup, Progress, RecvOk, PushRows,
                PushTombsAndPull, HandlePull, RecvEntity, RecvDeleted, RecvSnapshot, Receive,
                storeVars, vars
  <1>7. QED
    BY <1>1, <1>4, <1>5, <1>6

\* What holds whatever the clocks and the network do.
BaseInv == SyncTypeOK /\ StoreInv /\ Channels /\ InShared

\* The base at the start.
LEMMA BaseInvInit == SyncInit => BaseInv
  BY SyncTypeInit, StoreInvInit, ChannelsInit
     DEF SyncInit, BaseInv, Init, InShared, Stored, NoTomb

\* Every step keeps the base.
LEMMA BaseInvStep ==
    ASSUME BaseInv, [SyncNext]_vars
    PROVE  BaseInv'
  BY SyncTypeStep, StepOfStore, StoreInvStep, ChannelsStep, InSharedStep DEF BaseInv, StoreInv

\* The winning stamp of an entity is a number within the allowance.
LEMMA WinningBound ==
    ASSUME StoreInv, NEW e \in Entity
    PROVE  /\ WinningStamp(e) \in Nat
           /\ WinningStamp(e) <= now + MaxSkew
           /\ now \in Nat /\ MaxSkew \in Nat
           /\ Stored(e) => WinningStamp(e) = row[e].ts
           /\ ~Stored(e) => WinningStamp(e) = tomb[e].at
  BY StoreAssumption
     DEF StoreInv, TypeOK, TombstoneWins, StampsBounded, WinningStamp, Stored, Row, Tomb, Stamp

\* The server never forgets that it has a change or a newer one.
LEMMA CoveredStays ==
    ASSUME BaseInv, [SyncNext]_vars, NEW e \in Entity, NEW t \in Nat, Covered(e, t)
    PROVE  Covered(e, t)'
  <1>1. StoreInv /\ StoreInv'
    BY BaseInvStep DEF BaseInv
  <1>2. WinningStamp(e)' >= WinningStamp(e)
    BY <1>1, StepOfStore, NeverRegressStep DEF NeverRegress, BaseInv
  <1>3. WinningStamp(e) \in Nat /\ WinningStamp(e)' \in Nat
    BY <1>1 DEF StoreInv, TypeOK, WinningStamp, Stored, Row, Tomb, Stamp
  <1>4. QED
    BY <1>2, <1>3 DEF Covered

-----------------------------------------------------------------------------
(* What the devices hold, what is on its way, and what the server has, as  *)
(* long as no clock is further ahead than the server allows.               *)

\* The server has what it tells, or something newer.
MsgCovered(m) ==
    /\ m.op = "entity" => Covered(m.e, m.ts)
    /\ m.op = "delete" => Covered(m.e, m.at)
    /\ m.op = "snapshot" =>
          /\ \A e \in Entity : m.rows[e] # NoRow => Covered(e, m.rows[e].ts)
          /\ \A e \in Entity : m.tombs[e] # 0 => Covered(e, m.tombs[e])
          /\ m.time <= now

\* The server has a change, or will have it.
Secured(d, e, t, kind) == Covered(e, t) \/ OnItsWay(d, e, t, kind)

\* No stamp on its way to the server, or on a device, will be cut off.
UncutOf(d) ==
    /\ \A e \in Entity :
          /\ Has(d, e) => dRow[d][e].ts <= now + MaxSkew
          /\ dTomb[d][e] <= now + MaxSkew
    /\ \A m \in ToSet(up[d]) :
          /\ m.op = "entity" => m.ts <= now + MaxSkew
          /\ m.op = "delete" => m.at <= now + MaxSkew

\* An initial sync has sent everything that is stamped after its cursor.
UploadedBy(d) ==
    \A e \in Entity :
        /\ link[d] = "ready" /\ stage[d] # "rows" /\ Has(d, e) =>
              Secured(d, e, dRow[d][e].ts, "entity") \/ dRow[d][e].ts <= since[d]
        /\ link[d] = "ready" /\ stage[d] = "idle" /\ dTomb[d][e] # 0 =>
              Secured(d, e, dTomb[d][e], "delete") \/ dTomb[d][e] <= since[d]

\* What is not secured is stamped after the cursor, and its turn in an initial sync is
\* still to come.
PendingAt(d) ==
    /\ world.maxDrops = 0 /\ link[d] # "ready" => cursor[d] = 0
    /\ \A e \in Entity :
          /\ Has(d, e) =>
                \/ Secured(d, e, dRow[d][e].ts, "entity")
                \/ /\ dRow[d][e].ts > cursor[d]
                   /\ link[d] # "ready" \/ stage[d] = "rows"
          /\ dTomb[d][e] # 0 =>
                \/ Secured(d, e, dTomb[d][e], "delete")
                \/ /\ dTomb[d][e] > cursor[d]
                   /\ link[d] # "ready" \/ stage[d] # "idle"

DeviceInv(d) ==
    /\ UncutOf(d)
    /\ \A m \in ToSet(down[d]) : MsgCovered(m)
    /\ cursor[d] <= now
    /\ UploadedBy(d)
    /\ Lossless => PendingAt(d)

\* What the server knows it still knows, and time does not go back.
LEMMA TimeGrows ==
    ASSUME BaseInv, [SyncNext]_vars
    PROVE  now \in Nat /\ now' \in Nat /\ now <= now' /\ MaxSkew \in Nat
  BY StepOfStore, BaseInvStep, StepCases, StoreAssumption
     DEF BaseInv, SyncTypeOK, TypeOK, Tick, RekeyStored, AcceptEntity, AcceptTombstone, storeVars

\* The world is chosen once and for all.
LEMMA WorldStays ==
    ASSUME [SyncNext]_vars
    PROVE  world' = world
  BY DEF SyncNext, SyncTick, User, Create, Update, Delete, WriteLocal, Connect, Failure, Drop,
         ForcePushAll, ForceFullSync, Hangup, Progress, RecvOk, PushRows, PushTombsAndPull,
         HandleEntity, HandleDelete, HandlePull, RecvEntity, RecvDeleted, RecvSnapshot, Receive,
         userVars, vars

\* The server still has what a message under way says.
LEMMA MsgCoveredStays ==
    ASSUME BaseInv, [SyncNext]_vars, NEW m \in DownMsg, MsgCovered(m)
    PROVE  MsgCovered(m)'
  <1>1. /\ m.op = "entity" => m.e \in Entity /\ m.ts \in Nat
        /\ m.op = "delete" => m.e \in Entity /\ m.at \in Nat
        /\ m.op = "snapshot" =>
              /\ \A e \in Entity : m.rows[e] # NoRow => m.rows[e].ts \in Nat
              /\ \A e \in Entity : m.tombs[e] \in Nat
              /\ m.time \in Nat
    BY DownFields DEF Pos, DeviceRow
  <1>2. CASE m.op = "snapshot"
    <2>1. \A e \in Entity : m.rows[e] # NoRow => Covered(e, m.rows[e].ts)'
      BY <1>1, <1>2, CoveredStays DEF MsgCovered
    <2>2. \A e \in Entity : m.tombs[e] # 0 => Covered(e, m.tombs[e])'
      BY <1>1, <1>2, CoveredStays DEF MsgCovered
    <2>3. m.time <= now'
      BY <1>1, <1>2, TimeGrows DEF MsgCovered
    <2>4. QED
      BY <1>2, <2>1, <2>2, <2>3 DEF MsgCovered
  <1>3. CASE m.op # "snapshot"
    BY <1>1, <1>3, CoveredStays DEF MsgCovered
  <1>4. QED
    BY <1>2, <1>3

\* What is covered is not cut off.
LEMMA CoveredUncut ==
    ASSUME BaseInv, NEW e \in Entity, NEW t \in Nat, Covered(e, t)
    PROVE  t <= now + MaxSkew
  <1>1. WinningStamp(e) \in Nat /\ WinningStamp(e) <= now + MaxSkew /\ now \in Nat /\ MaxSkew \in Nat
    BY WinningBound DEF BaseInv
  <1>2. QED
    BY <1>1 DEF Covered

\* A change that the server has or is sent stays so while no message is taken away.
LEMMA SecuredStays ==
    ASSUME BaseInv, [SyncNext]_vars, NEW d \in Device, NEW e \in Entity, NEW t \in Nat, NEW kind,
           Secured(d, e, t, kind), ToSet(up[d]) \subseteq ToSet(up'[d])
    PROVE  Secured(d, e, t, kind)'
  <1>1. CASE Covered(e, t)
    BY <1>1, CoveredStays DEF Secured
  <1>2. CASE OnItsWay(d, e, t, kind)
    BY <1>2 DEF Secured, OnItsWay
  <1>3. QED
    BY <1>1, <1>2 DEF Secured

\* A device that only gets broadcasts, and loses nothing that it has sent.
LEMMA DeviceFrame ==
    ASSUME BaseInv, [SyncNext]_vars, NEW x \in Device, DeviceInv(x),
           dRow'[x] = dRow[x], dTomb'[x] = dTomb[x], cursor'[x] = cursor[x],
           link'[x] = link[x], stage'[x] = stage[x], since'[x] = since[x], up'[x] = up[x],
           \A m \in ToSet(down'[x]) : m \in ToSet(down[x]) \/ MsgCovered(m)'
    PROVE  DeviceInv(x)'
  <1>0. SyncTypeOK /\ ToSet(up'[x]) = ToSet(up[x]) /\ world' = world
    BY WorldStays DEF BaseInv
  <1>1. \A e \in Entity :
           /\ Has(x, e)' = Has(x, e)
           /\ Has(x, e) => dRow[x][e].ts \in Nat
           /\ dTomb[x][e] \in Nat
    BY <1>0, DeviceTypes DEF Has, Pos
  <1>2. now \in Nat /\ now' \in Nat /\ now <= now' /\ MaxSkew \in Nat
    BY TimeGrows
  <1>3. UncutOf(x)'
    <2>1. \A m \in ToSet(up[x]) :
              /\ m.op = "entity" => m.ts \in Nat
              /\ m.op = "delete" => m.at \in Nat
      <3>1. \A m \in ToSet(up[x]) : m \in UpMsg
        BY <1>0 DEF ToSet, SyncTypeOK
      <3>2. QED
        BY <3>1, UpFields DEF Pos
    <2>2. QED
      BY <1>0, <1>1, <1>2, <2>1 DEF DeviceInv, UncutOf, Has
  <1>4. (\A m \in ToSet(down[x]) : MsgCovered(m))'
    <2>1. \A m \in ToSet(down[x]) : m \in DownMsg
      BY <1>0 DEF ToSet, SyncTypeOK
    <2>2. QED
      BY <2>1, MsgCoveredStays DEF DeviceInv
  <1>5. cursor'[x] <= now'
    BY <1>0, <1>2 DEF DeviceInv, SyncTypeOK
  <1>6. \A e \in Entity :
           /\ Has(x, e) /\ Secured(x, e, dRow[x][e].ts, "entity") => Secured(x, e, dRow[x][e].ts, "entity")'
           /\ Secured(x, e, dTomb[x][e], "delete") => Secured(x, e, dTomb[x][e], "delete")'
    BY <1>0, <1>1, SecuredStays
  <1>7. UploadedBy(x)'
    BY <1>0, <1>1, <1>6 DEF DeviceInv, UploadedBy
  <1>8. Lossless' => PendingAt(x)'
    BY <1>0, <1>1, <1>6 DEF DeviceInv, PendingAt, Lossless
  <1>9. QED
    BY <1>3, <1>4, <1>5, <1>7, <1>8 DEF DeviceInv

Devices == \A d \in Device : DeviceInv(d)

\* The channel to the server gets one more message, or stays as it is.
LEMMA Pushed ==
    ASSUME SyncTypeOK, NEW d \in Device, NEW m \in UpMsg, Push(d, m)
    PROVE  /\ ToSet(up[d]) \subseteq ToSet(up'[d])
           /\ ToSet(up'[d]) \subseteq ToSet(up[d]) \union {m}
           /\ link[d] = "ready" => m \in ToSet(up'[d])
           /\ \A x \in Device \ {d} : up'[x] = up[x]
  <1>1. up[d] \in Seq(UpMsg)
    BY DEF SyncTypeOK
  <1>2. link[d] = "ready" => ToSet(up'[d]) = ToSet(up[d]) \union {m}
    <2>1. ToSet(Append(up[d], m)) = ToSet(up[d]) \union {m}
      BY <1>1, SetOfAppend
    <2>2. QED
      BY <2>1 DEF Push, SyncTypeOK
  <1>3. link[d] # "ready" => up'[d] = up[d]
    BY DEF Push
  <1>4. \A x \in Device \ {d} : up'[x] = up[x]
    BY DEF Push, SyncTypeOK
  <1>5. QED
    BY <1>2, <1>3, <1>4

\* A change is stamped after the cursor of a device that is not connected.
LEMMA StampAfterCursor ==
    ASSUME BaseInv, NEW d \in Device, DeviceInv(d), Clock(d) \in Pos, Lossless, link[d] # "ready"
    PROVE  Clock(d) > cursor[d]
  <1>1. now \in Nat /\ cursor[d] \in Nat /\ world.skew[d] \in Int
    BY SyncAssumption DEF BaseInv, SyncTypeOK, TypeOK, World
  <1>2. CASE world.maxDrops = 0
    BY <1>1, <1>2 DEF DeviceInv, PendingAt, Pos
  <1>3. CASE world.skew[d] > 0
    BY <1>1, <1>3 DEF DeviceInv, Clock
  <1>4. QED
    BY <1>2, <1>3 DEF Lossless

\* A stamp made within the allowance is not cut off.
LEMMA ClockUncut ==
    ASSUME BaseInv, WithinAllowance, NEW d \in Device
    PROVE  Clock(d) <= now + MaxSkew
  BY SyncAssumption, StoreAssumption
     DEF BaseInv, SyncTypeOK, TypeOK, World, WithinAllowance, Clock

\* A local write keeps the invariant: it is pushed, or stamped after the cursor.
LEMMA WriteLocalDevices ==
    ASSUME BaseInv, WithinAllowance, Devices, [SyncNext]_vars,
           NEW d \in Device, NEW e \in Entity, WriteLocal(d, e)
    PROVE  Devices'
  <1> DEFINE r == [ts |-> Clock(d), content |-> ops + 1]
             m == EntityMsg(e, r)
  <1>0. SyncTypeOK /\ now' = now /\ DeviceInv(d) /\ world' = world
    BY DEF BaseInv, WriteLocal, storeVars, Devices
  <1>1. r \in DeviceRow /\ Clock(d) \in Pos /\ r # NoRow
    <2>1. Clock(d) \in Pos
      BY <1>0, DeviceTypes DEF WriteLocal, Pos
    <2>2. ops + 1 \in Content
      BY <1>0, DeviceTypes, SyncAssumption DEF WriteLocal, World, SyncTypeOK
    <2>3. QED
      BY <2>1, <2>2, SyncAssumption DEF DeviceRow
  <1>2. m \in UpMsg /\ m.op = "entity" /\ m.e = e /\ m.ts = Clock(d)
    BY <1>1, SentTypes DEF EntityMsg
  <1>3. /\ ToSet(up[d]) \subseteq ToSet(up'[d])
        /\ ToSet(up'[d]) \subseteq ToSet(up[d]) \union {m}
        /\ link[d] = "ready" => m \in ToSet(up'[d])
        /\ \A x \in Device \ {d} : up'[x] = up[x]
    BY <1>0, <1>2, Pushed DEF WriteLocal
  <1>4. /\ \A x \in Entity : dRow'[d][x] = IF x = e THEN r ELSE dRow[d][x]
        /\ \A x \in Device \ {d} : dRow'[x] = dRow[x]
        /\ UNCHANGED <<dTomb, cursor, link, stage, since, down>>
    BY <1>0 DEF WriteLocal, SyncTypeOK, linkVars
  <1>5. ASSUME NEW x \in Device, x # d PROVE DeviceInv(x)'
    BY <1>3, <1>4, <1>5, DeviceFrame DEF Devices
  <1>6. \A x \in Entity :
           /\ Has(d, x)' <=> x = e \/ Has(d, x)
           /\ Has(d, x) => dRow[d][x].ts \in Nat
           /\ dTomb[d][x] \in Nat
    BY <1>0, <1>1, <1>4, DeviceTypes DEF Has, Pos
  <1>7. \A x \in Entity :
           /\ x # e /\ Has(d, x) /\ Secured(d, x, dRow[d][x].ts, "entity") =>
                 Secured(d, x, dRow[d][x].ts, "entity")'
           /\ Secured(d, x, dTomb[d][x], "delete") => Secured(d, x, dTomb[d][x], "delete")'
    <2>1. \A x \in Entity : x # e => dRow'[d][x] = dRow[d][x]
      BY <1>4
    <2>2. QED
      BY <1>3, <1>4, <1>6, <2>1, SecuredStays
  <1>8. link[d] = "ready" => Secured(d, e, dRow[d][e].ts, "entity")'
    <2>1. dRow'[d][e].ts = Clock(d) /\ Clock(d) >= Clock(d)
      BY <1>1, <1>4 DEF Pos
    <2> HIDE DEF m
    <2>2. QED
      BY <1>2, <1>3, <2>1 DEF Secured, OnItsWay
  <1>9. UncutOf(d)'
    BY <1>0, <1>1, <1>2, <1>3, <1>4, <1>6, ClockUncut DEF UncutOf, DeviceInv
  <1>10. (\A y \in ToSet(down[d]) : MsgCovered(y))'
    <2>1. \A y \in ToSet(down[d]) : y \in DownMsg
      BY <1>0 DEF ToSet, SyncTypeOK
    <2>2. QED
      BY <1>0, <1>4, <2>1, MsgCoveredStays DEF DeviceInv
  <1>11. UploadedBy(d)'
    BY <1>0, <1>4, <1>6, <1>7, <1>8 DEF UploadedBy, DeviceInv
  <1>12. Lossless' => PendingAt(d)'
    <2>1. SUFFICES ASSUME Lossless PROVE PendingAt(d)'
      BY <1>0 DEF Lossless
    <2>2. link[d] # "ready" => Clock(d) > cursor[d]
      BY <1>0, <1>1, <2>1, StampAfterCursor
    <2>3. QED
      BY <1>0, <1>4, <1>6, <1>7, <1>8, <2>1, <2>2 DEF PendingAt, DeviceInv
  <1>13. DeviceInv(d)'
    BY <1>0, <1>4, <1>9, <1>10, <1>11, <1>12 DEF DeviceInv
  <1>14. QED
    BY <1>5, <1>13 DEF Devices

\* So does a local deletion.
LEMMA DeleteDevices ==
    ASSUME BaseInv, WithinAllowance, Devices, [SyncNext]_vars,
           NEW d \in Device, NEW e \in Entity, Delete(d, e)
    PROVE  Devices'
  <1> DEFINE m == DeleteMsg(e, Clock(d))
  <1>0. SyncTypeOK /\ now' = now /\ DeviceInv(d) /\ world' = world
    BY DEF BaseInv, Delete, storeVars, Devices
  <1>1. Clock(d) \in Pos
    BY <1>0, DeviceTypes DEF Delete, Pos
  <1>2. m \in UpMsg /\ m.op = "delete" /\ m.e = e /\ m.at = Clock(d)
    BY <1>1, SentTypes DEF DeleteMsg
  <1>3. /\ ToSet(up[d]) \subseteq ToSet(up'[d])
        /\ ToSet(up'[d]) \subseteq ToSet(up[d]) \union {m}
        /\ link[d] = "ready" => m \in ToSet(up'[d])
        /\ \A x \in Device \ {d} : up'[x] = up[x]
    BY <1>0, <1>2, Pushed DEF Delete
  <1>4. /\ \A x \in Entity : /\ dRow'[d][x] = IF x = e THEN NoRow ELSE dRow[d][x]
                             /\ dTomb'[d][x] = IF x = e THEN Clock(d) ELSE dTomb[d][x]
        /\ \A x \in Device \ {d} : dRow'[x] = dRow[x] /\ dTomb'[x] = dTomb[x]
        /\ UNCHANGED <<cursor, link, stage, since, down>>
    BY <1>0 DEF Delete, SyncTypeOK, linkVars
  <1>5. ASSUME NEW x \in Device, x # d PROVE DeviceInv(x)'
    BY <1>3, <1>4, <1>5, DeviceFrame DEF Devices
  <1>6. \A x \in Entity :
           /\ Has(d, x)' <=> x # e /\ Has(d, x)
           /\ Has(d, x) => dRow[d][x].ts \in Nat
           /\ dTomb[d][x] \in Nat
    BY <1>0, <1>4, DeviceTypes DEF Has, Pos
  <1>7. \A x \in Entity :
           /\ x # e /\ Has(d, x) /\ Secured(d, x, dRow[d][x].ts, "entity") =>
                 Secured(d, x, dRow[d][x].ts, "entity")'
           /\ x # e /\ Secured(d, x, dTomb[d][x], "delete") => Secured(d, x, dTomb[d][x], "delete")'
    <2>1. \A x \in Entity : x # e => dRow'[d][x] = dRow[d][x] /\ dTomb'[d][x] = dTomb[d][x]
      BY <1>4
    <2>2. QED
      BY <1>3, <1>6, <2>1, SecuredStays
  <1>8. link[d] = "ready" => Secured(d, e, dTomb[d][e], "delete")'
    <2>1. dTomb'[d][e] = Clock(d) /\ Clock(d) >= Clock(d)
      BY <1>1, <1>4 DEF Pos
    <2> HIDE DEF m
    <2>2. QED
      BY <1>2, <1>3, <2>1 DEF Secured, OnItsWay
  <1>9. UncutOf(d)'
    BY <1>0, <1>1, <1>2, <1>3, <1>4, <1>6, ClockUncut DEF UncutOf, DeviceInv
  <1>10. (\A y \in ToSet(down[d]) : MsgCovered(y))'
    <2>1. \A y \in ToSet(down[d]) : y \in DownMsg
      BY <1>0 DEF ToSet, SyncTypeOK
    <2>2. QED
      BY <1>0, <1>4, <2>1, MsgCoveredStays DEF DeviceInv
  <1>11. UploadedBy(d)'
    BY <1>0, <1>4, <1>6, <1>7, <1>8 DEF UploadedBy, DeviceInv
  <1>12. Lossless' => PendingAt(d)'
    <2>1. SUFFICES ASSUME Lossless PROVE PendingAt(d)'
      BY <1>0 DEF Lossless
    <2>2. link[d] # "ready" => Clock(d) > cursor[d]
      BY <1>0, <1>1, <2>1, StampAfterCursor
    <2>3. QED
      BY <1>0, <1>4, <1>6, <1>7, <1>8, <2>1, <2>2 DEF PendingAt, DeviceInv
  <1>13. DeviceInv(d)'
    BY <1>0, <1>4, <1>9, <1>10, <1>11, <1>12 DEF DeviceInv
  <1>14. QED
    BY <1>5, <1>13 DEF Devices

\* So do connecting and failing: a drop that loses nothing happens when all is handled.
LEMMA ConnectionDevices ==
    ASSUME BaseInv, WithinAllowance, Devices, [SyncNext]_vars,
           NEW d \in Device, Connect(d) \/ Failure(d)
    PROVE  Devices'
  <1>0. SyncTypeOK /\ DeviceInv(d) /\ ChannelsOf(d) /\ world' = world /\ UNCHANGED storeVars
    BY DEF BaseInv, Channels, Devices, Connect, Failure, Drop, ForcePushAll, ForceFullSync, Hangup, userVars
  <1>1. now' = now /\ \A e \in Entity : WinningStamp(e)' = WinningStamp(e)
    BY <1>0 DEF storeVars, WinningStamp, Stored
  <1>2. ASSUME NEW x \in Device, x # d PROVE DeviceInv(x)'
    <2>1. /\ dRow'[x] = dRow[x] /\ dTomb'[x] = dTomb[x] /\ cursor'[x] = cursor[x]
          /\ link'[x] = link[x] /\ stage'[x] = stage[x] /\ since'[x] = since[x]
          /\ up'[x] = up[x] /\ down'[x] = down[x]
      BY <1>0, <1>2 DEF Connect, Failure, Drop, ForcePushAll, ForceFullSync, Hangup, deviceVars, SyncTypeOK
    <2>2. QED
      BY <2>1, DeviceFrame DEF Devices
  <1>3. ToSet(<<>>) = {} /\ ToSet(<<OkMsg>>) = {OkMsg}
    BY DEF ToSet
  <1>4. CASE Connect(d)
    <2>1. /\ link[d] = "down" /\ link'[d] = "greeted" /\ ToSet(down'[d]) = {OkMsg}
          /\ UNCHANGED <<dRow, dTomb, cursor, stage, since, up>>
      BY <1>0, <1>3, <1>4 DEF Connect, SyncTypeOK, deviceVars
    <2>2. MsgCovered(OkMsg)'
      BY DEF MsgCovered, OkMsg
    <2>3. \A e \in Entity : \A t, kind : Secured(d, e, t, kind)' = Secured(d, e, t, kind)
      BY <1>1, <2>1 DEF Secured, Covered, OnItsWay
    <2>4. UncutOf(d)' /\ UploadedBy(d)'
      BY <1>0, <1>1, <2>1 DEF DeviceInv, UncutOf, UploadedBy, Has
    <2>5. Lossless' => PendingAt(d)'
      BY <1>0, <1>1, <2>1 DEF DeviceInv, PendingAt, Lossless, Has, Secured, Covered, OnItsWay
    <2>6. QED
      BY <1>0, <1>1, <1>2, <2>1, <2>2, <2>4, <2>5 DEF Devices, DeviceInv
  <1>5. CASE Failure(d)
    <2>1. /\ Hangup(d) /\ MayDrop(d)
          /\ \/ UNCHANGED deviceVars
             \/ ForcePushAll(d)
             \/ ForceFullSync(d)
      BY <1>5 DEF Failure, Drop, ForcePushAll, ForceFullSync
    <2>2. /\ link'[d] = "down" /\ stage'[d] = "idle" /\ up'[d] = <<>> /\ down'[d] = <<>>
          /\ drops < world.maxDrops
      BY <1>0, <2>1 DEF Hangup, SyncTypeOK
    <2>3. world.maxDrops # 0
      BY <1>0, <2>2, SyncAssumption DEF SyncTypeOK, World
    <2>4. /\ \A e \in Entity :
                \/ dRow'[d][e] = dRow[d][e] /\ dTomb'[d][e] = dTomb[d][e]
                \/ dRow'[d][e] = NoRow /\ dTomb'[d][e] = 0
          /\ cursor'[d] = cursor[d] \/ cursor'[d] = 0
      <3>1. CASE UNCHANGED deviceVars
        BY <3>1 DEF deviceVars
      <3>2. CASE ForcePushAll(d)
        BY <1>0, <3>2 DEF ForcePushAll, SyncTypeOK
      <3>3. CASE ForceFullSync(d)
        BY <1>0, <3>3 DEF ForceFullSync, SyncTypeOK
      <3>4. QED
        BY <2>1, <3>1, <3>2, <3>3
    <2>5. UncutOf(d)'
      BY <1>0, <1>1, <1>3, <2>2, <2>4, StoreAssumption
         DEF DeviceInv, UncutOf, Has, SyncTypeOK, TypeOK
    <2>6. cursor'[d] <= now'
      BY <1>0, <1>1, <2>4 DEF DeviceInv, SyncTypeOK, TypeOK
    <2>7. UploadedBy(d)'
      BY <2>2 DEF UploadedBy
    <2>8. Lossless' => PendingAt(d)'
      <3>1. SUFFICES ASSUME Lossless PROVE PendingAt(d)'
        BY <1>0 DEF Lossless
      <3>2. up[d] = <<>> /\ stage[d] = "idle"
        BY <2>1, <2>3, <3>1 DEF Lossless, MayDrop
      <3>3. \A e \in Entity : \A t, kind : Secured(d, e, t, kind) => Covered(e, t)
        BY <1>3, <3>2 DEF Secured, OnItsWay
      <3>4. ASSUME NEW e \in Entity
            PROVE  /\ Has(d, e) => dRow[d][e].ts \in Pos
                   /\ dTomb[d][e] \in Nat
                   /\ Has(d, e) => Covered(e, dRow[d][e].ts) \/ dRow[d][e].ts > cursor[d]
                   /\ dTomb[d][e] # 0 => Covered(e, dTomb[d][e]) \/ dTomb[d][e] > cursor[d]
        BY <1>0, <3>1, <3>2, <3>3, DeviceTypes DEF DeviceInv, PendingAt
      <3>5. ASSUME NEW e \in Entity
            PROVE  /\ Has(d, e)' => \/ Covered(e, dRow[d][e].ts)'
                                    \/ dRow'[d][e].ts > cursor'[d]
                   /\ dTomb'[d][e] # 0 => \/ Covered(e, dTomb[d][e])'
                                          \/ dTomb'[d][e] > cursor'[d]
        BY <1>1, <2>4, <3>4 DEF Covered, Has, Pos
      <3>6. QED
        BY <1>0, <2>2, <2>3, <3>5 DEF PendingAt, Secured
    <2>9. DeviceInv(d)'
      BY <1>3, <2>2, <2>5, <2>6, <2>7, <2>8 DEF DeviceInv
    <2>10. QED
      BY <1>2, <2>9 DEF Devices
  <1>6. QED
    BY <1>4, <1>5

\* So does the initial sync: what is stamped after the cursor is sent.
LEMMA InitialSyncDevices ==
    ASSUME BaseInv, WithinAllowance, Devices, [SyncNext]_vars,
           NEW d \in Device, RecvOk(d) \/ PushRows(d) \/ PushTombsAndPull(d)
    PROVE  Devices'
  <1>0. /\ SyncTypeOK /\ DeviceInv(d) /\ ChannelsOf(d) /\ world' = world
        /\ UNCHANGED <<now, dRow, dTomb, cursor>> /\ UNCHANGED storeVars
    BY DEF BaseInv, Channels, Devices, RecvOk, PushRows, PushTombsAndPull, userVars, deviceVars, storeVars
  <1>1. \A e \in Entity : WinningStamp(e)' = WinningStamp(e)
    BY <1>0 DEF storeVars, WinningStamp, Stored
  <1>2. ASSUME NEW x \in Device, x # d PROVE DeviceInv(x)'
    <2>1. /\ link'[x] = link[x] /\ stage'[x] = stage[x] /\ since'[x] = since[x]
          /\ up'[x] = up[x] /\ down'[x] = down[x]
      BY <1>0, <1>2 DEF RecvOk, PushRows, PushTombsAndPull, SyncTypeOK
    <2>2. QED
      BY <1>0, <2>1, DeviceFrame DEF Devices
  <1>3. \A e \in Entity :
           /\ Has(d, e)' = Has(d, e)
           /\ Has(d, e) => dRow[d][e].ts \in Pos
           /\ dTomb[d][e] \in Nat
    BY <1>0, DeviceTypes DEF Has
  <1>4. CASE RecvOk(d)
    <2>1. /\ down[d] # <<>> /\ down'[d] = Tail(down[d])
          /\ link'[d] = "ready" /\ stage'[d] = "rows" /\ UNCHANGED up
          /\ Head(down[d]).op = "ok"
      BY <1>0, <1>4 DEF RecvOk, SyncTypeOK
    <2>2. (\A m \in ToSet(down[d]) : MsgCovered(m))'
      <3>1. \A m \in ToSet(down'[d]) : m \in ToSet(down[d])
        BY <1>0, <2>1, SetOfTail DEF SyncTypeOK
      <3>2. \A m \in ToSet(down[d]) : m \in DownMsg
        BY <1>0 DEF ToSet, SyncTypeOK
      <3>3. QED
        BY <1>0, <3>1, <3>2, MsgCoveredStays DEF DeviceInv
    <2>3. UncutOf(d)' /\ UploadedBy(d)'
      BY <1>0, <2>1 DEF DeviceInv, UncutOf, UploadedBy, Has
    <2>4. Lossless' => PendingAt(d)'
      <3>1. link[d] # "ready"
        BY <1>0, <2>1, HeadOfDown DEF ChannelsOf
      <3>2. QED
        BY <1>0, <1>1, <1>3, <2>1, <3>1 DEF DeviceInv, PendingAt, Lossless, Secured, Covered, OnItsWay
    <2>5. QED
      BY <1>0, <1>2, <2>2, <2>3, <2>4 DEF Devices, DeviceInv
  <1>5. CASE PushRows(d)
    <2> DEFINE sent == {EntityMsg(e, dRow[d][e]) :
                          e \in {y \in Entity : Has(d, y) /\ dRow[d][y].ts > since[d]}}
    <2>1. /\ stage[d] = "rows" /\ stage'[d] = "tombs" /\ UNCHANGED <<link, since, down>>
          /\ link[d] = "ready" /\ since[d] = cursor[d] /\ since[d] \in Nat
      BY <1>0, <1>5 DEF PushRows, SyncTypeOK, ChannelsOf
    <2>2. ToSet(up'[d]) = ToSet(up[d]) \union sent
      BY <1>0, <1>5, PushRowsSends DEF SyncTypeOK
    <2>3. \A e \in Entity : Has(d, e) /\ dRow[d][e].ts > since[d] =>
             \E m \in ToSet(up'[d]) : m.op = "entity" /\ m.e = e /\ m.ts >= dRow[d][e].ts
      <3>1. \A e \in Entity : Has(d, e) /\ dRow[d][e].ts > since[d] =>
               EntityMsg(e, dRow[d][e]) \in ToSet(up'[d])
        BY <2>2
      <3>2. \A e \in Entity : /\ EntityMsg(e, dRow[d][e]).op = "entity"
                              /\ EntityMsg(e, dRow[d][e]).e = e
                              /\ EntityMsg(e, dRow[d][e]).ts = dRow[d][e].ts
        BY DEF EntityMsg
      <3>3. \A e \in Entity : Has(d, e) => dRow[d][e].ts >= dRow[d][e].ts
        BY <1>3 DEF Pos
      <3>4. QED
        BY <3>1, <3>2, <3>3
    <2>4. \A m \in sent : m.op = "entity" /\ m.ts <= now + MaxSkew
      BY <1>0 DEF DeviceInv, UncutOf, EntityMsg
    <2> HIDE DEF sent
    <2>5. UncutOf(d)'
      BY <1>0, <1>3, <2>2, <2>4 DEF DeviceInv, UncutOf, Has
    <2>6. \A e \in Entity : \A t, kind : Secured(d, e, t, kind) => Secured(d, e, t, kind)'
      BY <1>1, <2>2 DEF Secured, Covered, OnItsWay
    <2>7. \A e \in Entity : Has(d, e) /\ dRow[d][e].ts > since[d] =>
             Secured(d, e, dRow[d][e].ts, "entity")'
      BY <1>0, <2>3 DEF Secured, OnItsWay
    <2>8. UploadedBy(d)'
      BY <1>0, <1>3, <2>1, <2>7 DEF UploadedBy, Pos
    <2>9. Lossless' => PendingAt(d)'
      <3>1. SUFFICES ASSUME Lossless PROVE PendingAt(d)'
        BY <1>0 DEF Lossless
      <3>2. \A e \in Entity :
               /\ Has(d, e) => Secured(d, e, dRow[d][e].ts, "entity")'
               /\ dTomb[d][e] # 0 => Secured(d, e, dTomb[d][e], "delete")' \/ dTomb[d][e] > cursor[d]
        BY <1>0, <2>1, <2>6, <2>7, <3>1 DEF DeviceInv, PendingAt
      <3>3. QED
        BY <1>0, <1>3, <2>1, <3>2 DEF PendingAt
    <2>10. (\A m \in ToSet(down[d]) : MsgCovered(m))'
      <3>1. \A m \in ToSet(down[d]) : m \in DownMsg
        BY <1>0 DEF ToSet, SyncTypeOK
      <3>2. QED
        BY <1>0, <2>1, <3>1, MsgCoveredStays DEF DeviceInv
    <2>11. QED
      BY <1>0, <1>2, <2>5, <2>8, <2>9, <2>10 DEF Devices, DeviceInv
  <1>6. CASE PushTombsAndPull(d)
    <2> DEFINE sent == {DeleteMsg(e, dTomb[d][e]) : e \in {y \in Entity : dTomb[d][y] > since[d]}}
                          \union {PullMsg(since[d])}
    <2>1. /\ stage[d] = "tombs" /\ stage'[d] = "idle" /\ UNCHANGED <<link, since, down>>
          /\ link[d] = "ready" /\ since[d] = cursor[d] /\ since[d] \in Nat
      BY <1>0, <1>6 DEF PushTombsAndPull, SyncTypeOK, ChannelsOf
    <2>2. ToSet(up'[d]) = ToSet(up[d]) \union sent
      BY <1>0, <1>6, PushTombsSends DEF SyncTypeOK
    <2>3. \A e \in Entity : dTomb[d][e] > since[d] =>
             \E m \in ToSet(up'[d]) : m.op = "delete" /\ m.e = e /\ m.at >= dTomb[d][e]
      <3>1. \A e \in Entity : dTomb[d][e] > since[d] =>
               DeleteMsg(e, dTomb[d][e]) \in ToSet(up'[d])
        BY <2>2
      <3>2. \A e \in Entity : /\ DeleteMsg(e, dTomb[d][e]).op = "delete"
                              /\ DeleteMsg(e, dTomb[d][e]).e = e
                              /\ DeleteMsg(e, dTomb[d][e]).at = dTomb[d][e]
        BY DEF DeleteMsg
      <3>3. \A e \in Entity : dTomb[d][e] >= dTomb[d][e]
        BY <1>3
      <3>4. QED
        BY <3>1, <3>2, <3>3
    <2>4. \A m \in sent : m.op # "entity" /\ (m.op = "delete" => m.at <= now + MaxSkew)
      BY <1>0 DEF DeviceInv, UncutOf, DeleteMsg, PullMsg
    <2> HIDE DEF sent
    <2>5. UncutOf(d)'
      BY <1>0, <1>3, <2>2, <2>4 DEF DeviceInv, UncutOf, Has
    <2>6. \A e \in Entity : \A t, kind : Secured(d, e, t, kind) => Secured(d, e, t, kind)'
      BY <1>1, <2>2 DEF Secured, Covered, OnItsWay
    <2>7. \A e \in Entity : dTomb[d][e] > since[d] => Secured(d, e, dTomb[d][e], "delete")'
      BY <1>0, <2>3 DEF Secured, OnItsWay
    <2>8. UploadedBy(d)'
      <3>1. \A e \in Entity :
               /\ Has(d, e) => Secured(d, e, dRow[d][e].ts, "entity")' \/ dRow[d][e].ts <= since[d]
               /\ Secured(d, e, dTomb[d][e], "delete")' \/ dTomb[d][e] <= since[d]
        BY <1>0, <1>3, <2>1, <2>6, <2>7 DEF DeviceInv, UploadedBy, Pos
      <3>2. QED
        BY <1>0, <1>3, <2>1, <3>1 DEF UploadedBy
    <2>9. Lossless' => PendingAt(d)'
      <3>1. SUFFICES ASSUME Lossless PROVE PendingAt(d)'
        BY <1>0 DEF Lossless
      <3>2. \A e \in Entity :
               /\ Has(d, e) => Secured(d, e, dRow[d][e].ts, "entity")'
               /\ dTomb[d][e] # 0 => Secured(d, e, dTomb[d][e], "delete")'
        BY <1>0, <2>1, <2>6, <2>7, <3>1 DEF DeviceInv, PendingAt
      <3>3. QED
        BY <1>0, <1>3, <2>1, <3>2 DEF PendingAt
    <2>10. (\A m \in ToSet(down[d]) : MsgCovered(m))'
      <3>1. \A m \in ToSet(down[d]) : m \in DownMsg
        BY <1>0 DEF ToSet, SyncTypeOK
      <3>2. QED
        BY <1>0, <2>1, <3>1, MsgCoveredStays DEF DeviceInv
    <2>11. QED
      BY <1>0, <1>2, <2>5, <2>8, <2>9, <2>10 DEF Devices, DeviceInv
  <1>7. QED
    BY <1>4, <1>5, <1>6

\* What a message that was handled said, the server has.
Heard(m) ==
    /\ m.op = "entity" => Covered(m.e, m.ts)
    /\ m.op = "delete" => Covered(m.e, m.at)

\* A tombstone is never more recent than the winning stamp.
LEMMA TombCovered ==
    ASSUME StoreInv, NEW e \in Entity
    PROVE  tomb[e].at <= WinningStamp(e)
  BY WinningBound DEF StoreInv, TypeOK, TombstoneWins, Tomb, Stamp

\* After push_entity the server has the version, or a newer one.
LEMMA EntityHeard ==
    ASSUME BaseInv, [SyncNext]_vars, NEW d \in Device, UncutOf(d), HandleEntity(d)
    PROVE  /\ up[d] # <<>>
           /\ \E m \in UpMsg : m = Head(up[d]) /\ Heard(m)'
           /\ UNCHANGED <<deviceVars, linkVars, userVars, now>>
           /\ Consume(d, "entity") /\ down'[d] = down[d]
           /\ \A x \in Device : \A y \in ToSet(down'[x]) : y \in ToSet(down[x]) \/ MsgCovered(y)'
  <1>0. SyncTypeOK /\ StoreInv /\ BaseInv' /\ StoreInv' /\ now \in Nat /\ MaxSkew \in Nat
    BY BaseInvStep, TimeGrows DEF BaseInv
  <1>1. PICK m \in UpMsg, u \in Pos :
              /\ m = Head(up[d]) /\ m \in ToSet(up[d]) /\ up[d] # <<>>
              /\ m.op = "entity" /\ m.e \in Entity /\ m.ts \in Pos
              /\ u = m.ts
              /\ Consume(d, "entity")
              /\ UNCHANGED <<deviceVars, linkVars, userVars, deferred>>
              /\ \/ RefuseStale(m.e, u, m.content, shared) /\ UNCHANGED <<down, exact>>
                 \/ RefuseDeleted(m.e, u, m.content) /\ UNCHANGED <<down, exact>>
                 \/ /\ AcceptEntity(m.e, u, m.content, shared)
                    /\ Announce(d, EntityMsg(m.e, [ts |-> u, content |-> m.content]))
                    /\ EntityMsg(m.e, [ts |-> u, content |-> m.content]) \in DownMsg
    BY <1>0, HandleEntityCases DEF UncutOf
  <1>2. Covered(m.e, m.ts)'
    <2>1. CASE RefuseStale(m.e, u, m.content, shared)
      <3>1. row[m.e].ts >= m.ts /\ Stored(m.e)
        BY <1>1, <2>1 DEF RefuseStale, RowWins
      <3>2. WinningStamp(m.e) = row[m.e].ts
        BY <1>0, <1>1, <3>1, WinningBound
      <3>3. Covered(m.e, m.ts)
        BY <3>1, <3>2 DEF Covered
      <3>4. QED
        BY <1>1, <3>3, CoveredStays DEF Pos
    <2>2. CASE RefuseDeleted(m.e, u, m.content)
      <3>1. tomb[m.e].at >= m.ts
        BY <1>1, <2>2 DEF RefuseDeleted
      <3>2. tomb[m.e].at <= WinningStamp(m.e) /\ WinningStamp(m.e) \in Nat /\ tomb[m.e].at \in Nat
        BY <1>0, <1>1, TombCovered, WinningBound DEF StoreInv, TypeOK, Tomb, Stamp
      <3>3. Covered(m.e, m.ts)
        BY <1>1, <3>1, <3>2 DEF Covered, Pos
      <3>4. QED
        BY <1>1, <3>3, CoveredStays DEF Pos
    <2>3. CASE AcceptEntity(m.e, u, m.content, shared)
      <3>1. row'[m.e].ts = m.ts /\ row'[m.e] # NoRow
        <4>1. row' = [row EXCEPT ![m.e] = [ts |-> u, content |-> m.content, key |-> shared]]
          BY <2>3, SyncAssumption DEF AcceptEntity, KeyColumn
        <4>2. [ts |-> u, content |-> m.content, key |-> shared] \in Row
          BY <1>1, UpFields, SyncAssumption DEF Row, Stamp, Pos
        <4>3. QED
          BY <1>0, <1>1, <4>1, <4>2, StoreAssumption DEF StoreInv, TypeOK
      <3>2. row'[m.e].ts > tomb'[m.e].at
        BY <1>0, <1>1, <3>1 DEF StoreInv, TombstoneWins, Stored
      <3>3. QED
        BY <1>1, <3>1, <3>2 DEF Covered, WinningStamp, Stored, Pos
    <2>4. QED
      BY <1>1, <2>1, <2>2, <2>3
  <1>3. Heard(m)'
    BY <1>1, <1>2 DEF Heard
  <1>4. /\ down'[d] = down[d]
        /\ \A x \in Device : \A y \in ToSet(down'[x]) : y \in ToSet(down[x]) \/ MsgCovered(y)'
    <2>1. CASE UNCHANGED down
      BY <2>1
    <2>2. ASSUME NEW y \in DownMsg, y = EntityMsg(m.e, [ts |-> u, content |-> m.content]), Announce(d, y)
          PROVE  /\ down'[d] = down[d]
                 /\ \A x \in Device : \A z \in ToSet(down'[x]) : z \in ToSet(down[x]) \/ z = y
      <3>1. \A x \in Device :
               \/ down'[x] = down[x]
               \/ x # d /\ down'[x] = Append(down[x], y)
        BY <1>0, <2>2, AnnounceType
      <3>2. \A x \in Device : ToSet(Append(down[x], y)) = ToSet(down[x]) \union {y}
        BY <1>0, SetOfAppend DEF SyncTypeOK
      <3>3. \A x \in Device : ToSet(down'[x]) \subseteq ToSet(down[x]) \union {y}
        BY <3>1, <3>2
      <3>4. QED
        BY <3>1, <3>3
    <2>3. MsgCovered(EntityMsg(m.e, [ts |-> u, content |-> m.content]))'
      BY <1>1, <1>2 DEF MsgCovered, EntityMsg
    <2>4. QED
      BY <1>1, <2>1, <2>2, <2>3
  <1>5. now' = now
    BY <1>1 DEF RefuseStale, RefuseDeleted, AcceptEntity, storeVars
  <1>6. UNCHANGED <<deviceVars, linkVars, userVars, now>>
    BY <1>1, <1>5
  <1>7. QED
    BY <1>1, <1>3, <1>4, <1>6

\* After push_delete the server has the deletion, or something newer.
LEMMA DeleteHeard ==
    ASSUME BaseInv, [SyncNext]_vars, NEW d \in Device, UncutOf(d), HandleDelete(d)
    PROVE  /\ up[d] # <<>>
           /\ \E m \in UpMsg : m = Head(up[d]) /\ Heard(m)'
           /\ UNCHANGED <<deviceVars, linkVars, userVars, now>>
           /\ Consume(d, "delete") /\ down'[d] = down[d]
           /\ \A x \in Device : \A y \in ToSet(down'[x]) : y \in ToSet(down[x]) \/ MsgCovered(y)'
  <1>0. SyncTypeOK /\ StoreInv /\ BaseInv' /\ StoreInv' /\ now \in Nat /\ MaxSkew \in Nat
    BY BaseInvStep, TimeGrows DEF BaseInv
  <1>1. PICK m \in UpMsg, u \in Pos :
              /\ m = Head(up[d]) /\ m \in ToSet(up[d]) /\ up[d] # <<>>
              /\ m.op = "delete" /\ m.e \in Entity /\ m.at \in Pos /\ m \in DownMsg
              /\ u = m.at
              /\ Consume(d, "delete")
              /\ UNCHANGED <<deviceVars, linkVars, userVars, deferred>>
              /\ \/ RefuseTombstone(m.e, u) /\ UNCHANGED <<down, exact>>
                 \/ AcceptTombstone(m.e, u, shared) /\ Announce(d, m)
    BY <1>0, HandleDeleteCases DEF UncutOf
  <1>2. tomb'[m.e].at >= m.at
    <2>1. CASE RefuseTombstone(m.e, u)
      BY <1>1, <2>1 DEF RefuseTombstone, storeVars
    <2>2. CASE AcceptTombstone(m.e, u, shared)
      BY <1>0, <1>1, <2>2 DEF AcceptTombstone, StoreInv, TypeOK, Pos
    <2>3. QED
      BY <1>1, <2>1, <2>2
  <1>3. Covered(m.e, m.at)'
    <2>1. /\ row'[m.e] # NoRow => row'[m.e].ts \in Nat /\ row'[m.e].ts > tomb'[m.e].at
          /\ tomb'[m.e].at \in Nat
      BY <1>0, <1>1 DEF StoreInv, TypeOK, TombstoneWins, Stored, Row, Tomb, Stamp
    <2>2. QED
      BY <1>1, <1>2, <2>1 DEF Covered, WinningStamp, Stored, Pos
  <1>4. Heard(m)' /\ MsgCovered(m)'
    BY <1>1, <1>3 DEF Heard, MsgCovered
  <1>5. /\ down'[d] = down[d]
        /\ \A x \in Device : \A y \in ToSet(down'[x]) : y \in ToSet(down[x]) \/ y = m
    <2>1. CASE UNCHANGED down
      BY <2>1
    <2>2. CASE Announce(d, m)
      <3>1. \A x \in Device :
               \/ down'[x] = down[x]
               \/ x # d /\ down'[x] = Append(down[x], m)
        BY <1>0, <1>1, <2>2, AnnounceType
      <3>2. \A x \in Device : ToSet(Append(down[x], m)) = ToSet(down[x]) \union {m}
        BY <1>0, <1>1, SetOfAppend DEF SyncTypeOK
      <3>3. \A x \in Device : ToSet(down'[x]) \subseteq ToSet(down[x]) \union {m}
        BY <3>1, <3>2
      <3>4. QED
        BY <3>1, <3>3
    <2>3. QED
      BY <1>1, <2>1, <2>2
  <1>6. now' = now
    BY <1>1 DEF RefuseTombstone, AcceptTombstone, storeVars
  <1>7. UNCHANGED <<deviceVars, linkVars, userVars, now>>
    BY <1>1, <1>6
  <1>8. \A x \in Device : \A y \in ToSet(down'[x]) : y \in ToSet(down[x]) \/ MsgCovered(y)'
    BY <1>4, <1>5
  <1>9. QED
    BY <1>1, <1>4, <1>5, <1>7, <1>8

\* A device whose first message was handled.
LEMMA HeardFrame ==
    ASSUME BaseInv, [SyncNext]_vars, NEW d \in Device, DeviceInv(d),
           NEW m \in UpMsg, Heard(m)', ToSet(up[d]) = ToSet(up'[d]) \union {m},
           dRow'[d] = dRow[d], dTomb'[d] = dTomb[d], cursor'[d] = cursor[d],
           link'[d] = link[d], stage'[d] = stage[d], since'[d] = since[d],
           \A y \in ToSet(down'[d]) : y \in ToSet(down[d]) \/ MsgCovered(y)'
    PROVE  DeviceInv(d)'
  <1>0. SyncTypeOK /\ BaseInv' /\ world' = world
    BY WorldStays, BaseInvStep DEF BaseInv
  <1>1. \A e \in Entity :
           /\ Has(d, e)' = Has(d, e)
           /\ Has(d, e) => dRow[d][e].ts \in Nat
           /\ dTomb[d][e] \in Nat
    BY <1>0, DeviceTypes DEF Has, Pos
  <1>2. now \in Nat /\ now' \in Nat /\ now <= now' /\ MaxSkew \in Nat
    BY TimeGrows
  <1>3. ASSUME NEW e \in Entity, NEW t \in Nat, NEW kind \in {"entity", "delete"},
               Secured(d, e, t, kind)
        PROVE  Secured(d, e, t, kind)'
    <2>1. CASE Covered(e, t)
      BY <2>1, CoveredStays DEF Secured
    <2>2. CASE OnItsWay(d, e, t, kind)
      <3>1. PICK y \in ToSet(up[d]) :
               y.op = kind /\ y.e = e /\ (IF kind = "entity" THEN y.ts ELSE y.at) >= t
        BY <2>2 DEF OnItsWay
      <3>2. CASE y \in ToSet(up'[d])
        BY <3>1, <3>2 DEF Secured, OnItsWay
      <3>3. CASE y = m
        <4>1. WinningStamp(e)' \in Nat
          BY <1>0 DEF BaseInv, StoreInv, TypeOK, WinningStamp, Stored, Row, Tomb, Stamp
        <4>2. /\ kind = "entity" => m.ts \in Nat /\ WinningStamp(e)' >= m.ts /\ m.ts >= t
              /\ kind = "delete" => m.at \in Nat /\ WinningStamp(e)' >= m.at /\ m.at >= t
          BY <3>1, <3>3, UpFields DEF Heard, Covered, Pos
        <4>3. QED
          BY <4>1, <4>2 DEF Secured, Covered
      <3>4. QED
        BY <3>1, <3>2, <3>3
    <2>3. QED
      BY <1>3, <2>1, <2>2 DEF Secured
  <1>4. UncutOf(d)'
    <2>1. \A y \in ToSet(up[d]) :
              /\ y.op = "entity" => y.ts \in Nat
              /\ y.op = "delete" => y.at \in Nat
      <3>1. \A y \in ToSet(up[d]) : y \in UpMsg
        BY <1>0 DEF ToSet, SyncTypeOK
      <3>2. QED
        BY <3>1, UpFields DEF Pos
    <2>2. QED
      BY <1>0, <1>1, <1>2, <2>1 DEF DeviceInv, UncutOf, Has
  <1>5. (\A y \in ToSet(down[d]) : MsgCovered(y))'
    <2>1. \A y \in ToSet(down[d]) : y \in DownMsg
      BY <1>0 DEF ToSet, SyncTypeOK
    <2>2. QED
      BY <2>1, MsgCoveredStays DEF DeviceInv
  <1>6. cursor'[d] <= now'
    BY <1>0, <1>2 DEF DeviceInv, SyncTypeOK
  <1>7. \A e \in Entity :
           /\ Has(d, e) /\ Secured(d, e, dRow[d][e].ts, "entity") => Secured(d, e, dRow[d][e].ts, "entity")'
           /\ Secured(d, e, dTomb[d][e], "delete") => Secured(d, e, dTomb[d][e], "delete")'
    BY <1>0, <1>1, <1>3
  <1>8. UploadedBy(d)'
    BY <1>0, <1>1, <1>7 DEF DeviceInv, UploadedBy
  <1>9. Lossless' => PendingAt(d)'
    BY <1>0, <1>1, <1>7 DEF DeviceInv, PendingAt, Lossless
  <1>10. QED
    BY <1>4, <1>5, <1>6, <1>8, <1>9 DEF DeviceInv

\* The server's handlers keep the invariant.
LEMMA HandlerDevices ==
    ASSUME BaseInv, WithinAllowance, Devices, [SyncNext]_vars,
           NEW d \in Device, HandleEntity(d) \/ HandleDelete(d) \/ HandlePull(d)
    PROVE  Devices'
  <1>0. SyncTypeOK /\ TombstoneWins /\ DeviceInv(d) /\ UncutOf(d) /\ StoreInv
    BY DEF BaseInv, StoreInv, Devices, DeviceInv
  <1>1. \E m \in UpMsg :
           /\ up[d] # <<>> /\ m = Head(up[d]) /\ Heard(m)'
           /\ UNCHANGED <<deviceVars, linkVars>>
           /\ \E kind : Consume(d, kind)
           /\ \A x \in Device : \A y \in ToSet(down'[x]) : y \in ToSet(down[x]) \/ MsgCovered(y)'
    <2>1. CASE HandleEntity(d)
      BY <1>0, <2>1, EntityHeard
    <2>2. CASE HandleDelete(d)
      BY <1>0, <2>2, DeleteHeard
    <2>3. CASE HandlePull(d)
      <3>1. PICK m \in UpMsg :
              /\ m = Head(up[d]) /\ m \in ToSet(up[d]) /\ up[d] # <<>>
              /\ m.op = "pull" /\ m.since \in 0 .. MaxTime
              /\ Consume(d, "pull")
              /\ Answer(m) \in DownMsg
              /\ down' = [down EXCEPT ![d] = Append(down[d], Answer(m))]
              /\ UNCHANGED <<storeVars, deviceVars, linkVars, userVars>>
        BY <1>0, <2>3, HandlePullCases
      <3>2. Heard(m)'
        BY <3>1 DEF Heard
      <3>3. MsgCovered(Answer(m))
        <4>1. \A E \in SUBSET Entity, T \in SUBSET Entity, t \in 0 .. now :
                 (\A e \in E : Stored(e)) => MsgCovered(SnapshotMsg(E, T, t))
          <5>1. SUFFICES ASSUME NEW E \in SUBSET Entity, NEW T \in SUBSET Entity, NEW t \in 0 .. now,
                                \A e \in E : Stored(e)
                         PROVE  MsgCovered(SnapshotMsg(E, T, t))
            OBVIOUS
          <5> DEFINE s == SnapshotMsg(E, T, t)
          <5>2. /\ s.op = "snapshot" /\ s.time = t
                /\ \A e \in Entity :
                      /\ s.rows[e] = IF e \in E THEN [ts |-> row[e].ts, content |-> row[e].content] ELSE NoRow
                      /\ s.tombs[e] = IF e \in T THEN tomb[e].at ELSE 0
            BY DEF SnapshotMsg
          <5> HIDE DEF s
          <5>3. ASSUME NEW e \in Entity, s.rows[e] # NoRow PROVE Covered(e, s.rows[e].ts)
            <6>0. s.rows[e] = [ts |-> row[e].ts, content |-> row[e].content] /\ e \in E
              BY <5>2, <5>3
            <6>1. e \in E /\ s.rows[e].ts = row[e].ts
              BY <6>0
            <6>2. WinningStamp(e) = row[e].ts /\ WinningStamp(e) \in Nat
              BY <1>0, <5>1, <6>1, WinningBound
            <6>3. QED
              BY <6>1, <6>2 DEF Covered
          <5>4. ASSUME NEW e \in Entity, s.tombs[e] # 0 PROVE Covered(e, s.tombs[e])
            <6>1. s.tombs[e] = tomb[e].at
              BY <5>2, <5>4
            <6>2. tomb[e].at <= WinningStamp(e)
              BY <1>0, TombCovered
            <6>3. WinningStamp(e) \in Nat /\ tomb[e].at \in Nat
              BY <1>0, WinningBound DEF StoreInv, TypeOK, Tomb, Stamp
            <6>4. QED
              BY <6>1, <6>2, <6>3 DEF Covered
          <5>5. s.time <= now
            BY <5>2
          <5>6. MsgCovered(s)
            BY <5>2, <5>3, <5>4, <5>5 DEF MsgCovered
          <5>7. QED
            BY <5>6 DEF s
        <4>2. now \in 0 .. now /\ 0 \in 0 .. now
          BY TimeGrows
        <4>3. /\ EntitiesSince(shared, m.since) \in SUBSET Entity
              /\ TombstonesSince(shared, m.since) \in SUBSET Entity
              /\ \A e \in EntitiesSince(shared, m.since) : Stored(e)
          BY DEF EntitiesSince, TombstonesSince
        <4>4. MsgCovered(SnapshotMsg(EntitiesSince(shared, m.since), TombstonesSince(shared, m.since), now))
          BY <4>1, <4>2, <4>3
        <4>5. MsgCovered(SnapshotMsg({}, {}, 0))
          BY <4>1, <4>2
        <4>6. QED
          BY <4>4, <4>5 DEF Answer
      <3>4. \A x \in Device : \A y \in ToSet(down'[x]) : y \in ToSet(down[x]) \/ y = Answer(m)
        <4>1. ToSet(Append(down[d], Answer(m))) = ToSet(down[d]) \union {Answer(m)}
          BY <1>0, <3>1, SetOfAppend DEF SyncTypeOK
        <4>2. down'[d] = Append(down[d], Answer(m)) /\ \A x \in Device \ {d} : down'[x] = down[x]
          BY <1>0, <3>1 DEF SyncTypeOK
        <4>3. QED
          BY <4>1, <4>2
      <3>5. ASSUME NEW y, y = Answer(m) PROVE MsgCovered(y)'
        <4>1. MsgCovered(y) /\ y \in DownMsg
          BY <3>1, <3>3, <3>5
        <4>2. QED
          BY <4>1, MsgCoveredStays
      <3>6. QED
        BY <3>1, <3>2, <3>4, <3>5
    <2>4. QED
      BY <2>1, <2>2, <2>3
  <1>2. PICK m \in UpMsg :
           /\ up[d] # <<>> /\ m = Head(up[d]) /\ Heard(m)'
           /\ UNCHANGED <<deviceVars, linkVars>>
           /\ \E kind : Consume(d, kind)
           /\ \A x \in Device : \A y \in ToSet(down'[x]) : y \in ToSet(down[x]) \/ MsgCovered(y)'
    BY <1>1
  <1>3. up'[d] = Tail(up[d]) /\ \A x \in Device \ {d} : up'[x] = up[x]
    BY <1>0, <1>2, ConsumeType
  <1>4. ToSet(up[d]) = ToSet(up'[d]) \union {m}
    BY <1>0, <1>2, <1>3, SetOfTail DEF SyncTypeOK
  <1>5. ASSUME NEW x \in Device, x # d PROVE DeviceInv(x)'
    BY <1>2, <1>3, <1>5, DeviceFrame DEF Devices, deviceVars, linkVars
  <1>6. DeviceInv(d)'
    BY <1>0, <1>2, <1>4, HeardFrame DEF deviceVars, linkVars
  <1>7. QED
    BY <1>5, <1>6 DEF Devices

\* What a merge leaves on the device: what was there, or what the server has.
LEMMA MergedRows ==
    ASSUME BaseInv, NEW d \in Device, DeviceInv(d),
           RecvEntity(d) \/ RecvDeleted(d) \/ RecvSnapshot(d)
    PROVE  /\ \A e \in Entity :
                 /\ dRow'[d][e] # NoRow =>
                       \/ dRow'[d][e] = dRow[d][e]
                       \/ dRow'[d][e].ts \in Nat /\ Covered(e, dRow'[d][e].ts)
                 /\ \/ dTomb'[d][e] = dTomb[d][e]
                    \/ dTomb'[d][e] \in Nat /\ Covered(e, dTomb'[d][e])
           /\ \/ cursor'[d] = cursor[d]
              \/ cursor'[d] \in Nat /\ cursor'[d] <= now /\ link[d] = "ready" /\ stage[d] = "idle"
           /\ \A x \in Device \ {d} :
                 dRow'[x] = dRow[x] /\ dTomb'[x] = dTomb[x] /\ cursor'[x] = cursor[x]
           /\ UNCHANGED <<storeVars, linkVars, up, userVars>>
           /\ down[d] # <<>> /\ down'[d] = Tail(down[d]) /\ \A x \in Device \ {d} : down'[x] = down[x]
  <1>0. SyncTypeOK /\ ChannelsOf(d) /\ \A m \in ToSet(down[d]) : MsgCovered(m)
    BY DEF BaseInv, Channels, DeviceInv
  <1>1. ASSUME NEW kind, Receive(d, kind)
        PROVE  /\ UNCHANGED <<storeVars, linkVars, up, userVars>>
               /\ down[d] # <<>> /\ down'[d] = Tail(down[d])
               /\ \A x \in Device \ {d} : down'[x] = down[x]
    BY <1>0, <1>1, ReceiveType
  <1>2. CASE RecvEntity(d)
    <2>1. PICK m \in DownMsg :
             /\ Receive(d, "entity") /\ m \in ToSet(down[d]) /\ m.op = "entity"
             /\ m.e \in Entity
             /\ \A x \in Device, e \in Entity :
                   dRow'[x][e] = IF x = d /\ e = m.e /\ Newer(m, dRow[d][e])
                                 THEN [ts |-> m.ts, content |-> m.content] ELSE dRow[x][e]
             /\ dRow' \in [Device -> [Entity -> DeviceRow \union {NoRow}]]
             /\ UNCHANGED <<dTomb, cursor>>
      BY <1>0, <1>2, RecvEntityRows
    <2>2. Covered(m.e, m.ts) /\ m.ts \in Nat
      BY <1>0, <2>1, DownFields DEF MsgCovered, Pos
    <2>3. \A x \in Device \ {d} : dRow'[x] = dRow[x]
      BY <1>0, <2>1 DEF SyncTypeOK
    <2>4. \A e \in Entity : \/ dRow'[d][e] = dRow[d][e]
                            \/ e = m.e /\ dRow'[d][e].ts = m.ts
      BY <2>1
    <2>5. QED
      BY <1>1, <2>1, <2>2, <2>3, <2>4
  <1>3. CASE RecvDeleted(d)
    <2>1. PICK m \in DownMsg :
             /\ Receive(d, "delete") /\ m \in ToSet(down[d]) /\ m.op = "delete"
             /\ m.e \in Entity /\ m.at \in Pos
             /\ dRow' \in [Device -> [Entity -> DeviceRow \union {NoRow}]]
             /\ dTomb' \in [Device -> [Entity -> Nat]]
             /\ \A x \in Device, e \in Entity :
                   /\ dRow'[x][e] = IF x = d /\ e = m.e /\ ShouldDelete(dRow[d][e], m.at)
                                    THEN NoRow ELSE dRow[x][e]
                   /\ dTomb'[x][e] = IF x = d /\ e = m.e THEN m.at ELSE dTomb[x][e]
             /\ UNCHANGED cursor
      BY <1>0, <1>3, RecvDeletedRows
    <2>2. Covered(m.e, m.at) /\ m.at \in Nat
      BY <1>0, <2>1 DEF MsgCovered, Pos
    <2>3. \A x \in Device \ {d} : dRow'[x] = dRow[x] /\ dTomb'[x] = dTomb[x]
      BY <1>0, <2>1 DEF SyncTypeOK
    <2>4. \A e \in Entity : /\ dRow'[d][e] # NoRow => dRow'[d][e] = dRow[d][e]
                            /\ dTomb'[d][e] = dTomb[d][e] \/ (e = m.e /\ dTomb'[d][e] = m.at)
      BY <2>1
    <2>5. QED
      BY <1>1, <2>1, <2>2, <2>3, <2>4
  <1>4. CASE RecvSnapshot(d)
    <2>1. PICK m \in DownMsg :
             /\ Receive(d, "snapshot") /\ m \in ToSet(down[d]) /\ m.op = "snapshot"
             /\ m = Head(down[d])
             /\ m.rows \in [Entity -> DeviceRow \union {NoRow}]
             /\ m.tombs \in [Entity -> Nat]
             /\ m.time \in 0 .. MaxTime
             /\ \A e \in Entity :
                   /\ dRow'[d][e] = IF m.tombs[e] # 0 /\ ShouldDelete(Merged(d, m, e), m.tombs[e])
                                    THEN NoRow ELSE Merged(d, m, e)
                   /\ dTomb'[d][e] = IF m.tombs[e] # 0 THEN m.tombs[e] ELSE dTomb[d][e]
             /\ cursor'[d] = IF m.time = 0 THEN cursor[d] ELSE m.time
             /\ \A x \in Device \ {d} :
                   dRow'[x] = dRow[x] /\ dTomb'[x] = dTomb[x] /\ cursor'[x] = cursor[x]
      BY <1>0, <1>4, RecvSnapshotRows
    <2>2. /\ \A e \in Entity : m.rows[e] # NoRow => Covered(e, m.rows[e].ts) /\ m.rows[e].ts \in Nat
          /\ \A e \in Entity : m.tombs[e] # 0 => Covered(e, m.tombs[e]) /\ m.tombs[e] \in Nat
          /\ m.time <= now
      BY <1>0, <2>1 DEF MsgCovered, DeviceRow, Pos
    <2>3. link[d] = "ready" /\ stage[d] = "idle"
      <3>1. down[d] # <<>>
        BY <1>1, <2>1
      <3>2. link[d] \in {"down", "greeted", "ready"}
        BY <1>0 DEF SyncTypeOK
      <3>3. QED
        BY <1>0, <2>1, <3>1, <3>2 DEF ChannelsOf, OkMsg
    <2>4. ASSUME NEW e \in Entity
          PROVE  /\ dRow'[d][e] # NoRow =>
                       \/ dRow'[d][e] = dRow[d][e]
                       \/ dRow'[d][e].ts \in Nat /\ Covered(e, dRow'[d][e].ts)
                 /\ \/ dTomb'[d][e] = dTomb[d][e]
                    \/ dTomb'[d][e] \in Nat /\ Covered(e, dTomb'[d][e])
      <3>1. \/ Merged(d, m, e) = dRow[d][e]
            \/ m.rows[e] # NoRow /\ Merged(d, m, e) = m.rows[e]
        BY DEF Merged
      <3>2. QED
        BY <2>1, <2>2, <3>1
    <2>5. cursor'[d] = cursor[d] \/ (cursor'[d] \in Nat /\ cursor'[d] <= now)
      BY <2>1, <2>2
    <2>6. QED
      BY <1>1, <2>1, <2>3, <2>4, <2>5
  <1>5. QED
    BY <1>2, <1>3, <1>4

\* So do the merges: what they write, the server has.
LEMMA RecvDevices ==
    ASSUME BaseInv, WithinAllowance, Devices, [SyncNext]_vars,
           NEW d \in Device, RecvEntity(d) \/ RecvDeleted(d) \/ RecvSnapshot(d)
    PROVE  Devices'
  <1>0. SyncTypeOK /\ BaseInv' /\ DeviceInv(d) /\ world' = world
    BY BaseInvStep, WorldStays DEF BaseInv, Devices
  <1>1. /\ \A e \in Entity :
              /\ dRow'[d][e] # NoRow =>
                    \/ dRow'[d][e] = dRow[d][e]
                    \/ dRow'[d][e].ts \in Nat /\ Covered(e, dRow'[d][e].ts)
              /\ \/ dTomb'[d][e] = dTomb[d][e]
                 \/ dTomb'[d][e] \in Nat /\ Covered(e, dTomb'[d][e])
        /\ \/ cursor'[d] = cursor[d]
           \/ cursor'[d] \in Nat /\ cursor'[d] <= now /\ link[d] = "ready" /\ stage[d] = "idle"
        /\ \A x \in Device \ {d} :
              dRow'[x] = dRow[x] /\ dTomb'[x] = dTomb[x] /\ cursor'[x] = cursor[x]
        /\ UNCHANGED <<storeVars, linkVars, up, userVars>>
        /\ down[d] # <<>> /\ down'[d] = Tail(down[d]) /\ \A x \in Device \ {d} : down'[x] = down[x]
    BY <1>0, MergedRows
  <1>2. UNCHANGED <<now, link, stage, since, up>> /\ \A e \in Entity : WinningStamp(e)' = WinningStamp(e)
    BY <1>1 DEF storeVars, linkVars, WinningStamp, Stored
  <1>3. ASSUME NEW x \in Device, x # d PROVE DeviceInv(x)'
    BY <1>1, <1>2, <1>3, DeviceFrame DEF Devices
  <1>4. \A e \in Entity :
           /\ Has(d, e) => dRow[d][e].ts \in Nat
           /\ Has(d, e)' => dRow'[d][e].ts \in Nat
           /\ dTomb[d][e] \in Nat /\ dTomb'[d][e] \in Nat
    BY <1>0, DeviceTypes DEF Has, BaseInv, SyncTypeOK, Pos, DeviceRow
  <1>5. \A e \in Entity : \A t, kind : Secured(d, e, t, kind)' <=> Secured(d, e, t, kind)
    BY <1>2 DEF Secured, Covered, OnItsWay
  <1>6. ASSUME NEW e \in Entity
        PROVE  /\ Has(d, e)' =>
                     \/ Has(d, e) /\ dRow'[d][e] = dRow[d][e]
                     \/ Covered(e, dRow[d][e].ts)' /\ dRow'[d][e].ts <= now + MaxSkew
               /\ \/ dTomb'[d][e] = dTomb[d][e]
                  \/ Covered(e, dTomb[d][e])' /\ dTomb'[d][e] <= now + MaxSkew
    <2>1. ASSUME NEW t \in Nat, Covered(e, t)
          PROVE  WinningStamp(e)' >= t /\ t <= now + MaxSkew
      BY <1>2, <2>1, CoveredUncut DEF Covered
    <2>2. Has(d, e)' =>
             \/ Has(d, e) /\ dRow'[d][e] = dRow[d][e]
             \/ dRow'[d][e].ts \in Nat /\ Covered(e, dRow'[d][e].ts)
      BY <1>1 DEF Has
    <2>3. \/ dTomb'[d][e] = dTomb[d][e]
          \/ dTomb'[d][e] \in Nat /\ Covered(e, dTomb'[d][e])
      BY <1>1
    <2>4. QED
      BY <2>1, <2>2, <2>3 DEF Covered
  <1>7. \A e \in Entity : /\ Covered(e, dRow[d][e].ts)' => Secured(d, e, dRow[d][e].ts, "entity")'
                          /\ Covered(e, dTomb[d][e])' => Secured(d, e, dTomb[d][e], "delete")'
    BY DEF Secured
  <1>8. \A e \in Entity :
           /\ dRow'[d][e] = dRow[d][e] =>
                 (Secured(d, e, dRow[d][e].ts, "entity") => Secured(d, e, dRow[d][e].ts, "entity")')
           /\ dTomb'[d][e] = dTomb[d][e] =>
                 (Secured(d, e, dTomb[d][e], "delete") => Secured(d, e, dTomb[d][e], "delete")')
    BY <1>2 DEF Secured, Covered, OnItsWay
  <1>9. UncutOf(d)'
    BY <1>0, <1>2, <1>6 DEF DeviceInv, UncutOf, Has
  <1>10. (\A y \in ToSet(down[d]) : MsgCovered(y))'
    <2>1. \A y \in ToSet(down'[d]) : y \in ToSet(down[d])
      BY <1>0, <1>1, SetOfTail DEF SyncTypeOK
    <2>2. \A y \in ToSet(down[d]) : y \in DownMsg
      BY <1>0 DEF ToSet, SyncTypeOK
    <2>3. QED
      BY <1>0, <2>1, <2>2, MsgCoveredStays DEF DeviceInv
  <1>11. cursor'[d] <= now'
    BY <1>0, <1>1, <1>2 DEF DeviceInv
  <1>12. UploadedBy(d)'
    BY <1>0, <1>2, <1>6, <1>7, <1>8 DEF DeviceInv, UploadedBy
  <1>13. Lossless' => PendingAt(d)'
    <2>1. SUFFICES ASSUME Lossless PROVE PendingAt(d)'
      BY <1>0 DEF Lossless
    <2>2. PendingAt(d)
      BY <1>0, <2>1 DEF DeviceInv
    <2>3. world.maxDrops = 0 /\ link[d] # "ready" => cursor'[d] = 0
      BY <1>1, <2>2 DEF PendingAt
    <2>4. ASSUME NEW e \in Entity, Has(d, e)'
          PROVE  \/ Secured(d, e, dRow[d][e].ts, "entity")'
                 \/ /\ dRow'[d][e].ts > cursor'[d]
                    /\ link[d] # "ready" \/ stage[d] = "rows"
      <3>1. CASE Has(d, e) /\ dRow'[d][e] = dRow[d][e]
        BY <1>1, <1>8, <2>2, <3>1 DEF PendingAt
      <3>2. QED
        BY <1>6, <1>7, <2>4, <3>1
    <2>5. ASSUME NEW e \in Entity, dTomb'[d][e] # 0
          PROVE  \/ Secured(d, e, dTomb[d][e], "delete")'
                 \/ /\ dTomb'[d][e] > cursor'[d]
                    /\ link[d] # "ready" \/ stage[d] # "idle"
      <3>1. CASE dTomb'[d][e] = dTomb[d][e]
        BY <1>1, <1>8, <2>2, <2>5, <3>1 DEF PendingAt
      <3>2. QED
        BY <1>6, <1>7, <3>1
    <2>6. QED
      BY <1>0, <1>2, <2>3, <2>4, <2>5 DEF PendingAt
  <1>14. DeviceInv(d)'
    BY <1>9, <1>10, <1>11, <1>12, <1>13 DEF DeviceInv
  <1>15. QED
    BY <1>3, <1>14 DEF Devices

\* As long as no clock is further ahead than the server allows, what holds of the
\* devices holds after every step.
LEMMA DevicesStep ==
    ASSUME BaseInv, WithinAllowance, Devices, [SyncNext]_vars
    PROVE  Devices'
  <1>1. ASSUME UNCHANGED vars \/ SyncTick
        PROVE  Devices'
    <2>1. UNCHANGED <<deviceVars, linkVars, up, down>>
      BY <1>1 DEF vars, SyncTick
    <2>2. ASSUME NEW x \in Device PROVE DeviceInv(x)'
      BY <2>1, DeviceFrame DEF Devices, deviceVars, linkVars
    <2>3. QED
      BY <2>2 DEF Devices
  <1>2. ASSUME NEW d \in Device, User(d) \/ Connect(d) \/ Failure(d) \/ Progress(d)
        PROVE  Devices'
    BY <1>2, WriteLocalDevices, DeleteDevices, ConnectionDevices, InitialSyncDevices,
       HandlerDevices, RecvDevices DEF User, Create, Update, Progress
  <1>3. QED
    BY <1>1, <1>2 DEF SyncNext

\* At the start the devices have nothing.
LEMMA DevicesInit == SyncInit => Devices
  <1>1. \A m \in ToSet(<<>>) : FALSE
    BY DEF ToSet
  <1>2. SUFFICES ASSUME SyncInit, NEW d \in Device PROVE DeviceInv(d)
    BY DEF Devices
  <1>3. /\ \A e \in Entity : ~Has(d, e) /\ dTomb[d][e] = 0
        /\ cursor[d] = 0 /\ up[d] = <<>> /\ down[d] = <<>> /\ now = 1
        /\ MaxSkew \in Nat
    BY <1>2, StoreAssumption DEF SyncInit, Init, Has
  <1>4. QED
    BY <1>1, <1>3 DEF DeviceInv, UncutOf, UploadedBy, PendingAt

\* The invariant says that nothing is stranded.
LEMMA DevicesStrandNothing ==
    ASSUME BaseInv, WithinAllowance, Lossless, Devices
    PROVE  NothingStrandedAnywhere
  <1>1. ASSUME NEW d \in Device, NEW e \in Entity
        PROVE  /\ Has(d, e) => Safe(d, e, dRow[d][e].ts, "entity")
               /\ dTomb[d][e] # 0 => Safe(d, e, dTomb[d][e], "delete")
    BY <1>1 DEF Devices, DeviceInv, PendingAt, Secured, Safe
  <1>2. QED
    BY <1>1 DEF NothingStrandedAnywhere

\* No local change is stranded on its device, neither an edit nor a deletion
\* (doInitialSync's comparisons with the cursor), in any number of devices, entities,
\* drops and resyncs, as long as drops lose nothing.
THEOREM SyncNothingStranded == SyncSpec => []NothingStranded
  <1> DEFINE Inv == BaseInv /\ (WithinAllowance => Devices)
  <1>1. SyncInit => Inv
    BY BaseInvInit, DevicesInit
  <1>2. ASSUME Inv, [SyncNext]_vars PROVE Inv'
    <2>1. BaseInv'
      BY <1>2, BaseInvStep
    <2>2. WithinAllowance' => WithinAllowance
      BY <1>2, WorldStays DEF WithinAllowance
    <2>3. QED
      BY <1>2, <2>1, <2>2, DevicesStep
  <1>3. Inv => NothingStranded
    BY DevicesStrandNothing DEF NothingStranded
  <1>4. QED
    BY <1>1, <1>2, <1>3, PTL DEF SyncSpec

-----------------------------------------------------------------------------
(* The snapshot of a full resync.                                          *)

\* m is all that the server has.
Current(m) ==
    m.op = "snapshot" /\
    m = SnapshotMsg(EntitiesSince(shared, 0), TombstonesSince(shared, 0), m.time)

\* While neither side writes, the last message under way is all that the server has, and
\* what the device holds besides the server has too; when it is merged they agree.
ExactOf(d) ==
    exact[d] =>
        /\ \A e \in Entity : Has(d, e) => Covered(e, dRow[d][e].ts)
        /\ down[d] # <<>> => Current(Last(down[d]))
        /\ down[d] = <<>> => \A e \in Entity : Agrees(d, e)

Exact == \A d \in Device : ExactOf(d)

\* A snapshot stays current while the server writes nothing.
LEMMA CurrentStays ==
    ASSUME NEW m, Current(m), UNCHANGED <<row, tomb, assetKeys>>
    PROVE  Current(m)'
  BY DEF Current, SnapshotMsg, EntitiesSince, TombstonesSince, InNamespace, Stored

\* A device that a step does not touch, while the server writes nothing.
LEMMA ExactFrame ==
    ASSUME NEW d \in Device, ExactOf(d), exact'[d] => exact[d],
           dRow'[d] = dRow[d], down'[d] = down[d], UNCHANGED <<row, tomb, assetKeys>>
    PROVE  ExactOf(d)'
  <1>1. \A e \in Entity : WinningStamp(e)' = WinningStamp(e) /\ Stored(e)' = Stored(e)
    BY DEF WinningStamp, Stored
  <1>2. \A m : Current(m) => Current(m)'
    BY CurrentStays
  <1>3. QED
    BY <1>1, <1>2 DEF ExactOf, Has, Covered, Agrees

\* A current snapshot, merged into rows that the server has, leaves what the server has.
LEMMA CurrentAgrees ==
    ASSUME BaseInv, NEW d \in Device, NEW e \in Entity, NEW m \in DownMsg, Current(m),
           Has(d, e) => Covered(e, dRow[d][e].ts),
           NEW r, r = IF m.tombs[e] # 0 /\ ShouldDelete(Merged(d, m, e), m.tombs[e])
                      THEN NoRow ELSE Merged(d, m, e)
    PROVE  IF Stored(e) THEN r # NoRow /\ r.ts = row[e].ts ELSE r = NoRow
  <1>0. /\ SyncTypeOK /\ StoreInv /\ TombstoneWins
        /\ Stored(e) => row[e].key = shared
        /\ tomb[e].at # 0 => tomb[e].key = shared
        /\ tomb[e].at \in Nat /\ Asset = {}
    BY SyncAssumption DEF BaseInv, StoreInv, InShared, TypeOK, Tomb, Stamp
  <1>1. m.tombs[e] = tomb[e].at
    <2>1. e \in TombstonesSince(shared, 0) <=> tomb[e].at # 0
      BY <1>0 DEF TombstonesSince
    <2>2. m.tombs[e] = IF e \in TombstonesSince(shared, 0) THEN tomb[e].at ELSE 0
      BY DEF Current, SnapshotMsg
    <2>3. QED
      BY <2>1, <2>2
  <1>2. m.rows[e] = IF Stored(e) THEN [ts |-> row[e].ts, content |-> row[e].content] ELSE NoRow
    <2>1. e \in EntitiesSince(shared, 0) <=> Stored(e)
      BY <1>0, StoredRow DEF EntitiesSince, InNamespace, StoreInv, Pos
    <2>2. m.rows[e] = IF e \in EntitiesSince(shared, 0)
                      THEN [ts |-> row[e].ts, content |-> row[e].content] ELSE NoRow
      BY DEF Current, SnapshotMsg
    <2>3. QED
      BY <2>1, <2>2
  <1>3. Has(d, e) => dRow[d][e].ts \in Pos
    BY <1>0, DeviceTypes
  <1>4. CASE Stored(e)
    <2>1. /\ row[e].ts \in Pos /\ row[e].content \in Content /\ tomb[e].at < row[e].ts
          /\ WinningStamp(e) = row[e].ts
      BY <1>0, <1>4, StoredRow DEF StoreInv, TombstoneWins
    <2>2. m.rows[e] # NoRow /\ m.rows[e].ts = row[e].ts
      <3>1. m.rows[e] \in DeviceRow
        BY <1>2, <1>4, <2>1 DEF DeviceRow
      <3>2. QED
        BY <1>2, <1>4, <3>1, SyncAssumption
    <2>3. Has(d, e) => dRow[d][e].ts <= row[e].ts
      BY <2>1, <1>3 DEF Covered, Pos
    <2>4. Merged(d, m, e) # NoRow /\ Merged(d, m, e).ts = row[e].ts
      BY <1>3, <2>1, <2>2, <2>3 DEF Merged, Newer, Has, Pos
    <2>5. QED
      BY <1>0, <1>1, <1>4, <2>1, <2>4 DEF ShouldDelete, Pos
  <1>5. CASE ~Stored(e)
    <2>1. m.rows[e] = NoRow /\ Merged(d, m, e) = dRow[d][e]
      BY <1>2, <1>5 DEF Merged
    <2>2. Has(d, e) => dRow[d][e].ts <= tomb[e].at /\ tomb[e].at # 0
      BY <1>0, <1>3, <1>5 DEF Covered, WinningStamp, Pos
    <2>3. QED
      BY <1>1, <1>5, <2>1, <2>2 DEF ShouldDelete, Has
  <1>6. QED
    BY <1>4, <1>5

\* Every step keeps it.
LEMMA ExactStep ==
    ASSUME BaseInv, WithinAllowance, Devices, Exact, [SyncNext]_vars
    PROVE  Exact'
  <1>0. BaseInv' /\ Devices' /\ SyncTypeOK /\ StoreInv
    BY BaseInvStep, DevicesStep DEF BaseInv
  <1> SUFFICES ASSUME NEW x \in Device, exact'[x] PROVE ExactOf(x)'
    BY DEF Exact, ExactOf
  <1>1. ExactOf(x) /\ ChannelsOf(x) /\ DeviceInv(x) /\ DeviceInv(x)'
    BY <1>0 DEF Exact, Devices, BaseInv, Channels
  <1>2. CASE UNCHANGED vars \/ SyncTick
    BY <1>1, <1>2, ExactFrame DEF vars, SyncTick, Tick, storeVars, deviceVars
  <1>3. ASSUME NEW d \in Device, User(d) PROVE ExactOf(x)'
    <2>1. /\ exact' = [exact EXCEPT ![d] = FALSE] /\ UNCHANGED <<storeVars, down>>
          /\ \E y \in Entity : \E r : dRow' = [dRow EXCEPT ![d][y] = r]
      BY <1>3 DEF User, Create, Update, Delete, WriteLocal
    <2>2. x # d /\ exact'[x] = exact[x] /\ dRow'[x] = dRow[x]
      BY <1>0, <2>1 DEF SyncTypeOK
    <2>3. QED
      BY <1>1, <2>1, <2>2, ExactFrame DEF storeVars
  <1>4. ASSUME NEW d \in Device, Connect(d) \/ Failure(d) PROVE ExactOf(x)'
    <2>1. x # d /\ exact'[x] = exact[x]
      BY <1>0, <1>1, <1>4 DEF Connect, Failure, Drop, ForcePushAll, ForceFullSync, Hangup,
                              SyncTypeOK, ChannelsOf
    <2>2. dRow'[x] = dRow[x] /\ down'[x] = down[x] /\ UNCHANGED storeVars
      BY <1>0, <1>4, <2>1 DEF Connect, Failure, Drop, ForcePushAll, ForceFullSync, Hangup,
                              SyncTypeOK, deviceVars
    <2>3. QED
      BY <1>1, <2>1, <2>2, ExactFrame DEF storeVars
  <1>5. ASSUME NEW d \in Device, RecvOk(d) \/ PushRows(d) \/ PushTombsAndPull(d) PROVE ExactOf(x)'
    <2>1. UNCHANGED <<exact, dRow>> /\ UNCHANGED storeVars
      BY <1>5 DEF RecvOk, PushRows, PushTombsAndPull, deviceVars
    <2>2. down'[x] = down[x]
      <3>1. CASE RecvOk(d)
        <4>1. down[d] # <<>> /\ Head(down[d]).op = "ok" /\ \A y \in Device \ {d} : down'[y] = down[y]
          BY <1>0, <3>1 DEF RecvOk, SyncTypeOK
        <4>2. Head(down[d]) \in ToSet(down[d])
          BY <1>0, <4>1, HeadOfDown
        <4>3. link[x] = "ready"
          BY <1>1, <2>1 DEF ChannelsOf
        <4>4. x # d
          BY <1>1, <4>1, <4>2, <4>3 DEF ChannelsOf
        <4>5. QED
          BY <4>1, <4>4
      <3>2. QED
        BY <1>5, <3>1 DEF PushRows, PushTombsAndPull
    <2>3. QED
      BY <1>1, <2>1, <2>2, ExactFrame DEF storeVars
  <1>6. ASSUME NEW d \in Device, HandleEntity(d) \/ HandleDelete(d) PROVE ExactOf(x)'
    <2>1. \/ UNCHANGED <<down, exact>> /\ UNCHANGED storeVars
          \/ exact' = [y \in Device |-> FALSE]
      BY <1>6 DEF HandleEntity, HandleDelete, RefuseStale, RefuseDeleted, RefuseTombstone, Announce
    <2>2. UNCHANGED dRow
      BY <1>6 DEF HandleEntity, HandleDelete, deviceVars
    <2>3. QED
      BY <1>1, <2>1, <2>2, ExactFrame DEF storeVars
  <1>7. ASSUME NEW d \in Device, HandlePull(d) PROVE ExactOf(x)'
    <2>1. PICK m \in UpMsg :
              /\ m = Head(up[d]) /\ m \in ToSet(up[d]) /\ up[d] # <<>>
              /\ m.op = "pull"
              /\ Consume(d, "pull")
              /\ Answer(m) \in DownMsg
              /\ down' = [down EXCEPT ![d] = Append(down[d], Answer(m))]
              /\ \A y \in Device \ {d} : exact'[y] = exact[y]
              /\ exact'[d] =>
                    /\ m.since = 0 /\ Len(up[d]) = 1
                    /\ Answer(m) = SnapshotMsg(EntitiesSince(shared, m.since),
                                                  TombstonesSince(shared, m.since), now)
              /\ UNCHANGED <<storeVars, deviceVars, linkVars, userVars>>
      BY <1>0, <1>7, HandlePullCases DEF StoreInv
    <2>2. UNCHANGED <<dRow, link, stage, since, row, tomb, assetKeys>>
      BY <2>1 DEF deviceVars, linkVars, storeVars
    <2>3. CASE x # d
      BY <1>0, <1>1, <2>1, <2>2, <2>3, ExactFrame DEF SyncTypeOK
    <2>4. CASE x = d
      <3>1. /\ link[x] = "ready" /\ stage[x] = "idle" /\ since[x] = 0
        <4>1. link[x] \in {"down", "greeted", "ready"}
          BY <1>0 DEF SyncTypeOK
        <4>2. QED
          BY <1>1, <2>1, <2>4, <4>1 DEF ChannelsOf
      <3>2. up'[x] = <<>>
        <4>1. up'[x] = Tail(up[x]) /\ Len(up[x]) = 1 /\ up[x] \in Seq(UpMsg)
          BY <1>0, <2>1, <2>4, ConsumeType DEF SyncTypeOK
        <4>2. QED
          BY <2>1, <2>4, <4>1, SetOfTail
      <3>3. ASSUME NEW e \in Entity, Has(x, e)' PROVE Covered(e, dRow[x][e].ts)'
        <4>1. dRow'[x][e].ts \in Pos
          BY <1>0, <3>3 DEF BaseInv, SyncTypeOK, Has, DeviceRow
        <4>2. Secured(x, e, dRow[x][e].ts, "entity")' \/ dRow'[x][e].ts <= since'[x]
          BY <1>1, <2>2, <3>1, <3>3 DEF DeviceInv, UploadedBy
        <4>3. \A y \in ToSet(up'[x]) : FALSE
          BY <3>2 DEF ToSet
        <4>4. QED
          BY <2>2, <3>1, <4>1, <4>2, <4>3 DEF Secured, OnItsWay, Pos
      <3>4. down'[x] # <<>> /\ Last(down'[x]) = Answer(m)
        <4>1. down[x] \in Seq(DownMsg) /\ down'[x] = Append(down[x], Answer(m))
          BY <1>0, <2>1, <2>4 DEF SyncTypeOK
        <4>2. QED
          BY <2>1, <4>1, SetOfAppend
      <3>5. Current(Last(down[x]))'
        <4>1. Answer(m) = SnapshotMsg(EntitiesSince(shared, 0), TombstonesSince(shared, 0), now)
          BY <2>1, <2>4
        <4>2. Answer(m).op = "snapshot" /\ Answer(m).time = now
          BY <4>1 DEF SnapshotMsg
        <4>3. Current(Answer(m))
          BY <4>1, <4>2 DEF Current
        <4>4. ASSUME NEW y, y = Answer(m) PROVE Current(y)'
          BY <2>2, <4>3, <4>4, CurrentStays
        <4>5. QED
          BY <3>4, <4>4
      <3>6. QED
        BY <3>3, <3>4, <3>5 DEF ExactOf
    <2>5. QED
      BY <2>3, <2>4
  <1>8. ASSUME NEW d \in Device, RecvEntity(d) \/ RecvDeleted(d) \/ RecvSnapshot(d)
        PROVE  ExactOf(x)'
    <2>1. DeviceInv(d) /\ UNCHANGED exact
      BY <1>8 DEF Devices, RecvEntity, RecvDeleted, RecvSnapshot, Receive
    <2>2. /\ \A e \in Entity :
                dRow'[d][e] # NoRow =>
                      \/ dRow'[d][e] = dRow[d][e]
                      \/ dRow'[d][e].ts \in Nat /\ Covered(e, dRow'[d][e].ts)
          /\ \A y \in Device \ {d} : dRow'[y] = dRow[y]
          /\ UNCHANGED <<storeVars, linkVars, up, userVars>>
          /\ down[d] # <<>> /\ down'[d] = Tail(down[d]) /\ \A y \in Device \ {d} : down'[y] = down[y]
      BY <1>8, <2>1, MergedRows
    <2>3. UNCHANGED <<row, tomb, assetKeys>> /\ \A e \in Entity : WinningStamp(e)' = WinningStamp(e)
      BY <2>2 DEF storeVars, WinningStamp, Stored
    <2>4. CASE x # d
      BY <1>1, <2>1, <2>2, <2>3, <2>4, ExactFrame
    <2>5. CASE x = d
      <3>1. /\ Current(Last(down[x])) /\ down[x] \in Seq(DownMsg)
            /\ \A e \in Entity : Has(x, e) => Covered(e, dRow[x][e].ts)
        BY <1>0, <1>1, <2>1, <2>2, <2>5 DEF ExactOf, SyncTypeOK
      <3>2. ASSUME NEW e \in Entity, Has(x, e)' PROVE Covered(e, dRow[x][e].ts)'
        BY <2>2, <2>3, <2>5, <3>1, <3>2 DEF Has, Covered
      <3>3. ASSUME down'[x] # <<>> PROVE Current(Last(down[x]))'
        <4>1. Last(down'[x]) = Last(down[x])
          BY <2>2, <2>5, <3>1, <3>3, SetOfTail
        <4>2. ASSUME NEW y, y = Last(down[x]) PROVE Current(y)'
          BY <2>3, <3>1, <4>2, CurrentStays
        <4>3. QED
          BY <4>1, <4>2
      <3>4. ASSUME down'[x] = <<>>, NEW e \in Entity PROVE Agrees(x, e)'
        <4>1. Last(down[x]) = Head(down[x])
          BY <2>2, <2>5, <3>1, <3>4, SetOfTail
        <4>2. Head(down[x]).op = "snapshot"
          BY <3>1, <4>1 DEF Current
        <4>3. RecvSnapshot(x)
          BY <1>8, <2>5, <4>2 DEF RecvEntity, RecvDeleted, Receive
        <4>4. PICK m \in DownMsg :
                 /\ m = Head(down[x])
                 /\ dRow'[x][e] = IF m.tombs[e] # 0 /\ ShouldDelete(Merged(x, m, e), m.tombs[e])
                                  THEN NoRow ELSE Merged(x, m, e)
          BY <1>0, <4>3, RecvSnapshotRows
        <4>5. Current(m) /\ (Has(x, e) => Covered(e, dRow[x][e].ts))
          BY <3>1, <4>1, <4>4
        <4>6. IF Stored(e) THEN dRow'[x][e] # NoRow /\ dRow'[x][e].ts = row[e].ts
                           ELSE dRow'[x][e] = NoRow
          BY <4>4, <4>5, CurrentAgrees
        <4>7. QED
          BY <2>3, <4>6 DEF Agrees, Stored, Has
      <3>5. QED
        BY <3>2, <3>3, <3>4 DEF ExactOf
    <2>6. QED
      BY <2>4, <2>5
  <1>9. QED
    BY <1>2, <1>3, <1>4, <1>5, <1>6, <1>7, <1>8 DEF SyncNext, Progress

\* Once the snapshot of a pull from 0 is merged, and neither side wrote after the pull
\* was sent, the device holds exactly what the server holds (forceFullSync, and
\* applySnapshot's comparisons), whatever was lost before.
THEOREM SyncFullResyncAgrees == SyncSpec => []FullResyncAgrees
  <1> DEFINE Inv == BaseInv /\ (WithinAllowance => Devices /\ Exact)
  <1>1. SyncInit => Inv
    BY BaseInvInit, DevicesInit DEF SyncInit, Exact, ExactOf
  <1>2. ASSUME Inv, [SyncNext]_vars PROVE Inv'
    <2>1. BaseInv'
      BY <1>2, BaseInvStep
    <2>2. WithinAllowance' => WithinAllowance
      BY <1>2, WorldStays DEF WithinAllowance
    <2>3. QED
      BY <1>2, <2>1, <2>2, DevicesStep, ExactStep
  <1>3. Inv => FullResyncAgrees
    BY DEF FullResyncAgrees, Exact, ExactOf
  <1>4. QED
    BY <1>1, <1>2, <1>3, PTL DEF SyncSpec

-----------------------------------------------------------------------------
(* A calm world: everybody is told everything.                             *)

\* A device has the version of e with stamp t, is being told, or is still to ask.
Told(d, e, t) ==
    \/ Has(d, e) /\ dRow[d][e].ts >= t
    \/ \E m \in ToSet(down[d]) : m.op = "entity" /\ m.e = e /\ m.ts >= t
    \/ \E m \in ToSet(down[d]) : m.op = "snapshot" /\ m.rows[e] # NoRow /\ m.rows[e].ts >= t
    \/ link[d] # "ready" \/ stage[d] # "idle"
    \/ \E m \in ToSet(up[d]) : m.op = "pull"

\* Nothing is deleted, and no stamp is ahead of anybody's clock.
CalmStore ==
    \A e \in Entity :
        /\ tomb[e].at = 0
        /\ Stored(e) => \A d \in Device : row[e].ts <= Clock(d)

CalmDevice(d) ==
    /\ since[d] = 0
    /\ \A e \in Entity :
          /\ dTomb[d][e] = 0
          /\ Has(d, e) => dRow[d][e].ts <= Clock(d)
          /\ Stored(e) => Told(d, e, row[e].ts)
    /\ \A m \in ToSet(up[d]) :
          m.op # "delete" /\ (m.op = "entity" => Has(d, m.e) /\ m.ts <= dRow[d][m.e].ts)
    /\ \A m \in ToSet(down[d]) :
          m.op # "delete" /\ (m.op = "snapshot" => \A e \in Entity : m.tombs[e] = 0)

CalmInv == CalmStore /\ \A d \in Device : CalmDevice(d)

\* Stamps are numbers and clocks do not go back.
LEMMA CalmTypes ==
    ASSUME BaseInv, [SyncNext]_vars, NEW d \in Device, NEW e \in Entity
    PROVE  /\ Clock(d) \in Int /\ Clock(d)' \in Int /\ Clock(d) <= Clock(d)'
           /\ Stored(e) => row[e].ts \in Nat
           /\ Stored(e)' => row'[e].ts \in Nat
           /\ Has(d, e) => dRow[d][e].ts \in Nat
           /\ Has(d, e)' => dRow'[d][e].ts \in Nat
  <1>1. SyncTypeOK /\ SyncTypeOK' /\ BaseInv' /\ world' = world
    BY BaseInvStep, WorldStays DEF BaseInv
  <1>2. now \in Nat /\ now' \in Nat /\ now <= now'
    BY TimeGrows
  <1>3. world.skew[d] \in Int
    BY <1>1, SyncAssumption DEF SyncTypeOK, World
  <1>4. Clock(d) \in Int /\ Clock(d)' \in Int /\ Clock(d) <= Clock(d)'
    BY <1>1, <1>2, <1>3 DEF Clock
  <1>5. QED
    BY <1>1, <1>4 DEF SyncTypeOK, TypeOK, Stored, Has, Row, Stamp, DeviceRow, Pos

\* The server's side of a step that leaves its rows alone.
LEMMA CalmStoreFrame ==
    ASSUME BaseInv, [SyncNext]_vars, CalmStore, UNCHANGED <<row, tomb>>
    PROVE  CalmStore'
  <1>1. ASSUME NEW e \in Entity PROVE tomb'[e].at = 0 /\ Stored(e)' = Stored(e)
    BY DEF CalmStore, Stored
  <1>2. ASSUME NEW e \in Entity, Stored(e), NEW d \in Device PROVE row'[e].ts <= Clock(d)'
    BY <1>2, CalmTypes DEF CalmStore
  <1>3. QED
    BY <1>1, <1>2 DEF CalmStore

\* A device that only gets broadcasts, and one for each row that changes.
LEMMA CalmFrame ==
    ASSUME BaseInv, [SyncNext]_vars, NEW x \in Device, CalmDevice(x),
           dRow'[x] = dRow[x], dTomb'[x] = dTomb[x], since'[x] = since[x],
           link'[x] = link[x], stage'[x] = stage[x], up'[x] = up[x],
           ToSet(down[x]) \subseteq ToSet(down'[x]),
           \A m \in ToSet(down'[x]) : m \in ToSet(down[x]) \/ m.op = "entity",
           \A e \in Entity : Stored(e)' =>
              \/ Stored(e) /\ row'[e] = row[e]
              \/ link[x] # "ready"
              \/ \E m \in ToSet(down'[x]) : m.op = "entity" /\ m.e = e /\ m.ts >= row'[e].ts
    PROVE  CalmDevice(x)'
  <1>1. ASSUME NEW e \in Entity
        PROVE  /\ dTomb'[x][e] = 0
               /\ Has(x, e)' => dRow'[x][e].ts <= Clock(x)'
    BY CalmTypes DEF CalmDevice, Has
  <1>2. ASSUME NEW e \in Entity, Stored(e)' PROVE Told(x, e, row[e].ts)'
    <2>1. CASE Stored(e) /\ row'[e] = row[e]
      BY <2>1 DEF CalmDevice, Told, Has
    <2>2. QED
      BY <1>2, <2>1 DEF Told
  <1>3. \A m \in ToSet(up'[x]) :
           m.op # "delete" /\ (m.op = "entity" => Has(x, m.e)' /\ m.ts <= dRow'[x][m.e].ts)
    BY DEF CalmDevice, Has
  <1>4. \A m \in ToSet(down'[x]) :
           m.op # "delete" /\ (m.op = "snapshot" => \A e \in Entity : m.tombs[e] = 0)
    BY DEF CalmDevice
  <1>5. QED
    BY <1>1, <1>2, <1>3, <1>4 DEF CalmDevice

\* Without deletions, what the server has is in its rows.
LEMMA CalmCovered ==
    ASSUME BaseInv, CalmStore, NEW e \in Entity, NEW t \in Pos, Covered(e, t)
    PROVE  Stored(e) /\ row[e].ts \in Nat /\ t <= row[e].ts /\ \A d \in Device : t <= Clock(d)
  <1>1. Stored(e) /\ row[e].ts \in Nat /\ t <= row[e].ts
    BY DEF CalmStore, Covered, WinningStamp, Pos, BaseInv, SyncTypeOK, TypeOK, Stored, Row, Stamp
  <1>2. ASSUME NEW d \in Device PROVE t <= Clock(d)
    <2>1. Clock(d) \in Int /\ row[e].ts <= Clock(d)
      BY <1>1, DeviceTypes DEF BaseInv, CalmStore
    <2>2. QED
      BY <1>1, <2>1 DEF Pos
  <1>3. QED
    BY <1>1, <1>2

\* A local write keeps the invariant of a calm world.
LEMMA CalmWrite ==
    ASSUME BaseInv, CalmInv, [SyncNext]_vars,
           NEW d \in Device, NEW e \in Entity, WriteLocal(d, e)
    PROVE  CalmInv'
  <1> DEFINE r == [ts |-> Clock(d), content |-> ops + 1]
             m == EntityMsg(e, r)
  <1>0. SyncTypeOK /\ now' = now /\ CalmStore /\ CalmDevice(d) /\ world' = world
    BY DEF BaseInv, WriteLocal, storeVars, CalmInv
  <1>1. r \in DeviceRow /\ Clock(d) \in Pos /\ r # NoRow
    <2>1. Clock(d) \in Pos
      BY <1>0, DeviceTypes DEF WriteLocal, Pos
    <2>2. ops + 1 \in Content
      BY <1>0, DeviceTypes, SyncAssumption DEF WriteLocal, World, SyncTypeOK
    <2>3. QED
      BY <2>1, <2>2, SyncAssumption DEF DeviceRow
  <1>2. m \in UpMsg /\ m.op = "entity" /\ m.e = e /\ m.ts = Clock(d)
    BY <1>1, SentTypes DEF EntityMsg
  <1>3. /\ ToSet(up[d]) \subseteq ToSet(up'[d])
        /\ ToSet(up'[d]) \subseteq ToSet(up[d]) \union {m}
        /\ \A x \in Device \ {d} : up'[x] = up[x]
    BY <1>0, <1>2, Pushed DEF WriteLocal
  <1>4. /\ \A x \in Entity : dRow'[d][x] = IF x = e THEN r ELSE dRow[d][x]
        /\ \A x \in Device \ {d} : dRow'[x] = dRow[x]
        /\ UNCHANGED <<dTomb, link, stage, since, down, row, tomb>>
        /\ Clock(d)' = Clock(d)
    BY <1>0 DEF WriteLocal, SyncTypeOK, linkVars, storeVars, Clock
  <1>5. ASSUME NEW x \in Device, x # d PROVE CalmDevice(x)'
    BY <1>3, <1>4, <1>5, CalmFrame DEF CalmInv, Stored
  <1>6. ASSUME NEW x \in Entity
        PROVE  /\ dTomb'[d][x] = 0
               /\ Has(d, x) => /\ Has(d, x)' /\ dRow[d][x].ts \in Nat
                               /\ dRow[d][x].ts <= dRow'[d][x].ts /\ dRow'[d][x].ts \in Nat
               /\ Has(d, x)' => dRow'[d][x].ts <= Clock(d)'
               /\ Stored(x)' => Stored(x) /\ row'[x].ts = row[x].ts /\ row[x].ts \in Nat
    <2>1. /\ Has(d, x) => dRow[d][x].ts \in Nat /\ dRow[d][x].ts <= Clock(d)
          /\ Stored(x) => row[x].ts \in Nat
          /\ dTomb[d][x] = 0
      BY <1>0, CalmTypes DEF CalmDevice
    <2>2. r.ts = Clock(d) /\ Clock(d) \in Nat
      BY <1>1 DEF Pos
    <2> HIDE DEF r
    <2>3. CASE x = e
      BY <1>1, <1>4, <2>1, <2>2, <2>3 DEF Has, Stored
    <2>4. CASE x # e
      BY <1>4, <2>1, <2>2, <2>4 DEF Has, Stored
    <2>5. QED
      BY <2>3, <2>4
  <1>7. ASSUME NEW x \in Entity, Stored(x)' PROVE Told(d, x, row[x].ts)'
    BY <1>0, <1>3, <1>4, <1>6, <1>7 DEF Told, CalmDevice
  <1>8. ASSUME NEW y \in ToSet(up'[d])
        PROVE  y.op # "delete" /\ (y.op = "entity" => Has(d, y.e)' /\ y.ts <= dRow'[d][y.e].ts)
    <2>1. CASE y \in ToSet(up[d])
      <3>1. y \in UpMsg
        BY <1>0, <2>1 DEF ToSet, SyncTypeOK
      <3>2. y.op = "entity" => y.e \in Entity /\ y.ts \in Nat
        BY <3>1, UpFields DEF Pos
      <3>3. QED
        BY <1>0, <1>6, <2>1, <3>2 DEF CalmDevice
    <2>2. CASE y = m
      <3>1. dRow'[d][e] = r /\ r.ts = Clock(d) /\ Clock(d) <= Clock(d)
        BY <1>1, <1>4 DEF Pos
      <3> HIDE DEF m, r
      <3>2. QED
        BY <1>1, <1>2, <2>2, <3>1 DEF Has
    <2>3. QED
      BY <1>3, <2>1, <2>2
  <1>9. CalmDevice(d)'
    BY <1>0, <1>4, <1>6, <1>7, <1>8 DEF CalmDevice
  <1>10. CalmStore'
    BY <1>0, <1>4, CalmStoreFrame
  <1>11. QED
    BY <1>5, <1>9, <1>10 DEF CalmInv

\* So does connecting.
LEMMA CalmConnect ==
    ASSUME BaseInv, CalmInv, [SyncNext]_vars, NEW d \in Device, Connect(d)
    PROVE  CalmInv'
  <1>0. SyncTypeOK /\ CalmStore /\ CalmDevice(d) /\ UNCHANGED <<row, tomb>> /\ ChannelsOf(d)
    BY DEF BaseInv, Connect, storeVars, CalmInv, Channels
  <1>1. ASSUME NEW x \in Device, x # d PROVE CalmDevice(x)'
    <2>1. /\ link'[x] = link[x] /\ down'[x] = down[x]
          /\ UNCHANGED <<dRow, dTomb, since, stage, up>>
      BY <1>0, <1>1 DEF Connect, SyncTypeOK, deviceVars
    <2>2. QED
      BY <1>0, <2>1, CalmFrame DEF CalmInv, Stored
  <1>2. /\ link'[d] = "greeted" /\ down'[d] = <<OkMsg>>
        /\ UNCHANGED <<dRow, dTomb, since, stage, up>>
    BY <1>0 DEF Connect, SyncTypeOK, deviceVars
  <1>3. \A y \in ToSet(down'[d]) : y.op = "ok"
    BY <1>2 DEF ToSet, OkMsg
  <1>4. ASSUME NEW e \in Entity
        PROVE  dTomb'[d][e] = 0 /\ (Has(d, e)' => dRow'[d][e].ts <= Clock(d)')
    BY <1>0, <1>2, CalmTypes DEF CalmDevice, Has
  <1>5. CalmDevice(d)'
    BY <1>0, <1>2, <1>3, <1>4 DEF CalmDevice, Has, Told
  <1>6. QED
    BY <1>0, <1>1, <1>5, CalmStoreFrame DEF CalmInv

\* So does the initial sync.
LEMMA CalmInitialSync ==
    ASSUME BaseInv, Calm, Devices, CalmInv, [SyncNext]_vars,
           NEW d \in Device, RecvOk(d) \/ PushRows(d) \/ PushTombsAndPull(d)
    PROVE  CalmInv'
  <1>0. /\ SyncTypeOK /\ CalmStore /\ CalmDevice(d) /\ ChannelsOf(d) /\ DeviceInv(d)
        /\ UNCHANGED <<dRow, dTomb, cursor, row, tomb>>
    BY DEF BaseInv, Channels, CalmInv, Devices, RecvOk, PushRows, PushTombsAndPull, deviceVars, storeVars
  <1>1. ASSUME NEW x \in Device, x # d PROVE CalmDevice(x)'
    <2>1. /\ link'[x] = link[x] /\ stage'[x] = stage[x] /\ since'[x] = since[x]
          /\ up'[x] = up[x] /\ down'[x] = down[x]
      BY <1>0, <1>1 DEF RecvOk, PushRows, PushTombsAndPull, SyncTypeOK
    <2>2. QED
      BY <1>0, <2>1, CalmFrame DEF CalmInv, Stored
  <1>2. ASSUME NEW e \in Entity
        PROVE  /\ dTomb'[d][e] = 0 /\ (Has(d, e)' => dRow'[d][e].ts <= Clock(d)')
               /\ Stored(e)' = Stored(e)
               /\ Has(d, e) => dRow[d][e].ts \in Nat
    BY <1>0, CalmTypes DEF CalmDevice, Has, Stored
  <1>3. CASE RecvOk(d)
    <2>1. /\ down[d] # <<>> /\ down'[d] = Tail(down[d]) /\ Head(down[d]).op = "ok"
          /\ stage'[d] = "rows" /\ since'[d] = cursor[d] /\ UNCHANGED up
      BY <1>0, <1>3 DEF RecvOk, SyncTypeOK
    <2>2. \A m \in ToSet(down'[d]) : m \in ToSet(down[d])
      BY <1>0, <2>1, SetOfTail DEF SyncTypeOK
    <2>3. link[d] # "ready"
      BY <1>0, <2>1, HeadOfDown DEF ChannelsOf
    <2>4. cursor[d] = 0
      BY <1>0, <2>3 DEF Calm, Lossless, DeviceInv, PendingAt
    <2>5. CalmDevice(d)'
      BY <1>0, <1>2, <2>1, <2>2, <2>4 DEF CalmDevice, Told, Has
    <2>6. QED
      BY <1>0, <1>1, <2>5, CalmStoreFrame DEF CalmInv
  <1>4. CASE PushRows(d)
    <2> DEFINE sent == {EntityMsg(e, dRow[d][e]) :
                          e \in {y \in Entity : Has(d, y) /\ dRow[d][y].ts > since[d]}}
    <2>1. stage'[d] = "tombs" /\ UNCHANGED <<link, since, down>>
      BY <1>0, <1>4 DEF PushRows, SyncTypeOK
    <2>2. ToSet(up'[d]) = ToSet(up[d]) \union sent
      BY <1>0, <1>4, PushRowsSends DEF SyncTypeOK
    <2>3. \A m \in sent : m.op = "entity" /\ Has(d, m.e) /\ m.ts <= dRow[d][m.e].ts
      BY <1>2 DEF EntityMsg
    <2> HIDE DEF sent
    <2>4. CalmDevice(d)'
      BY <1>0, <1>2, <2>1, <2>2, <2>3 DEF CalmDevice, Told, Has
    <2>5. QED
      BY <1>0, <1>1, <2>4, CalmStoreFrame DEF CalmInv
  <1>5. CASE PushTombsAndPull(d)
    <2>1. stage'[d] = "idle" /\ UNCHANGED <<link, since, down>>
      BY <1>0, <1>5 DEF PushTombsAndPull, SyncTypeOK
    <2>2. ToSet(up'[d]) = ToSet(up[d]) \union {PullMsg(since[d])}
      <3>1. ToSet(up'[d]) = ToSet(up[d]) \union
               {DeleteMsg(e, dTomb[d][e]) : e \in {y \in Entity : dTomb[d][y] > since[d]}}
                   \union {PullMsg(since[d])}
        BY <1>0, <1>5, PushTombsSends DEF SyncTypeOK
      <3>2. {y \in Entity : dTomb[d][y] > since[d]} = {}
        BY <1>0 DEF CalmDevice
      <3>3. QED
        BY <3>1, <3>2
    <2>3. PullMsg(since[d]).op = "pull"
      BY DEF PullMsg
    <2>4. ASSUME NEW e \in Entity PROVE Told(d, e, row[e].ts)'
      BY <2>2, <2>3 DEF Told
    <2>5. CalmDevice(d)'
      BY <1>0, <1>2, <2>1, <2>2, <2>3, <2>4 DEF CalmDevice, Has
    <2>6. QED
      BY <1>0, <1>1, <2>5, CalmStoreFrame DEF CalmInv
  <1>6. QED
    BY <1>3, <1>4, <1>5

\* So does push_entity: what it accepts it tells every other device.
LEMMA CalmEntity ==
    ASSUME BaseInv, Calm, Devices, CalmInv, [SyncNext]_vars, NEW d \in Device, HandleEntity(d)
    PROVE  CalmInv'
  <1>0. /\ SyncTypeOK /\ StoreInv /\ CalmStore /\ CalmDevice(d) /\ DeviceInv(d) /\ world' = world
        /\ now \in Nat /\ MaxSkew \in Nat /\ BaseInv'
    BY WorldStays, TimeGrows, BaseInvStep DEF BaseInv, CalmInv, Devices
  <1>1. PICK m \in UpMsg, u \in Pos :
              /\ m = Head(up[d]) /\ m \in ToSet(up[d]) /\ up[d] # <<>>
              /\ m.op = "entity" /\ m.e \in Entity /\ m.ts \in Pos
              /\ u = m.ts
              /\ Consume(d, "entity")
              /\ UNCHANGED <<deviceVars, linkVars, userVars, deferred>>
              /\ \/ RefuseStale(m.e, u, m.content, shared) /\ UNCHANGED <<down, exact>>
                 \/ RefuseDeleted(m.e, u, m.content) /\ UNCHANGED <<down, exact>>
                 \/ /\ AcceptEntity(m.e, u, m.content, shared)
                    /\ Announce(d, EntityMsg(m.e, [ts |-> u, content |-> m.content]))
                    /\ EntityMsg(m.e, [ts |-> u, content |-> m.content]) \in DownMsg
    BY <1>0, HandleEntityCases DEF DeviceInv, UncutOf
  <1>2. /\ up'[d] = Tail(up[d]) /\ \A x \in Device \ {d} : up'[x] = up[x]
        /\ ToSet(up[d]) = ToSet(up'[d]) \union {m}
    <2>1. up'[d] = Tail(up[d]) /\ \A x \in Device \ {d} : up'[x] = up[x]
      BY <1>0, <1>1, ConsumeType
    <2>2. QED
      BY <1>0, <1>1, <2>1, SetOfTail DEF SyncTypeOK
  <1>3. /\ UNCHANGED <<dRow, dTomb, link, stage, since>>
        /\ Has(d, m.e) /\ m.ts <= dRow[d][m.e].ts /\ dRow[d][m.e].ts <= Clock(d)
        /\ dRow[d][m.e].ts \in Nat
    BY <1>0, <1>1, CalmTypes DEF CalmDevice, deviceVars, linkVars
  <1>4. CASE UNCHANGED <<row, tomb, down>>
    <2>1. ASSUME NEW x \in Device, x # d PROVE CalmDevice(x)'
      BY <1>2, <1>3, <1>4, <2>1, CalmFrame DEF CalmInv, Stored
    <2>2. ASSUME NEW e \in Entity
          PROVE  dTomb'[d][e] = 0 /\ (Has(d, e)' => dRow'[d][e].ts <= Clock(d)')
      BY <1>0, <1>3, CalmTypes DEF CalmDevice, Has
    <2>3. ASSUME NEW e \in Entity, Stored(e)' PROVE Told(d, e, row[e].ts)'
      <3>1. Told(d, e, row[e].ts)
        BY <1>0, <1>4, <2>3 DEF CalmDevice, Stored
      <3>2. QED
        BY <1>1, <1>2, <1>3, <1>4, <3>1 DEF Told, Has
    <2>4. CalmDevice(d)'
      BY <1>0, <1>2, <1>3, <1>4, <2>2, <2>3 DEF CalmDevice, Has
    <2>5. QED
      BY <1>0, <1>4, <2>1, <2>4, CalmStoreFrame DEF CalmInv
  <1>5. ASSUME AcceptEntity(m.e, u, m.content, shared),
               NEW y \in DownMsg, y = EntityMsg(m.e, [ts |-> u, content |-> m.content]), Announce(d, y)
        PROVE  CalmInv'
    <2>1. y.op = "entity" /\ y.e = m.e /\ y.ts = m.ts
      BY <1>1, <1>5 DEF EntityMsg
    <2>2. /\ \A e \in Entity : e # m.e => row'[e] = row[e]
          /\ row'[m.e] # NoRow /\ row'[m.e].ts = m.ts /\ UNCHANGED <<now, tomb>>
      <3>1. row' = [row EXCEPT ![m.e] = [ts |-> u, content |-> m.content, key |-> shared]]
            /\ UNCHANGED <<now, tomb>>
        BY <1>5, SyncAssumption DEF AcceptEntity, KeyColumn
      <3>2. [ts |-> u, content |-> m.content, key |-> shared] \in Row
        BY <1>1, UpFields, SyncAssumption DEF Row, Stamp, Pos
      <3>3. QED
        BY <1>0, <1>1, <3>1, <3>2, StoreAssumption DEF StoreInv, TypeOK
    <2>3. \A x \in Device :
             \/ down'[x] = down[x] /\ (x = d \/ link[x] = "down")
             \/ x # d /\ down'[x] = Append(down[x], y)
      BY <1>0, <1>5 DEF Announce, Broadcast
    <2>4. \A x \in Device : ToSet(Append(down[x], y)) = ToSet(down[x]) \union {y}
      BY <1>0, SetOfAppend DEF SyncTypeOK
    <2>5. \A x \in Device : /\ ToSet(down[x]) \subseteq ToSet(down'[x])
                            /\ ToSet(down'[x]) \subseteq ToSet(down[x]) \union {y}
                            /\ x # d /\ link[x] # "down" => y \in ToSet(down'[x])
      BY <2>3, <2>4
    <2>6. m.ts \in Nat /\ m.ts >= m.ts
      BY <1>1 DEF Pos
    <2>7. ASSUME NEW x \in Device, x # d PROVE CalmDevice(x)'
      <3>1. ASSUME NEW e \in Entity, Stored(e)'
            PROVE  \/ Stored(e) /\ row'[e] = row[e]
                   \/ link[x] # "ready"
                   \/ \E z \in ToSet(down'[x]) : z.op = "entity" /\ z.e = e /\ z.ts >= row'[e].ts
        BY <2>1, <2>2, <2>5, <2>6, <2>7, <3>1 DEF Stored
      <3>2. QED
        BY <1>2, <1>3, <2>1, <2>5, <2>7, <3>1, CalmFrame DEF CalmInv
    <2>8. ASSUME NEW e \in Entity
          PROVE  dTomb'[d][e] = 0 /\ (Has(d, e)' => dRow'[d][e].ts <= Clock(d)')
      BY <1>0, <1>3, CalmTypes DEF CalmDevice, Has
    <2>9. ASSUME NEW e \in Entity, Stored(e)' PROVE Told(d, e, row[e].ts)'
      <3>1. CASE e = m.e
        BY <1>1, <1>3, <2>2, <3>1 DEF Told, Has, Pos
      <3>2. CASE e # m.e
        <4>1. Told(d, e, row[e].ts)
          BY <1>0, <2>2, <2>9, <3>2 DEF CalmDevice, Stored
        <4>2. row'[e] = row[e] /\ down'[d] = down[d]
          BY <2>2, <2>3, <3>2
        <4>3. QED
          BY <1>1, <1>2, <1>3, <4>1, <4>2 DEF Told, Has
      <3>3. QED
        BY <3>1, <3>2
    <2>10. CalmDevice(d)'
      BY <1>0, <1>2, <1>3, <2>3, <2>8, <2>9 DEF CalmDevice, Has
    <2>11. CalmStore'
      <3>1. ASSUME NEW e \in Entity, Stored(e)', NEW x \in Device PROVE row'[e].ts <= Clock(x)'
        <4>1. Clock(x)' = Clock(x) /\ Clock(x) = Clock(d) /\ Clock(x) \in Int
          BY <1>0, <2>2, DeviceTypes DEF Calm, Clock
        <4>2. CASE e = m.e
          BY <1>3, <2>2, <2>6, <4>1, <4>2
        <4>3. CASE e # m.e
          BY <1>0, <2>2, <3>1, <4>1, <4>3 DEF CalmStore, Stored
        <4>4. QED
          BY <4>2, <4>3
      <3>2. QED
        BY <1>0, <2>2, <3>1 DEF CalmStore
    <2>12. QED
      BY <2>7, <2>10, <2>11 DEF CalmInv
  <1>6. QED
    BY <1>1, <1>4, <1>5 DEF RefuseStale, RefuseDeleted, storeVars

\* So does a pull: its answer is all the server has, within the budget.
LEMMA CalmPull ==
    ASSUME BaseInv, Calm, CalmInv, [SyncNext]_vars, NEW d \in Device, HandlePull(d)
    PROVE  CalmInv'
  <1>0. /\ SyncTypeOK /\ StoreInv /\ TombstoneWins /\ CalmStore /\ CalmDevice(d) /\ ChannelsOf(d)
        /\ world' = world
    BY WorldStays DEF BaseInv, StoreInv, CalmInv, Channels
  <1>1. PICK m \in UpMsg :
              /\ m = Head(up[d]) /\ m \in ToSet(up[d]) /\ up[d] # <<>>
              /\ m.op = "pull"
              /\ Consume(d, "pull")
              /\ Answer(m) \in DownMsg
              /\ down' = [down EXCEPT ![d] = Append(down[d], Answer(m))]
              /\ UNCHANGED <<storeVars, deviceVars, linkVars, userVars>>
    BY <1>0, HandlePullCases
  <1>2. /\ up'[d] = Tail(up[d]) /\ \A x \in Device \ {d} : up'[x] = up[x]
        /\ ToSet(up[d]) = ToSet(up'[d]) \union {m}
    <2>1. up'[d] = Tail(up[d]) /\ \A x \in Device \ {d} : up'[x] = up[x]
      BY <1>0, <1>1, ConsumeType
    <2>2. QED
      BY <1>0, <1>1, <2>1, SetOfTail DEF SyncTypeOK
  <1>3. UNCHANGED <<dRow, dTomb, link, stage, since, row, tomb>>
    BY <1>1 DEF deviceVars, linkVars, storeVars
  <1>4. m.since = 0
    BY <1>0, <1>1 DEF ChannelsOf, CalmDevice
  <1> DEFINE E == EntitiesSince(shared, 0)
             T == TombstonesSince(shared, 0)
             s == Answer(m)
  <1>5. T = {} /\ \A e \in Entity : e \in E <=> Stored(e)
    <2>1. T = {}
      BY <1>0 DEF CalmStore, TombstonesSince
    <2>2. ASSUME NEW e \in Entity PROVE e \in E <=> Stored(e)
      BY <1>0, StoredRow, SyncAssumption DEF EntitiesSince, InNamespace, StoreInv, BaseInv, InShared, Pos
    <2>3. QED
      BY <2>1, <2>2
  <1>6. Cardinality(E) + Cardinality(T) <= MaxPull
    <2>1. E \in SUBSET Entity
      BY DEF EntitiesSince
    <2> HIDE DEF E, T
    <2>2. Cardinality(E) <= Cardinality(Entity) /\ Cardinality(E) \in Nat /\ Cardinality(Entity) \in Nat
      BY <2>1, SyncAssumption, FS_Subset, FS_CardinalityType
    <2>3. Cardinality(T) = 0
      BY <1>5, FS_EmptySet
    <2>4. Cardinality(Entity) <= MaxPull /\ MaxPull \in Nat
      BY SyncAssumption DEF Calm
    <2>5. QED
      BY <2>2, <2>3, <2>4
  <1>7. s = SnapshotMsg(E, T, now)
    BY <1>4, <1>6 DEF Answer
  <1>8. /\ s.op = "snapshot" /\ \A e \in Entity : s.tombs[e] = 0
        /\ \A e \in Entity : Stored(e) => s.rows[e] = [ts |-> row[e].ts, content |-> row[e].content]
    BY <1>5, <1>7 DEF SnapshotMsg
  <1>9. \A e \in Entity : Stored(e) => s.rows[e] # NoRow /\ s.rows[e].ts >= row[e].ts
    <2>1. SUFFICES ASSUME NEW e \in Entity, Stored(e)
                   PROVE  s.rows[e] # NoRow /\ s.rows[e].ts >= row[e].ts
      OBVIOUS
    <2>2. row[e].ts \in Pos /\ row[e].content \in Content
      BY <1>0, <2>1, StoredRow DEF StoreInv
    <2> HIDE DEF s
    <2>3. s.rows[e] \in DeviceRow /\ s.rows[e].ts = row[e].ts
      <3>1. s.rows[e] = [ts |-> row[e].ts, content |-> row[e].content]
        BY <1>8, <2>1
      <3>2. QED
        BY <2>2, <3>1 DEF DeviceRow
    <2>4. QED
      BY <2>2, <2>3, SyncAssumption DEF Pos
  <1>10. /\ ToSet(down'[d]) = ToSet(down[d]) \union {s}
         /\ \A x \in Device \ {d} : down'[x] = down[x]
    <2>1. /\ down'[d] = Append(down[d], s) /\ down[d] \in Seq(DownMsg) /\ s \in DownMsg
          /\ \A x \in Device \ {d} : down'[x] = down[x]
      BY <1>0, <1>1 DEF SyncTypeOK
    <2> HIDE DEF s
    <2>2. QED
      BY <2>1, SetOfAppend
  <1> HIDE DEF s, E, T
  <1>11. ASSUME NEW x \in Device, x # d PROVE CalmDevice(x)'
    BY <1>2, <1>3, <1>10, <1>11, CalmFrame DEF CalmInv, Stored
  <1>12. ASSUME NEW e \in Entity
         PROVE  dTomb'[d][e] = 0 /\ (Has(d, e)' => dRow'[d][e].ts <= Clock(d)')
    BY <1>0, <1>3, CalmTypes DEF CalmDevice, Has
  <1>13. ASSUME NEW e \in Entity, Stored(e)' PROVE Told(d, e, row[e].ts)'
    <2>1. Stored(e) /\ row'[e] = row[e]
      BY <1>3, <1>13 DEF Stored
    <2>2. QED
      BY <1>8, <1>9, <1>10, <2>1 DEF Told
  <1>14. CalmDevice(d)'
    BY <1>0, <1>2, <1>3, <1>8, <1>10, <1>12, <1>13 DEF CalmDevice, Has
  <1>15. QED
    BY <1>0, <1>3, <1>11, <1>14, CalmStoreFrame DEF CalmInv

\* So do the merges: a row is only replaced by a newer one.
LEMMA CalmRecv ==
    ASSUME BaseInv, Devices, CalmInv, [SyncNext]_vars,
           NEW d \in Device, RecvEntity(d) \/ RecvSnapshot(d)
    PROVE  CalmInv'
  <1>0. /\ SyncTypeOK /\ CalmStore /\ CalmDevice(d) /\ DeviceInv(d)
        /\ \A m \in ToSet(down[d]) : MsgCovered(m)
    BY DEF BaseInv, CalmInv, Devices, DeviceInv
  <1>1. PICK m \in DownMsg :
           /\ m = Head(down[d]) /\ m \in ToSet(down[d]) /\ down[d] # <<>> /\ down'[d] = Tail(down[d])
           /\ \A x \in Device \ {d} : down'[x] = down[x]
           /\ UNCHANGED <<storeVars, linkVars, up, userVars>>
    BY <1>0, ReceiveType DEF RecvEntity, RecvSnapshot
  <1>2. ToSet(down[d]) = ToSet(down'[d]) \union {m}
    BY <1>0, <1>1, SetOfTail DEF SyncTypeOK
  <1>3. UNCHANGED <<link, stage, since, up, row, tomb, now>>
    BY <1>1 DEF linkVars, storeVars
  <1>4. /\ \A x \in Device \ {d} : dRow'[x] = dRow[x] /\ dTomb'[x] = dTomb[x]
        /\ \A e \in Entity :
              /\ dTomb'[d][e] = 0
              /\ Has(d, e) => Has(d, e)' /\ dRow'[d][e].ts >= dRow[d][e].ts
              /\ m.op = "entity" /\ m.e = e => Has(d, e)' /\ dRow'[d][e].ts >= m.ts
              /\ m.op = "snapshot" /\ m.rows[e] # NoRow => Has(d, e)' /\ dRow'[d][e].ts >= m.rows[e].ts
              /\ Has(d, e)' => \/ Has(d, e) /\ dRow'[d][e] = dRow[d][e]
                               \/ dRow'[d][e].ts \in Pos /\ Covered(e, dRow'[d][e].ts)
    <2>1. CASE RecvEntity(d)
      <3>1. /\ m.op = "entity" /\ m.e \in Entity /\ [ts |-> m.ts, content |-> m.content] \in DeviceRow
            /\ dRow' \in [Device -> [Entity -> DeviceRow \union {NoRow}]]
            /\ \A x \in Device, e \in Entity :
                  dRow'[x][e] = IF x = d /\ e = m.e /\ Newer(m, dRow[d][e])
                                THEN [ts |-> m.ts, content |-> m.content] ELSE dRow[x][e]
            /\ UNCHANGED dTomb
        BY <1>0, <1>1, <2>1, RecvEntityRows
      <3>2. \A x \in Device \ {d} : dRow'[x] = dRow[x]
        BY <1>0, <3>1 DEF SyncTypeOK
      <3>3. m.ts \in Pos /\ Covered(m.e, m.ts) /\ [ts |-> m.ts, content |-> m.content] # NoRow
        BY <1>0, <1>1, <3>1, DownFields, SyncAssumption DEF MsgCovered
      <3>4. ASSUME NEW e \in Entity
            PROVE  /\ dTomb'[d][e] = 0
                   /\ Has(d, e) => Has(d, e)' /\ dRow'[d][e].ts >= dRow[d][e].ts
                   /\ m.e = e => Has(d, e)' /\ dRow'[d][e].ts >= m.ts
                   /\ Has(d, e)' => \/ Has(d, e) /\ dRow'[d][e] = dRow[d][e]
                                    \/ dRow'[d][e].ts \in Pos /\ Covered(e, dRow'[d][e].ts)
        <4>1. Has(d, e) => dRow[d][e].ts \in Nat
          BY <1>0, DeviceTypes DEF Pos
        <4>2. CASE e = m.e /\ Newer(m, dRow[d][e])
          <5>1. dRow'[d][e] = [ts |-> m.ts, content |-> m.content]
            BY <3>1, <4>2
          <5>2. dRow'[d][e].ts = m.ts /\ dRow'[d][e] # NoRow
            BY <3>3, <5>1
          <5>3. QED
            BY <1>0, <3>1, <3>3, <4>1, <4>2, <5>2 DEF Newer, Has, CalmDevice, Pos
        <4>3. CASE ~(e = m.e /\ Newer(m, dRow[d][e]))
          BY <1>0, <3>1, <3>3, <4>1, <4>3 DEF Newer, Has, CalmDevice, Pos
        <4>4. QED
          BY <4>2, <4>3
      <3>5. QED
        BY <3>1, <3>2, <3>4
    <2>2. CASE RecvSnapshot(d)
      <3>1. /\ m.op = "snapshot"
            /\ m.rows \in [Entity -> DeviceRow \union {NoRow}]
            /\ \A e \in Entity :
                  /\ dRow'[d][e] = IF m.tombs[e] # 0 /\ ShouldDelete(Merged(d, m, e), m.tombs[e])
                                   THEN NoRow ELSE Merged(d, m, e)
                  /\ dTomb'[d][e] = IF m.tombs[e] # 0 THEN m.tombs[e] ELSE dTomb[d][e]
            /\ \A x \in Device \ {d} : dRow'[x] = dRow[x] /\ dTomb'[x] = dTomb[x]
        BY <1>0, <1>1, <2>2, RecvSnapshotRows
      <3>2. \A e \in Entity : m.tombs[e] = 0
        BY <1>0, <1>1, <3>1 DEF CalmDevice
      <3>3. ASSUME NEW e \in Entity
            PROVE  /\ dTomb'[d][e] = 0
                   /\ Has(d, e) => Has(d, e)' /\ dRow'[d][e].ts >= dRow[d][e].ts
                   /\ m.rows[e] # NoRow => Has(d, e)' /\ dRow'[d][e].ts >= m.rows[e].ts
                   /\ Has(d, e)' => \/ Has(d, e) /\ dRow'[d][e] = dRow[d][e]
                                    \/ dRow'[d][e].ts \in Pos /\ Covered(e, dRow'[d][e].ts)
        <4>1. Has(d, e) => dRow[d][e].ts \in Nat
          BY <1>0, DeviceTypes DEF Pos
        <4>2. m.rows[e] # NoRow => m.rows[e].ts \in Pos /\ Covered(e, m.rows[e].ts)
          BY <1>0, <1>1, <3>1 DEF MsgCovered, DeviceRow
        <4>3. dRow'[d][e] = Merged(d, m, e) /\ dTomb'[d][e] = 0
          BY <1>0, <3>1, <3>2 DEF CalmDevice
        <4>4. QED
          BY <4>1, <4>2, <4>3 DEF Merged, Newer, Has, Pos
      <3>4. QED
        BY <3>1, <3>3
    <2>3. QED
      BY <2>1, <2>2
  <1>5. ASSUME NEW x \in Device, x # d PROVE CalmDevice(x)'
    BY <1>1, <1>3, <1>4, <1>5, CalmFrame DEF CalmInv, Stored
  <1>6. ASSUME NEW e \in Entity, Has(d, e)' PROVE dRow'[d][e].ts <= Clock(d)'
    <2>1. CASE Has(d, e) /\ dRow'[d][e] = dRow[d][e]
      BY <1>0, <2>1, CalmTypes DEF CalmDevice
    <2>2. CASE dRow'[d][e].ts \in Pos /\ Covered(e, dRow'[d][e].ts)
      <3>1. dRow'[d][e].ts <= Clock(d)
        BY <1>0, <2>2, CalmCovered
      <3>2. QED
        BY <2>2, <3>1, CalmTypes DEF Pos
    <2>3. QED
      BY <1>4, <1>6, <2>1, <2>2
  <1>7. ASSUME NEW e \in Entity, Stored(e)' PROVE Told(d, e, row[e].ts)'
    <2>1. Told(d, e, row[e].ts) /\ row'[e] = row[e] /\ row[e].ts \in Nat
      BY <1>0, <1>3, <1>7, CalmTypes DEF CalmDevice, Stored
    <2>2. /\ Has(d, e) => dRow[d][e].ts \in Nat
          /\ Has(d, e)' => dRow'[d][e].ts \in Nat
      BY CalmTypes
    <2>3. CASE Has(d, e) /\ dRow[d][e].ts >= row[e].ts
      BY <1>4, <2>1, <2>2, <2>3 DEF Told
    <2>4. CASE \E y \in ToSet(down'[d]) : \/ y.op = "entity" /\ y.e = e /\ y.ts >= row[e].ts
                                          \/ y.op = "snapshot" /\ y.rows[e] # NoRow /\ y.rows[e].ts >= row[e].ts
      BY <2>1, <2>4 DEF Told
    <2>5. CASE m.op = "entity" /\ m.e = e /\ m.ts >= row[e].ts
      BY <1>4, <2>1, <2>2, <2>5, DownFields DEF Told, Pos
    <2>6. CASE m.op = "snapshot" /\ m.rows[e] # NoRow /\ m.rows[e].ts >= row[e].ts
      <3>1. m.rows[e].ts \in Nat
        BY <2>6, DownFields DEF DeviceRow, Pos
      <3>2. QED
        BY <1>4, <2>1, <2>2, <2>6, <3>1 DEF Told
    <2>7. CASE link[d] # "ready" \/ stage[d] # "idle" \/ \E y \in ToSet(up[d]) : y.op = "pull"
      BY <1>3, <2>7 DEF Told
    <2>8. QED
      BY <1>2, <2>1, <2>3, <2>4, <2>5, <2>6, <2>7 DEF Told
  <1>8. ASSUME NEW y \in ToSet(up'[d])
        PROVE  y.op # "delete" /\ (y.op = "entity" => Has(d, y.e)' /\ y.ts <= dRow'[d][y.e].ts)
    <2>1. y \in ToSet(up[d]) /\ y \in UpMsg
      BY <1>0, <1>3 DEF ToSet, SyncTypeOK
    <2>2. y.op = "entity" => y.e \in Entity /\ y.ts \in Nat
      BY <2>1, UpFields DEF Pos
    <2>3. ASSUME y.op = "entity"
          PROVE  dRow[d][y.e].ts \in Nat /\ dRow'[d][y.e].ts \in Nat
      BY <1>0, <1>4, <2>1, <2>2, <2>3, CalmTypes DEF CalmDevice
    <2>4. QED
      BY <1>0, <1>4, <2>1, <2>2, <2>3 DEF CalmDevice
  <1>9. CalmDevice(d)'
    BY <1>0, <1>2, <1>3, <1>4, <1>6, <1>7, <1>8 DEF CalmDevice
  <1>10. QED
    BY <1>0, <1>3, <1>5, <1>9, CalmStoreFrame DEF CalmInv

\* Every step of a calm world does; nothing is deleted and nothing drops.
LEMMA CalmStep ==
    ASSUME BaseInv, Calm, WithinAllowance, Devices, CalmInv, [SyncNext]_vars
    PROVE  CalmInv'
  <1>0. SyncTypeOK
    BY DEF BaseInv
  <1>1. CASE UNCHANGED vars \/ SyncTick
    <2>1. UNCHANGED <<row, tomb, dRow, dTomb, link, stage, since, up, down>>
      BY <1>1 DEF vars, SyncTick, Tick, storeVars, deviceVars, linkVars
    <2>2. ASSUME NEW x \in Device PROVE CalmDevice(x)'
      BY <2>1, CalmFrame DEF CalmInv, Stored
    <2>3. QED
      BY <2>1, <2>2, CalmStoreFrame DEF CalmInv
  <1>2. ASSUME NEW d \in Device, User(d) PROVE CalmInv'
    BY <1>2, CalmWrite DEF Calm, User, Create, Update, Delete
  <1>3. ASSUME NEW d \in Device PROVE ~Failure(d)
    BY <1>0, SyncAssumption
       DEF Calm, Failure, Drop, ForcePushAll, ForceFullSync, Hangup, SyncTypeOK, World
  <1>4. ASSUME NEW d \in Device PROVE ~HandleDelete(d) /\ ~RecvDeleted(d)
    <2>1. ~HandleDelete(d)
      BY <1>0, HeadOfUp DEF CalmInv, CalmDevice, HandleDelete, Consume
    <2>2. ~RecvDeleted(d)
      BY <1>0, HeadOfDown DEF CalmInv, CalmDevice, RecvDeleted, Receive
    <2>3. QED
      BY <2>1, <2>2
  <1>5. ASSUME NEW d \in Device, Connect(d) \/ Progress(d) PROVE CalmInv'
    BY <1>4, <1>5, CalmConnect, CalmInitialSync, CalmEntity, CalmPull, CalmRecv DEF Progress
  <1>6. QED
    BY <1>1, <1>2, <1>3, <1>5 DEF SyncNext

\* A calm world at the start.
LEMMA CalmInit == SyncInit /\ Calm => CalmInv
  <1>1. \A m \in ToSet(<<>>) : FALSE
    BY DEF ToSet
  <1>2. SUFFICES ASSUME SyncInit PROVE CalmInv
    OBVIOUS
  <1>3. CalmStore
    BY <1>2 DEF CalmStore, SyncInit, Init, Stored, NoTomb
  <1>4. ASSUME NEW d \in Device PROVE CalmDevice(d)
    BY <1>1, <1>2 DEF CalmDevice, SyncInit, Init, Stored, Has
  <1>5. QED
    BY <1>3, <1>4 DEF CalmInv

\* When everything is handled, what a device has and what the server has is the same.
LEMMA CalmAgrees ==
    ASSUME BaseInv, Devices, CalmInv
    PROVE  LatestEverywhere
  <1>1. SUFFICES ASSUME Settled, NEW d \in Device, NEW e \in Entity
                 PROVE  Agrees(d, e)
    BY DEF LatestEverywhere
  <1>2. /\ SyncTypeOK /\ CalmStore /\ CalmDevice(d) /\ UploadedBy(d)
        /\ link[d] = "ready" /\ stage[d] = "idle" /\ up[d] = <<>> /\ down[d] = <<>>
    BY <1>1 DEF BaseInv, CalmInv, Devices, DeviceInv, Settled
  <1>3. \A m \in ToSet(<<>>) : FALSE
    BY DEF ToSet
  <1>4. Stored(e) => row[e].ts \in Nat /\ Has(d, e) /\ dRow[d][e].ts >= row[e].ts
    BY <1>2, <1>3 DEF CalmDevice, Told, SyncTypeOK, TypeOK, Stored, Row, Stamp
  <1>5. Has(d, e) => Stored(e) /\ dRow[d][e].ts <= row[e].ts /\ dRow[d][e].ts \in Nat
    <2>1. SUFFICES ASSUME Has(d, e)
                   PROVE  Stored(e) /\ dRow[d][e].ts <= row[e].ts /\ dRow[d][e].ts \in Nat
      OBVIOUS
    <2>2. dRow[d][e].ts \in Pos
      BY <1>2, <2>1, DeviceTypes
    <2>3. Covered(e, dRow[d][e].ts)
      BY <1>2, <1>3, <2>1, <2>2 DEF UploadedBy, Secured, OnItsWay, CalmDevice, Pos
    <2>4. QED
      BY <1>2, <2>2, <2>3, CalmCovered DEF Pos
  <1>6. QED
    BY <1>4, <1>5 DEF Agrees

\* In a calm world, whatever the number of devices and entities and in whatever order
\* they connect and write, when everybody is connected and every message is handled,
\* every device shows the latest version of everything (applyIncomingEntity).
THEOREM SyncSettledAgrees == SyncSpec => []SettledAgrees
  <1> DEFINE Inv == BaseInv /\ (WithinAllowance => Devices /\ (Calm => CalmInv))
  <1>1. SyncInit => Inv
    BY BaseInvInit, DevicesInit, CalmInit
  <1>2. ASSUME Inv, [SyncNext]_vars PROVE Inv'
    <2>1. BaseInv'
      BY <1>2, BaseInvStep
    <2>2. (WithinAllowance' => WithinAllowance) /\ (Calm' => Calm)
      BY <1>2, WorldStays DEF WithinAllowance, Calm
    <2>3. QED
      BY <1>2, <2>1, <2>2, DevicesStep, CalmStep
  <1>3. Inv => SettledAgrees
    BY CalmAgrees DEF SettledAgrees
  <1>4. QED
    BY <1>1, <1>2, <1>3, PTL DEF SyncSpec

\* Type correctness of the protocol.
THEOREM SyncTypeCorrect == SyncSpec => []SyncTypeOK
  <1>1. BaseInv => SyncTypeOK
    BY DEF BaseInv
  <1>2. QED
    BY <1>1, BaseInvInit, BaseInvStep, PTL DEF SyncSpec

=============================================================================
