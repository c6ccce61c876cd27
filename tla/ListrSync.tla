------------------------------ MODULE ListrSync ------------------------------
(***************************************************************************)
(* The sync protocol of one namespace: the devices (SyncClient.ts), each   *)
(* with its local tables, its cursor and its connection, and the server    *)
(* (index.ts) over the store of ListrStore.                                *)
(*                                                                         *)
(* A connection is a pair of FIFO channels.  On "ok" a device reads its    *)
(* cursor, pushes what it changed since, and pulls; from "ok" on it also   *)
(* pushes every change as it is made.  The server broadcasts what it       *)
(* accepts to the other connections.  A dropped connection loses what its  *)
(* channels hold.                                                          *)
(*                                                                         *)
(* A merge on the device is one step here.  The awaits inside a merge are  *)
(* the subject of ListrDeviceDb.                                           *)
(***************************************************************************)
EXTENDS ListrStore, Integers, Sequences, FiniteSets, SequencesExt

CONSTANTS
    Device,
    shared,         \* the namespace: the key of a board that every device is on
    Worlds,         \* what the network, the clocks and the users may do
    MaxPull,        \* MAX_PULL_ENTITIES
    MaxOps          \* bound: user operations; each has its number for content

\* A world: skew[d] is device clock minus server clock, in ticks; the entities users
\* may create and delete; whether a drop may lose messages, or only finds empty
\* channels; and the bounds on user operations, on drops and forced resyncs, and on time.
World == [skew : [Device -> Int], creatable : SUBSET Entity, deletable : SUBSET Entity,
          loses : BOOLEAN, maxOps : 0 .. MaxOps, maxDrops : Nat, maxTime : 1 .. MaxTime]

Pos == Nat \ {0}

\* The local row of an entity: the table is of the namespace.
DeviceRow == [ts : Pos, content : Content]

ASSUME SyncAssumption ==
    /\ Asset = {} /\ Legacy = {} /\ Key = {shared}
    /\ Content = 1 .. MaxOps
    /\ MaxPull \in Nat /\ MaxOps \in Nat
    /\ IsFiniteSet(Entity)
    /\ NoRow \notin DeviceRow
    /\ Worlds \subseteq World

VARIABLES
    world,      \* one of Worlds, for good
    dRow,       \* dRow[d][e]: the local row, or NoRow
    dTomb,      \* dTomb[d][e]: the local tombstone's deleted_at, 0 for none
    cursor,     \* key_sync_state.last_sync_at of the namespace, 0 for none
    link,       \* "down", "greeted" (server side registered), "ready"
    stage,      \* where doInitialSync is: "idle", "rows", "tombs"
    since,      \* the cursor that doInitialSync read when it started
    up, down,   \* the two channels of the connection of a device
    born,       \* the entities that were ever created: ids are fresh
    ops,        \* user operations so far
    drops,      \* drops and forced resyncs so far
    exact,      \* history: exact[d], a full snapshot sent to d is still current
    deferred    \* history: how many pulls in a row the server has deferred

deviceVars == <<dRow, dTomb, cursor>>
linkVars   == <<link, stage, since, drops>>
userVars   == <<world, born, ops>>
vars == <<storeVars, deviceVars, linkVars, up, down, userVars, exact, deferred>>


EntityMsg(e, r) == [op |-> "entity", e |-> e, ts |-> r.ts, content |-> r.content]
DeleteMsg(e, t) == [op |-> "delete", e |-> e, at |-> t]
PullMsg(s)      == [op |-> "pull", since |-> s]
OkMsg           == [op |-> "ok"]

\* A snapshot: the rows of the entities in E, NoRow for the others, and the stamps of
\* the tombstones of those in T, 0 for the others.
SnapshotMsg(E, T, time) ==
    [op |-> "snapshot",
     rows |-> [e \in Entity |->
        IF e \in E THEN [ts |-> row[e].ts, content |-> row[e].content] ELSE NoRow],
     tombs |-> [e \in Entity |-> IF e \in T THEN tomb[e].at ELSE 0],
     time |-> time]

WriteMsg ==
    [op : {"entity"}, e : Entity, ts : Pos, content : Content]
        \union [op : {"delete"}, e : Entity, at : Pos]

UpMsg == WriteMsg \union [op : {"pull"}, since : 0 .. MaxTime]

\* A snapshot whose time is 0 leaves the cursor alone.
DownMsg ==
    WriteMsg
        \union [op : {"ok"}]
        \union [op : {"snapshot"},
                rows : [Entity -> DeviceRow \union {NoRow}],
                tombs : [Entity -> Nat],
                time : 0 .. MaxTime]

\* Type invariant.
SyncTypeOK ==
    /\ TypeOK
    /\ dRow \in [Device -> [Entity -> DeviceRow \union {NoRow}]]
    /\ dTomb \in [Device -> [Entity -> Nat]]
    /\ cursor \in [Device -> 0 .. MaxTime]
    /\ link \in [Device -> {"down", "greeted", "ready"}]
    /\ stage \in [Device -> {"idle", "rows", "tombs"}]
    /\ since \in [Device -> 0 .. MaxTime]
    /\ up \in [Device -> Seq(UpMsg)]
    /\ down \in [Device -> Seq(DownMsg)]
    /\ born \subseteq Entity
    /\ world \in Worlds
    /\ ops \in 0 .. world.maxOps /\ drops \in 0 .. world.maxDrops
    /\ exact \in [Device -> BOOLEAN]
    /\ deferred \in [Device -> Nat]

Has(d, e) == dRow[d][e] # NoRow

-----------------------------------------------------------------------------
(* The user, on a device: local write first, then the push.                *)

Clock(d) == now + world.skew[d]

\* A push reaches the channel only on a ready connection; otherwise it is
\* dropped, and the next initial sync has to find the change by its stamp.
Push(d, m) ==
    up' = IF link[d] = "ready" THEN [up EXCEPT ![d] = Append(@, m)] ELSE up

\* updated_at is the device's clock, whatever stamp the row had before.
WriteLocal(d, e) ==
    LET r == [ts |-> Clock(d), content |-> ops + 1] IN
    /\ ops < world.maxOps
    /\ Clock(d) > 0
    /\ ops' = ops + 1
    /\ dRow' = [dRow EXCEPT ![d][e] = r]
    /\ Push(d, EntityMsg(e, r))
    /\ exact' = [exact EXCEPT ![d] = FALSE]
    /\ UNCHANGED <<world, storeVars, dTomb, cursor, linkVars, down, deferred>>

Create(d, e) ==
    /\ e \in world.creatable \ born
    /\ born' = born \union {e}
    /\ WriteLocal(d, e)

Update(d, e) ==
    /\ Has(d, e)
    /\ WriteLocal(d, e)
    /\ UNCHANGED born

Delete(d, e) ==
    /\ e \in world.deletable
    /\ Has(d, e)
    /\ ops < world.maxOps
    /\ Clock(d) > 0
    /\ ops' = ops + 1
    /\ dRow' = [dRow EXCEPT ![d][e] = NoRow]
    /\ dTomb' = [dTomb EXCEPT ![d][e] = Clock(d)]
    /\ Push(d, DeleteMsg(e, Clock(d)))
    /\ exact' = [exact EXCEPT ![d] = FALSE]
    /\ UNCHANGED <<world, storeVars, cursor, linkVars, down, born, deferred>>

-----------------------------------------------------------------------------
(* Connections.                                                            *)

\* The handshake is over: the server registers the connection for broadcasts
\* and sends "ok".
Connect(d) ==
    /\ link[d] = "down"
    /\ link' = [link EXCEPT ![d] = "greeted"]
    /\ down' = [down EXCEPT ![d] = <<OkMsg>>]
    /\ UNCHANGED <<storeVars, deviceVars, stage, since, drops, up, userVars, exact, deferred>>

Hangup(d) ==
    /\ link' = [link EXCEPT ![d] = "down"]
    /\ stage' = [stage EXCEPT ![d] = "idle"]
    /\ since' = [since EXCEPT ![d] = 0]
    /\ up' = [up EXCEPT ![d] = <<>>]
    /\ down' = [down EXCEPT ![d] = <<>>]
    /\ exact' = [exact EXCEPT ![d] = FALSE]
    /\ drops < world.maxDrops
    /\ drops' = drops + 1
    /\ UNCHANGED <<storeVars, userVars, deferred>>

MayDrop(d) ==
    world.loses \/ (up[d] = <<>> /\ down[d] = <<>> /\ stage[d] = "idle")

Drop(d) ==
    /\ link[d] # "down"
    /\ MayDrop(d)
    /\ Hangup(d)
    /\ UNCHANGED deviceVars

\* "Push everything again": forget the cursors, reconnect.
ForcePushAll(d) ==
    /\ MayDrop(d)
    /\ cursor' = [cursor EXCEPT ![d] = 0]
    /\ Hangup(d)
    /\ UNCHANGED <<dRow, dTomb>>

\* "Download everything again": forget the local tables too.
ForceFullSync(d) ==
    /\ MayDrop(d)
    /\ dRow' = [dRow EXCEPT ![d] = [e \in Entity |-> NoRow]]
    /\ dTomb' = [dTomb EXCEPT ![d] = [e \in Entity |-> 0]]
    /\ cursor' = [cursor EXCEPT ![d] = 0]
    /\ Hangup(d)

-----------------------------------------------------------------------------
(* doInitialSync, between its awaits.                                      *)

RecvOk(d) ==
    /\ down[d] # <<>> /\ Head(down[d]).op = "ok"
    /\ down' = [down EXCEPT ![d] = Tail(@)]
    /\ link' = [link EXCEPT ![d] = "ready"]
    /\ stage' = [stage EXCEPT ![d] = "rows"]
    /\ since' = [since EXCEPT ![d] = cursor[d]]
    /\ UNCHANGED <<storeVars, deviceVars, drops, up, userVars, exact, deferred>>

\* The messages of a family msg, in some order.
Burst(msg) ==
    LET q == SetToSeq(DOMAIN msg) IN [i \in DOMAIN q |-> msg[q[i]]]

\* Mutation of PushRows: off by one tick of the cursor.
PushRowsOffByOne(d) ==
    LET changed == {e \in Entity : Has(d, e) /\ dRow[d][e].ts > since[d] + 1}
        msg == [e \in changed |-> EntityMsg(e, dRow[d][e])]
    IN
    /\ stage[d] = "rows"
    /\ up' = [up EXCEPT ![d] = @ \o Burst(msg)]
    /\ stage' = [stage EXCEPT ![d] = "tombs"]
    /\ UNCHANGED <<storeVars, deviceVars, link, since, drops, down, userVars, exact, deferred>>

PushRows(d) ==
    LET changed == {e \in Entity : Has(d, e) /\ dRow[d][e].ts > since[d]}
        msg == [e \in changed |-> EntityMsg(e, dRow[d][e])]
    IN
    /\ stage[d] = "rows"
    /\ up' = [up EXCEPT ![d] = @ \o Burst(msg)]
    /\ stage' = [stage EXCEPT ![d] = "tombs"]
    /\ UNCHANGED <<storeVars, deviceVars, link, since, drops, down, userVars, exact, deferred>>

\* Mutation of PushTombsAndPull: the deletions are not pushed again.
PullOnly(d) ==
    /\ stage[d] = "tombs"
    /\ up' = [up EXCEPT ![d] = Append(@, PullMsg(since[d]))]
    /\ stage' = [stage EXCEPT ![d] = "idle"]
    /\ UNCHANGED <<storeVars, deviceVars, link, since, drops, down, userVars, exact, deferred>>

PushTombsAndPull(d) ==
    LET changed == {e \in Entity : dTomb[d][e] > since[d]}
        msg == [e \in changed |-> DeleteMsg(e, dTomb[d][e])]
    IN
    /\ stage[d] = "tombs"
    /\ up' = [up EXCEPT ![d] = (@ \o Burst(msg)) \o <<PullMsg(since[d])>>]
    /\ stage' = [stage EXCEPT ![d] = "idle"]
    /\ UNCHANGED <<storeVars, deviceVars, link, since, drops, down, userVars, exact, deferred>>

-----------------------------------------------------------------------------
(* The server's handlers.                                                  *)

Broadcast(d, m) ==
    down' = [x \in Device |->
                IF x # d /\ link[x] # "down" THEN Append(down[x], m) ELSE down[x]]

Consume(d, kind) ==
    /\ up[d] # <<>> /\ Head(up[d]).op = kind
    /\ up' = [up EXCEPT ![d] = Tail(@)]

\* What an accepted write does besides: tell the others.  The message carries
\* the clamped stamp.
Announce(d, m) ==
    /\ Broadcast(d, m)
    /\ exact' = [x \in Device |-> FALSE]

HandleEntity(d) ==
    LET m == Head(up[d])
        u == ClampToServerTime(m.ts)
    IN
    /\ Consume(d, "entity")
    /\ \/ (RefuseStale(m.e, u, m.content, shared) \/ RefuseDeleted(m.e, u, m.content))
            /\ UNCHANGED <<down, exact>>
       \/ AcceptEntity(m.e, u, m.content, shared)
            /\ Announce(d, [m EXCEPT !.ts = u])
    /\ UNCHANGED <<deviceVars, linkVars, userVars, deferred>>

\* deleted is sent on with the stamp the client gave, not the clamped one.
HandleDelete(d) ==
    LET m == Head(up[d])
        u == ClampToServerTime(m.at)
    IN
    /\ Consume(d, "delete")
    /\ \/ RefuseTombstone(m.e, u) /\ UNCHANGED <<down, exact>>
       \/ AcceptTombstone(m.e, u, shared) /\ Announce(d, m)
    /\ UNCHANGED <<deviceVars, linkVars, userVars, deferred>>

\* A key whose answer is over budget is left out whole, and with it the time
\* that would move the cursor.
HandlePull(d) ==
    LET s == Head(up[d]).since
        E == EntitiesSince(shared, s)
        T == TombstonesSince(shared, s)
        fits == Cardinality(E) + Cardinality(T) <= MaxPull
    IN
    /\ Consume(d, "pull")
    /\ down' = [down EXCEPT ![d] = Append(@,
            IF fits THEN SnapshotMsg(E, T, now) ELSE SnapshotMsg({}, {}, 0))]
    /\ exact' = [exact EXCEPT ![d] = fits /\ s = 0 /\ Len(up[d]) = 1]
    /\ deferred' = [deferred EXCEPT ![d] = IF fits THEN 0 ELSE @ + 1]
    /\ UNCHANGED <<storeVars, deviceVars, linkVars, userVars>>

-----------------------------------------------------------------------------
(* What the server sends, merged on the device.                            *)

Receive(d, kind) ==
    /\ down[d] # <<>> /\ Head(down[d]).op = kind
    /\ down' = [down EXCEPT ![d] = Tail(@)]
    /\ UNCHANGED <<storeVars, linkVars, up, userVars, exact, deferred>>

\* Mutations of Newer and ShouldDelete: the incoming version always replaces the
\* local one; a tombstone spares a version with its own stamp.
NewerAlways(v, r) == TRUE
ShouldDeleteOlderOnly(r, t) == r = NoRow \/ r.ts < t

\* applyIncomingEntity: an incoming version has to be newer.  The local
\* tombstones are not consulted.
Newer(v, r) == r = NoRow \/ v.ts > r.ts
ShouldDelete(r, t) == r = NoRow \/ r.ts <= t

RecvEntity(d) ==
    LET m == Head(down[d]) IN
    /\ Receive(d, "entity")
    /\ dRow' = IF Newer(m, dRow[d][m.e])
               THEN [dRow EXCEPT ![d][m.e] = [ts |-> m.ts, content |-> m.content]]
               ELSE dRow
    /\ UNCHANGED <<dTomb, cursor>>

\* The tombstone row is overwritten, also by an older deletion.
RecvDeleted(d) ==
    LET m == Head(down[d]) IN
    /\ Receive(d, "delete")
    /\ dTomb' = [dTomb EXCEPT ![d][m.e] = m.at]
    /\ dRow' = IF ShouldDelete(dRow[d][m.e], m.at)
               THEN [dRow EXCEPT ![d][m.e] = NoRow]
               ELSE dRow
    /\ UNCHANGED cursor

\* applySnapshot: rows, then tombstones, then the cursor.
RecvSnapshot(d) ==
    LET m == Head(down[d])
        merged == [e \in Entity |->
            IF m.rows[e] # NoRow /\ Newer(m.rows[e], dRow[d][e])
            THEN m.rows[e] ELSE dRow[d][e]]
        tombed == {e \in Entity : m.tombs[e] # 0}
    IN
    /\ Receive(d, "snapshot")
    /\ dRow' = [dRow EXCEPT ![d] = [e \in Entity |->
            IF e \in tombed /\ ShouldDelete(merged[e], m.tombs[e]) THEN NoRow ELSE merged[e]]]
    /\ dTomb' = [dTomb EXCEPT ![d] =
            [e \in Entity |-> IF e \in tombed THEN m.tombs[e] ELSE @[e]]]
    /\ cursor' = IF m.time = 0 THEN cursor ELSE [cursor EXCEPT ![d] = m.time]

-----------------------------------------------------------------------------
SyncInit ==
    /\ Init
    /\ world \in Worlds
    /\ dRow = [d \in Device |-> [e \in Entity |-> NoRow]]
    /\ dTomb = [d \in Device |-> [e \in Entity |-> 0]]
    /\ cursor = [d \in Device |-> 0]
    /\ link = [d \in Device |-> "down"]
    /\ stage = [d \in Device |-> "idle"]
    /\ since = [d \in Device |-> 0]
    /\ up = [d \in Device |-> <<>>]
    /\ down = [d \in Device |-> <<>>]
    /\ born = {}
    /\ ops = 0 /\ drops = 0
    /\ exact = [d \in Device |-> FALSE]
    /\ deferred = [d \in Device |-> 0]

SyncTick ==
    /\ now < world.maxTime
    /\ Tick
    /\ UNCHANGED <<deviceVars, linkVars, up, down, userVars, exact, deferred>>

User(d) == \E e \in Entity : Create(d, e) \/ Update(d, e) \/ Delete(d, e)

Failure(d) == Drop(d) \/ ForcePushAll(d) \/ ForceFullSync(d)

\* Message handling and doInitialSync: what the event loops will get to.
Progress(d) ==
    \/ RecvOk(d) \/ PushRows(d) \/ PushTombsAndPull(d)
    \/ HandleEntity(d) \/ HandleDelete(d) \/ HandlePull(d)
    \/ RecvEntity(d) \/ RecvDeleted(d) \/ RecvSnapshot(d)

SyncNext ==
    \/ SyncTick
    \/ \E d \in Device : User(d) \/ Connect(d) \/ Failure(d) \/ Progress(d)

SyncSpec == SyncInit /\ [][SyncNext]_vars

\* Both event loops run on, and a device without a connection retries after
\* five seconds (scheduleRetry) for as long as it takes.
Fairness == \A d \in Device : WF_vars(Connect(d)) /\ WF_vars(Progress(d))

FairSyncSpec == SyncSpec /\ Fairness

-----------------------------------------------------------------------------
(* Properties.                                                             *)

\* The server's copy is at least as recent as a change with stamp t.
Covered(e, t) == WinningStamp(e) >= t

OnItsWay(d, e, t, kind) ==
    \E m \in ToSet(up[d]) :
        m.op = kind /\ m.e = e /\ (IF kind = "entity" THEN m.ts ELSE m.at) >= t

\* A change with stamp t that d made or holds is safe: the server has it, or a
\* newer one, or it is on its way, or the next initial sync will push it.
Safe(d, e, t, kind) ==
    Covered(e, t) \/ t > cursor[d] \/ OnItsWay(d, e, t, kind)

\* No local change is stranded on its device, neither an edit nor a deletion: the
\* cursor does not pass it before the server has it.
NothingStrandedAnywhere ==
    \A d \in Device, e \in Entity :
        /\ Has(d, e) => Safe(d, e, dRow[d][e].ts, "entity")
        /\ dTomb[d][e] # 0 => Safe(d, e, dTomb[d][e], "delete")

\* No clock is further ahead than the server allows: beyond, the server stores a stamp
\* that is not the device's (clampToServerTime).
WithinAllowance == \A d \in Device : world.skew[d] <= MaxSkew

\* Nothing drops; or drops lose no message and the devices' clocks run ahead, so that
\* what is done after a snapshot is stamped after it.
Lossless ==
    world.maxDrops = 0 \/ (~world.loses /\ \A d \in Device : world.skew[d] > 0)

\* In such a world that holds (the comparisons of doInitialSync).
NothingStranded == WithinAllowance /\ Lossless => NothingStrandedAnywhere

\* d shows the server's version of e, up to two versions with one stamp.
Agrees(d, e) ==
    IF Stored(e) THEN Has(d, e) /\ dRow[d][e].ts = row[e].ts ELSE ~Has(d, e)

\* A full resync repairs whatever went wrong before: once the snapshot of a
\* pull from 0 is merged, and neither side wrote after the pull was sent, the
\* device holds exactly what the server holds.
FullResyncAgrees ==
    WithinAllowance =>
        \A d \in Device : exact[d] /\ down[d] = <<>> => \A e \in Entity : Agrees(d, e)

\* Connected, synced, nothing under way.
Settled == \A d \in Device :
    link[d] = "ready" /\ stage[d] = "idle" /\ up[d] = <<>> /\ down[d] = <<>>

\* When everybody is connected and every message is handled, every device
\* shows the latest version of everything: updated_at wins.
LatestEverywhere ==
    Settled => \A d \in Device, e \in Entity : Agrees(d, e)

\* Nothing is deleted, connections last, the devices' clocks agree with each other and
\* the key fits the budget of a pull.
Calm ==
    /\ world.maxDrops = 0 /\ world.deletable = {}
    /\ \A d, x \in Device : world.skew[d] = world.skew[x]
    /\ Cardinality(Entity) <= MaxPull

\* In such a world that holds, in whatever order devices connect and write
\* (applyIncomingEntity).
SettledAgrees == WithinAllowance /\ Calm => LatestEverywhere

\* On a device too, a tombstone at least as recent as the version removes it.
TombstoneWinsOnDevice ==
    \A d \in Device, e \in Entity : Has(d, e) => dRow[d][e].ts > dTomb[d][e]

\* A key that was over budget comes with the next pull.
DeferredOnlyOnce == \A d \in Device : deferred[d] <= 1

\* Sooner or later the server has everything the devices hold.
UploadsComplete ==
    <>[](\A d \in Device, e \in Entity :
            /\ Has(d, e) => Covered(e, dRow[d][e].ts)
            /\ Covered(e, dTomb[d][e]))
=============================================================================
