------------------------------ MODULE ListrStore ------------------------------
(***************************************************************************)
(* The sync server's entity store (packages/server/src/db.ts): the boards, *)
(* lists, items and assets tables, the tombstones table and the asset_keys *)
(* association table, with the two write handlers of the wire protocol,    *)
(* push_entity and push_delete (packages/server/src/index.ts).             *)
(*                                                                         *)
(* The server is a single thread and every handler here runs without an    *)
(* await, so one handler is one action.                                    *)
(*                                                                         *)
(* An entity id stands for an (entity_type, id) pair.  The JSON blob is    *)
(* abstracted to a content, of which the store looks at two things only:   *)
(* whether its schema_version is current, and the assets it references.    *)
(***************************************************************************)
EXTENDS Naturals

CONSTANTS
    Entity,     \* the entity ids, of every type
    Item,       \* those of type "item": only they pass the schema gate
    Asset,      \* those of type "asset": they have no namespace column
    Key,        \* the sync keys (namespaces)
    Content,    \* the JSON blobs
    Legacy,     \* the blobs whose schema_version is not the current one
    Refs,       \* Refs[c] is the set of assets blob c references
    MaxSkew,    \* MAX_CLOCK_SKEW_MS, in ticks of the server's clock
    MaxTime,    \* bound: the last tick of the server's clock
    NoRow,      \* "no such row"
    NoKey       \* "no sync_key"

Stamp == Nat
Row   == [ts: Stamp, content: Content, key: Key \union {NoKey}]
Tomb  == [at: Stamp, key: Key \union {NoKey}]

NoTomb == [at |-> 0, key |-> NoKey]

ASSUME StoreAssumption ==
    /\ Item \subseteq Entity
    /\ Asset \subseteq Entity
    /\ Item \intersect Asset = {}
    /\ Legacy \subseteq Content
    /\ Refs \in [Content -> SUBSET Asset]
    /\ MaxSkew \in Nat
    /\ MaxTime \in Nat \ {0}
    /\ NoRow \notin Row
    /\ NoKey \notin Key

VARIABLES
    now,        \* Date.now() of the server
    row,        \* row[e] is the stored row of e, or NoRow
    tomb,       \* tomb[e] is the tombstone of e; its stamp is 0 if there is none
    assetKeys   \* the asset_keys table: pairs of an asset and a namespace

storeVars == <<now, row, tomb, assetKeys>>

TypeOK ==
    /\ now \in 1 .. MaxTime
    /\ row \in [Entity -> Row \union {NoRow}]
    /\ tomb \in [Entity -> Tomb]
    /\ assetKeys \subseteq Asset \X Key

Stored(e) == row[e] # NoRow

-----------------------------------------------------------------------------
(* Helpers of the write path.                                              *)

\* A client's stamp, cut off at the server's clock plus the allowance.
ClampToServerTime(t) == IF t > now + MaxSkew THEN now + MaxSkew ELSE t

\* The namespace column a row gets: assets have none, they use asset_keys.
KeyColumn(e, k) == IF e \in Asset THEN NoKey ELSE k

\* The associations that pushing blob c of entity e under key k records.  An
\* asset is associated itself; for the rest, every asset the blob references.
AssociationsFor(e, c, k) ==
    IF e \in Asset THEN {<<e, k>>} ELSE Refs[c] \X {k}

\* Would applyRekey move (for an asset: grant) the stored row of e to k?
Moves(e, k) ==
    IF e \in Asset THEN <<e, k>> \notin assetKeys ELSE row[e].key # k

IsLegacy(e, c) == e \in Item /\ c \in Legacy

\* Mutation of RowWins: the incoming entity has to be strictly older to lose.
RowWinsStrictly(e, u) == Stored(e) /\ row[e].ts > u

\* The stored row is at least as recent as an incoming stamp u.
RowWins(e, u) == Stored(e) /\ row[e].ts >= u

-----------------------------------------------------------------------------
(* push_entity: the outcomes of upsertEntity.  u is the clamped stamp.      *)

\* Format gate, before anything else is read.
RefuseLegacy(e, c) ==
    /\ IsLegacy(e, c)
    /\ UNCHANGED storeVars

\* Stale content, already in this namespace: nothing changes.
RefuseStale(e, u, c, k) ==
    /\ ~IsLegacy(e, c)
    /\ RowWins(e, u)
    /\ ~Moves(e, k)
    /\ UNCHANGED storeVars

\* Mutation of RekeyStored: the row moves, the assets it references do not.
RekeyWithoutAssets(e, u, c, k) ==
    /\ ~IsLegacy(e, c)
    /\ RowWins(e, u)
    /\ Moves(e, k)
    /\ row' = IF e \in Asset THEN row ELSE [row EXCEPT ![e].key = k]
    /\ assetKeys' = IF e \in Asset THEN assetKeys \union {<<e, k>>} ELSE assetKeys
    /\ UNCHANGED <<now, tomb>>

\* Stale content pushed under another key: the stored row, content and stamp
\* untouched, moves to that namespace, and the assets it references follow.
RekeyStored(e, u, c, k) ==
    /\ ~IsLegacy(e, c)
    /\ RowWins(e, u)
    /\ Moves(e, k)
    /\ row' = IF e \in Asset THEN row ELSE [row EXCEPT ![e].key = k]
    /\ assetKeys' = assetKeys \union AssociationsFor(e, row[e].content, k)
    /\ UNCHANGED <<now, tomb>>

\* Deleted at or after the incoming stamp: the tombstone wins.
RefuseDeleted(e, u, c) ==
    /\ ~IsLegacy(e, c)
    /\ ~RowWins(e, u)
    /\ tomb[e].at >= u
    /\ UNCHANGED storeVars

\* Mutation of AcceptEntity: a deletion with the same stamp does not win.
AcceptEntityAtTie(e, u, c, k) ==
    /\ ~IsLegacy(e, c)
    /\ ~RowWins(e, u)
    /\ tomb[e].at <= u
    /\ row' = [row EXCEPT ![e] = [ts |-> u, content |-> c, key |-> KeyColumn(e, k)]]
    /\ assetKeys' = assetKeys \union AssociationsFor(e, c, k)
    /\ UNCHANGED <<now, tomb>>

AcceptEntity(e, u, c, k) ==
    /\ ~IsLegacy(e, c)
    /\ ~RowWins(e, u)
    /\ tomb[e].at < u
    /\ row' = [row EXCEPT ![e] = [ts |-> u, content |-> c, key |-> KeyColumn(e, k)]]
    /\ assetKeys' = assetKeys \union AssociationsFor(e, c, k)
    /\ UNCHANGED <<now, tomb>>

UpsertEntity(e, t, c, k) ==
    LET u == ClampToServerTime(t) IN
    \/ RefuseLegacy(e, c)
    \/ RefuseStale(e, u, c, k)
    \/ RekeyStored(e, u, c, k)
    \/ RefuseDeleted(e, u, c)
    \/ AcceptEntity(e, u, c, k)

-----------------------------------------------------------------------------
(* push_delete: the outcomes of applyTombstone.                            *)

RefuseTombstone(e, u) ==
    /\ tomb[e].at >= u
    /\ UNCHANGED storeVars

\* The key of a first tombstone stays: the ON CONFLICT clause updates the stamp
\* only.  The row goes, whatever its namespace, unless it is more recent.
AcceptTombstone(e, u, k) ==
    /\ tomb[e].at < u
    /\ tomb' = [tomb EXCEPT ![e] = [at |-> u, key |-> IF @.at = 0 THEN k ELSE @.key]]
    /\ row' = IF Stored(e) /\ row[e].ts <= u THEN [row EXCEPT ![e] = NoRow] ELSE row
    /\ UNCHANGED <<now, assetKeys>>

ApplyTombstone(e, t, k) ==
    LET u == ClampToServerTime(t) IN
    \/ RefuseTombstone(e, u)
    \/ AcceptTombstone(e, u, k)

-----------------------------------------------------------------------------
(* What a pull of key k with cursor since returns.                          *)

InNamespace(e, k) ==
    IF e \in Asset THEN <<e, k>> \in assetKeys ELSE row[e].key = k

EntitiesSince(k, since) ==
    {e \in Entity : Stored(e) /\ InNamespace(e, k) /\ row[e].ts > since}

TombstonesSince(k, since) ==
    {e \in Entity : tomb[e].key = k /\ tomb[e].at > since}

-----------------------------------------------------------------------------
Init ==
    /\ now = 1
    /\ row = [e \in Entity |-> NoRow]
    /\ tomb = [e \in Entity |-> NoTomb]
    /\ assetKeys = {}

\* The wall clock: monotone, and it may jump over ticks nobody used.
Tick ==
    /\ now < MaxTime
    /\ now' = now + 1
    /\ UNCHANGED <<row, tomb, assetKeys>>

\* The stamps clients send: non-zero (a zero deleted_at is refused by the wire
\* handler) and, with a bad clock, beyond anything the server would accept.
ClientStamp == 1 .. (MaxTime + MaxSkew + 1)

Next ==
    \/ Tick
    \/ \E e \in Entity, t \in ClientStamp, c \in Content, k \in Key :
            UpsertEntity(e, t, c, k)
    \/ \E e \in Entity, t \in ClientStamp, k \in Key : ApplyTombstone(e, t, k)

Spec == Init /\ [][Next]_storeVars

-----------------------------------------------------------------------------
(* Properties.                                                             *)

\* A tombstone wins over any version at most as recent as the deletion: no
\* interleaving of pushes, re-keys and deletes leaves a row beside a tombstone
\* that should have removed it, so a pull never returns a deleted entity.
TombstoneWins ==
    \A e \in Entity : Stored(e) => row[e].ts > tomb[e].at

\* A client clock cannot make a version or a deletion unbeatable: no stamp in
\* the store is further ahead of the server's clock than the allowance, so any
\* write stamped after the allowance has passed wins.
StampsBounded ==
    \A e \in Entity :
        /\ Stored(e) => row[e].ts <= now + MaxSkew
        /\ tomb[e].at <= now + MaxSkew

\* Whoever can pull an entity can pull every asset it references, also when the
\* asset arrives later, and after the entity moved to another namespace.
ReferencedAssetsVisible ==
    \A e \in Entity \ Asset :
        Stored(e) => \A a \in Refs[row[e].content] : <<a, row[e].key>> \in assetKeys

\* A stored asset is reachable from at least one namespace.
NoOrphanAsset ==
    \A a \in Asset : Stored(a) => \E k \in Key : <<a, k>> \in assetKeys

\* The winning stamp of e: what the next write of e has to beat.
WinningStamp(e) ==
    IF Stored(e) /\ row[e].ts > tomb[e].at THEN row[e].ts ELSE tomb[e].at

\* Last writer wins, seen from one step: the winning stamp of an entity never
\* goes back, and its content changes only together with a larger stamp.  A
\* re-key in particular touches neither.
NeverRegress ==
    \A e \in Entity :
        /\ WinningStamp(e)' >= WinningStamp(e)
        /\ (Stored(e) /\ Stored(e)' /\ row'[e].content # row[e].content)
              => row'[e].ts > row[e].ts

NeverRegresses == [][NeverRegress]_storeVars
=============================================================================
