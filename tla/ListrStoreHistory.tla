-------------------------- MODULE ListrStoreHistory --------------------------
(***************************************************************************)
(* ListrStore with a history variable, and the refinement mapping under    *)
(* which it implements LwwRegister.  The history does not guard anything:  *)
(* it records, for each entity, the operations the two handlers were given, *)
(* with the stamps the clamp left them.  A blob the schema gate turned away *)
(* does not count as received.                                             *)
(***************************************************************************)
EXTENDS ListrStore

CONSTANT Gone

ASSUME GoneAssumption == Gone \notin Content

VARIABLE received

histVars == <<now, row, tomb, assetKeys, received>>

WriteOp(u, c) == [ts |-> u, what |-> c]
DeleteOp(u)   == [ts |-> u, what |-> Gone]

Record(e, o) == received' = [received EXCEPT ![e] = @ \union {o}]

HInit == Init /\ received = [e \in Entity |-> {}]

HTick == Tick /\ UNCHANGED received

HUpsert(e, t, c, k) ==
    /\ UpsertEntity(e, t, c, k)
    /\ IF IsLegacy(e, c)
       THEN UNCHANGED received
       ELSE Record(e, WriteOp(ClampToServerTime(t), c))

HDelete(e, t, k) ==
    /\ ApplyTombstone(e, t, k)
    /\ Record(e, DeleteOp(ClampToServerTime(t)))

HNext ==
    \/ HTick
    \/ \E e \in Entity, t \in ClientStamp, c \in Content, k \in Key :
            HUpsert(e, t, c, k)
    \/ \E e \in Entity, t \in ClientStamp, k \in Key : HDelete(e, t, k)

HSpec == HInit /\ [][HNext]_histVars

\* A stored row reads as its content, an entity without a row as deleted.
Shown == [e \in Entity |-> IF Stored(e) THEN row[e].content ELSE Gone]

\* What the clamp lets through.
ClampedStamp == 1 .. (MaxTime + MaxSkew)

Register == INSTANCE LwwRegister WITH value <- Shown, Stamp <- ClampedStamp

\* The store is a last-writer-wins register: whatever order pushes, re-keys
\* and deletes arrive in, each step of the two handlers is one receipt of the
\* register, or leaves it alone.
ImplementsRegister == Register!Spec

\* The two tables hold exactly what the operations received so far add up to:
\* a tombstone carries the largest deletion stamp received, a row the largest
\* write stamp with a content that was sent with it, and an entity without a
\* row has no write that outlives its tombstone.
TablesMatchHistory ==
    \A e \in Entity :
        /\ \A o \in received[e] :
              IF o.what = Gone THEN o.ts <= tomb[e].at
              ELSE IF Stored(e) THEN o.ts <= row[e].ts
              ELSE o.ts <= tomb[e].at
        /\ tomb[e].at # 0 => DeleteOp(tomb[e].at) \in received[e]
        /\ Stored(e) => WriteOp(row[e].ts, row[e].content) \in received[e]
=============================================================================
