----------------------------- MODULE ListrChain -----------------------------
(***************************************************************************)
(* The order of the items of a list (db/operations.ts): each item names    *)
(* the one it follows, and the order shown is what walking these links     *)
(* gives.  A table is a function from item ids to rows; a change of order  *)
(* is a patch, a function from ids to the item they follow from now on.    *)
(*                                                                         *)
(* IndexedDB answers in the order of ids, so "the first item with ..." is  *)
(* the one with the least id where the code reads the database, and the    *)
(* first of the sequence shown where it reads the screen.                  *)
(***************************************************************************)
EXTENDS Integers, FiniteSets, SequencesExt

CONSTANTS
    Top,         \* after_id: null
    Absent,      \* no after_id: a row in the format before links
    NoPosition   \* no position: a row in the format of links

----------------------------------------------------------------------------
(* Rows and orders                                                         *)

Row(list, after, created, position, current, at) ==
    [list |-> list, after |-> after, created |-> created, position |-> position,
     current |-> current, updated_at |-> at]

\* The pairs of members of S that stand so.
Pairs(S, Stand(_, _)) == {p \in S \X S : Stand(p[1], p[2])}

\* The set S as a sequence, in the strict total order whose pairs are in before.
Ranked(S, before) ==
    [n \in 1 .. Cardinality(S) |->
        CHOOSE i \in S : Cardinality({j \in S : <<j, i>> \in before}) = n - 1]

Ascending == {p \in Int \X Int : p[1] < p[2]}

\* What is left of s without the items of S.
LeavingOut(s, S) ==
    LET places == Ranked({n \in DOMAIN s : s[n] \notin S}, Ascending)
    IN [n \in DOMAIN places |-> s[places[n]]]

InList(t, l) == {i \in DOMAIN t : t[i].list = l}

\* item.after_id ?? null
Follows(r) == IF r.after = Absent THEN Top ELSE r.after

\* Rows of the old format come first, by position; the others by creation.
BySequence(t) ==
    Pairs(DOMAIN t, LAMBDA i, j :
        LET p == t[i].position
            q == t[j].position
        IN \/ p # NoPosition /\ q = NoPosition
           \/ p # NoPosition /\ q # NoPosition /\ (p < q \/ (p = q /\ i < j))
           \/ p = NoPosition /\ q = NoPosition
              /\ (t[i].created < t[j].created \/ (t[i].created = t[j].created /\ i < j)))

\* item.position ?? 0
Position(r) == IF r.position = NoPosition THEN 0 ELSE r.position

ByPosition(t) ==
    Pairs(DOMAIN t, LAMBDA i, j :
        Position(t[i]) < Position(t[j]) \/ (Position(t[i]) = Position(t[j]) /\ i < j))

ByCreation(t) ==
    Pairs(DOMAIN t, LAMBDA i, j :
        t[i].created < t[j].created \/ (t[i].created = t[j].created /\ i < j))

\* The items the walk from the top meets, depth first, given the sequence of
\* those that follow each: after n steps, those met and those still to visit.
\* An item follows one other, so it is met once.
Walk(N, nexts) ==
    LET visit[n \in 0 .. N] ==
            IF n = 0 THEN [met |-> <<>>, todo |-> nexts[Top]]
            ELSE LET s == visit[n - 1]
                 IN IF s.todo = <<>> THEN s
                    ELSE [met |-> Append(s.met, Head(s.todo)),
                          todo |-> nexts[Head(s.todo)] \o Tail(s.todo)]
    IN visit[N].met

\* Those the walk meets, then the others in the order they were given.
WithOrphans(t, met) == met \o Ranked(DOMAIN t \ ToSet(met), Ascending)

ResolveChain(t) ==
    LET nexts == [a \in DOMAIN t \union {Top} |->
                    Ranked({i \in DOMAIN t : Follows(t[i]) = a}, BySequence(t))]
    IN WithOrphans(t, Walk(Cardinality(DOMAIN t), nexts))

\* The tail of a list, which the next item is to follow.
Tail_(s) == IF s = <<>> THEN Top ELSE Last(s)

\* f, and g where f says nothing.
Over(f, g) == [x \in DOMAIN f \union DOMAIN g |-> IF x \in DOMAIN f THEN f[x] ELSE g[x]]

----------------------------------------------------------------------------
(* Patches                                                                 *)

NoPatch == [i \in {} |-> Top]

PatchOne(S, after) == [i \in S |-> after]

First(s, S) ==
    LET at == {n \in DOMAIN s : s[n] \in S}
    IN IF at = {} THEN {} ELSE {s[Min(at)]}

Least(S) == IF S = {} THEN {} ELSE {Min(S)}

\* s is the sequence shown, t its rows.
ReorderByAfterId(t, s, moved, newAfter) ==
    LET successor == First(s, {i \in DOMAIN t : t[i].after = moved} \ {moved})
        displaced == First(s, {i \in DOMAIN t : t[i].after = newAfter} \ {moved}) \ successor
    IN IF moved \notin DOMAIN t \/ t[moved].after = newAfter THEN NoPatch
       ELSE Over(Over(PatchOne({moved}, newAfter), PatchOne(successor, t[moved].after)),
                 PatchOne(displaced, moved))

\* Mutation of ChainInsert: the first item to follow any other is relinked.
ChainInsertAnywhere(t, predecessor, new) ==
    PatchOne(Least({i \in DOMAIN t : Follows(t[i]) # Top}), new)

ChainInsert(t, predecessor, new) ==
    PatchOne(Least({i \in DOMAIN t : Follows(t[i]) = predecessor}), new)

\* Mutation of ChainDelete: what followed the deleted item is left as it is.
ChainDeleteNothing(t, deleted, predecessor) == NoPatch

ChainDelete(t, deleted, predecessor) ==
    PatchOne({i \in DOMAIN t : Follows(t[i]) = deleted} \ {deleted}, predecessor)

\* source is read from the database, target from the screen.
CrossListMove(source, target, shown, moved, movedAfter, targetAfter) ==
    Over(PatchOne(First(shown, {i \in DOMAIN target : Follows(target[i]) = targetAfter}), moved),
         PatchOne(Least({i \in DOMAIN source : Follows(source[i]) = moved} \ {moved}), movedAfter))

\* The patch that links the items of s one after the other, from the item `after` on.
Linked(s, after) == [i \in ToSet(s) |->
    LET n == CHOOSE m \in DOMAIN s : s[m] = i IN IF n = 1 THEN after ELSE s[n - 1]]

\* Only the items whose link changes are written.
Changes(t, patch) == Restrict(patch, {i \in DOMAIN patch : Follows(t[i]) # patch[i]})

Patched(t, patch, at) ==
    [i \in DOMAIN t |-> IF i \in DOMAIN patch
                        THEN [t[i] EXCEPT !.after = patch[i], !.updated_at = at] ELSE t[i]]

\* What one list needs to become one chain of rows in the current format.
ChainHeal(t, at) ==
    LET links == Linked(ResolveChain(t), Top)
        stale == {i \in DOMAIN t : Follows(t[i]) # links[i] \/ ~t[i].current}
    IN IF \A i \in DOMAIN t : t[i].current THEN t
       ELSE [i \in DOMAIN t |->
                IF i \in stale
                THEN [t[i] EXCEPT !.after = links[i], !.current = TRUE,
                                  !.position = NoPosition, !.updated_at = at]
                ELSE t[i]]

----------------------------------------------------------------------------
(* One-time conversions (shared/migrate-after-id.ts, server/scripts)       *)

\* Linked rows in the order of their links, then the rows of the old format.
MigrationOrder(t) ==
    LET linked == {i \in DOMAIN t : t[i].after # Absent}
        l == Restrict(t, linked)
        nexts == [a \in linked \union {Top} |->
                    Ranked({i \in linked : l[i].after = a}, ByCreation(l))]
    IN WithOrphans(l, Walk(Cardinality(linked), nexts))
       \o Ranked(DOMAIN t \ linked,
                 Pairs(DOMAIN t, LAMBDA i, j :
                     \/ Position(t[i]) < Position(t[j])
                     \/ Position(t[i]) = Position(t[j]) /\ <<i, j>> \in ByCreation(t)))

MigrateList(t) ==
    LET links == Linked(MigrationOrder(t), Top)
    IN [i \in DOMAIN t |->
           [t[i] EXCEPT !.after = links[i], !.position = NoPosition, !.current = TRUE]]

\* The script leaves a list alone that is in the format of links already, and
\* keeps the stamps.
MigrateOnServer(t) ==
    IF \E i \in DOMAIN t : t[i].position # NoPosition \/ t[i].after = Absent
    THEN MigrateList(t) ELSE t

\* A linked row is put behind the one it follows, if that is placed already.
PlaceLinked(t, s, i) ==
    IF Contains(s, i) \/ t[i].after = i THEN s
    ELSE IF t[i].after = Top THEN <<i>> \o s
    ELSE IF Contains(s, t[i].after)
    THEN InsertAt(s, SelectInSeq(s, LAMBDA x : x = t[i].after) + 1, i)
    ELSE s

PlaceRound(t, linked, s) == FoldLeft(LAMBDA acc, i : PlaceLinked(t, acc, i), s, linked)

\* buildOrder: rows with a position in its order; then the linked rows are
\* placed, round after round; the rest comes last.
RevertOrder(t) ==
    LET spine == Ranked({i \in DOMAIN t : t[i].after = Absent}, ByPosition(t))
        linked == Ranked({i \in DOMAIN t : t[i].after # Absent}, ByCreation(t))
        rounds[n \in 0 .. Len(linked)] ==
            IF n = 0 THEN spine ELSE PlaceRound(t, linked, rounds[n - 1])
        placed == rounds[Len(linked)]
    IN placed \o LeavingOut(linked, ToSet(placed))

\* A list without linked rows is left alone.
RevertToPosition(t, step, at) ==
    LET s == RevertOrder(t)
    IN IF \A i \in DOMAIN t : t[i].after = Absent THEN t
       ELSE [i \in DOMAIN t |->
                [t[i] EXCEPT !.after = Absent, !.updated_at = at,
                             !.position = (SelectInSeq(s, LAMBDA x : x = i) - 1) * step]]
=============================================================================
