----------------------------- MODULE ListrItems -----------------------------
(***************************************************************************)
(* The items of a board's lists on several devices: the user's operations  *)
(* on their order (db/operations.ts, hooks/useSortable.ts,                 *)
(* pages/ListView.tsx) and the merges of what the other devices push.      *)
(*                                                                         *)
(* rows is a device's table of items, seen the copy its screen shows.  An  *)
(* operation reads some of its input from the screen and some from the     *)
(* table, writes the table, pushes what it changed to the other devices    *)
(* and redraws the screen; a merge redraws it a little later (Refresh).    *)
(* The inline row, into which the user types a new item, stands at the end *)
(* of its list until it is dragged behind another item.                    *)
(***************************************************************************)
EXTENDS ListrChain

CONSTANTS
    Devices,
    NLists,      \* the lists are 1 .. NLists, in the order of the board
    Ids,         \* item ids; a new item takes any that was never used
    Starts,      \* the tables of items to start from
    MaxOps,      \* bound: operations
    MaxDrags,    \* bound: moves of inline rows
    Inline,      \* the inline row in a sequence of rows on the screen
    Careful      \* the user keeps clear of the two traps of the inline row

Lists == 1 .. NLists

\* Ids are in an order; the tables to start from are finite, and older than the
\* operations.
ASSUME ItemsAssumption ==
    /\ Ids \subseteq Int /\ Top \notin Ids /\ Absent \notin Ids /\ Inline \notin Ids \union {Top}
    /\ Top # Absent
    /\ NoPosition \notin Int
    /\ NLists \in Nat
    /\ \A t \in Starts :
          /\ t = [i \in DOMAIN t |-> t[i]]
          /\ IsFiniteSet(DOMAIN t) /\ DOMAIN t \subseteq Ids
          /\ \A i \in DOMAIN t :
                /\ DOMAIN t[i] = {"list", "after", "created", "position", "current", "updated_at"}
                /\ t[i].list \in Lists /\ t[i].created \in Int
                /\ t[i].position \in Int \union {NoPosition}
                /\ t[i].updated_at = 0

\* In the tables to start from, a row in the format of links has one, and a list
\* whose rows all are is one chain.
ASSUME StartsAssumption ==
    \A t \in Starts :
        /\ \A i \in DOMAIN t : t[i].current => t[i].after # Absent
        /\ \A l \in Lists :
              LET c == Restrict(t, InList(t, l))
              IN (\A i \in DOMAIN c : c[i].current) =>
                     Changes(c, Linked(ResolveChain(c), Top)) = NoPatch

VARIABLES
    rows,     \* device -> table of items
    seen,     \* device -> table of items on the screen
    inline,   \* device -> [list |-> item the inline row was put behind]
    inbox,    \* device -> messages pushed by the others, in order
    now,      \* stamp of the last operation
    drags,    \* moves of inline rows so far
    born,     \* ids used so far
    regular,  \* history: every operation was made on a settled device
    plan      \* history: list -> the order its user wants, while regular

vars == <<rows, seen, inline, inbox, now, drags, born, regular, plan>>

ListOf(t, l) == Restrict(t, InList(t, l))
Shown(d, l) == ResolveChain(ListOf(seen[d], l))

\* The function from x to v.
Only(x, v) == [y \in {x} |-> v]

RowMsg(i, r) == [id |-> i, row |-> r]
GoneMsg(i, at) == [id |-> i, gone |-> at]
RowMsgs(t, S) == LET s == SetToSeq(S \intersect DOMAIN t)
                 IN [n \in DOMAIN s |-> RowMsg(s[n], t[s[n]])]

----------------------------------------------------------------------------
(* The inline row                                                          *)

InlineAfter(d, l) ==
    IF l \in DOMAIN inline[d] THEN inline[d][l] ELSE Tail_(Shown(d, l))

IndexIn(s, x) == SelectInSeq(s, LAMBDA y : y = x)

\* The rows of a list on the screen, the inline row among them.
DisplayItems(d, l) ==
    LET s == Shown(d, l)
        after == InlineAfter(d, l)
    IN IF after = Top THEN <<Inline>> \o s
       ELSE IF Contains(s, after) THEN InsertAt(s, IndexIn(s, after) + 1, Inline)
       ELSE Append(s, Inline)

\* The rows once x is dropped as the nth.
Dropped(s, x, n) == InsertAt(LeavingOut(s, {x}), n, x)

\* The item the nth row of s is dropped behind.
DropAfter(d, l, s, n) ==
    IF n = 1 THEN Top ELSE IF s[n - 1] = Inline THEN InlineAfter(d, l) ELSE s[n - 1]

Items(s) == LeavingOut(s, {Inline})

----------------------------------------------------------------------------
(* Operations                                                              *)

\* What the user of d sees is what there is, and his inline rows stand
\* behind items of their lists.
Settled(d) ==
    /\ inbox[d] = <<>>
    /\ seen[d] = rows[d]
    /\ \A i \in DOMAIN rows[d] : rows[d][i].current
    /\ Careful => \A l \in DOMAIN inline[d] : inline[d][l] \in InList(rows[d], l) \union {Top}

\* An operation leaves the table `new` and pushes msgs; the user wants the
\* orders `wanted` in the lists it names.
Operation(d, new, msgs, wanted) ==
    /\ now < MaxOps /\ regular
    /\ now' = now + 1
    /\ rows' = [rows EXCEPT ![d] = new]
    /\ seen' = [seen EXCEPT ![d] = new]
    /\ inbox' = [e \in Devices |-> IF e = d THEN inbox[e] ELSE inbox[e] \o msgs]
    /\ UNCHANGED drags
    /\ regular' = (regular /\ Settled(d))
    /\ plan' = IF regular' THEN Over(wanted, plan) ELSE [l \in Lists |-> <<>>]

NewRow(l, after) == Row(l, after, now + 1, NoPosition, TRUE, now + 1)

\* handleAddItem, InlineAddItem, createItem
AddItem(d, l, i) ==
    LET after == InlineAfter(d, l)
        patch == ChainInsert(ListOf(rows[d], l), after, i)
        new == Over(Only(i, NewRow(l, after)), Patched(rows[d], patch, now + 1))
        shown == DisplayItems(d, l)
    IN /\ Operation(d, new, <<RowMsg(i, new[i])>> \o RowMsgs(new, DOMAIN patch),
                    Only(l, Items(ReplaceAt(shown, IndexIn(shown, Inline), i))))
       /\ born' = born \union {i}
       /\ inline' = [inline EXCEPT ![d] = Restrict(@, DOMAIN @ \ {l})]

\* bulkCreateItems, of the items of s
BulkCreateItems(d, l, s) ==
    LET links == Linked(s, Tail_(ResolveChain(ListOf(rows[d], l))))
        new == [i \in ToSet(s) |-> NewRow(l, links[i])]
    IN /\ Operation(d, Over(new, rows[d]), [n \in DOMAIN s |-> RowMsg(s[n], new[s[n]])],
                    Only(l, Shown(d, l) \o s))
       /\ born' = born \union ToSet(s)
       /\ UNCHANGED inline

\* With Careful, no inline row stands behind the items that leave their list.
Leaves(d, S) == Careful => \A l \in DOMAIN inline[d] : inline[d][l] \notin S

\* Mutation of DeleteItem: only the deletion is pushed.
DeleteItemOnly(d, i) ==
    LET patch == ChainDelete(rows[d], i, Follows(rows[d][i]))
        new == Restrict(Patched(rows[d], patch, now + 1), DOMAIN rows[d] \ {i})
        l == rows[d][i].list
    IN /\ Leaves(d, {i})
       /\ Operation(d, new, <<GoneMsg(i, now + 1)>>,
                    Only(l, LeavingOut(Shown(d, l), {i})))
       /\ UNCHANGED <<inline, born>>

DeleteItem(d, i) ==
    LET patch == ChainDelete(rows[d], i, Follows(rows[d][i]))
        new == Restrict(Patched(rows[d], patch, now + 1), DOMAIN rows[d] \ {i})
        l == rows[d][i].list
    IN /\ Leaves(d, {i})
       /\ Operation(d, new, Append(RowMsgs(new, DOMAIN patch), GoneMsg(i, now + 1)),
                    Only(l, LeavingOut(Shown(d, l), {i})))
       /\ UNCHANGED <<inline, born>>

\* onDummyReorder, and the button that puts the inline row on top
DragInline(d, l, after) ==
    /\ drags < MaxDrags
    /\ drags' = drags + 1
    /\ inline' = [inline EXCEPT ![d] = Over(Only(l, after), @)]
    /\ UNCHANGED <<rows, seen, inbox, now, born, regular, plan>>

\* useSortable's onEnd: what is pushed is the copy on the screen.
Reorder(d, l, x, n) ==
    LET dropped == Dropped(DisplayItems(d, l), x, n)
        after == DropAfter(d, l, dropped, n)
        patch == ReorderByAfterId(ListOf(seen[d], l), Shown(d, l), x, after)
        pushed == Patched(ListOf(seen[d], l), patch, now + 1)
    IN /\ dropped # DisplayItems(d, l)
       /\ Careful => after # x
       /\ patch # NoPatch
       /\ Operation(d, Patched(rows[d], patch, now + 1), RowMsgs(pushed, DOMAIN patch),
                    Only(l, Items(dropped)))
       /\ UNCHANGED <<inline, born>>

Moved(t, S, l, links) ==
    [i \in DOMAIN t |-> IF i \in S
                        THEN [t[i] EXCEPT !.list = l, !.after = links[i], !.updated_at = now + 1]
                        ELSE t[i]]

\* handleCrossListMove: x is dropped as the nth row of list l.
CrossMove(d, x, l, n) ==
    LET item == seen[d][x]
        dropped == InsertAt(DisplayItems(d, l), n, x)
        after == DropAfter(d, l, dropped, n)
        link == PatchOne({x}, after)
        patch == CrossListMove(ListOf(rows[d], item.list), ListOf(seen[d], l), Shown(d, l),
                               x, Follows(item), after)
        new == Patched(Moved(rows[d], {x}, l, link), patch, now + 1)
    IN /\ item.list # l
       /\ Leaves(d, {x})
       /\ Operation(d, new,
                    <<RowMsg(x, Moved(seen[d], {x}, l, link)[x])>> \o RowMsgs(new, DOMAIN patch),
                    Over(Only(item.list, LeavingOut(Shown(d, item.list), {x})),
                         Only(l, Items(dropped))))
       /\ UNCHANGED <<inline, born>>

\* handleMoveToList: the selected items go to the end of list l, and what is
\* left of their lists is linked anew.
MoveSelected(d, selected, l) ==
    LET S == selected \ InList(seen[d], l)
        toMove == FlattenSeq([k \in Lists |-> LeavingOut(Shown(d, k), DOMAIN seen[d] \ S)])
        links == Linked(toMove, Tail_(ResolveChain(ListOf(rows[d], l))))
        sources == {seen[d][x].list : x \in S}
        repairs == UNION {LET t == ListOf(rows[d], k)
                              fix == Changes(t, Linked(LeavingOut(ResolveChain(t), S), Top))
                          IN {<<i, fix[i]>> : i \in DOMAIN fix} : k \in sources}
        patch == [i \in {r[1] : r \in repairs} |-> (CHOOSE r \in repairs : r[1] = i)[2]]
        new == Patched(Moved(rows[d], S, l, links), patch, now + 1)
    IN /\ S # {}
       /\ Leaves(d, S)
       /\ Operation(d, new,
                    RowMsgs(Moved(seen[d], S, l, links), S) \o RowMsgs(new, DOMAIN patch),
                    [k \in sources \union {l} |->
                        IF k = l THEN Shown(d, l) \o toMove ELSE LeavingOut(Shown(d, k), S)])
       /\ UNCHANGED <<inline, born>>

\* healLegacyItems, at the start and after each pull.
Heal(d) ==
    LET healed == [l \in Lists |-> ChainHeal(ListOf(rows[d], l), now + 1)]
        new == [i \in DOMAIN rows[d] |-> healed[rows[d][i].list][i]]
    IN /\ \E i \in DOMAIN rows[d] : ~rows[d][i].current
       /\ now < MaxOps /\ regular
       /\ now' = now + 1
       /\ rows' = [rows EXCEPT ![d] = new]
       /\ seen' = [seen EXCEPT ![d] = new]
       /\ inbox' = [e \in Devices |->
             IF e = d THEN inbox[e]
             ELSE inbox[e] \o RowMsgs(new, {i \in DOMAIN new : new[i] # rows[d][i]})]
       /\ regular' = (regular /\ inbox[d] = <<>>)
       /\ UNCHANGED <<inline, drags, born, plan>>

----------------------------------------------------------------------------
(* Merges                                                                  *)

Merge(t, m) ==
    IF "gone" \in DOMAIN m
    THEN IF m.id \in DOMAIN t /\ t[m.id].updated_at <= m.gone
         THEN Restrict(t, DOMAIN t \ {m.id}) ELSE t
    ELSE IF m.id \in DOMAIN t /\ m.row.updated_at <= t[m.id].updated_at THEN t
    ELSE Over(Only(m.id, m.row), t)

Receive(d) ==
    /\ inbox[d] # <<>>
    /\ rows' = [rows EXCEPT ![d] = Merge(@, Head(inbox[d]))]
    /\ inbox' = [inbox EXCEPT ![d] = Tail(@)]
    /\ UNCHANGED <<seen, inline, now, drags, born, regular, plan>>

Refresh(d) ==
    /\ seen[d] # rows[d]
    /\ seen' = [seen EXCEPT ![d] = rows[d]]
    /\ UNCHANGED <<rows, inline, inbox, now, drags, born, regular, plan>>

----------------------------------------------------------------------------
Init ==
    \E t \in Starts :
        /\ rows = [d \in Devices |-> t]
        /\ seen = rows
        /\ inline = [d \in Devices |-> NoPatch]
        /\ inbox = [d \in Devices |-> <<>>]
        /\ now = 0
        /\ drags = 0
        /\ born = DOMAIN t
        /\ regular = TRUE
        /\ plan = [l \in Lists |-> ResolveChain(ListOf(t, l))]

UserNext(d) ==
    \/ \E l \in Lists, i \in Ids \ born : AddItem(d, l, i)
    \/ \E l \in Lists, i, j \in Ids \ born : i # j /\ BulkCreateItems(d, l, <<i, j>>)
    \/ \E i \in DOMAIN seen[d] \intersect DOMAIN rows[d] : DeleteItem(d, i)
    \/ \E l \in Lists : \E after \in InList(seen[d], l) \union {Top} : DragInline(d, l, after)
    \/ \E l \in Lists : \E x \in InList(seen[d], l), n \in 1 .. Len(DisplayItems(d, l)) :
          Reorder(d, l, x, n)
    \/ \E x \in DOMAIN seen[d], l \in Lists : \E n \in 1 .. Len(DisplayItems(d, l)) + 1 :
          CrossMove(d, x, l, n)
    \/ \E S \in SUBSET DOMAIN seen[d], l \in Lists : MoveSelected(d, S, l)

Next == \E d \in Devices : UserNext(d) \/ Heal(d) \/ Receive(d) \/ Refresh(d)

Spec == Init /\ [][Next]_vars

----------------------------------------------------------------------------
(* Properties                                                              *)

Tables == {rows[d] : d \in Devices} \union {seen[d] : d \in Devices}

\* Every row is an item of a list that follows the top, itself an item or the
\* id of one that was, and no stamp is ahead of the last operation
\* (the types of db/database.ts, and Date.now of the operations).
ItemsTypeOK ==
    /\ \A t \in Tables : \A i \in DOMAIN t :
          /\ i \in born
          /\ t[i].list \in Lists
          /\ t[i].after \in born \union {Top, Absent}
          /\ t[i].current => t[i].position = NoPosition
          /\ t[i].updated_at \in 0 .. now
    /\ born \subseteq Ids

Current(d) == inbox[d] = <<>> /\ seen[d] = rows[d]

\* As long as each operation was made on what its user saw, every device
\* comes to show the order the users made: where each item was typed, dropped
\* or moved to, whichever way its neighbours had to be relinked
\* (computeChainInsert, computeChainDelete, computeCrossListMove,
\* reorderByAfterId, handleMoveToList, computeChainHeal).
ShownAsPlanned ==
    regular => \A d \in Devices, l \in Lists : Current(d) => Shown(d, l) = plan[l]

\* Whatever operations and merges do to the links, forks and cycles included,
\* each list shows each of its items once (resolveChain).  As long as each
\* operation was made on what its user saw, each list of a device that is up
\* to date is one chain, without fork, orphan or cycle, and the operator's
\* scripts, run one after the other, give it the same links again.
OneChain ==
    \A d \in Devices, l \in Lists :
        /\ ToSet(Shown(d, l)) = InList(seen[d], l)
        /\ Len(Shown(d, l)) = Cardinality(InList(seen[d], l))
        /\ regular /\ Current(d) /\ (\A i \in DOMAIN rows[d] : rows[d][i].current) =>
               LET t == ListOf(rows[d], l)
                   again == MigrateOnServer(RevertToPosition(t, 1, now))
               IN /\ Changes(t, Linked(Shown(d, l), Top)) = NoPatch
                  /\ \A i \in DOMAIN t : again[i].after = t[i].after

\* An operation pushes all it changed: once everything is delivered the
\* devices hold the same rows.
PushedWhole ==
    regular /\ (\A d \in Devices : inbox[d] = <<>>) => \A d, e \in Devices : rows[d] = rows[e]
=============================================================================
