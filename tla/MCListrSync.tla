----------------------------- MODULE MCListrSync -----------------------------
(* Two devices of one user and one or two entities, in worlds that differ   *)
(* in the clocks, the losses and the bounds.                               *)
EXTENDS ListrSync

CONSTANTS d1, d2, e1, e2

MCDevice  == {d1, d2}
MCOne     == {e1}
MCTwo     == {e1, e2}
MCKey     == {shared}
MCContent == 1 .. MaxOps
MCRefs    == [c \in MCContent |-> {}]

\* Clocks: all equal to the server's; all one tick ahead, so that a change is
\* stamped later than any snapshot taken before it; and one of each.
EqualClocks == [d \in MCDevice |-> 0]
ClocksAhead == [d \in MCDevice |-> 1]
OneAhead    == [d \in MCDevice |-> IF d = d1 THEN 0 ELSE 1]

MCWorld(skew, creatable, deletable, loses, maxOps, maxDrops, maxTime) ==
    [skew |-> skew, creatable |-> creatable, deletable |-> deletable, loses |-> loses,
     maxOps |-> maxOps, maxDrops |-> maxDrops, maxTime |-> maxTime]

\* Connections drop when idle; they drop with messages under way, among many operations
\* or over a longer time; nothing drops and nothing is deleted.
IdleDrops  == MCWorld(ClocksAhead, MCOne, MCOne, FALSE, 2, 2, 3)
Losses     == MCWorld(OneAhead, MCOne, MCOne, TRUE, 3, 1, 2)
LongLosses == MCWorld(OneAhead, MCOne, MCOne, TRUE, 2, 1, 3)
Steady     == MCWorld(EqualClocks, MCTwo, {}, TRUE, 3, 0, 3)
MCPassing  == {IdleDrops, Losses, LongLosses, Steady}
MCLive     == {MCWorld(ClocksAhead, MCOne, MCOne, FALSE, 2, 1, 3)}

\* A device is away for a while; versions and a deletion cross; a push is lost; more
\* entities than a pull may carry.
MCAway     == {MCWorld(EqualClocks, MCOne, {}, FALSE, 2, 1, 3)}
MCCrossing == {MCWorld(EqualClocks, MCOne, MCOne, TRUE, 3, 0, 3)}
MCLost     == {MCWorld(ClocksAhead, MCOne, MCOne, TRUE, 2, 1, 3)}
MCBudget   == {MCWorld(EqualClocks, MCTwo, {}, TRUE, 2, 1, 3)}
=============================================================================
