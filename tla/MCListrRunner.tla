---------------------------- MODULE MCListrRunner ----------------------------
(* The runner on one board: two items of one module, or one item and two    *)
(* modules, of which one or both read what the other produced.             *)
EXTENDS ListrRunner

CONSTANTS i1, i2, m1, m2, t1, t2, c1, c2, v1, v2

MCOneItem    == {i1}
MCTwoItems   == {i1, i2}
MCOneModule  == {m1}
MCTwoModules == {m1, m2}
MCTexts      == {t1, t2}
MCOneText    == {t1}
MCConfigs    == {c1, c2}
MCOneConfig  == {c1}
MCVals       == {v1, v2}
MCOneVal     == {v1}

NoReads   == [m \in Module |-> {}]
OneReads  == [m \in Module |-> IF m = m2 THEN {m1} ELSE {}]
BothRead  == [m \in Module |-> Module \ {m}]

\* m2 reads what m1 produced, with inputs of its own or without; they read each other.
Alone     == [reads |-> NoReads,  needs |-> NoReads]
Chain     == [reads |-> OneReads, needs |-> OneReads]
Follows   == [reads |-> OneReads, needs |-> NoReads]
Mutual    == [reads |-> BothRead, needs |-> NoReads]

MCAlone    == {Alone}
MCFollows  == {Follows}
MCCascades == {Chain, Follows, Mutual}
=============================================================================
