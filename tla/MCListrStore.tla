---------------------------- MODULE MCListrStore ----------------------------
(* ListrStoreHistory on one item and one asset, two namespaces, and three   *)
(* blobs: one without references, one that references the asset, and one    *)
(* of an old schema version.                                               *)
EXTENDS ListrStoreHistory, FiniteSets

CONSTANTS i1, a1, k1, k2, plain, withImage, legacy, MaxReceived

MCEntity  == {i1, a1}
MCItem    == {i1}
MCAsset   == {a1}
MCKey     == {k1, k2}
MCContent == {plain, withImage, legacy}
MCLegacy  == {legacy}
MCRefs    == [c \in MCContent |-> IF c = withImage THEN {a1} ELSE {}]

\* Bound: different operations received, of both entities together.
MCFewReceived == Cardinality(received[i1]) + Cardinality(received[a1]) <= MaxReceived
=============================================================================
