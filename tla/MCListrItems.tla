---------------------------- MODULE MCListrItems ----------------------------
(* Lists of up to four items on two devices, from clean and legacy tables. *)
EXTENDS ListrItems, TLC

\* The links are against the order of the ids, which is the database's.
MCClean == (3 :> Row(1, Top, 0, NoPosition, TRUE, 0)) @@ (1 :> Row(1, 3, 0, NoPosition, TRUE, 0))

\* Rows of the old format in list 1, a linked one behind the first.
MCLegacy == (1 :> Row(1, Absent, 0, 64, FALSE, 0)) @@ (2 :> Row(1, Absent, 0, 0, FALSE, 0))
                @@ (3 :> Row(1, 2, 0, NoPosition, TRUE, 0))

MCStarts == {MCClean, MCLegacy}
MCSymmetry == Permutations(Devices)
=============================================================================
