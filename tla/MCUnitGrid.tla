----------------------------- MODULE MCUnitGrid -----------------------------
(***************************************************************************)
(* TLC instance of UnitGrid.                                               *)
(***************************************************************************)
EXTENDS UnitGrid, TLC

MCAjustes == {[mode |-> "fixed", value |-> -1], [mode |-> "percent", value |-> 100]}

Symmetry == Permutations(Ops)

=============================================================================
