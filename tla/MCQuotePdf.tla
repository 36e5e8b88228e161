---------------------------- MODULE MCQuotePdf ----------------------------
(***************************************************************************)
(* TLC instance of QuotePdf.                                               *)
(***************************************************************************)
EXTENDS QuotePdf, TLC

Symmetry == Permutations(Quotes) \cup Permutations(Runs)

=============================================================================
