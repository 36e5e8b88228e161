---------------------------- MODULE MCLeadEmail ----------------------------
(***************************************************************************)
(* TLC instance of LeadEmail.                                              *)
(***************************************************************************)
EXTENDS LeadEmail, TLC

Symmetry == Permutations(Leads) \cup Permutations(Runs)

=============================================================================
