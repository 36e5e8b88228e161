------------------------------ MODULE MCLeads ------------------------------
(***************************************************************************)
(* TLC instance of Leads.                                                  *)
(***************************************************************************)
EXTENDS Leads, TLC

Symmetry == Permutations(Leads) \cup Permutations(Calls)

=============================================================================
