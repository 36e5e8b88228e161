---------------------------- MODULE LeadHistory ----------------------------
(***************************************************************************)
(* What the panel promises about a lead, without transactions: its         *)
(* timeline is a log that only ever grows by one entry at the end, and its *)
(* pipeline state is what the last transition in that log says.            *)
(***************************************************************************)
EXTENDS Sequences

CONSTANTS Leads, Stamps, Estados, Inicial, Null

VARIABLES
    historia,   \* [Leads -> sequence of entries]
    estado      \* [Leads -> Estados]

vars == <<historia, estado>>

Init ==
    /\ historia = [l \in Leads |-> <<>>]
    /\ estado = [l \in Leads |-> Inicial]

Alta(l, ts) ==
    /\ historia[l] = <<>>
    /\ historia' = [historia EXCEPT ![l] =
         <<[tipo |-> "alta", ts |-> ts, prev |-> Null, nuevo |-> Null]>>]
    /\ UNCHANGED estado

Anotar(l, ts) ==
    /\ historia[l] # <<>>
    /\ historia' = [historia EXCEPT ![l] = Append(@,
         [tipo |-> "nota", ts |-> ts, prev |-> Null, nuevo |-> Null])]
    /\ UNCHANGED estado

Mover(l, ts, nuevo) ==
    /\ historia[l] # <<>>
    /\ historia' = [historia EXCEPT ![l] = Append(@,
         [tipo |-> "mov", ts |-> ts, prev |-> estado[l], nuevo |-> nuevo])]
    /\ estado' = [estado EXCEPT ![l] = nuevo]

Next == \E l \in Leads, ts \in Stamps :
    \/ Alta(l, ts)
    \/ Anotar(l, ts)
    \/ \E nuevo \in Estados : Mover(l, ts, nuevo)

Spec == Init /\ [][Next]_vars

=============================================================================
