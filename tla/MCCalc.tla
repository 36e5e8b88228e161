-------------------------------- MODULE MCCalc --------------------------------
(* The three calculations of the system beside each other: the amounts of a  *)
(* quote, the verdict on a polygon, the months of the events table.           *)
EXTENDS Partitions, Integers, Sequences

CONSTANTS
    Plans, Precios, Cacs,                  \* QuoteEngine
    ViewboxMax, Vertices, MaxVertices      \* Polygon

VARIABLES
    part,                  \* which of the three
    request, answer,       \* QuoteEngine
    points                 \* Polygon

Engine == INSTANCE QuoteEngine
Drawn == INSTANCE Polygon

ASSUME CalcAssumption == Engine!EngineAssumption /\ Drawn!PolygonAssumption

CalcInit ==
    /\ Init
    /\ \/ part = "quote" /\ Engine!Init /\ points = <<>>
       \/ part = "polygon" /\ Drawn!Init /\ request = {} /\ answer = {}
       \/ part = "events" /\ request = {} /\ answer = {} /\ points = <<>>

CalcNext ==
    \/ part = "quote" /\ Engine!Next /\ UNCHANGED <<part, vars, points>>
    \/ part = "polygon" /\ Drawn!Next /\ UNCHANGED <<part, vars, request, answer>>
    \/ part = "events" /\ Next /\ UNCHANGED <<part, request, answer, points>>

CalcSpec == CalcInit /\ [][CalcNext]_<<part, vars, request, answer, points>>

-----------------------------------------------------------------------------
(* The instance that is checked: amounts and percentages at and beside the   *)
(* bounds, roundings up and down, every point of a small drawing and one     *)
(* beside it, and two turns of the year but for a month.                      *)

SomeRefuerzos == {<<>>} \cup [1..1 -> [cuota: {0, 2, 4}, montoUsd: {-3, 20}]]
                        \cup [1..2 -> [cuota: {1, 3, 4}, montoUsd: {5, 40}]]
SomePlans == [anticipoPct: {-1, 0, 3333, 5050, 10000, 10001}, cuotas: 0..3,
              ajuste: {"CAC", "fijo"}, refuerzos: SomeRefuerzos]

SomePoints == [x: 0..ViewboxMax, y: 0..ViewboxMax] \cup {[x |-> ViewboxMax + 1, y |-> 0]}

TheEnd == [year |-> 2027, month |-> 2]

-----------------------------------------------------------------------------
\* Anticipo, instalments and refuerzos add up to the price
\* (QuoteReconciles of QuoteEngine).
QuoteReconciles == part = "quote" => Engine!QuoteReconciles

\* A request is refused exactly if a row is missing or a condition that
\* errors.ts documents holds, each with its code
\* (RefusesExactlyTheDegenerate of QuoteEngine).
RefusesExactlyTheDegenerate == part = "quote" => Engine!RefusesExactlyTheDegenerate

\* The verdict on a polygon does not depend on how it was drawn
\* (VerdictIsGeometric of Polygon).
VerdictIsGeometric == part = "polygon" => Drawn!VerdictIsGeometric

=============================================================================
