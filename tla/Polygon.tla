------------------------------- MODULE Polygon -------------------------------
(***************************************************************************)
(* The polygon under the operator's hand and the verdict on it:            *)
(* validatePolygon (hotspots/geometry.ts), which the editor shows and the  *)
(* router checks again.  A vertex is added, dragged or deleted; only the   *)
(* order of the vertices and their places are modelled.                    *)
(***************************************************************************)
EXTENDS Integers, Sequences, SequencesExt

CONSTANTS
    ViewboxMax,    \* VIEWBOX_MAX: a vertex is in 0..ViewboxMax twice
    Vertices,      \* the points of the drawing, of the router's input also others
    MaxVertices    \* bounds the drawing

PolygonAssumption ==
    /\ ViewboxMax \in Nat /\ MaxVertices \in Nat
    /\ Vertices \subseteq [x: Int, y: Int]

VARIABLE points

IsValidCoord(n) == n \in 0..ViewboxMax

At(ps, i) == ps[((i - 1) % Len(ps)) + 1]

Orientation(a, b, c) == (b.x - a.x) * (c.y - a.y) - (b.y - a.y) * (c.x - a.x)

Opposite(d, e) == (d > 0 /\ e < 0) \/ (d < 0 /\ e > 0)

SegmentsProperlyIntersect(p1, p2, p3, p4) ==
    /\ Opposite(Orientation(p3, p4, p1), Orientation(p3, p4, p2))
    /\ Opposite(Orientation(p1, p2, p3), Orientation(p1, p2, p4))

HasSelfIntersection_NoClosingEdge(ps) ==
    \E i \in 1..Len(ps) : \E j \in (i + 2)..(Len(ps) - 1) :
        SegmentsProperlyIntersect(At(ps, i), At(ps, i + 1), At(ps, j), At(ps, j + 1))

\* Edges that share a vertex are not compared.
HasSelfIntersection(ps) ==
    \E i \in 1..Len(ps) : \E j \in (i + 2)..Len(ps) :
        /\ ~(i = 1 /\ j = Len(ps))
        /\ SegmentsProperlyIntersect(At(ps, i), At(ps, i + 1), At(ps, j), At(ps, j + 1))

SignedDoubleArea(ps) ==
    FoldFunction(+, 0, [i \in 1..Len(ps) |->
        At(ps, i).x * At(ps, i + 1).y - At(ps, i + 1).x * At(ps, i).y])

\* An area below MIN_AREA_EPSILON, one unit, encloses nothing.
ValidatePolygon(ps) ==
    IF Len(ps) < 3 THEN "too_few_points"
    ELSE IF \E i \in 1..Len(ps) : ~IsValidCoord(ps[i].x) \/ ~IsValidCoord(ps[i].y)
         THEN "out_of_bounds"
    ELSE IF HasSelfIntersection(ps) THEN "self_intersecting"
    ELSE IF SignedDoubleArea(ps) \in -1..1 THEN "degenerate"
    ELSE "ok"

-----------------------------------------------------------------------------
Init == points = <<>>

AddVertex(p) == Len(points) < MaxVertices /\ points' = Append(points, p)

DragVertex(i, p) == points' = [points EXCEPT ![i] = p]

DeleteVertex(i) == points' = RemoveAt(points, i)

Next ==
    \/ \E p \in Vertices : AddVertex(p) \/ \E i \in DOMAIN points : DragVertex(i, p)
    \/ \E i \in DOMAIN points : DeleteVertex(i)

Spec == Init /\ [][Next]_points

-----------------------------------------------------------------------------
(* Properties.                                                             *)

\* Two edges cross inside both, by Cramer's rule: a + t(b - a) = c + u(d - c)
\* with 0 < t < 1 and 0 < u < 1.
Cross(a, b, c, d) ==
    LET den == (b.x - a.x) * (d.y - c.y) - (b.y - a.y) * (d.x - c.x)
        s == IF den < 0 THEN -1 ELSE 1
        t == s * ((c.x - a.x) * (d.y - c.y) - (c.y - a.y) * (d.x - c.x))
        u == s * ((c.x - a.x) * (b.y - a.y) - (c.y - a.y) * (b.x - a.x))
    IN den # 0 /\ 0 < t /\ t < s * den /\ 0 < u /\ u < s * den

Crossed(ps) ==
    \E i, j \in 1..Len(ps) : Cross(At(ps, i), At(ps, i + 1), At(ps, j), At(ps, j + 1))

\* The verdict is of the figure and not of the way it was drawn: it is the
\* same from any first vertex and in either direction; two edges cross
\* exactly when it says so, and it says so rather than "degenerate", also of
\* a bow tie, whose signed area is zero (D-08).
VerdictIsGeometric ==
    LET n == Len(points)
        verdict == ValidatePolygon(points)
    IN /\ \A k \in 1..n : ValidatePolygon([i \in 1..n |-> At(points, i + k)]) = verdict
       /\ ValidatePolygon(Reverse(points)) = verdict
       /\ verdict \in {"ok", "degenerate", "self_intersecting"} =>
              (Crossed(points) <=> verdict = "self_intersecting")

=============================================================================
