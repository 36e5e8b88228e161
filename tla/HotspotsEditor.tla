--------------------------- MODULE HotspotsEditor ---------------------------
(***************************************************************************)
(* The hotspots editor of the panel (hotspots-editor.tsx) and the server   *)
(* it talks to (routers/hotspots.ts): one polygon at a time is drawn over  *)
(* a render, saved or deleted while navigation, drawing and the refetch    *)
(* of the saved polygons go on.                                            *)
(*                                                                         *)
(* Data: a drawing in progress is the number of its vertices, a closed     *)
(* polygon a shape; what makes a shape valid is module Polygon's matter.   *)
(* Every floor has its planta: without it nothing can be drawn.            *)
(***************************************************************************)
EXTENDS PanelPage

CONSTANTS
    Floors, Units,
    FloorOf,        \* the floor of each unit
    Good, Bad,      \* shapes validatePolygon accepts, and others
    NoShape, NoTarget,
    MaxPoints       \* bounds the vertices of a drawing in progress

Targets == Floors \cup Units
Shapes == Good \cup Bad

HotspotsAssumption ==
    /\ MaxCalls \in Nat
    /\ Floors \cap Units = {} /\ FloorOf \in [Units -> Floors] /\ Good \cap Bad = {}
    /\ NoShape \notin Shapes /\ NoTarget \notin Targets /\ MaxPoints \in Nat \ {0, 1, 2}

Rows == [shape: Good \cup {NoShape}, writes: SUBSET (0..MaxCalls)]

Empty == [phase |-> "drawing", n |-> 0, shape |-> NoShape]
Closed(shape) == [phase |-> "closed", n |-> 0, shape |-> shape]
Drawings == {[Empty EXCEPT !.n = n] : n \in 0..MaxPoints} \cup {Closed(s) : s \in Shapes}

Deletes == {"clearFloor", "clearUnit"}
Calls == [n: 0..MaxCalls, observer: {"setFloor", "setUnit"} \cup Deletes, target: Targets,
          shape: Shapes \cup {NoShape}, st: {"sent", "done", "refused"}, heard: BOOLEAN]

\* ui: the drilled floor (planta) or none (exterior), the selected target, its
\* drawing, the delete dialog; and two ghosts: the drawing as the operator
\* left it, and whether a delete dialog was cancelled with its call in flight.
TypeOK ==
    /\ db \in [Targets -> Rows] /\ data \in [Targets -> Rows]
    /\ isError \in BOOLEAN /\ made \in 0..MaxCalls /\ saved \subseteq 0..MaxCalls
    /\ fetch \in [on: BOOLEAN, read: SUBSET [Targets -> Rows]]
    /\ calls \subseteq Calls
    /\ ui \in [drilled: Floors \cup {NoTarget}, selected: Targets \cup {NoTarget},
               drawing: Drawings, confirm: BOOLEAN, left: Drawings, cancelled: BOOLEAN]

Init ==
    /\ \E shape \in Good \cup {NoShape} :
           PageInit([t \in Targets |-> [shape |-> shape, writes |-> {}]])
    /\ ui = [drilled |-> NoTarget, selected |-> NoTarget, drawing |-> Empty, confirm |-> FALSE,
             left |-> Empty, cancelled |-> FALSE]

Exterior == ui.drilled = NoTarget
Saving == Pending("setFloor") \/ Pending("setUnit")
Deleting == Pending("clearFloor") \/ Pending("clearUnit")

\* The rail, and with a target selected the canvas and its toolbar; the
\* dialog covers both.
Rail == ~ui.confirm
Canvas == ~ui.confirm /\ ~isError /\ ui.selected # NoTarget

\* The surface takes clicks while vertices are placed, the handles of a closed
\* polygon drags and right clicks.
Surface == Canvas /\ ui.drawing.phase = "drawing"
Handles == Canvas /\ ui.drawing.phase = "closed"

SaveEnabled == Handles /\ ~Saving /\ ui.drawing.shape \in Good
DeleteEnabled == Canvas /\ ~Deleting /\ data[ui.selected].shape # NoShape

\* The operator's own change of the drawing.
Draw(drawing) == [ui EXCEPT !.drawing = drawing, !.left = drawing]

FromCache(t) == IF data[t].shape = NoShape THEN Empty ELSE Closed(data[t].shape)

-----------------------------------------------------------------------------
(* Selection and navigation.                                               *)

LoadTarget(t) ==
    /\ Rail
    /\ IF Exterior THEN t \in Floors ELSE t \in Units /\ FloorOf[t] = ui.drilled
    /\ ui' = [Draw(FromCache(t)) EXCEPT !.selected = t]
    /\ UNCHANGED <<db, data, isError, fetch, calls, made, saved>>

DrillIntoFloor(f) ==
    /\ Rail /\ Exterior
    /\ ui' = [Draw(Empty) EXCEPT !.drilled = f, !.selected = NoTarget]
    /\ UNCHANGED <<db, data, isError, fetch, calls, made, saved>>

BackToExterior ==
    /\ Rail /\ ~Exterior
    /\ ui' = [Draw(Empty) EXCEPT !.drilled = NoTarget, !.selected = NoTarget]
    /\ UNCHANGED <<db, data, isError, fetch, calls, made, saved>>

-----------------------------------------------------------------------------
(* Drawing and editing.                                                    *)

AddVertex ==
    /\ Surface /\ ui.drawing.n < MaxPoints
    /\ ui' = Draw([ui.drawing EXCEPT !.n = @ + 1])
    /\ UNCHANGED <<db, data, isError, fetch, calls, made, saved>>

\* On the first vertex, or by a double click whose last point is dropped.
ClosePolygon(shape) ==
    /\ Surface /\ ui.drawing.n >= 3
    /\ ui' = Draw(Closed(shape))
    /\ UNCHANGED <<db, data, isError, fetch, calls, made, saved>>

\* A vertex dragged or deleted.
EditPolygon(shape) ==
    /\ Handles /\ shape # ui.drawing.shape
    /\ ui' = Draw(Closed(shape))
    /\ UNCHANGED <<db, data, isError, fetch, calls, made, saved>>

\* "Descartar" and "Cancelar": back to the polygon the cache holds.
Discard ==
    /\ Canvas /\ ui' = Draw(FromCache(ui.selected))
    /\ UNCHANGED <<db, data, isError, fetch, calls, made, saved>>

-----------------------------------------------------------------------------
(* Save and delete.                                                        *)

Call(floor, unit, shape) ==
    [n |-> made, observer |-> IF Exterior THEN floor ELSE unit, target |-> ui.selected,
     shape |-> shape, st |-> "sent", heard |-> TRUE]

Save ==
    /\ SaveEnabled
    /\ made < MaxCalls /\ made' = made + 1
    /\ calls' = Mutate(calls, Call("setFloor", "setUnit", ui.drawing.shape))
    /\ UNCHANGED <<db, data, isError, fetch, saved, ui>>

AskDelete ==
    /\ DeleteEnabled
    /\ ui' = [ui EXCEPT !.confirm = TRUE]
    /\ UNCHANGED <<db, data, isError, fetch, calls, made, saved>>

CancelDelete ==
    /\ ui.confirm
    /\ ui' = [ui EXCEPT !.confirm = FALSE, !.cancelled = @ \/ Deleting]
    /\ UNCHANGED <<db, data, isError, fetch, calls, made, saved>>

PerformDelete ==
    /\ ui.confirm /\ ~Deleting
    /\ made < MaxCalls /\ made' = made + 1
    /\ calls' = Mutate(calls, Call("clearFloor", "clearUnit", NoShape))
    /\ UNCHANGED <<db, data, isError, fetch, saved, ui>>

InvalidatePolygons_NoCancel == fetch' = IF fetch.on THEN fetch ELSE NewFetch

InvalidatePolygons == Refetch

SaveAnswers_Reloads(c) ==
    /\ c.observer \in {"setFloor", "setUnit"} /\ calls' = calls \ {c}
    /\ \/ /\ Succeeded(c) /\ saved' = saved \cup {c.n} /\ InvalidatePolygons
          /\ ui' = [ui EXCEPT !.drawing = Closed(c.shape)]
       \/ Failed(c) /\ UNCHANGED <<saved, fetch, ui>>
    /\ UNCHANGED <<db, data, isError, made>>

\* The drawing is kept, after an error for a retry.
SaveAnswers(c) ==
    /\ c.observer \in {"setFloor", "setUnit"} /\ calls' = calls \ {c}
    /\ \/ Succeeded(c) /\ saved' = saved \cup {c.n} /\ InvalidatePolygons
       \/ Failed(c) /\ UNCHANGED <<saved, fetch>>
    /\ UNCHANGED <<db, data, isError, made, ui>>

\* A delete that succeeded clears the drawing, whatever target it is of.
DeleteAnswers(c) ==
    /\ c.observer \in Deletes /\ calls' = calls \ {c}
    /\ \/ /\ Succeeded(c) /\ saved' = saved \cup {c.n} /\ InvalidatePolygons
          /\ ui' = [ui EXCEPT !.drawing = Empty, !.confirm = FALSE,
                              !.left = IF c.target = ui.selected THEN Empty ELSE @]
       \/ Failed(c) /\ ui' = [ui EXCEPT !.confirm = FALSE] /\ UNCHANGED <<saved, fetch>>
    /\ UNCHANGED <<db, data, isError, made>>

-----------------------------------------------------------------------------
(* The router: a polygon is validated again and written in one UPDATE.     *)

ServerTakes(c) ==
    /\ c.st = "sent"
    /\ \/ calls' = Served(c, "refused") /\ UNCHANGED db
       \/ /\ c.shape \in Good \cup {NoShape} /\ calls' = Served(c, "done")
          /\ db' = [db EXCEPT ![c.target] = [shape |-> c.shape, writes |-> @.writes \cup {c.n}]]
    /\ UNCHANGED <<data, isError, fetch, made, saved, ui>>

OtherSession(t, shape) ==
    /\ made < MaxCalls /\ made' = made + 1
    /\ db' = [db EXCEPT ![t] = [shape |-> shape, writes |-> @.writes \cup {made}]]
    /\ UNCHANGED <<data, isError, fetch, calls, saved, ui>>

FetchStarts == StartFetch /\ UNCHANGED <<db, data, isError, calls, made, saved, ui>>

\* The SELECTs of floors and of units are taken as one read: no property
\* relates a floor's polygon to a unit's.
GetForProject == ServerReads /\ UNCHANGED <<db, data, isError, calls, made, saved, ui>>

\* The fetched polygons replace the cache, never the drawing.
FetchLands ==
    /\ fetch.read # {} /\ data' \in fetch.read
    /\ isError' = FALSE /\ fetch' = NoFetch
    /\ UNCHANGED <<db, calls, made, saved, ui>>

FetchFails ==
    /\ fetch.on /\ fetch' = NoFetch /\ isError' = TRUE
    /\ UNCHANGED <<db, data, calls, made, saved, ui>>

Next ==
    \/ \E t \in Targets : LoadTarget(t) \/ \E s \in Good \cup {NoShape} : OtherSession(t, s)
    \/ \E f \in Floors : DrillIntoFloor(f)
    \/ BackToExterior \/ AddVertex \/ Discard
    \/ \E s \in Shapes : ClosePolygon(s) \/ EditPolygon(s)
    \/ Save \/ AskDelete \/ CancelDelete \/ PerformDelete
    \/ \E c \in calls : SaveAnswers(c) \/ DeleteAnswers(c) \/ ServerTakes(c)
    \/ FetchStarts \/ GetForProject \/ FetchLands \/ FetchFails

Spec == Init /\ [][Next]_pageVars

-----------------------------------------------------------------------------
(* Properties.                                                             *)

\* No answer and no refetch changes what the operator drew, but for the
\* delete of the very target; unless a delete dialog was cancelled while its
\* call was in flight, which gives back the other targets too early.
DrawingIsKept == ~ui.cancelled => ui.drawing = ui.left

\* Once a save or delete was reported and its refetch is done, the cache
\* holds it, whatever fetches were in flight when it was committed.
SavedIsShown == ~fetch.on /\ ~isError => saved \subseteq UNION {data[t].writes : t \in Targets}

-----------------------------------------------------------------------------
(* The inductive invariant.                                                 *)

\* What was reported as saved is with the server, in what a fetch read since,
\* and in the cache once nothing is being fetched.
SavedInv ==
    /\ \A c \in calls : c.st = "done" => c.n \in db[c.target].writes
    /\ saved \subseteq UNION {db[t].writes : t \in Targets}
    /\ \A rows \in fetch.read : saved \subseteq UNION {rows[t].writes : t \in Targets}
    /\ SavedIsShown

\* A delete under way is of the selected target, under its dialog.
DeletesInv ==
    /\ ui.confirm => ui.selected \in Targets
    /\ \A c, d \in calls : c.heard /\ d.heard /\ c.observer \in Deletes /\ d.observer \in Deletes
                             => c = d
    /\ ~ui.cancelled =>
           \A c \in calls : c.heard /\ c.observer \in Deletes => ui.confirm /\ c.target = ui.selected
    /\ DrawingIsKept

EditorInv == TypeOK /\ SavedInv /\ DeletesInv

=============================================================================
