----------------------------- MODULE LeadsBoard -----------------------------
(***************************************************************************)
(* The kanban board of the panel (leads-board.tsx) with its drawer, its    *)
(* desenlace prompt and its alta form: optimistic moves over the cache of  *)
(* one query, rolled back to a snapshot when the server refuses them,      *)
(* notes and new leads that only refetch.  Calls, the server's commits,    *)
(* the answers and the background fetch are steps of their own.            *)
(*                                                                         *)
(* Data: a row is its stage and the length of its timeline; a closed lead  *)
(* is at the stage that names its desenlace.                               *)
(***************************************************************************)
EXTENDS PanelPage

CONSTANTS
    Leads,       \* ids the project may come to have
    NoLead,
    Abiertos,    \* the open stages, "nuevo" among them
    Cierres      \* the desenlaces of the stage cerrado

LeadsBoardAssumption ==
    /\ MaxCalls \in Nat
    /\ NoLead \notin Leads /\ "nuevo" \in Abiertos /\ Abiertos \cap Cierres = {}
    /\ {"none", "cerrado"} \cap (Abiertos \cup Cierres) = {}

VARIABLES
    doubt,    \* ghost: leads whose row on the board nobody promised to be current
    clears    \* ghost: doubts the fetch in flight will settle

\* ui holds openLeadId, pendingCerrado, transitionError and the alta form.
vars == <<pageVars, doubt, clears>>

Etapas == Abiertos \cup Cierres
Absent == [estado |-> "none", notas |-> 0]
Rows == {Absent} \cup [estado: Etapas, notas: Nat \ {0}]

\* A call; unsure is a ghost: the rows the snapshot may have wrong.
Call(observer, l, estado, snapshots) ==
    [n |-> made, observer |-> observer, lead |-> l, estado |-> estado,
     snapshot |-> snapshots, st |-> "sent", heard |-> TRUE,
     unsure |-> IF snapshots = {} THEN {} ELSE doubt \cup {c.lead : c \in calls}]

\* What each mutation does to the row: a transition and a note both append
\* an entry to its timeline.
Applied(rows, c) ==
    CASE c.observer = "board" -> [rows EXCEPT ![c.lead] = [estado |-> c.estado, notas |-> @.notas + 1]]
      [] c.observer = "nota" -> [rows EXCEPT ![c.lead].notas = @ + 1]
      [] c.observer = "alta" -> [rows EXCEPT ![c.lead] = [estado |-> "nuevo", notas |-> 1]]

Calls == [n: Nat, observer: {"board", "nota", "alta"}, lead: Leads, estado: Etapas \cup {"none"},
          snapshot: SUBSET [Leads -> Rows], st: {"sent", "done", "refused"}, heard: BOOLEAN,
          unsure: SUBSET Leads]

MoveCall(c) == IF c.observer = "board" THEN c.estado \in Etapas ELSE c.snapshot = {}

TypeOK ==
    /\ db \in [Leads -> Rows] /\ data \in [Leads -> Rows]
    /\ isError \in BOOLEAN /\ made \in 0..MaxCalls /\ saved = {}
    /\ fetch \in [on: BOOLEAN, read: SUBSET [Leads -> Rows]]
    /\ calls \subseteq Calls /\ \A c \in calls : MoveCall(c)
    /\ ui \in [open: Leads \cup {NoLead}, pending: Leads \cup {NoLead}, error: BOOLEAN,
               alta: {"closed", "form", "done"}]
    /\ doubt \subseteq Leads /\ clears \subseteq doubt

Init ==
    /\ \E present \in SUBSET Leads :
           PageInit([l \in Leads |-> IF l \in present THEN [estado |-> "nuevo", notas |-> 1]
                                                     ELSE Absent])
    /\ ui = [open |-> NoLead, pending |-> NoLead, error |-> FALSE, alta |-> "closed"]
    /\ doubt = {} /\ clears = {}

-----------------------------------------------------------------------------
(* What is on screen.  A change of branch mounts the islands anew.         *)

Shown(rows) == {l \in Leads : rows[l] # Absent}
Branch(rows, error) == IF error THEN "error" ELSE IF Shown(rows) = {} THEN "empty" ELSE "full"
Full == Branch(data, isError) = "full"

\* The cache becomes rows: the drawer closes with the lead it shows; when
\* the branch changes, drawer and alta form lose their state and callbacks.
Show(rows, error, cs, u) ==
    LET switches == Branch(rows, error) # Branch(data, isError)
        gone == (IF switches THEN {"nota", "alta"} ELSE {})
                  \cup (IF u.open \notin Shown(rows) THEN {"nota"} ELSE {})
    IN /\ data' = rows /\ isError' = error
       /\ calls' = Unmount(cs, gone)
       /\ ui' = [u EXCEPT !.alta = IF switches /\ @ = "done" THEN "form" ELSE @]

Doubt(ls) == doubt' = doubt \cup ls /\ clears' = clears \ ls

RefetchBoard_NoCancel ==
    fetch' = (IF fetch.on THEN fetch ELSE NewFetch) /\ UNCHANGED <<doubt, clears>>

RefetchBoard == Refetch /\ UNCHANGED doubt /\ clears' = {}

-----------------------------------------------------------------------------
(* What the operator does.                                                 *)

\* The optimistic move, of a lead the cache holds.
Moved(rows, l, estado) == IF rows[l] = Absent THEN rows ELSE [rows EXCEPT ![l].estado = estado]

\* commitTransition: snapshot, optimistic move, mutate.
CommitTransition(l, estado) ==
    /\ made < MaxCalls /\ made' = made + 1
    /\ calls' = Mutate(calls, Call("board", l, estado, {data}))
    /\ data' = Moved(data, l, estado)
    /\ ui' = [ui EXCEPT !.error = FALSE]
    /\ UNCHANGED <<db, isError, fetch, doubt, clears, saved>>

RequestTransition(l, estado) ==
    \/ /\ estado \in Abiertos /\ data[l].estado # estado
       /\ CommitTransition(l, estado)
    \/ /\ estado = "cerrado" /\ data[l].estado \notin Cierres
       /\ ui' = [ui EXCEPT !.pending = l, !.error = FALSE]
       /\ UNCHANGED <<db, data, isError, fetch, calls, made, doubt, clears, saved>>

\* A card may be dragged while another move is being saved.
DropOnColumn(l, estado) ==
    /\ Full /\ l \in Shown(data) /\ ui.open = NoLead /\ ui.pending = NoLead /\ ui.alta = "closed"
    /\ RequestTransition(l, estado)

\* The select of the drawer is disabled meanwhile.
SelectEstado(l, estado) ==
    /\ Full /\ l \in Shown(data) /\ ui.open = l /\ ui.pending = NoLead /\ ui.alta = "closed"
    /\ ~Pending("board")
    /\ RequestTransition(l, estado)

\* The desenlace prompt, modal over everything, disabled while saving.
ConfirmCerrado(desenlace) ==
    /\ Full /\ ui.pending \in Leads /\ ~Pending("board")
    /\ CommitTransition(ui.pending, desenlace)

CancelCerrado ==
    /\ Full /\ ui.pending # NoLead /\ ~Pending("board")
    /\ ui' = [ui EXCEPT !.pending = NoLead]
    /\ UNCHANGED <<db, data, isError, fetch, calls, made, doubt, clears, saved>>

OpenDrawer(l) ==
    /\ Full /\ l \in Shown(data) /\ ui.open = NoLead /\ ui.pending = NoLead /\ ui.alta = "closed"
    /\ ui' = [ui EXCEPT !.open = l]
    /\ UNCHANGED <<db, data, isError, fetch, calls, made, doubt, clears, saved>>

\* Closing the drawer unmounts it, a note still being saved included.
CloseDrawer ==
    /\ Full /\ ui.open # NoLead /\ ui.pending = NoLead
    /\ ui' = [ui EXCEPT !.open = NoLead]
    /\ calls' = Unmount(calls, {"nota"})
    /\ UNCHANGED <<db, data, isError, fetch, made, doubt, clears, saved>>

SubmitNote ==
    /\ Full /\ ui.open \in Shown(data) /\ ui.pending = NoLead /\ ~Pending("nota")
    /\ made < MaxCalls /\ made' = made + 1
    /\ calls' = Mutate(calls, Call("nota", ui.open, "none", {}))
    /\ UNCHANGED <<db, data, isError, fetch, ui, doubt, clears, saved>>

\* The alta form: its two buttons are disabled while it saves.
ToggleAlta ==
    /\ ~isError /\ ui.open = NoLead /\ ui.pending = NoLead /\ ~Pending("alta")
    /\ ui' = [ui EXCEPT !.alta = IF @ = "closed" THEN "form" ELSE "closed"]
    /\ UNCHANGED <<db, data, isError, fetch, calls, made, doubt, clears, saved>>

SubmitAlta(l) ==
    /\ ~isError /\ ui.alta = "form" /\ ~Pending("alta")
    /\ db[l] = Absent /\ \A c \in calls : c.observer = "alta" => c.lead # l
    /\ made < MaxCalls /\ made' = made + 1
    /\ calls' = Mutate(calls, Call("alta", l, "nuevo", {}))
    /\ UNCHANGED <<db, data, isError, fetch, ui, doubt, clears, saved>>

-----------------------------------------------------------------------------
(* The server, the answers and the background fetch.                       *)

ServerTakes(c) ==
    /\ c.st = "sent"
    /\ \/ calls' = Served(c, "refused") /\ UNCHANGED db
       \/ calls' = Served(c, "done") /\ db' = Applied(db, c)
    /\ UNCHANGED <<data, isError, fetch, made, ui, doubt, clears, saved>>

\* Another operator, or a buyer, writes a lead.
OtherSession(l, estado) ==
    /\ made < MaxCalls /\ made' = made + 1
    /\ db[l].estado # estado
    /\ db' = [db EXCEPT ![l] = [estado |-> estado, notas |-> @.notas + 1]]
    /\ Doubt({l})
    /\ UNCHANGED <<data, isError, fetch, calls, ui, saved>>

\* onSuccess of a call whose callbacks are still there.
Succeeds(c) ==
    /\ Succeeded(c)
    /\ calls' = calls \ {c} /\ RefetchBoard
    /\ ui' = CASE c.observer = "board" -> [ui EXCEPT !.pending = NoLead]
               [] c.observer = "alta" -> [ui EXCEPT !.alta = "done"]
               [] OTHER -> ui
    /\ UNCHANGED <<db, data, isError, made, saved>>

\* onError: the server refused, or its answer was lost after the commit.  A
\* move restores the snapshot, over whatever the cache holds by now; a query
\* that is given data has no error any more, also when its last fetch failed.
MoveFails_NoRollback(c) ==
    /\ Failed(c) /\ c.observer = "board"
    /\ calls' = calls \ {c} /\ ui' = [ui EXCEPT !.error = TRUE]
    /\ Doubt(IF c.st = "done" THEN {c.lead} ELSE {})
    /\ UNCHANGED <<db, data, isError, fetch, made, saved>>

MoveFails(c) ==
    /\ Failed(c)
    /\ \E snapshot \in c.snapshot :
          /\ Show(snapshot, FALSE, calls \ {c}, [ui EXCEPT !.error = TRUE])
          /\ LET moved == Moved(snapshot, c.lead, c.estado)
             IN Doubt(c.unsure \cup (IF c.st = "done" THEN {c.lead} ELSE {})
                               \cup {l \in Leads : isError \/ data[l] # moved[l]})
    /\ UNCHANGED <<db, fetch, made, saved>>

CallFails(c) ==
    /\ Failed(c) /\ c.observer # "board"
    /\ calls' = calls \ {c}
    /\ Doubt(IF c.st = "done" THEN {c.lead} ELSE {})
    /\ UNCHANGED <<db, data, isError, fetch, made, ui, saved>>

\* An answer nobody listens to: a move another move overtook is neither
\* refetched nor rolled back, a note of a closed drawer is not refetched.
Unheard(c) ==
    /\ Overheard(c)
    /\ calls' = calls \ {c}
    /\ Doubt(IF c.st = "done" \/ c.observer = "board" THEN {c.lead} ELSE {})
    /\ UNCHANGED <<db, data, isError, fetch, made, ui, saved>>

\* Focus, reconnection, or the button of the error page.
FetchStarts ==
    /\ StartFetch
    /\ UNCHANGED <<db, data, isError, calls, made, ui, doubt, clears, saved>>

ListForProject ==
    /\ ServerReads /\ clears' = doubt
    /\ UNCHANGED <<db, data, isError, calls, made, ui, doubt, saved>>

FetchLands ==
    /\ \E rows \in fetch.read : Show(rows, FALSE, calls, ui)
    /\ fetch' = NoFetch /\ doubt' = doubt \ clears /\ clears' = {}
    /\ UNCHANGED <<db, made, saved>>

FetchFails ==
    /\ fetch.on /\ Show(data, TRUE, calls, ui)
    /\ fetch' = NoFetch /\ clears' = {}
    /\ UNCHANGED <<db, made, doubt, saved>>

-----------------------------------------------------------------------------
Next ==
    \/ \E l \in Leads : \/ OpenDrawer(l) \/ SubmitAlta(l)
                        \/ \E e \in Abiertos \cup {"cerrado"} : DropOnColumn(l, e) \/ SelectEstado(l, e)
                        \/ db[l] # Absent /\ \E e \in Etapas : OtherSession(l, e)
    \/ \E d \in Cierres : ConfirmCerrado(d)
    \/ CancelCerrado \/ CloseDrawer \/ SubmitNote \/ ToggleAlta
    \/ \E c \in calls : ServerTakes(c) \/ Succeeds(c) \/ MoveFails(c) \/ CallFails(c) \/ Unheard(c)
    \/ FetchStarts \/ ListForProject \/ FetchLands \/ FetchFails

Spec == Init /\ [][Next]_vars

-----------------------------------------------------------------------------
(* Properties.                                                             *)

\* When nothing is in flight the board shows what the server has, but for
\* the leads in doubt: those another session wrote, those of an answer that
\* was lost or that nobody heard, those a rollback took back with it, and all
\* of them when the rollback hid that the last fetch had failed.  An optimistic
\* move, its rollback and a stale fetch never leave another trace.
SettledBoardIsServer == Quiet => \A l \in Leads \ doubt : data[l] = db[l]

-----------------------------------------------------------------------------
(* The inductive invariant: the entries of a timeline tell which of two     *)
(* rows of a lead is the later.                                              *)

\* A row the server had at some time, as far as the entries can tell.
Genuine(row, l) == row.notas < db[l].notas \/ row = db[l]
DoneOn(l) == \E c \in calls : c.lead = l /\ c.st = "done"
MovingOn(l) == \E c \in calls : c.lead = l /\ c.observer = "board" /\ c.st # "done"

\* The server is never behind the page, and knows every lead it was sent.
ServerAhead ==
    /\ \A l \in Leads : data[l].notas <= db[l].notas
    /\ \A c \in calls : /\ \A s \in c.snapshot, l \in Leads : s[l].notas <= db[l].notas
                        /\ c.observer # "alta" => db[c.lead] # Absent
                        /\ c.observer = "alta" /\ c.st = "sent" => db[c.lead] = Absent
    /\ \A c, d \in calls : c.observer = "alta" /\ d.observer = "alta" /\ c.lead = d.lead => c = d
    /\ ui.pending \in Leads => db[ui.pending] # Absent

\* What the page shows, restores and fetches was once the server's, but for
\* moves on their way and leads in doubt.
RowsGenuine ==
    /\ \A l \in Leads \ doubt : Genuine(data[l], l) \/ MovingOn(l)
    /\ \A c \in calls : \A s \in c.snapshot, l \in Leads \ c.unsure : Genuine(s[l], l)
    /\ \A rows \in fetch.read, l \in Leads : Genuine(rows[l], l)

\* No entry is missing once the calls are answered and the fetches landed.
NoEntryMissing ==
    /\ ~fetch.on /\ ~isError =>
           \A l \in Leads \ doubt : DoneOn(l) \/ data[l].notas = db[l].notas
    /\ \A rows \in fetch.read, l \in Leads \ (doubt \ clears) :
           DoneOn(l) \/ rows[l].notas = db[l].notas

BoardInv == TypeOK /\ ServerAhead /\ RowsGenuine /\ NoEntryMissing

=============================================================================
