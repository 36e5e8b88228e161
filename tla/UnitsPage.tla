----------------------------- MODULE UnitsPage -----------------------------
(***************************************************************************)
(* The units page of the panel: the grid with its price and estado cells   *)
(* (units-grid.tsx), the import wizard and the bulk edit (import-wizard,   *)
(* bulk-edit).  Every write only refetches; every answer, timer and file   *)
(* read is a step of its own.                                              *)
(*                                                                         *)
(* Data: a row is the set of writes that reached it; what the server does  *)
(* with a write is module UnitGrid's matter.  A file, or the parameters of *)
(* a bulk change, are model values.  Exporting writes nothing.             *)
(***************************************************************************)
EXTENDS PanelPage

CONSTANTS
    Units, Files, Params,
    Nothing     \* no unit, no file, no parameters

UnitsPageAssumption ==
    MaxCalls \in Nat /\ Units # {} /\ Nothing \notin Units \cup Files \cup Params

PrecioOf(u) == <<"precio", u>>
EstadoOf(u) == <<"estado", u>>
DryRunMut == <<"dryRun", Nothing>>
ImportMut == <<"import", Nothing>>
PreviewMut == <<"preview", Nothing>>
BulkMut == <<"bulk", Nothing>>
Observers == {PrecioOf(u) : u \in Units} \cup {EstadoOf(u) : u \in Units}
               \cup {DryRunMut, ImportMut, PreviewMut, BulkMut}
Writers == Observers \ {DryRunMut, PreviewMut}

\* The wizard: the selected file, the file whose report is shown, and the
\* ghost that a file was dropped while another was being read or analysed.
NoWizard == [file |-> Nothing, report |-> Nothing, bad |-> FALSE, applied |-> FALSE,
             mixed |-> FALSE]

\* The bulk edit: the form, the parameters whose preview is shown, and the
\* ghost that the form was edited while a preview was being computed.
NoBulk == [params |-> Nothing, preview |-> Nothing, bad |-> FALSE, touched |-> FALSE]

\* The islands as they mount.
FreshCells == [precio |-> [u \in Units |-> "idle"], timers |-> [u \in Units |-> 0],
               estado |-> [u \in Units |-> "idle"]]

Reviewed == Files \cup Params \cup {Nothing}
Calls == [n: 0..MaxCalls, observer: Observers, what: Reviewed,
          units: SUBSET Units, st: {"sent", "done", "refused"}, heard: BOOLEAN]

CellStates == [precio: [Units -> {"idle", "editing", "saving", "saved", "error"}],
               timers: [Units -> Nat], estado: [Units -> {"idle", "saving", "error"}]]
Wizards == [file: Reviewed, report: Reviewed, bad: BOOLEAN, applied: BOOLEAN, mixed: BOOLEAN]
Bulks == [params: Reviewed, preview: Reviewed, bad: BOOLEAN, touched: BOOLEAN]
Reads == [file: Reviewed, use: {DryRunMut, ImportMut}, n: 0..MaxCalls, mounted: BOOLEAN]
Uis == [cells: CellStates, selected: SUBSET Units, modal: {"none", "import", "bulk"},
        wizard: Wizards, bulk: Bulks, reads: SUBSET Reads]

TypeOK ==
    /\ db \in [Units -> SUBSET (0..MaxCalls)] /\ data \in [Units -> SUBSET (0..MaxCalls)]
    /\ isError \in BOOLEAN /\ made \in 0..MaxCalls /\ saved \subseteq 0..MaxCalls
    /\ fetch \in [on: BOOLEAN, read: SUBSET [Units -> SUBSET (0..MaxCalls)]]
    /\ calls \subseteq Calls /\ ui \in Uis

Init ==
    /\ PageInit([u \in Units |-> {}])
    /\ ui = [cells |-> FreshCells, selected |-> {}, modal |-> "none",
             wizard |-> NoWizard, bulk |-> NoBulk, reads |-> {}]

Call(observer, what, units) ==
    [n |-> made, observer |-> observer, what |-> what, units |-> units,
     st |-> "sent", heard |-> TRUE]

RefetchGrid_NoCancel == fetch' = IF fetch.on THEN fetch ELSE NewFetch

RefetchGrid == Refetch

\* Reads of a file go on when the wizard is closed.
Orphaned(reads) == {[r EXCEPT !.mounted = FALSE] : r \in reads}

\* What is on screen, and what of it takes a click: the grid under no modal,
Cells == ~isError /\ ui.modal = "none"
PrecioButton(u) == Cells /\ ui.cells.precio[u] \in {"idle", "saved", "error"}
PrecioInput(u) == Cells /\ ui.cells.precio[u] = "editing"
EstadoSelect(u) == Cells /\ ui.cells.estado[u] # "saving"

\* the wizard at its upload step, with a report without errors, at its end,
Wizard == ~isError /\ ui.modal = "import"
DropZone == Wizard /\ ui.wizard.report = Nothing /\ ~ui.wizard.applied
ApplyEnabled == /\ Wizard /\ ui.wizard.report # Nothing /\ ~ui.wizard.bad /\ ~ui.wizard.applied
                /\ ~Pending(ImportMut)
CloseEnabled == Wizard /\ (ui.wizard.applied \/ ~Pending(ImportMut))

\* the bulk edit at its form, or with a preview.
Bulk == ~isError /\ ui.modal = "bulk"
BulkForm == Bulk /\ ui.bulk.preview = Nothing
PreviewEnabled == BulkForm /\ ui.bulk.params # Nothing /\ ~Pending(PreviewMut)
BulkPreview == Bulk /\ ui.bulk.preview # Nothing /\ ~Pending(BulkMut)

-----------------------------------------------------------------------------
(* The cells of the grid.                                                  *)

BeginEdit(u) ==
    /\ PrecioButton(u)
    /\ ui' = [ui EXCEPT !.cells.precio[u] = "editing"]
    /\ UNCHANGED <<db, data, isError, fetch, calls, made, saved>>

\* Escape, or commit of a blank draft; or of one that is no price.
EndEdit(u) ==
    /\ PrecioInput(u)
    /\ \E state \in {"idle", "error"} : ui' = [ui EXCEPT !.cells.precio[u] = state]
    /\ UNCHANGED <<db, data, isError, fetch, calls, made, saved>>

CommitPrice(u) ==
    /\ PrecioInput(u)
    /\ made < MaxCalls /\ made' = made + 1
    /\ ui' = [ui EXCEPT !.cells.precio[u] = "saving"]
    /\ calls' = Mutate(calls, Call(PrecioOf(u), Nothing, {u}))
    /\ UNCHANGED <<db, data, isError, fetch, saved>>

PriceAnswers(u, c) ==
    /\ c.observer = PrecioOf(u) /\ calls' = calls \ {c}
    /\ \/ /\ Succeeded(c) /\ saved' = saved \cup {c.n} /\ RefetchGrid
          /\ ui' = [ui EXCEPT !.cells.precio[u] = "saved", !.cells.timers[u] = @ + 1]
       \/ /\ Failed(c) /\ UNCHANGED <<saved, fetch>>
          /\ ui' = [ui EXCEPT !.cells.precio[u] = "error"]
    /\ UNCHANGED <<db, data, isError, made>>

\* 900 ms after a save the cell goes idle, whatever it is doing by then.
SavedTimer(u) ==
    /\ ~isError /\ ui.cells.timers[u] > 0
    /\ ui' = [ui EXCEPT !.cells.timers[u] = @ - 1, !.cells.precio[u] = "idle"]
    /\ UNCHANGED <<db, data, isError, fetch, calls, made, saved>>

ChangeEstado(u) ==
    /\ EstadoSelect(u)
    /\ made < MaxCalls /\ made' = made + 1
    /\ ui' = [ui EXCEPT !.cells.estado[u] = "saving"]
    /\ calls' = Mutate(calls, Call(EstadoOf(u), Nothing, {u}))
    /\ UNCHANGED <<db, data, isError, fetch, saved>>

EstadoAnswers_KeepsSaving(u, c) ==
    /\ c.observer = EstadoOf(u) /\ calls' = calls \ {c}
    /\ \/ /\ Succeeded(c) /\ saved' = saved \cup {c.n} /\ RefetchGrid
          /\ ui' = [ui EXCEPT !.cells.estado[u] = "idle"]
       \/ Failed(c) /\ UNCHANGED <<saved, fetch, ui>>
    /\ UNCHANGED <<db, data, isError, made>>

EstadoAnswers(u, c) ==
    /\ c.observer = EstadoOf(u) /\ calls' = calls \ {c}
    /\ \/ /\ Succeeded(c) /\ saved' = saved \cup {c.n} /\ RefetchGrid
          /\ ui' = [ui EXCEPT !.cells.estado[u] = "idle"]
       \/ /\ Failed(c) /\ UNCHANGED <<saved, fetch>>
          /\ ui' = [ui EXCEPT !.cells.estado[u] = "error"]
    /\ UNCHANGED <<db, data, isError, made>>

\* toggleOne, toggleAll and clearSelection.
Select(units) ==
    /\ Cells /\ ui.selected # units
    /\ ui' = [ui EXCEPT !.selected = units]
    /\ UNCHANGED <<db, data, isError, fetch, calls, made, saved>>

Open(modal) ==
    /\ Cells /\ (modal = "bulk" => ui.selected # {})
    /\ ui' = [ui EXCEPT !.modal = modal]
    /\ UNCHANGED <<db, data, isError, fetch, calls, made, saved>>

-----------------------------------------------------------------------------
(* The import wizard.                                                      *)

\* The drop zone takes a file as long as no report is shown, also while
\* another file is being read or analysed.
HandleFile(f) ==
    /\ DropZone
    /\ made < MaxCalls /\ made' = made + 1
    /\ LET busy == Pending(DryRunMut) \/ \E r \in ui.reads : r.mounted
       IN ui' = [ui EXCEPT !.wizard = [NoWizard EXCEPT !.file = f, !.mixed = ui.wizard.mixed \/ busy],
                           !.reads = @ \cup {[file |-> f, use |-> DryRunMut, n |-> made, mounted |-> TRUE]}]
    /\ UNCHANGED <<db, data, isError, fetch, calls, saved>>

\* fileToBase64 ends and the mutation starts, even if the wizard is gone; or
\* it rejects, and nobody handles that.
ReadEnds(r) ==
    /\ ui' = [ui EXCEPT !.reads = @ \ {r}]
    /\ LET call == [Call(r.use, r.file, IF r.use = ImportMut THEN Units ELSE {})
                      EXCEPT !.n = r.n, !.heard = r.mounted]
       IN calls' \in {IF r.mounted THEN Mutate(calls, call) ELSE calls \cup {call}, calls}
    /\ UNCHANGED <<db, data, isError, fetch, made, saved>>

DryRunAnswers(c) ==
    /\ c.observer = DryRunMut /\ calls' = calls \ {c}
    /\ \/ /\ Succeeded(c)
          /\ \E bad \in BOOLEAN : ui' = [ui EXCEPT !.wizard.report = c.what, !.wizard.bad = bad]
       \/ Failed(c) /\ UNCHANGED ui
    /\ UNCHANGED <<db, data, isError, fetch, made, saved>>

\* "Aplicar cambios" reads the selected file again; the button stays enabled
\* until the mutation starts.
ConfirmApply ==
    /\ ApplyEnabled
    /\ made < MaxCalls /\ made' = made + 1
    /\ ui' = [ui EXCEPT !.reads = @ \cup {[file |-> ui.wizard.file, use |-> ImportMut, n |-> made,
                                           mounted |-> TRUE]}]
    /\ UNCHANGED <<db, data, isError, fetch, calls, saved>>

ImportAnswers(c) ==
    /\ c.observer = ImportMut /\ calls' = calls \ {c}
    /\ \/ /\ Succeeded(c) /\ saved' = saved \cup {c.n} /\ RefetchGrid
          /\ ui' = [ui EXCEPT !.wizard.applied = TRUE]
       \/ Failed(c) /\ UNCHANGED <<saved, fetch, ui>>
    /\ UNCHANGED <<db, data, isError, made>>

CloseImport ==
    /\ CloseEnabled
    /\ ui' = [ui EXCEPT !.modal = "none", !.wizard = NoWizard, !.reads = Orphaned(@)]
    /\ calls' = Unmount(calls, {DryRunMut, ImportMut})
    /\ UNCHANGED <<db, data, isError, fetch, made, saved>>

-----------------------------------------------------------------------------
(* The bulk edit.                                                          *)

EditForm_Always(p) ==
    /\ Bulk /\ ui.bulk.params # p
    /\ ui' = [ui EXCEPT !.bulk.params = p, !.bulk.touched = @ \/ Pending(PreviewMut)]
    /\ UNCHANGED <<db, data, isError, fetch, calls, made, saved>>

\* The form may be edited until a preview is shown.
EditForm(p) ==
    /\ BulkForm /\ ui.bulk.params # p
    /\ ui' = [ui EXCEPT !.bulk.params = p, !.bulk.touched = @ \/ Pending(PreviewMut)]
    /\ UNCHANGED <<db, data, isError, fetch, calls, made, saved>>

RunPreview ==
    /\ PreviewEnabled
    /\ made < MaxCalls /\ made' = made + 1
    /\ ui' = [ui EXCEPT !.bulk.touched = FALSE]
    /\ calls' = Mutate(calls, Call(PreviewMut, ui.bulk.params, {}))
    /\ UNCHANGED <<db, data, isError, fetch, saved>>

PreviewAnswers(c) ==
    /\ c.observer = PreviewMut /\ calls' = calls \ {c}
    /\ \/ /\ Succeeded(c)
          /\ \E bad \in BOOLEAN : ui' = [ui EXCEPT !.bulk.preview = c.what, !.bulk.bad = bad]
       \/ Failed(c) /\ UNCHANGED ui
    /\ UNCHANGED <<db, data, isError, fetch, made, saved>>

CancelPreview ==
    /\ BulkPreview
    /\ ui' = [ui EXCEPT !.bulk.preview = Nothing, !.bulk.bad = FALSE, !.bulk.touched = FALSE]
    /\ UNCHANGED <<db, data, isError, fetch, calls, made, saved>>

\* "Confirmar" sends the form, not the preview.
ConfirmBulk ==
    /\ BulkPreview /\ ~ui.bulk.bad
    /\ made < MaxCalls /\ made' = made + 1
    /\ calls' = Mutate(calls, Call(BulkMut, ui.bulk.params, ui.selected))
    /\ UNCHANGED <<db, data, isError, fetch, saved, ui>>

\* A bulk change that succeeded closes the modal and clears the selection.
BulkAnswers(c) ==
    /\ c.observer = BulkMut
    /\ \/ /\ Succeeded(c) /\ saved' = saved \cup {c.n} /\ RefetchGrid
          /\ ui' = [ui EXCEPT !.modal = "none", !.selected = {}, !.bulk = NoBulk]
          /\ calls' = Unmount(calls \ {c}, {PreviewMut, BulkMut})
       \/ Failed(c) /\ calls' = calls \ {c} /\ UNCHANGED <<saved, fetch, ui>>
    /\ UNCHANGED <<db, data, isError, made>>

CloseBulk ==
    /\ BulkForm
    /\ ui' = [ui EXCEPT !.modal = "none", !.bulk = NoBulk]
    /\ calls' = Unmount(calls, {PreviewMut, BulkMut})
    /\ UNCHANGED <<db, data, isError, fetch, made, saved>>

-----------------------------------------------------------------------------
(* The server, other sessions and the background fetch.                    *)

ServerTakes(c) ==
    /\ c.st = "sent"
    /\ \/ calls' = Served(c, "refused") /\ UNCHANGED db
       \/ /\ calls' = Served(c, "done")
          /\ db' = [u \in Units |-> IF u \in c.units THEN db[u] \cup {c.n} ELSE db[u]]
    /\ UNCHANGED <<data, isError, fetch, made, saved, ui>>

Unheard(c) ==
    /\ Overheard(c) /\ calls' = calls \ {c}
    /\ UNCHANGED <<db, data, isError, fetch, made, saved, ui>>

OtherSession(u) ==
    /\ made < MaxCalls /\ made' = made + 1
    /\ db' = [db EXCEPT ![u] = @ \cup {made}]
    /\ UNCHANGED <<data, isError, fetch, calls, saved, ui>>

FetchStarts == StartFetch /\ UNCHANGED <<db, data, isError, calls, made, saved, ui>>

ListForProject == ServerReads /\ UNCHANGED <<db, data, isError, calls, made, saved, ui>>

FetchLands ==
    /\ fetch.read # {} /\ data' \in fetch.read
    /\ isError' = FALSE /\ fetch' = NoFetch
    /\ UNCHANGED <<db, calls, made, saved, ui>>

\* The error page unmounts the cells and the modals; which modal is open and
\* what is selected belong to the page and stay.
FetchFails ==
    /\ fetch.on /\ fetch' = NoFetch /\ isError' = TRUE
    /\ calls' = Unmount(calls, Observers)
    /\ ui' = [ui EXCEPT !.cells = FreshCells, !.wizard = NoWizard, !.bulk = NoBulk,
                        !.reads = Orphaned(@)]
    /\ UNCHANGED <<db, data, made, saved>>

Next ==
    \/ \E u \in Units : \/ BeginEdit(u) \/ EndEdit(u) \/ CommitPrice(u) \/ SavedTimer(u)
                        \/ ChangeEstado(u) \/ OtherSession(u)
                        \/ \E c \in calls : PriceAnswers(u, c) \/ EstadoAnswers(u, c)
    \/ \E units \in SUBSET Units : Select(units)
    \/ \E modal \in {"import", "bulk"} : Open(modal)
    \/ \E f \in Files : HandleFile(f)
    \/ \E r \in ui.reads : ReadEnds(r)
    \/ ConfirmApply \/ CloseImport
    \/ \E p \in Params : EditForm(p)
    \/ RunPreview \/ CancelPreview \/ ConfirmBulk \/ CloseBulk
    \/ \E c \in calls : \/ ServerTakes(c) \/ Unheard(c) \/ DryRunAnswers(c) \/ ImportAnswers(c)
                        \/ PreviewAnswers(c) \/ BulkAnswers(c)
    \/ FetchStarts \/ ListForProject \/ FetchLands \/ FetchFails

Spec == Init /\ [][Next]_pageVars

-----------------------------------------------------------------------------
(* Properties.                                                             *)

\* Once a write was reported as saved and the refetch it started is done, the
\* grid shows it, whatever fetches were in flight when it was committed.
SavedIsShown == ~fetch.on /\ ~isError => saved \subseteq UNION {data[u] : u \in Units}

\* A cell that says "Guardando" will hear an answer that ends it.
NothingSpinsForever ==
    \A u \in Units : /\ ui.cells.precio[u] = "saving" => Pending(PrecioOf(u))
                     /\ ui.cells.estado[u] = "saving" => Pending(EstadoOf(u))

\* The confirm buttons send what the screen shows, an import the file of the
\* report and a bulk change the parameters of the preview, unless a file was
\* dropped, or the form edited, while the report or preview was under way.
ConfirmsTheReviewed ==
    /\ ui.wizard.report # Nothing /\ ~ui.wizard.mixed => ui.wizard.report = ui.wizard.file
    /\ ui.bulk.preview # Nothing /\ ~ui.bulk.touched => ui.bulk.preview = ui.bulk.params

-----------------------------------------------------------------------------
(* The inductive invariant.                                                 *)

\* One call of an observer is heard; a write names the units it is about.
CallsInv ==
    /\ \A c, d \in calls : c.heard /\ d.heard /\ c.observer = d.observer => c = d
    /\ \A c \in calls : c.observer \in Writers => c.units # {}
    /\ ui.modal = "bulk" => ui.selected # {}

\* What was reported as saved is with the server, in what a fetch read since,
\* and on screen once nothing is being fetched.
SavedInv ==
    /\ \A c \in calls : c.st = "done" => \A u \in c.units : c.n \in db[u]
    /\ saved \subseteq UNION {db[u] : u \in Units}
    /\ \A rows \in fetch.read : saved \subseteq UNION {rows[u] : u \in Units}
    /\ SavedIsShown

\* What a report on its way will be about, and a preview.
WizardInv ==
    /\ ~ui.wizard.mixed =>
           /\ \A r \in ui.reads : r.mounted /\ r.use = DryRunMut => r.file = ui.wizard.file
           /\ \A c \in calls : c.observer = DryRunMut /\ c.heard => c.what = ui.wizard.file
    /\ ui.wizard.report # Nothing /\ ~ui.wizard.mixed => ui.wizard.report = ui.wizard.file

BulkInv ==
    /\ ~ui.bulk.touched =>
           \A c \in calls : c.observer = PreviewMut /\ c.heard => c.what = ui.bulk.params
    /\ ui.bulk.preview # Nothing => ~Pending(PreviewMut)
    /\ ui.bulk.preview # Nothing /\ ~ui.bulk.touched => ui.bulk.preview = ui.bulk.params

GridInv == TypeOK /\ CallsInv /\ SavedInv /\ WizardInv /\ BulkInv /\ NothingSpinsForever

=============================================================================
