------------------------------ MODULE MCBrowser ------------------------------
(* A browser tab at one of the four pages that keep state of their own: the  *)
(* public simulator, and the board, the grid and the editor of the panel.    *)
EXTENDS CotizadorClient

CONSTANTS
    MaxCalls,
    Leads, NoLead, Abiertos, Cierres,
    Units, Files, Params, Nothing,
    Floors, Departamentos, Good, Bad, NoShape, NoTarget, MaxPoints

VARIABLES
    page,                                                  \* which page the tab is at
    db, data, isError, fetch, calls, made, saved, ui,      \* PanelPage
    doubt, clears                                          \* ghosts of LeadsBoard

FloorOf == [d \in Departamentos |-> CHOOSE f \in Floors : TRUE]

Board == INSTANCE LeadsBoard
Grid == INSTANCE UnitsPage
Editor == INSTANCE HotspotsEditor WITH Units <- Departamentos

ASSUME BrowserAssumption ==
    Board!LeadsBoardAssumption /\ Grid!UnitsPageAssumption /\ Editor!HotspotsAssumption

panelVars == <<db, data, isError, fetch, calls, made, saved, ui>>
ghostVars == <<doubt, clears>>

BrowserInit ==
    \/ /\ page = "cotizar" /\ Init
       /\ db = {} /\ data = {} /\ isError = FALSE /\ fetch = {} /\ calls = {} /\ made = 0
       /\ saved = {} /\ ui = {} /\ doubt = {} /\ clears = {}
    \/ /\ Init /\ sel = NoSelection
       /\ \/ page = "leads" /\ Board!Init
          \/ page = "unidades" /\ Grid!Init /\ doubt = {} /\ clears = {}
          \/ page = "hotspots" /\ Editor!Init /\ doubt = {} /\ clears = {}

BrowserNext ==
    \/ page = "cotizar" /\ Next /\ UNCHANGED <<page, panelVars, ghostVars>>
    \/ page = "leads" /\ Board!Next /\ UNCHANGED <<page, vars>>
    \/ page = "unidades" /\ Grid!Next /\ UNCHANGED <<page, vars, ghostVars>>
    \/ page = "hotspots" /\ Editor!Next /\ UNCHANGED <<page, vars, ghostVars>>

BrowserSpec == BrowserInit /\ [][BrowserNext]_<<page, vars, panelVars, ghostVars>>

-----------------------------------------------------------------------------
(* The invariants of the panel's pages, each at its page; those of the      *)
(* simulator are invariants at every page.                                   *)

\* A quiet board shows what the server has, but for the leads in doubt
\* (SettledBoardIsServer of LeadsBoard).
SettledBoardIsServer == page = "leads" => Board!SettledBoardIsServer

\* What the grid or the editor reported as saved is shown once its refetch is
\* done (SavedIsShown of UnitsPage and of HotspotsEditor).
SavedIsShown ==
    /\ page = "unidades" => Grid!SavedIsShown
    /\ page = "hotspots" => Editor!SavedIsShown

\* A cell that says it is saving waits for an answer it will hear
\* (NothingSpinsForever of UnitsPage).
NothingSpinsForever == page = "unidades" => Grid!NothingSpinsForever

\* The confirm buttons of the wizard and of the bulk edit send what the
\* operator reviewed (ConfirmsTheReviewed of UnitsPage).
ConfirmsTheReviewed == page = "unidades" => Grid!ConfirmsTheReviewed

\* Only the operator, or the delete of the very target, changes a drawing
\* (DrawingIsKept of HotspotsEditor).
DrawingIsKept == page = "hotspots" => Editor!DrawingIsKept

=============================================================================
