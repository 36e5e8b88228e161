------------------------------- MODULE Leads -------------------------------
(***************************************************************************)
(* The leads router: create, updateEstado and addNote as the transactions  *)
(* they are.  withTenant runs each mutation in one READ COMMITTED          *)
(* transaction: a SELECT without a lock, the new timeline built in         *)
(* JavaScript, an UPDATE that takes the row lock and keeps it until the    *)
(* commit, and for a transition the INSERT of its audit event.             *)
(*                                                                         *)
(* Data: author and text of a note are left out; an entry is told apart by *)
(* its ts, a clock that advances at every stamp.  Rows of other projects   *)
(* and tenants, invisible under RLS, are leads that do not exist yet.      *)
(***************************************************************************)
EXTENDS Naturals, Sequences, FiniteSets

CONSTANTS
    Leads,    \* lead ids
    Calls,    \* mutation calls, each made once
    MaxTs,    \* bound: stamps are 1..MaxTs
    Serial    \* TRUE: a mutation of a lead starts after the previous one ended

ASSUME LeadsAssumption ==
    Serial \in BOOLEAN /\ MaxTs \in Nat /\ IsFiniteSet(Calls)

VARIABLES
    leads,    \* the leads table, committed versions
    events,   \* number of lead_estado_changed rows
    calls,    \* the mutations in flight
    reloj     \* the clock of the panel's server

vars == <<leads, events, calls, reloj>>

Estados == {"nuevo", "contactado", "negociacion", "cerrado"}
Desenlaces == {"ganado", "perdido"}
Null == "null"

\* "alta": the t=0 note; "mov": an auto-note; "nota": a free-text note.
Entry == [tipo: {"alta", "mov", "nota"}, ts: 1..MaxTs,
          prev: Estados \cup {Null}, nuevo: Estados \cup {Null}]

Nota(tipo, ts) == [tipo |-> tipo, ts |-> ts, prev |-> Null, nuevo |-> Null]
Mov(ts, prev, nuevo) == [tipo |-> "mov", ts |-> ts, prev |-> prev, nuevo |-> nuevo]

Lead == [estado: Estados, desenlace: Desenlaces \cup {Null}, timeline: Seq(Entry)]
Exists(l) == leads[l].timeline # <<>>

\* estado and desenlace: what the UPDATE will set (Null for a note, which
\* sets the timeline alone); timeline: the array built from the SELECT.
Call == [pc: {"new", "read", "updated", "audited", "committed", "error"},
         tipo: {"mov", "nota"}, lead: Leads \cup {Null},
         estado: Estados \cup {Null}, desenlace: Desenlaces \cup {Null},
         timeline: Seq(Entry)]

NewCall == [pc |-> "new", tipo |-> "nota", lead |-> Null, estado |-> Null,
            desenlace |-> Null, timeline |-> <<>>]

TypeOK ==
    /\ leads \in [Leads -> Lead]
    /\ events \in Nat
    /\ calls \in [Calls -> Call]
    /\ reloj \in 0..MaxTs

Init ==
    /\ leads = [l \in Leads |->
                  [estado |-> "nuevo", desenlace |-> Null, timeline |-> <<>>]]
    /\ events = 0
    /\ calls = [c \in Calls |-> NewCall]
    /\ reloj = 0

InFlight(c) == calls[c].pc \in {"read", "updated", "audited"}
HoldsRow(c) == calls[c].pc \in {"updated", "audited"}
Involved(l) == {c \in Calls : InFlight(c) /\ calls[c].lead = l}

MayStart(c, l) ==
    /\ calls[c].pc = "new" /\ reloj < MaxTs
    /\ Serial => Involved(l) = {}

-----------------------------------------------------------------------------
\* leads.create: one INSERT that seeds the timeline.
Create(l) ==
    /\ ~Exists(l) /\ reloj < MaxTs
    /\ leads' = [leads EXCEPT ![l].timeline = <<Nota("alta", reloj + 1)>>]
    /\ reloj' = reloj + 1
    /\ UNCHANGED <<events, calls>>

\* Mutant of SelectForMove: a desenlace sent along with any destination stays.
SelectForMove_KeepDesenlace(c, l, estado, desenlace) ==
    /\ MayStart(c, l) /\ Exists(l)
    /\ estado = "cerrado" => desenlace # Null
    /\ calls' = [calls EXCEPT ![c] =
         [pc |-> "read", tipo |-> "mov", lead |-> l, estado |-> estado,
          desenlace |-> desenlace,
          timeline |-> Append(leads[l].timeline,
                              Mov(reloj + 1, leads[l].estado, estado))]]
    /\ reloj' = reloj + 1
    /\ UNCHANGED <<leads, events>>

\* Mutant of SelectForMove: the refine accepts a close without desenlace.
SelectForMove_NoRefine(c, l, estado, desenlace) ==
    /\ MayStart(c, l) /\ Exists(l)
    /\ calls' = [calls EXCEPT ![c] =
         [pc |-> "read", tipo |-> "mov", lead |-> l, estado |-> estado,
          desenlace |-> IF estado = "cerrado" THEN desenlace ELSE Null,
          timeline |-> Append(leads[l].timeline,
                              Mov(reloj + 1, leads[l].estado, estado))]]
    /\ reloj' = reloj + 1
    /\ UNCHANGED <<leads, events>>

\* updateEstado up to the auto-note: the refine, the SELECT of the current
\* row (NOT_FOUND without one), the desenlace, the stamped entry.
SelectForMove(c, l, estado, desenlace) ==
    /\ MayStart(c, l) /\ Exists(l)
    /\ estado = "cerrado" => desenlace # Null
    /\ calls' = [calls EXCEPT ![c] =
         [pc |-> "read", tipo |-> "mov", lead |-> l, estado |-> estado,
          desenlace |-> IF estado = "cerrado" THEN desenlace ELSE Null,
          timeline |-> Append(leads[l].timeline,
                              Mov(reloj + 1, leads[l].estado, estado))]]
    /\ reloj' = reloj + 1
    /\ UNCHANGED <<leads, events>>

\* Mutant of SelectForNote: the note goes in front, newest first.
SelectForNote_Prepend(c, l) ==
    /\ MayStart(c, l) /\ Exists(l)
    /\ calls' = [calls EXCEPT ![c] =
         [pc |-> "read", tipo |-> "nota", lead |-> l, estado |-> Null,
          desenlace |-> Null,
          timeline |-> <<Nota("nota", reloj + 1)>> \o leads[l].timeline]]
    /\ reloj' = reloj + 1
    /\ UNCHANGED <<leads, events>>

\* addNote up to its stamped note.
SelectForNote(c, l) ==
    /\ MayStart(c, l) /\ Exists(l)
    /\ calls' = [calls EXCEPT ![c] =
         [pc |-> "read", tipo |-> "nota", lead |-> l, estado |-> Null,
          desenlace |-> Null,
          timeline |-> Append(leads[l].timeline, Nota("nota", reloj + 1))]]
    /\ reloj' = reloj + 1
    /\ UNCHANGED <<leads, events>>

\* The UPDATE waits for the row lock; RETURNING finds the row, because a
\* lead is never deleted.
UpdateRow(c) ==
    /\ calls[c].pc = "read"
    /\ \A d \in Involved(calls[c].lead) : ~HoldsRow(d)
    /\ calls' = [calls EXCEPT ![c].pc = "updated"]
    /\ UNCHANGED <<leads, events, reloj>>

\* The audit row of a transition, in the same transaction.
InsertEvent(c) ==
    /\ calls[c].pc = "updated" /\ calls[c].tipo = "mov"
    /\ calls' = [calls EXCEPT ![c].pc = "audited"]
    /\ UNCHANGED <<leads, events, reloj>>

CommitMove(c) == LET call == calls[c] IN
    /\ call.pc = "audited"
    /\ leads' = [leads EXCEPT ![call.lead] =
                   [estado |-> call.estado, desenlace |-> call.desenlace,
                    timeline |-> call.timeline]]
    /\ events' = events + 1
    /\ calls' = [calls EXCEPT ![c].pc = "committed"]
    /\ UNCHANGED reloj

\* Mutant of CommitNote: the UPDATE of a note sets the whole row.
CommitNote_WholeRow(c) == LET call == calls[c] IN
    /\ call.pc = "updated" /\ call.tipo = "nota"
    /\ leads' = [leads EXCEPT ![call.lead] =
                   [estado |-> call.estado, desenlace |-> call.desenlace,
                    timeline |-> call.timeline]]
    /\ calls' = [calls EXCEPT ![c].pc = "committed"]
    /\ UNCHANGED <<events, reloj>>

CommitNote(c) == LET call == calls[c] IN
    /\ call.pc = "updated" /\ call.tipo = "nota"
    /\ leads' = [leads EXCEPT ![call.lead].timeline = call.timeline]
    /\ calls' = [calls EXCEPT ![c].pc = "committed"]
    /\ UNCHANGED <<events, reloj>>

\* Mutant of Rollback: the event was written outside the transaction.
Rollback_EventStays(c) ==
    /\ InFlight(c)
    /\ calls' = [calls EXCEPT ![c].pc = "error"]
    /\ events' = IF calls[c].pc = "audited" THEN events + 1 ELSE events
    /\ UNCHANGED <<leads, reloj>>

\* A statement fails or the connection drops: everything is undone.
Rollback(c) ==
    /\ InFlight(c)
    /\ calls' = [calls EXCEPT ![c].pc = "error"]
    /\ UNCHANGED <<leads, events, reloj>>

UpdateEstado(c) ==
    \/ \E l \in Leads, e \in Estados, d \in Desenlaces \cup {Null} :
         SelectForMove(c, l, e, d)
    \/ InsertEvent(c)
    \/ CommitMove(c)

AddNote(c) == (\E l \in Leads : SelectForNote(c, l)) \/ CommitNote(c)

Next ==
    \/ \E l \in Leads : Create(l)
    \/ \E c \in Calls : UpdateEstado(c) \/ AddNote(c) \/ UpdateRow(c) \/ Rollback(c)

Spec == Init /\ [][Next]_vars

-----------------------------------------------------------------------------
(* Properties.                                                             *)

\* The transitions a timeline shows.
Movs(t) == {e \in {t[i] : i \in DOMAIN t} : e.tipo = "mov"}

\* A lead has a desenlace exactly while it is cerrado, whichever mutations
\* overlap: a note saved over a move must not bring one back, and any move
\* out of cerrado clears it (leads.ts:16, 179).
DesenlaceSiiCerrado ==
    \A l \in Leads : leads[l].desenlace # Null <=> leads[l].estado = "cerrado"

\* Read in order, the timeline of a lead is in strict ts order and starts
\* with its creation: overlapping mutations never leave an entry twice nor
\* out of order (leads.ts:19).
TimelineSorted ==
    \A l \in Leads : LET t == leads[l].timeline IN
        /\ \A i, j \in DOMAIN t : i < j => t[i].ts < t[j].ts
        /\ \A i \in DOMAIN t : t[i].tipo = "alta" <=> i = 1

\* The audit trail never misses a transition a timeline shows, and has no
\* row for a transition that was rolled back (leads.ts:21-22).
AuditMatchesCommits ==
    /\ events = Cardinality({c \in Calls : calls[c].pc = "committed"
                                           /\ calls[c].tipo = "mov"})
    /\ \A l \in Leads : Cardinality(Movs(leads[l].timeline)) <= events

\* "the append-only timeline" (leads.ts:2): no mutation removes or rewrites
\* an entry that was committed.
TimelineAppendOnly ==
    [][\A l \in Leads : LET t == leads[l].timeline IN
         SubSeq(leads'[l].timeline, 1, Len(t)) = t]_vars

\* The pipeline state of a lead is the one its history tells.
Historia == INSTANCE LeadHistory WITH
    Stamps <- 1..MaxTs, Inicial <- "nuevo",
    historia <- [l \in Leads |-> leads[l].timeline],
    estado <- [l \in Leads |-> leads[l].estado]

\* Without overlapping mutations of a lead the router keeps the history the
\* panel shows: an append-only log whose transitions chain up to the state.
ImplementsHistory == Historia!Spec

-----------------------------------------------------------------------------
(* The inductive invariants behind the properties.                         *)

\* What a call in flight is about, once it has been started.
CallInv == \A c \in Calls :
    /\ InFlight(c) => /\ calls[c].lead \in Leads /\ Exists(calls[c].lead)
                      /\ calls[c].tipo = "mov" => calls[c].estado \in Estados
    /\ calls[c].pc = "audited" => calls[c].tipo = "mov"

\* An UPDATE that sets the estado sets the matching desenlace.
MoveInv ==
    /\ DesenlaceSiiCerrado
    /\ \A c \in Calls : InFlight(c) /\ calls[c].tipo = "mov" =>
         (calls[c].desenlace # Null <=> calls[c].estado = "cerrado")

Sorted(t) == \A i, j \in DOMAIN t : i < j => t[i].ts < t[j].ts
HeadIsAlta(t) == \A i \in DOMAIN t : t[i].tipo = "alta" <=> i = 1
Ordered(t, now) ==
    Sorted(t) /\ HeadIsAlta(t) /\ \A i \in DOMAIN t : t[i].ts <= now

\* Every timeline, stored or about to be, is sorted and stamped in the past.
OrderInv ==
    /\ \A l \in Leads : Ordered(leads[l].timeline, reloj)
    /\ \A c \in Calls : InFlight(c) =>
         Ordered(calls[c].timeline, reloj) /\ calls[c].timeline # <<>>

\* What a call read is still there when it commits, if mutations of one lead
\* do not overlap.
FreshInv ==
    Serial => \A c \in Calls : InFlight(c) => LET row == leads[calls[c].lead] IN
      /\ \A d \in Involved(calls[c].lead) : d = c
      /\ \E ts \in 1..MaxTs : calls[c].timeline = Append(row.timeline,
           IF calls[c].tipo = "mov" THEN Mov(ts, row.estado, calls[c].estado)
                                    ELSE Nota("nota", ts))

\* A call about to store a timeline adds at most its own transition to those
\* the audit trail already has: what it read was committed.
AuditInv ==
    /\ AuditMatchesCommits
    /\ \A c \in Calls : InFlight(c) =>
         Cardinality(Movs(calls[c].timeline)) <=
           events + (IF calls[c].tipo = "mov" THEN 1 ELSE 0)

LeadInv == TypeOK /\ CallInv /\ MoveInv /\ OrderInv

HistoryInv == LeadInv /\ AuditInv /\ FreshInv

=============================================================================
