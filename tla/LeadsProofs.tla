---------------------------- MODULE LeadsProofs ----------------------------
(***************************************************************************)
(* Proofs about Leads: types, the desenlace of a closed lead and the order *)
(* of the timeline for any overlap of mutations; the refinement of         *)
(* LeadHistory when the mutations of a lead do not overlap.                *)
(***************************************************************************)
EXTENDS Leads, SequenceTheorems, FiniteSetTheorems, TLAPS

-----------------------------------------------------------------------------
(* Entries and timelines.                                                  *)

LEMMA EntryType ==
    ASSUME NEW ts \in 1..MaxTs
    PROVE  /\ Nota("alta", ts) \in Entry
           /\ Nota("nota", ts) \in Entry
           /\ \A prev, nuevo \in Estados : Mov(ts, prev, nuevo) \in Entry
  BY DEF Nota, Mov, Entry

\* The stamp of a started mutation is a legal one.
LEMMA NextStamp ==
    ASSUME TypeOK, reloj < MaxTs
    PROVE  reloj + 1 \in 1..MaxTs /\ reloj + 1 \in 0..MaxTs
  BY LeadsAssumption, SMT DEF TypeOK, LeadsAssumption

LEMMA StampNat ==
    ASSUME NEW t \in Seq(Entry), NEW i \in DOMAIN t
    PROVE  t[i] \in Entry /\ t[i].ts \in Nat
  <1>1. DOMAIN t = 1..Len(t)
    BY LenProperties
  <1>2. t[i] \in Entry
    BY <1>1, ElementOfSeq
  <1>3. t[i].ts \in 1..MaxTs
    BY <1>2 DEF Entry
  <1>4. QED
    BY <1>2, <1>3, LeadsAssumption, SMT DEF LeadsAssumption

\* Appending an entry stamped after all others keeps a timeline in order.
LEMMA AppendOrdered ==
    ASSUME NEW t \in Seq(Entry), NEW e \in Entry, t # <<>>,
           Sorted(t), HeadIsAlta(t),
           \A i \in DOMAIN t : t[i].ts < e.ts, e.tipo # "alta"
    PROVE  /\ Append(t, e) \in Seq(Entry) /\ Append(t, e) # <<>>
           /\ Sorted(Append(t, e)) /\ HeadIsAlta(Append(t, e))
           /\ \A i \in DOMAIN Append(t, e) : Append(t, e)[i].ts <= e.ts
  <1> DEFINE u == Append(t, e)  n == Len(t)
  <1>1. n \in Nat /\ DOMAIN t = 1..n /\ n # 0
    BY EmptySeq, LenProperties
  <1>2. /\ u \in Seq(Entry) /\ Len(u) = n + 1 /\ DOMAIN u = 1..(n + 1)
        /\ \A i \in 1..n : u[i] = t[i]
        /\ u[n + 1] = e
    BY <1>1, AppendProperties, LenProperties
  <1>3. u # <<>>
    BY <1>1, <1>2, EmptySeq
  <1>4. \A i \in 1..n : t[i] \in Entry
    BY <1>1, ElementOfSeq
  <1>5. e.ts \in Nat /\ \A i \in 1..n : t[i].ts \in Nat
    BY <1>4, LeadsAssumption, SMT DEF Entry, LeadsAssumption
  <1>6. Sorted(u)
    <2>1. SUFFICES ASSUME NEW i \in 1..(n + 1), NEW j \in 1..(n + 1), i < j
                   PROVE  u[i].ts < u[j].ts
      BY <1>2 DEF Sorted
    <2>2. i \in 1..n
      BY <1>1, <2>1
    <2>3. CASE j \in 1..n
      BY <1>1, <1>2, <2>1, <2>2, <2>3 DEF Sorted
    <2>4. CASE j = n + 1
      BY <1>1, <1>2, <2>2, <2>4
    <2>5. QED
      BY <1>1, <2>3, <2>4
  <1>7. HeadIsAlta(u)
    <2>1. \A i \in 1..n : u[i].tipo = "alta" <=> i = 1
      BY <1>1, <1>2 DEF HeadIsAlta
    <2>2. u[n + 1].tipo # "alta" /\ n + 1 # 1
      BY <1>1, <1>2
    <2>3. QED
      BY <1>1, <1>2, <2>1, <2>2 DEF HeadIsAlta
  <1>8. \A i \in DOMAIN u : u[i].ts <= e.ts
    <2>1. \A i \in 1..n : u[i].ts < e.ts
      BY <1>1, <1>2
    <2>2. QED
      BY <1>1, <1>2, <1>5, <2>1
  <1>9. QED
    BY <1>2, <1>3, <1>6, <1>7, <1>8

-----------------------------------------------------------------------------
(* Types.                                                                  *)

LEMMA InitType == Init => TypeOK
  <1>1. <<>> \in Seq(Entry)
    BY EmptySeq
  <1>2. QED
    BY <1>1, LeadsAssumption, SMT
    DEF Init, TypeOK, Lead, Call, NewCall, Estados, Null, LeadsAssumption

\* Starting a call only installs a well-typed call and ticks the clock.
LEMMA StartType ==
    ASSUME TypeOK, NEW c \in Calls, NEW call \in Call,
           calls' = [calls EXCEPT ![c] = call], reloj < MaxTs,
           reloj' = reloj + 1, UNCHANGED <<leads, events>>
    PROVE  TypeOK'
  <1>1. reloj' \in 0..MaxTs
    BY NextStamp
  <1>2. calls' \in [Calls -> Call]
    BY DEF TypeOK
  <1>3. QED
    BY <1>1, <1>2 DEF TypeOK

\* Every other step of a call only moves its program counter.
LEMMA PcType ==
    ASSUME TypeOK, NEW c \in Calls,
           NEW pc \in {"updated", "audited", "committed", "error"},
           calls' = [calls EXCEPT ![c].pc = pc]
    PROVE  /\ calls' \in [Calls -> Call]
           /\ calls'[c].pc = pc /\ calls'[c].lead = calls[c].lead
           /\ calls'[c].tipo = calls[c].tipo
           /\ calls'[c].estado = calls[c].estado
           /\ calls'[c].desenlace = calls[c].desenlace
           /\ calls'[c].timeline = calls[c].timeline
           /\ \A d \in Calls : d # c => calls'[d] = calls[d]
  <1>1. calls[c] \in Call
    BY DEF TypeOK
  <1>2. [calls[c] EXCEPT !.pc = pc] \in Call
    BY <1>1 DEF Call
  <1>3. calls' = [calls EXCEPT ![c] = [calls[c] EXCEPT !.pc = pc]]
    OBVIOUS
  <1>4. calls' \in [Calls -> Call]
    BY <1>2, <1>3 DEF TypeOK
  <1>5. calls'[c] = [calls[c] EXCEPT !.pc = pc]
    BY DEF TypeOK
  <1>6. \A d \in Calls : d # c => calls'[d] = calls[d]
    BY DEF TypeOK
  <1>7. QED
    BY <1>1, <1>4, <1>5, <1>6 DEF Call

\* The calls that SelectForMove and SelectForNote start.
LEMMA MoveCall ==
    ASSUME TypeOK, NEW c \in Calls, NEW l \in Leads, NEW e \in Estados,
           NEW d \in Desenlaces \cup {Null}, SelectForMove(c, l, e, d)
    PROVE  /\ reloj < MaxTs /\ reloj' = reloj + 1 /\ UNCHANGED <<leads, events>>
           /\ \E call \in Call :
                /\ calls' = [calls EXCEPT ![c] = call]
                /\ call.pc = "read" /\ call.tipo = "mov" /\ call.lead = l
                /\ call.estado = e
                /\ call.desenlace # Null <=> e = "cerrado"
                /\ call.timeline = Append(leads[l].timeline,
                                          Mov(reloj + 1, leads[l].estado, e))
  <1> DEFINE t == Append(leads[l].timeline, Mov(reloj + 1, leads[l].estado, e))
             dd == IF e = "cerrado" THEN d ELSE Null
             call == [pc |-> "read", tipo |-> "mov", lead |-> l, estado |-> e,
                      desenlace |-> dd, timeline |-> t]
  <1>1. reloj < MaxTs /\ reloj' = reloj + 1 /\ UNCHANGED <<leads, events>>
    BY DEF SelectForMove, MayStart
  <1>2. leads[l].estado \in Estados /\ leads[l].timeline \in Seq(Entry)
    BY DEF TypeOK, Lead
  <1>3. Mov(reloj + 1, leads[l].estado, e) \in Entry
    BY <1>1, <1>2, NextStamp, EntryType
  <1>4. t \in Seq(Entry)
    BY <1>2, <1>3, AppendProperties
  <1>5. dd \in Desenlaces \cup {Null} /\ (dd # Null <=> e = "cerrado")
    BY DEF SelectForMove
  <1>6. call \in Call
    BY <1>4, <1>5 DEF Call
  <1>7. calls' = [calls EXCEPT ![c] = call]
    BY DEF SelectForMove
  <1> HIDE DEF t, dd
  <1>8. call.pc = "read" /\ call.tipo = "mov" /\ call.lead = l /\ call.estado = e
        /\ call.desenlace = dd /\ call.timeline = t
    OBVIOUS
  <1> HIDE DEF call
  <1>9. QED
    BY <1>1, <1>5, <1>6, <1>7, <1>8 DEF t

LEMMA NoteCall ==
    ASSUME TypeOK, NEW c \in Calls, NEW l \in Leads, SelectForNote(c, l)
    PROVE  /\ reloj < MaxTs /\ reloj' = reloj + 1 /\ UNCHANGED <<leads, events>>
           /\ \E call \in Call :
                /\ calls' = [calls EXCEPT ![c] = call]
                /\ call.pc = "read" /\ call.tipo = "nota" /\ call.lead = l
                /\ call.timeline = Append(leads[l].timeline, Nota("nota", reloj + 1))
  <1> DEFINE t == Append(leads[l].timeline, Nota("nota", reloj + 1))
             call == [pc |-> "read", tipo |-> "nota", lead |-> l, estado |-> Null,
                      desenlace |-> Null, timeline |-> t]
  <1>1. reloj < MaxTs /\ reloj' = reloj + 1 /\ UNCHANGED <<leads, events>>
    BY DEF SelectForNote, MayStart
  <1>2. leads[l].timeline \in Seq(Entry)
    BY DEF TypeOK, Lead
  <1>3. Nota("nota", reloj + 1) \in Entry
    BY <1>1, NextStamp, EntryType
  <1>4. t \in Seq(Entry)
    BY <1>2, <1>3, AppendProperties
  <1>6. call \in Call
    BY <1>4 DEF Call
  <1>7. calls' = [calls EXCEPT ![c] = call]
    BY DEF SelectForNote
  <1> HIDE DEF t
  <1>8. call.pc = "read" /\ call.tipo = "nota" /\ call.lead = l /\ call.timeline = t
    OBVIOUS
  <1> HIDE DEF call
  <1>9. QED
    BY <1>1, <1>6, <1>7, <1>8 DEF t

-----------------------------------------------------------------------------
(* The invariant of every overlap.                                         *)

LEMMA OrderedLater ==
    ASSUME NEW t \in Seq(Entry), Ordered(t, reloj), TypeOK, reloj' = reloj + 1
    PROVE  Ordered(t, reloj')
  <1>1. reloj \in Nat /\ reloj < reloj'
    BY LeadsAssumption, SMT DEF TypeOK, LeadsAssumption
  <1>2. \A i \in DOMAIN t : t[i].ts \in Nat
    BY StampNat
  <1>3. QED
    BY <1>1, <1>2, SMT DEF Ordered

\* SelectForMove and SelectForNote keep the invariant.
LEMMA StartInv ==
    ASSUME LeadInv, NEW c \in Calls, NEW l \in Leads, Exists(l),
           NEW e \in Entry, e.ts = reloj + 1, e.tipo # "alta",
           NEW call \in Call, call.pc = "read", call.lead = l,
           call.timeline = Append(leads[l].timeline, e),
           call.tipo = "mov" => /\ call.estado \in Estados
                                /\ call.desenlace # Null <=> call.estado = "cerrado",
           calls' = [calls EXCEPT ![c] = call], reloj < MaxTs,
           reloj' = reloj + 1, UNCHANGED <<leads, events>>
    PROVE  LeadInv'
  <1>1. TypeOK'
    BY StartType DEF LeadInv
  <1>2. calls'[c] = call /\ \A d \in Calls : d # c => calls'[d] = calls[d]
    BY DEF LeadInv, TypeOK
  <1>3. CallInv'
    BY <1>2 DEF LeadInv, CallInv, InFlight, Exists
  <1>4. MoveInv'
    BY <1>2 DEF LeadInv, MoveInv, DesenlaceSiiCerrado, InFlight
  <1>5. OrderInv'
    <2>1. /\ \A k \in Leads : leads[k].timeline \in Seq(Entry)
          /\ \A d \in Calls : calls[d].timeline \in Seq(Entry)
      BY DEF LeadInv, TypeOK, Lead, Call
    <2>2. \A k \in Leads : Ordered(leads'[k].timeline, reloj')
      BY <2>1, OrderedLater DEF LeadInv, OrderInv
    <2>3. \A d \in Calls : d # c /\ InFlight(d)' =>
            Ordered(calls'[d].timeline, reloj') /\ calls'[d].timeline # <<>>
      BY <1>2, <2>1, OrderedLater DEF LeadInv, OrderInv, InFlight
    <2>4. Ordered(call.timeline, reloj') /\ call.timeline # <<>>
      <3>1. leads[l].timeline # <<>> /\ Sorted(leads[l].timeline)
            /\ HeadIsAlta(leads[l].timeline)
        BY DEF LeadInv, OrderInv, Ordered, Exists
      <3>2. \A i \in DOMAIN leads[l].timeline : leads[l].timeline[i].ts < e.ts
        <4>1. \A i \in DOMAIN leads[l].timeline : leads[l].timeline[i].ts \in Nat
          BY <2>1, StampNat
        <4>2. reloj \in Nat
          BY LeadsAssumption, SMT DEF LeadInv, TypeOK, LeadsAssumption
        <4>3. \A i \in DOMAIN leads[l].timeline : leads[l].timeline[i].ts <= reloj
          BY DEF LeadInv, OrderInv, Ordered
        <4>4. QED
          BY <4>1, <4>2, <4>3, SMT
      <3>3. QED
        BY <2>1, <3>1, <3>2, AppendOrdered DEF Ordered
    <2>5. QED
      BY <1>2, <2>2, <2>3, <2>4 DEF OrderInv
  <1>6. QED
    BY <1>1, <1>3, <1>4, <1>5 DEF LeadInv

\* A step that only moves the program counter of a call in flight.
LEMMA PcInv ==
    ASSUME LeadInv, NEW c \in Calls, InFlight(c),
           NEW pc \in {"updated", "audited", "committed", "error"},
           pc = "audited" => calls[c].tipo = "mov",
           calls' = [calls EXCEPT ![c].pc = pc], UNCHANGED <<leads, events, reloj>>
    PROVE  LeadInv'
  <1>1. TypeOK
    BY DEF LeadInv
  <1>2. /\ calls'[c].pc = pc /\ calls'[c].lead = calls[c].lead
        /\ calls'[c].tipo = calls[c].tipo
        /\ calls'[c].estado = calls[c].estado
        /\ calls'[c].desenlace = calls[c].desenlace
        /\ calls'[c].timeline = calls[c].timeline
        /\ \A d \in Calls : d # c => calls'[d] = calls[d]
    BY <1>1, PcType
  <1>3. TypeOK'
    BY <1>1, PcType DEF TypeOK
  <1>4. CallInv'
    BY <1>2 DEF LeadInv, CallInv, InFlight, Exists
  <1>5. MoveInv'
    BY <1>2 DEF LeadInv, MoveInv, DesenlaceSiiCerrado, InFlight
  <1>6. OrderInv'
    BY <1>2 DEF LeadInv, OrderInv, InFlight
  <1>7. QED
    BY <1>3, <1>4, <1>5, <1>6 DEF LeadInv

\* A commit installs a row whose timeline is the one its call prepared.
LEMMA CommitInv ==
    ASSUME LeadInv, NEW c \in Calls, InFlight(c), NEW row \in Lead,
           row.desenlace # Null <=> row.estado = "cerrado",
           row.timeline = calls[c].timeline,
           leads' = [leads EXCEPT ![calls[c].lead] = row],
           calls' = [calls EXCEPT ![c].pc = "committed"],
           events' \in Nat, UNCHANGED reloj
    PROVE  LeadInv'
  <1> DEFINE l == calls[c].lead
  <1>1. TypeOK /\ l \in Leads
    BY DEF LeadInv, CallInv
  <1>2. /\ calls' \in [Calls -> Call] /\ calls'[c].pc = "committed"
        /\ \A d \in Calls : d # c => calls'[d] = calls[d]
    BY <1>1, PcType
  <1>3. leads'[l] = row /\ \A k \in Leads : k # l => leads'[k] = leads[k]
    BY <1>1 DEF TypeOK
  <1>4. TypeOK'
    BY <1>1, <1>2 DEF TypeOK
  <1>5. row.timeline # <<>> /\ Ordered(row.timeline, reloj)
    BY DEF LeadInv, OrderInv
  <1> HIDE DEF l
  <1>6. CallInv'
    BY <1>2, <1>3, <1>5 DEF LeadInv, CallInv, InFlight, Exists
  <1>7. MoveInv'
    BY <1>2, <1>3 DEF LeadInv, MoveInv, DesenlaceSiiCerrado, InFlight
  <1>8. OrderInv'
    BY <1>2, <1>3, <1>5 DEF LeadInv, OrderInv, InFlight
  <1>9. QED
    BY <1>4, <1>6, <1>7, <1>8 DEF LeadInv

LEMMA CreateInv ==
    ASSUME LeadInv, NEW l \in Leads, Create(l)
    PROVE  LeadInv'
  <1> DEFINE alta == Nota("alta", reloj + 1)
  <1>1. TypeOK /\ reloj < MaxTs /\ reloj' = reloj + 1 /\ UNCHANGED <<events, calls>>
    BY DEF LeadInv, Create
  <1>2. alta \in Entry
    BY <1>1, NextStamp, EntryType
  <1>3. /\ <<alta>> \in Seq(Entry) /\ <<alta>> # <<>>
        /\ DOMAIN <<alta>> = {1} /\ <<alta>>[1] = alta
    BY <1>2, SMT
  <1>4. alta.tipo = "alta" /\ alta.ts = reloj'
    BY <1>1 DEF Nota
  <1> HIDE DEF alta
  <1>5. leads' = [leads EXCEPT ![l] = [leads[l] EXCEPT !.timeline = <<alta>>]]
    BY DEF Create, alta
  <1>6. leads[l] \in Lead
    BY <1>1 DEF TypeOK
  <1>7. [leads[l] EXCEPT !.timeline = <<alta>>] \in Lead
    BY <1>3, <1>6 DEF Lead
  <1>8. /\ leads'[l].timeline = <<alta>>
        /\ leads'[l].estado = leads[l].estado
        /\ leads'[l].desenlace = leads[l].desenlace
        /\ \A k \in Leads : k # l => leads'[k] = leads[k]
    BY <1>1, <1>5, <1>6 DEF TypeOK, Lead
  <1>9. TypeOK'
    <2>1. reloj' \in 0..MaxTs
      BY <1>1, NextStamp
    <2>2. leads' \in [Leads -> Lead]
      BY <1>1, <1>5, <1>7 DEF TypeOK
    <2>3. QED
      BY <1>1, <2>1, <2>2 DEF TypeOK
  <1>10. CallInv'
    BY <1>1, <1>3, <1>8 DEF LeadInv, CallInv, InFlight, Exists
  <1>11. MoveInv'
    BY <1>1, <1>8 DEF LeadInv, MoveInv, DesenlaceSiiCerrado, InFlight
  <1>12. OrderInv'
    <2>1. Ordered(<<alta>>, reloj')
      <3>1. reloj' \in Nat
        BY <1>1, LeadsAssumption, SMT DEF TypeOK, LeadsAssumption
      <3>2. QED
        BY <1>3, <1>4, <3>1 DEF Ordered, Sorted, HeadIsAlta
    <2>2. /\ \A k \in Leads : leads[k].timeline \in Seq(Entry)
          /\ \A d \in Calls : calls[d].timeline \in Seq(Entry)
      BY <1>1 DEF TypeOK, Lead, Call
    <2>3. \A k \in Leads : k # l => Ordered(leads'[k].timeline, reloj')
      BY <1>1, <1>8, <2>2, OrderedLater DEF LeadInv, OrderInv
    <2>4. \A d \in Calls : InFlight(d)' =>
            Ordered(calls'[d].timeline, reloj') /\ calls'[d].timeline # <<>>
      BY <1>1, <2>2, OrderedLater DEF LeadInv, OrderInv, InFlight
    <2>5. QED
      BY <1>8, <2>1, <2>3, <2>4 DEF OrderInv
  <1>13. QED
    BY <1>9, <1>10, <1>11, <1>12 DEF LeadInv

LEMMA LeadStep == LeadInv /\ [Next]_vars => LeadInv'
  <1> SUFFICES ASSUME LeadInv, [Next]_vars
               PROVE  LeadInv'
    OBVIOUS
  <1>0. TypeOK
    BY DEF LeadInv
  <1>1. ASSUME NEW l \in Leads, Create(l) PROVE LeadInv'
    BY <1>1, CreateInv
  <1>2. ASSUME NEW c \in Calls, NEW l \in Leads, NEW e \in Estados,
               NEW d \in Desenlaces \cup {Null}, SelectForMove(c, l, e, d)
        PROVE  LeadInv'
    <2> DEFINE m == Mov(reloj + 1, leads[l].estado, e)
    <2>1. reloj < MaxTs /\ reloj' = reloj + 1 /\ UNCHANGED <<leads, events>> /\ Exists(l)
      BY <1>0, <1>2, MoveCall DEF SelectForMove
    <2>2. PICK call \in Call :
             /\ calls' = [calls EXCEPT ![c] = call]
             /\ call.pc = "read" /\ call.tipo = "mov" /\ call.lead = l
             /\ call.estado = e /\ (call.desenlace # Null <=> e = "cerrado")
             /\ call.timeline = Append(leads[l].timeline, m)
      BY <1>0, <1>2, MoveCall
    <2>3. m \in Entry
      BY <1>0, <2>1, NextStamp, EntryType DEF TypeOK, Lead
    <2>4. m.ts = reloj + 1 /\ m.tipo # "alta"
      BY DEF Mov
    <2> HIDE DEF m
    <2>5. QED
      BY <2>1, <2>2, <2>3, <2>4, StartInv
  <1>3. ASSUME NEW c \in Calls, NEW l \in Leads, SelectForNote(c, l) PROVE LeadInv'
    <2> DEFINE n == Nota("nota", reloj + 1)
    <2>1. reloj < MaxTs /\ reloj' = reloj + 1 /\ UNCHANGED <<leads, events>> /\ Exists(l)
      BY <1>0, <1>3, NoteCall DEF SelectForNote
    <2>2. PICK call \in Call :
             /\ calls' = [calls EXCEPT ![c] = call]
             /\ call.pc = "read" /\ call.tipo = "nota" /\ call.lead = l
             /\ call.timeline = Append(leads[l].timeline, n)
      BY <1>0, <1>3, NoteCall
    <2>3. n \in Entry
      BY <1>0, <2>1, NextStamp, EntryType
    <2>4. n.ts = reloj + 1 /\ n.tipo # "alta"
      BY DEF Nota
    <2> HIDE DEF n
    <2>5. QED
      BY <2>1, <2>2, <2>3, <2>4, StartInv
  <1>4. ASSUME NEW c \in Calls, UpdateRow(c) PROVE LeadInv'
    BY <1>4, PcInv DEF UpdateRow, InFlight
  <1>5. ASSUME NEW c \in Calls, InsertEvent(c) PROVE LeadInv'
    BY <1>5, PcInv DEF InsertEvent, InFlight
  <1>6. ASSUME NEW c \in Calls, Rollback(c) PROVE LeadInv'
    BY <1>6, PcInv DEF Rollback
  <1>7. ASSUME NEW c \in Calls, CommitMove(c) PROVE LeadInv'
    <2> DEFINE row == [estado |-> calls[c].estado, desenlace |-> calls[c].desenlace,
                       timeline |-> calls[c].timeline]
    <2>1. InFlight(c) /\ calls[c].tipo = "mov"
      BY <1>7 DEF CommitMove, InFlight, LeadInv, CallInv
    <2>2. calls[c].estado \in Estados /\ calls[c] \in Call
      BY <1>0, <2>1 DEF LeadInv, CallInv, TypeOK
    <2>3. row \in Lead
      BY <2>2 DEF Lead, Call
    <2>4. row.timeline = calls[c].timeline /\ (row.desenlace # Null <=> row.estado = "cerrado")
      BY <2>1 DEF LeadInv, MoveInv
    <2>5. /\ leads' = [leads EXCEPT ![calls[c].lead] = row]
          /\ calls' = [calls EXCEPT ![c].pc = "committed"]
          /\ UNCHANGED reloj
      BY <1>7 DEF CommitMove
    <2>6. events' \in Nat
      BY <1>0, <1>7 DEF CommitMove, TypeOK
    <2> HIDE DEF row
    <2>7. QED
      BY <2>1, <2>3, <2>4, <2>5, <2>6, CommitInv
  <1>8. ASSUME NEW c \in Calls, CommitNote(c) PROVE LeadInv'
    <2> DEFINE l == calls[c].lead
               row == [leads[l] EXCEPT !.timeline = calls[c].timeline]
    <2>1. InFlight(c)
      BY <1>8 DEF CommitNote, InFlight
    <2>2. l \in Leads /\ calls[c] \in Call
      BY <1>0, <2>1 DEF LeadInv, CallInv, TypeOK
    <2>3. leads[l] \in Lead
      BY <1>0, <2>2 DEF TypeOK
    <2>4. row \in Lead
      BY <2>2, <2>3 DEF Lead, Call
    <2>5. /\ row.timeline = calls[c].timeline
          /\ row.desenlace = leads[l].desenlace /\ row.estado = leads[l].estado
      BY <2>3 DEF Lead
    <2>6. row.desenlace # Null <=> row.estado = "cerrado"
      BY <2>2, <2>5 DEF LeadInv, MoveInv, DesenlaceSiiCerrado
    <2>7. /\ leads' = [leads EXCEPT ![calls[c].lead] = row]
          /\ calls' = [calls EXCEPT ![c].pc = "committed"]
          /\ UNCHANGED reloj /\ events' \in Nat
      BY <1>0, <1>8 DEF CommitNote, TypeOK
    <2> HIDE DEF row, l
    <2>8. QED
      BY <2>1, <2>4, <2>5, <2>6, <2>7, CommitInv
  <1>9. CASE UNCHANGED vars
    BY <1>9 DEF vars, LeadInv, TypeOK, CallInv, MoveInv, OrderInv,
       DesenlaceSiiCerrado, InFlight, Exists
  <1>10. QED
    BY <1>1, <1>2, <1>3, <1>4, <1>5, <1>6, <1>7, <1>8, <1>9
    DEF Next, UpdateEstado, AddNote

LEMMA LeadInit == Init => LeadInv
  <1>1. Init => TypeOK
    BY InitType
  <1>2. Init => CallInv /\ MoveInv
    BY DEF Init, CallInv, MoveInv, DesenlaceSiiCerrado, InFlight, NewCall, Null
  <1>3. Init => OrderInv
    BY DEF Init, OrderInv, Ordered, Sorted, HeadIsAlta, InFlight, NewCall
  <1>4. QED
    BY <1>1, <1>2, <1>3 DEF LeadInv

LEMMA LeadInvariant == Spec => []LeadInv
  BY LeadInit, LeadStep, PTL DEF Spec

\* leads, events and calls keep their types: above all, a committed lead
\* always has one of the four estados.
THEOREM TypeCorrect == Spec => []TypeOK
  <1>1. LeadInv => TypeOK
    BY DEF LeadInv
  <1>2. QED
    BY <1>1, LeadInvariant, PTL

\* A lead has a desenlace exactly while it is cerrado, for every overlap of
\* mutations (the desenlace column of updateEstado).
THEOREM ClosedHasOutcome == Spec => []DesenlaceSiiCerrado
  <1>1. LeadInv => DesenlaceSiiCerrado
    BY DEF LeadInv, MoveInv
  <1>2. QED
    BY <1>1, LeadInvariant, PTL

\* The stored timeline is in strict ts order and starts with the creation,
\* also when overlapping mutations lose entries.
THEOREM TimelineOrdered == Spec => []TimelineSorted
  <1>1. LeadInv => TimelineSorted
    BY DEF LeadInv, OrderInv, Ordered, Sorted, HeadIsAlta, TimelineSorted
  <1>2. QED
    BY <1>1, LeadInvariant, PTL

-----------------------------------------------------------------------------
(* The audit trail.                                                        *)

LEMMA EntriesFinite ==
    ASSUME NEW t \in Seq(Entry)
    PROVE  IsFiniteSet({t[i] : i \in DOMAIN t})
  <1> DEFINE f == [i \in DOMAIN t |-> t[i]]
             T == {t[i] : i \in DOMAIN t}
  <1>1. IsFiniteSet(DOMAIN t)
    BY LenProperties, FS_Interval
  <1>2. f \in Surjection(DOMAIN t, T)
    BY DEF Surjection
  <1> HIDE DEF f, T
  <1>3. IsFiniteSet(T)
    BY <1>1, <1>2, FS_Surjection
  <1>4. QED
    BY <1>3 DEF T

LEMMA MovsFinite ==
    ASSUME NEW t \in Seq(Entry)
    PROVE  IsFiniteSet(Movs(t)) /\ Cardinality(Movs(t)) \in Nat
  <1>1. Movs(t) \in SUBSET {t[i] : i \in DOMAIN t}
    BY DEF Movs
  <1>2. IsFiniteSet(Movs(t))
    BY <1>1, EntriesFinite, FS_Subset
  <1>3. QED
    BY <1>2, FS_CardinalityType

\* An entry adds to the transitions of a timeline only if it is one.
LEMMA MovsAppend ==
    ASSUME NEW t \in Seq(Entry), NEW e \in Entry
    PROVE  Cardinality(Movs(Append(t, e))) <=
             Cardinality(Movs(t)) + (IF e.tipo = "mov" THEN 1 ELSE 0)
  <1> DEFINE u == Append(t, e)  n == Len(t)
  <1>1. n \in Nat /\ DOMAIN t = 1..n /\ DOMAIN u = 1..(n + 1)
    BY AppendProperties, LenProperties
  <1>2. u[n + 1] = e /\ \A i \in 1..n : u[i] = t[i]
    BY <1>1, AppendProperties
  <1>3. n + 1 \in 1..(n + 1) /\ \A i \in 1..(n + 1) : i \in 1..n \/ i = n + 1
    BY <1>1
  <1> HIDE DEF u, n
  <1>4. CASE e.tipo = "mov"
    <2>1. Movs(u) \in SUBSET (Movs(t) \cup {e})
      BY <1>1, <1>2, <1>3 DEF Movs
    <2>0. IsFiniteSet(Movs(t)) /\ Cardinality(Movs(t)) \in Nat
      BY MovsFinite
    <2>2. /\ IsFiniteSet(Movs(t) \cup {e})
          /\ Cardinality(Movs(t) \cup {e}) \in Nat
          /\ Cardinality(Movs(t) \cup {e}) <= Cardinality(Movs(t)) + 1
      <3>1. /\ IsFiniteSet(Movs(t) \cup {e})
            /\ Cardinality(Movs(t) \cup {e}) =
                 IF e \in Movs(t) THEN Cardinality(Movs(t)) ELSE Cardinality(Movs(t)) + 1
        BY <2>0, FS_AddElement
      <3>2. QED
        BY <2>0, <3>1
    <2>3. Cardinality(Movs(u)) <= Cardinality(Movs(t) \cup {e})
      BY <2>1, <2>2, FS_Subset
    <2>4. Cardinality(Movs(u)) \in Nat
      BY <2>1, <2>2, FS_Subset, FS_CardinalityType
    <2>5. QED
      BY <1>4, <2>2, <2>3, <2>4, MovsFinite DEF u
  <1>5. CASE e.tipo # "mov"
    <2>1. Movs(u) \in SUBSET Movs(t)
      BY <1>1, <1>2, <1>3, <1>5 DEF Movs
    <2>2. Cardinality(Movs(u)) <= Cardinality(Movs(t))
      BY <2>1, MovsFinite, FS_Subset
    <2>3. QED
      BY <1>5, <2>2, MovsFinite DEF u
  <1>6. QED
    BY <1>4, <1>5

\* The moves that were committed.
Moved == {c \in Calls : calls[c].pc = "committed" /\ calls[c].tipo = "mov"}

\* What AuditInv says of a timeline and of the call that would store it.
Audited(t, tipo) == Cardinality(Movs(t)) <= events + (IF tipo = "mov" THEN 1 ELSE 0)

LEMMA AuditUnfold ==
    AuditInv <=> /\ events = Cardinality(Moved)
                 /\ \A l \in Leads : Cardinality(Movs(leads[l].timeline)) <= events
                 /\ \A c \in Calls : InFlight(c) =>
                      Audited(calls[c].timeline, calls[c].tipo)
  BY DEF AuditInv, AuditMatchesCommits, Moved, Audited

LEMMA AuditPrime ==
    AuditInv' <=> /\ events' = Cardinality(Moved')
                  /\ \A l \in Leads : Cardinality(Movs(leads'[l].timeline)) <= events'
                  /\ \A c \in Calls : InFlight(c)' =>
                       Audited(calls[c].timeline, calls[c].tipo)'
  BY DEF AuditInv, AuditMatchesCommits, Moved, Audited

\* A mutation starts from a committed timeline.
LEMMA AuditStart ==
    ASSUME TypeOK, AuditInv, NEW c \in Calls, NEW l \in Leads,
           calls[c].pc = "new", NEW call \in Call, call.pc = "read",
           NEW e \in Entry, e.tipo = "mov" => call.tipo = "mov",
           call.timeline = Append(leads[l].timeline, e),
           calls' = [calls EXCEPT ![c] = call], UNCHANGED <<leads, events>>
    PROVE  AuditInv'
  <1>1. calls'[c] = call /\ \A d \in Calls : d # c => calls'[d] = calls[d]
    BY DEF TypeOK
  <1>2. Moved' = Moved
    BY <1>1 DEF Moved
  <1>3. leads[l].timeline \in Seq(Entry) /\ events \in Nat
    BY DEF TypeOK, Lead
  <1>4. call.timeline \in Seq(Entry)
    BY DEF Call
  <1>5. Cardinality(Movs(call.timeline)) <= events + (IF call.tipo = "mov" THEN 1 ELSE 0)
    <2>1. Cardinality(Movs(leads[l].timeline)) <= events
      BY AuditUnfold
    <2>2. /\ Cardinality(Movs(leads[l].timeline)) \in Nat
          /\ Cardinality(Movs(call.timeline)) \in Nat
      BY <1>3, <1>4, MovsFinite
    <2>3. Cardinality(Movs(call.timeline)) <=
            Cardinality(Movs(leads[l].timeline)) + (IF e.tipo = "mov" THEN 1 ELSE 0)
      BY <1>3, MovsAppend
    <2>4. QED
      BY <1>3, <2>1, <2>2, <2>3
  <1>6. Audited(calls[c].timeline, calls[c].tipo)'
    BY <1>1, <1>5 DEF Audited
  <1>7. \A d \in Calls : d # c /\ InFlight(d)' =>
          Audited(calls[d].timeline, calls[d].tipo)'
    BY <1>1, AuditUnfold DEF Audited, InFlight
  <1>8. QED
    BY <1>2, <1>6, <1>7, AuditPrime, AuditUnfold

\* A call that moves on, or is rolled back, changes nothing of the trail.
LEMMA AuditPc ==
    ASSUME TypeOK, AuditInv, NEW c \in Calls, InFlight(c),
           NEW pc \in {"updated", "audited", "error"},
           calls' = [calls EXCEPT ![c].pc = pc], UNCHANGED <<leads, events>>
    PROVE  AuditInv'
  <1>1. /\ calls'[c].pc = pc /\ calls'[c].tipo = calls[c].tipo
        /\ calls'[c].timeline = calls[c].timeline
        /\ \A d \in Calls : d # c => calls'[d] = calls[d]
    BY PcType
  <1>2. Moved' = Moved
    BY <1>1 DEF Moved, InFlight
  <1>3. \A d \in Calls : InFlight(d)' => Audited(calls[d].timeline, calls[d].tipo)'
    BY <1>1, AuditUnfold DEF Audited, InFlight
  <1>4. QED
    BY <1>2, <1>3, AuditPrime, AuditUnfold

\* A commit of a move adds one event, and no commit stores more transitions
\* than the trail then has.
LEMMA AuditCommit ==
    ASSUME LeadInv, AuditInv, NEW c \in Calls, InFlight(c),
           calls' = [calls EXCEPT ![c].pc = "committed"],
           events' = events + (IF calls[c].tipo = "mov" THEN 1 ELSE 0),
           leads'[calls[c].lead].timeline = calls[c].timeline,
           \A l \in Leads : l # calls[c].lead => leads'[l] = leads[l]
    PROVE  AuditInv'
  <1>0. TypeOK
    BY DEF LeadInv
  <1>1. /\ calls'[c].pc = "committed" /\ calls'[c].tipo = calls[c].tipo
        /\ \A d \in Calls : d # c => calls'[d] = calls[d]
    BY <1>0, PcType
  <1>2. events \in Nat /\ events' \in Nat /\ events <= events'
    BY <1>0 DEF TypeOK
  <1>3. events' = Cardinality(Moved')
    <2>1. Moved' = IF calls[c].tipo = "mov" THEN Moved \cup {c} ELSE Moved
      BY <1>1 DEF Moved
    <2>2. c \notin Moved
      BY DEF Moved, InFlight
    <2>3. IsFiniteSet(Moved)
      BY LeadsAssumption, FS_Subset DEF Moved, LeadsAssumption
    <2>4. events = Cardinality(Moved)
      BY AuditUnfold
    <2>5. Cardinality(Moved \cup {c}) = Cardinality(Moved) + 1
      BY <2>2, <2>3, FS_AddElement
    <2>6. CASE calls[c].tipo = "mov"
      BY <2>1, <2>4, <2>5, <2>6
    <2>7. CASE calls[c].tipo # "mov"
      BY <1>2, <2>1, <2>4, <2>7
    <2>8. QED
      BY <2>6, <2>7
  <1>4. \A l \in Leads : Cardinality(Movs(leads'[l].timeline)) <= events'
    <2>1. Cardinality(Movs(calls[c].timeline)) <= events'
      BY AuditUnfold DEF Audited
    <2>2. \A l \in Leads : leads[l].timeline \in Seq(Entry)
      BY <1>0 DEF TypeOK, Lead
    <2>3. \A l \in Leads : /\ Cardinality(Movs(leads[l].timeline)) \in Nat
                           /\ Cardinality(Movs(leads[l].timeline)) <= events
      BY <2>2, MovsFinite, AuditUnfold
    <2>4. \A l \in Leads : l # calls[c].lead =>
            Cardinality(Movs(leads'[l].timeline)) <= events'
      BY <1>2, <2>3
    <2>5. QED
      BY <2>1, <2>4
  <1>5. ASSUME NEW d \in Calls, InFlight(d)'
        PROVE  Audited(calls[d].timeline, calls[d].tipo)'
    <2>1. d # c /\ InFlight(d) /\ calls'[d] = calls[d]
      BY <1>1, <1>5 DEF InFlight
    <2>2. calls[d].timeline \in Seq(Entry)
      BY <1>0 DEF TypeOK, Call
    <2>3. Cardinality(Movs(calls[d].timeline)) \in Nat
      BY <2>2, MovsFinite
    <2>4. Audited(calls[d].timeline, calls[d].tipo)
      BY <2>1, AuditUnfold
    <2>5. QED
      BY <1>2, <2>1, <2>3, <2>4 DEF Audited
  <1>6. QED
    BY <1>3, <1>4, <1>5, AuditPrime

LEMMA AuditStep == LeadInv /\ AuditInv /\ [Next]_vars => AuditInv'
  <1> SUFFICES ASSUME LeadInv, AuditInv, [Next]_vars
               PROVE  AuditInv'
    OBVIOUS
  <1>0. TypeOK
    BY DEF LeadInv
  <1>1. ASSUME NEW l \in Leads, Create(l) PROVE AuditInv'
    <2> DEFINE alta == Nota("alta", reloj + 1)
    <2>1. UNCHANGED <<events, calls>> /\ leads'[l].timeline = <<alta>>
          /\ \A k \in Leads : k # l => leads'[k] = leads[k]
      BY <1>0, <1>1 DEF Create, TypeOK, Lead
    <2>2. Movs(<<alta>>) = {}
      BY DEF Movs, Nota
    <2>3. Cardinality(Movs(leads'[l].timeline)) <= events
      BY <1>0, <2>1, <2>2, FS_EmptySet DEF TypeOK
    <2>4. Moved' = Moved
      BY <2>1 DEF Moved
    <2>5. \A d \in Calls : InFlight(d)' => Audited(calls[d].timeline, calls[d].tipo)'
      BY <2>1, AuditUnfold DEF Audited, InFlight
    <2>6. QED
      BY <2>1, <2>3, <2>4, <2>5, AuditPrime, AuditUnfold
  <1>2. ASSUME NEW c \in Calls, NEW l \in Leads, NEW e \in Estados,
               NEW d \in Desenlaces \cup {Null}, SelectForMove(c, l, e, d)
        PROVE  AuditInv'
    <2>1. /\ reloj + 1 \in 1..MaxTs /\ UNCHANGED <<leads, events>>
          /\ calls[c].pc = "new" /\ leads[l].estado \in Estados
      BY <1>0, <1>2, NextStamp DEF SelectForMove, MayStart, TypeOK, Lead
    <2>2. Mov(reloj + 1, leads[l].estado, e) \in Entry
      BY <2>1, EntryType
    <2>3. PICK call \in Call :
             /\ calls' = [calls EXCEPT ![c] = call]
             /\ call.pc = "read" /\ call.tipo = "mov"
             /\ call.timeline = Append(leads[l].timeline,
                                       Mov(reloj + 1, leads[l].estado, e))
      BY <1>0, <1>2, MoveCall
    <2>4. QED
      BY <1>0, <2>1, <2>2, <2>3, AuditStart
  <1>3. ASSUME NEW c \in Calls, NEW l \in Leads, SelectForNote(c, l) PROVE AuditInv'
    <2>1. /\ reloj + 1 \in 1..MaxTs /\ UNCHANGED <<leads, events>>
          /\ calls[c].pc = "new"
      BY <1>0, <1>3, NextStamp DEF SelectForNote, MayStart
    <2>2. Nota("nota", reloj + 1) \in Entry /\ Nota("nota", reloj + 1).tipo # "mov"
      BY <2>1, EntryType DEF Nota
    <2>3. PICK call \in Call :
             /\ calls' = [calls EXCEPT ![c] = call]
             /\ call.pc = "read" /\ call.tipo = "nota"
             /\ call.timeline = Append(leads[l].timeline, Nota("nota", reloj + 1))
      BY <1>0, <1>3, NoteCall
    <2>4. QED
      BY <1>0, <2>1, <2>2, <2>3, AuditStart
  <1>4. ASSUME NEW c \in Calls, UpdateRow(c) PROVE AuditInv'
    BY <1>0, <1>4, AuditPc DEF UpdateRow, InFlight
  <1>5. ASSUME NEW c \in Calls, InsertEvent(c) PROVE AuditInv'
    BY <1>0, <1>5, AuditPc DEF InsertEvent, InFlight
  <1>6. ASSUME NEW c \in Calls, Rollback(c) PROVE AuditInv'
    BY <1>0, <1>6, AuditPc DEF Rollback
  <1>7. ASSUME NEW c \in Calls, CommitMove(c) PROVE AuditInv'
    <2>1. InFlight(c) /\ calls[c].tipo = "mov"
      BY <1>7 DEF CommitMove, InFlight, LeadInv, CallInv
    <2>2. calls[c].lead \in Leads
      BY <2>1 DEF LeadInv, CallInv
    <2>3. /\ leads'[calls[c].lead].timeline = calls[c].timeline
          /\ \A k \in Leads : k # calls[c].lead => leads'[k] = leads[k]
      BY <1>0, <1>7, <2>2 DEF CommitMove, TypeOK
    <2>4. events' = events + 1 /\ calls' = [calls EXCEPT ![c].pc = "committed"]
      BY <1>7 DEF CommitMove
    <2>5. QED
      BY <2>1, <2>3, <2>4, AuditCommit
  <1>8. ASSUME NEW c \in Calls, CommitNote(c) PROVE AuditInv'
    <2>1. InFlight(c) /\ calls[c].tipo = "nota"
      BY <1>8 DEF CommitNote, InFlight
    <2>2. calls[c].lead \in Leads
      BY <2>1 DEF LeadInv, CallInv
    <2>3. /\ leads'[calls[c].lead].timeline = calls[c].timeline
          /\ \A k \in Leads : k # calls[c].lead => leads'[k] = leads[k]
      BY <1>0, <1>8, <2>2 DEF CommitNote, TypeOK, Lead
    <2>4. events' = events + 0 /\ calls' = [calls EXCEPT ![c].pc = "committed"]
      BY <1>0, <1>8 DEF CommitNote, TypeOK
    <2>5. QED
      BY <2>1, <2>3, <2>4, AuditCommit
  <1>9. CASE UNCHANGED vars
    BY <1>9 DEF vars, AuditInv, AuditMatchesCommits, InFlight
  <1>10. QED
    BY <1>1, <1>2, <1>3, <1>4, <1>5, <1>6, <1>7, <1>8, <1>9
    DEF Next, UpdateEstado, AddNote

LEMMA AuditInit == Init => AuditInv
  <1>1. Init => Moved = {} /\ events = 0 /\ \A c \in Calls : ~InFlight(c)
    BY DEF Init, Moved, NewCall, InFlight
  <1>2. Init => \A l \in Leads : Movs(leads[l].timeline) = {}
    BY DEF Init, Movs
  <1>3. QED
    BY <1>1, <1>2, AuditUnfold, FS_EmptySet

\* The audit trail has exactly one event per committed move, and at least one
\* for every transition a timeline shows, for every overlap of mutations.
THEOREM AuditComplete == Spec => []AuditMatchesCommits
  <1>1. LeadInv /\ LeadInv' /\ AuditInv /\ [Next]_vars => AuditInv'
    BY AuditStep
  <1>2. AuditInv => AuditMatchesCommits
    BY DEF AuditInv
  <1>3. QED
    BY <1>1, <1>2, AuditInit, LeadInvariant, PTL DEF Spec

-----------------------------------------------------------------------------
(* Mutations that do not overlap implement the history.                    *)

\* FreshInv, one call at a time.
Fresh(c) == LET row == leads[calls[c].lead] IN
    /\ \A d \in Calls : InFlight(d) /\ calls[d].lead = calls[c].lead => d = c
    /\ \E ts \in 1..MaxTs : calls[c].timeline = Append(row.timeline,
         IF calls[c].tipo = "mov" THEN Mov(ts, row.estado, calls[c].estado)
                                  ELSE Nota("nota", ts))

LEMMA FreshUnfold == FreshInv <=> (Serial => \A c \in Calls : InFlight(c) => Fresh(c))
  BY DEF FreshInv, Fresh, Involved

LEMMA FreshPrime ==
    FreshInv' <=> (Serial => \A c \in Calls : InFlight(c)' => Fresh(c)')
  BY DEF FreshInv, Fresh, Involved

\* A step of other calls, and of leads this call is not about.
LEMMA FreshKept ==
    ASSUME NEW c \in Calls, Fresh(c), calls[c].lead = calls'[c].lead,
           calls[c].tipo = calls'[c].tipo, calls[c].estado = calls'[c].estado,
           calls[c].timeline = calls'[c].timeline,
           leads'[calls[c].lead] = leads[calls[c].lead],
           \A d \in Calls : InFlight(d)' /\ calls'[d].lead = calls[c].lead =>
             InFlight(d) /\ calls[d].lead = calls[c].lead
    PROVE  Fresh(c)'
  BY DEF Fresh

LEMMA FreshPc ==
    ASSUME TypeOK, Serial, FreshInv, NEW c \in Calls, InFlight(c),
           NEW pc \in {"updated", "audited", "committed", "error"},
           calls' = [calls EXCEPT ![c].pc = pc],
           \A d \in Calls : d # c /\ InFlight(d) =>
             leads'[calls[d].lead] = leads[calls[d].lead],
           pc # "committed" => leads' = leads
    PROVE  FreshInv'
  <1>1. \A d \in Calls : InFlight(d) => Fresh(d)
    BY FreshUnfold
  <1>2. \A d \in Calls : /\ InFlight(d)' => InFlight(d)
                         /\ calls'[d].lead = calls[d].lead
                         /\ calls'[d].tipo = calls[d].tipo
                         /\ calls'[d].estado = calls[d].estado
                         /\ calls'[d].timeline = calls[d].timeline
    BY PcType DEF InFlight
  <1>3. pc = "committed" => ~InFlight(c)'
    BY PcType DEF InFlight
  <1>4. ASSUME NEW d \in Calls, InFlight(d)' PROVE Fresh(d)'
    <2>1. InFlight(d) /\ Fresh(d)
      BY <1>1, <1>2, <1>4
    <2>2. leads'[calls[d].lead] = leads[calls[d].lead]
      BY <1>3, <1>4, <2>1
    <2>3. QED
      BY <1>2, <2>1, <2>2, FreshKept
  <1>5. QED
    BY <1>4, FreshPrime

LEMMA FreshStart ==
    ASSUME TypeOK, Serial, FreshInv, NEW c \in Calls, NEW l \in Leads, MayStart(c, l),
           NEW call \in Call, call.pc = "read", call.lead = l,
           calls' = [calls EXCEPT ![c] = call],
           \E ts \in 1..MaxTs : call.timeline = Append(leads[l].timeline,
             IF call.tipo = "mov" THEN Mov(ts, leads[l].estado, call.estado)
                                  ELSE Nota("nota", ts)),
           UNCHANGED leads
    PROVE  FreshInv'
  <1>1. calls'[c] = call /\ \A d \in Calls : d # c => calls'[d] = calls[d]
    BY DEF TypeOK
  <1>2. \A d \in Calls : InFlight(d) => calls[d].lead # l
    BY DEF MayStart, Involved
  <1>3. Fresh(c)'
    <2>1. \A d \in Calls : InFlight(d)' /\ calls'[d].lead = l => d = c
      BY <1>1, <1>2 DEF InFlight
    <2>2. leads'[l] = leads[l]
      OBVIOUS
    <2>3. QED
      BY <1>1, <2>1, <2>2 DEF Fresh
  <1>4. ASSUME NEW d \in Calls, d # c, InFlight(d)' PROVE Fresh(d)'
    <2>1. InFlight(d) /\ Fresh(d) /\ calls'[d] = calls[d]
      BY <1>1, <1>4, FreshUnfold DEF InFlight
    <2>2. calls[d].lead # l
      BY <1>2, <2>1
    <2>3. \A x \in Calls : InFlight(x)' /\ calls'[x].lead = calls[d].lead =>
             InFlight(x) /\ calls[x].lead = calls[d].lead
      BY <1>1, <2>2 DEF InFlight
    <2>4. QED
      BY <2>1, <2>3, FreshKept
  <1>5. QED
    BY <1>3, <1>4, FreshPrime

LEMMA FreshStep == Serial /\ LeadInv /\ FreshInv /\ [Next]_vars => FreshInv'
  <1> SUFFICES ASSUME Serial, LeadInv, FreshInv, [Next]_vars
               PROVE  FreshInv'
    OBVIOUS
  <1>0. TypeOK
    BY DEF LeadInv
  <1>1. ASSUME NEW l \in Leads, Create(l) PROVE FreshInv'
    <2>1. UNCHANGED calls /\ \A k \in Leads : k # l => leads'[k] = leads[k]
      BY <1>0, <1>1 DEF Create, TypeOK
    <2>2. \A c \in Calls : InFlight(c) => calls[c].lead \in Leads /\ calls[c].lead # l
      BY <1>1 DEF LeadInv, CallInv, Create
    <2>3. ASSUME NEW c \in Calls, InFlight(c)' PROVE Fresh(c)'
      <3>1. InFlight(c) /\ Fresh(c)
        BY <2>1, <2>3, FreshUnfold DEF InFlight
      <3>2. leads'[calls[c].lead] = leads[calls[c].lead]
        BY <2>1, <2>2, <3>1
      <3>3. QED
        BY <2>1, <3>1, <3>2, FreshKept DEF InFlight
    <2>4. QED
      BY <2>3, FreshPrime
  <1>2. ASSUME NEW c \in Calls, NEW l \in Leads, NEW e \in Estados,
               NEW d \in Desenlaces \cup {Null}, SelectForMove(c, l, e, d)
        PROVE  FreshInv'
    <2>1. reloj + 1 \in 1..MaxTs /\ UNCHANGED leads /\ MayStart(c, l)
      BY <1>0, <1>2, NextStamp, MoveCall DEF SelectForMove
    <2>2. PICK call \in Call :
             /\ calls' = [calls EXCEPT ![c] = call]
             /\ call.pc = "read" /\ call.tipo = "mov" /\ call.lead = l
             /\ call.estado = e
             /\ call.timeline = Append(leads[l].timeline,
                                       Mov(reloj + 1, leads[l].estado, e))
      BY <1>0, <1>2, MoveCall
    <2>3. QED
      BY <1>0, <2>1, <2>2, FreshStart
  <1>3. ASSUME NEW c \in Calls, NEW l \in Leads, SelectForNote(c, l) PROVE FreshInv'
    <2>1. reloj + 1 \in 1..MaxTs /\ UNCHANGED leads /\ MayStart(c, l)
      BY <1>0, <1>3, NextStamp, NoteCall DEF SelectForNote
    <2>2. PICK call \in Call :
             /\ calls' = [calls EXCEPT ![c] = call]
             /\ call.pc = "read" /\ call.tipo = "nota" /\ call.lead = l
             /\ call.timeline = Append(leads[l].timeline, Nota("nota", reloj + 1))
      BY <1>0, <1>3, NoteCall
    <2>3. QED
      BY <1>0, <2>1, <2>2, FreshStart
  <1>4. ASSUME NEW c \in Calls, UpdateRow(c) PROVE FreshInv'
    BY <1>0, <1>4, FreshPc DEF UpdateRow, InFlight
  <1>5. ASSUME NEW c \in Calls, InsertEvent(c) PROVE FreshInv'
    BY <1>0, <1>5, FreshPc DEF InsertEvent, InFlight
  <1>6. ASSUME NEW c \in Calls, Rollback(c) PROVE FreshInv'
    BY <1>0, <1>6, FreshPc DEF Rollback
  <1>7. ASSUME NEW c \in Calls, CommitMove(c) \/ CommitNote(c) PROVE FreshInv'
    <2>1. InFlight(c) /\ calls' = [calls EXCEPT ![c].pc = "committed"]
      BY <1>7 DEF CommitMove, CommitNote, InFlight
    <2>2. \A k \in Leads : k # calls[c].lead => leads'[k] = leads[k]
      BY <1>0, <1>7 DEF CommitMove, CommitNote, TypeOK
    <2>3. \A d \in Calls : d # c /\ InFlight(d) =>
             calls[d].lead \in Leads /\ calls[d].lead # calls[c].lead
      BY <2>1, FreshUnfold DEF Fresh, LeadInv, CallInv
    <2>4. QED
      BY <1>0, <2>1, <2>2, <2>3, FreshPc
  <1>8. CASE UNCHANGED vars
    BY <1>8 DEF vars, FreshInv, Involved, InFlight
  <1>9. QED
    BY <1>1, <1>2, <1>3, <1>4, <1>5, <1>6, <1>7, <1>8
    DEF Next, UpdateEstado, AddNote

LEMMA HistoryInit == Init => Historia!Init
  BY DEF Init, Historia!Init

LEMMA HistoryStep ==
    Serial /\ LeadInv /\ FreshInv /\ [Next]_vars => [Historia!Next]_(Historia!vars)
  <1> SUFFICES ASSUME Serial, LeadInv, FreshInv, [Next]_vars
               PROVE  Historia!Next \/ UNCHANGED Historia!vars
    OBVIOUS
  <1>0. TypeOK
    BY DEF LeadInv
  <1>1. ASSUME UNCHANGED leads PROVE UNCHANGED Historia!vars
    BY <1>1 DEF Historia!vars
  <1>2. ASSUME NEW l \in Leads, Create(l) PROVE Historia!Next
    <2>1. reloj + 1 \in 1..MaxTs
      BY <1>0, <1>2, NextStamp DEF Create
    <2>2. leads[l].timeline = <<>>
      BY <1>2 DEF Create, Exists
    <2>3. /\ leads'[l].timeline = <<Nota("alta", reloj + 1)>>
          /\ leads'[l].estado = leads[l].estado
          /\ \A k \in Leads : k # l => leads'[k] = leads[k]
      BY <1>0, <1>2 DEF Create, TypeOK, Lead
    <2>4. Historia!Alta(l, reloj + 1)
      BY <2>2, <2>3 DEF Historia!Alta, Nota
    <2>5. QED
      BY <2>1, <2>4 DEF Historia!Next, Historia!Alta
  <1>3. ASSUME NEW c \in Calls, CommitMove(c) PROVE Historia!Next
    <2> DEFINE l == calls[c].lead
    <2>1. InFlight(c) /\ calls[c].tipo = "mov"
      BY <1>3 DEF CommitMove, InFlight, LeadInv, CallInv
    <2>2. l \in Leads /\ leads[l].timeline # <<>> /\ calls[c].estado \in Estados
      BY <2>1 DEF LeadInv, CallInv, Exists
    <2>3. PICK ts \in 1..MaxTs :
            calls[c].timeline = Append(leads[l].timeline,
                                       Mov(ts, leads[l].estado, calls[c].estado))
      BY <2>1, FreshUnfold DEF Fresh
    <2>4. /\ leads'[l].timeline = calls[c].timeline
          /\ leads'[l].estado = calls[c].estado
          /\ \A k \in Leads : k # l => leads'[k] = leads[k]
      BY <1>0, <1>3, <2>2 DEF CommitMove, TypeOK
    <2>5. PICK k \in Leads, e \in Estados : k = l /\ e = calls[c].estado
      BY <2>2
    <2> HIDE DEF l
    <2>6. Historia!Mover(k, ts, e)
      BY <2>2, <2>3, <2>4, <2>5 DEF Historia!Mover, Mov
    <2>7. QED
      BY <2>6, Zenon DEF Historia!Next
  <1>4. ASSUME NEW c \in Calls, CommitNote(c) PROVE Historia!Next
    <2> DEFINE l == calls[c].lead
    <2>1. InFlight(c) /\ calls[c].tipo = "nota"
      BY <1>4 DEF CommitNote, InFlight
    <2>2. l \in Leads /\ leads[l].timeline # <<>>
      BY <2>1 DEF LeadInv, CallInv, Exists
    <2>3. PICK ts \in 1..MaxTs :
            calls[c].timeline = Append(leads[l].timeline, Nota("nota", ts))
      BY <2>1, FreshUnfold DEF Fresh
    <2>4. /\ leads'[l].timeline = calls[c].timeline
          /\ leads'[l].estado = leads[l].estado
          /\ \A k \in Leads : k # l => leads'[k] = leads[k]
      BY <1>0, <1>4, <2>2 DEF CommitNote, TypeOK, Lead
    <2> HIDE DEF l
    <2>5. Historia!Anotar(l, ts)
      BY <2>2, <2>3, <2>4 DEF Historia!Anotar, Nota
    <2>6. QED
      BY <2>2, <2>5 DEF Historia!Next
  <1>5. QED
    BY <1>1, <1>2, <1>3, <1>4
    DEF Next, UpdateEstado, AddNote, vars, SelectForMove, SelectForNote,
        UpdateRow, InsertEvent, Rollback

LEMMA FreshInvariant == Spec => []FreshInv
  <1>1. Init => FreshInv
    BY DEF Init, FreshInv, InFlight, NewCall
  <1>2. LeadInv /\ LeadInv' /\ FreshInv /\ [Next]_vars => FreshInv'
    <2>1. ~Serial => FreshInv'
      BY FreshPrime
    <2>2. QED
      BY <2>1, FreshStep
  <1>3. QED
    BY <1>1, <1>2, LeadInvariant, PTL DEF Spec

\* The invariant the refinement rests on: types, one desenlace per close, the
\* order of the timelines and the audit trail for every overlap; and, without
\* overlaps, that what a mutation read is still there when it commits.
THEOREM HistoryInvariant == Spec => []HistoryInv
  <1>1. LeadInv /\ LeadInv' /\ AuditInv /\ [Next]_vars => AuditInv'
    BY AuditStep
  <1>2. LeadInv /\ AuditInv /\ FreshInv => HistoryInv
    BY DEF HistoryInv
  <1>3. QED
    BY <1>1, <1>2, AuditInit, LeadInvariant, FreshInvariant, PTL DEF Spec

\* When the mutations of one lead do not overlap, the router implements
\* LeadHistory: an append-only timeline whose transitions chain up to the
\* state of the lead.
THEOREM SerialKeepsHistory == ASSUME Serial PROVE Spec => ImplementsHistory
  <1>1. LeadInv /\ FreshInv /\ [Next]_vars => [Historia!Next]_(Historia!vars)
    BY HistoryStep
  <1>2. QED
    BY <1>1, HistoryInit, LeadInvariant, FreshInvariant, PTL
    DEF Spec, ImplementsHistory, Historia!Spec

=============================================================================
