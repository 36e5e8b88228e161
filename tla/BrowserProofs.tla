---------------------------- MODULE BrowserProofs ----------------------------
(* The browser tab, for any selections and quotes, leads, units, files,    *)
(* targets and shapes, and any number of calls.  Each page has an          *)
(* inductive invariant of its own: CotizadorInv here, BoardInv, GridInv    *)
(* and EditorInv in the pages' modules.                                    *)
EXTENDS MCBrowser, TLAPS

-----------------------------------------------------------------------------
(* The simulator.                                                          *)

\* ensureQuote creates only when nothing is retained.
CreatesFromNothing == creating # NotCreating => retained = NoQuote

\* Nothing is computed at the picker.
ComputesASelection == compute # "off" => sel # NoSelection

CotizadorInv ==
    /\ TypeOK /\ ComputesASelection
    /\ QuietPageIsCurrent /\ OneDownloadPerRequest /\ CreatesFromNothing

LEMMA NoPdfType == NoPdf \in PdfStates BY DEF NoPdf, PdfStates

LEMMA NotCreatingType ==
    NotCreating \in [sel: Selections \cup {NoSelection}, caller: {"none", "pdf", "whatsapp"}]
    BY DEF NotCreating

\* A request begins generating under a deadline, with nothing downloaded.
LEMMA StartPollingPdf ==
    ASSUME pdf \in PdfStates, NEW q \in Quotes, StartPolling(q)
    PROVE  /\ pdf' \in PdfStates
           /\ pdf'.generating /\ pdf'.deadline /\ pdf'.downloads = 0
    BY DEF StartPolling, NoPdf, PdfStates

LEMMA InitInv == Init => CotizadorInv
<1> SUFFICES ASSUME Init PROVE CotizadorInv OBVIOUS
<1>1. TypeOK
    <2>1. pdf \in PdfStates BY NoPdfType DEF Init
    <2>2. creating \in [sel: Selections \cup {NoSelection}, caller: {"none", "pdf", "whatsapp"}]
        BY NotCreatingType DEF Init
    <2>3. QED BY <2>1, <2>2, CotizadorAssumption DEF Init, TypeOK, PdfStates, ComputePc
<1>2. QuietPageIsCurrent BY DEF Init, QuietPageIsCurrent
<1>3. OneDownloadPerRequest BY DEF Init, OneDownloadPerRequest, NoPdf
<1>4. CreatesFromNothing BY DEF Init, CreatesFromNothing
<1>5. ComputesASelection BY DEF Init, ComputesASelection
<1>6. QED BY <1>1, <1>2, <1>3, <1>4, <1>5 DEF CotizadorInv

(* The selection and the recompute.                                        *)

\* The selection changes: the page starts anew.
LEMMA SelectionInv ==
    ASSUME CotizadorInv, (\E s \in Selections : Pick(s)) \/ CambiarUnidad
    PROVE  CotizadorInv'
<1>1. TypeOK BY DEF CotizadorInv
<1>2. retained' = NoQuote /\ pdf' = NoPdf /\ UNCHANGED <<softError, creating, emitted, published>>
    BY DEF Pick, CambiarUnidad, DropQuote
<1>3. changes' \in 0..MaxChanges
    BY <1>1, CotizadorAssumption DEF TypeOK, Pick, CambiarUnidad
<1>4. sel' \in Selections \cup {NoSelection} /\ result' \in Selections \cup {NoSelection}
      /\ compute' \in {"debounce", "off"}
    BY <1>1 DEF TypeOK, Pick, CambiarUnidad
<1>5. late' \subseteq Selections
    <2>1. compute = "calling" => sel \in Selections
        BY <1>1 DEF TypeOK, CotizadorInv, ComputesASelection
    <2>2. QED BY <1>1, <2>1 DEF TypeOK, Pick, CambiarUnidad, CancelCompute
<1>6. pdf' \in PdfStates BY <1>2, NoPdfType
<1>7. TypeOK' BY <1>1, <1>2, <1>3, <1>4, <1>5, <1>6 DEF TypeOK, ComputePc
<1>8. QuietPageIsCurrent' BY <1>4 DEF QuietPageIsCurrent
<1>9. OneDownloadPerRequest' BY <1>2 DEF OneDownloadPerRequest, NoPdf
<1>10. CreatesFromNothing' BY <1>2 DEF CreatesFromNothing
<1>11. ComputesASelection'
    BY CotizadorAssumption DEF ComputesASelection, Pick, CambiarUnidad
<1>12. QED BY <1>7, <1>8, <1>9, <1>10, <1>11 DEF CotizadorInv

\* The answers and timers of the recompute, and the PDFs of the server.
LEMMA RecomputeInv ==
    ASSUME CotizadorInv,
           Recompute \/ Computed \/ ComputeFails \/ RetryTick
               \/ (\E s \in Selections : LateAnswer(s)) \/ (\E q \in Quotes : PublishPdf(q))
    PROVE  CotizadorInv'
<1>1. TypeOK /\ ComputesASelection /\ QuietPageIsCurrent BY DEF CotizadorInv
<1>2. UNCHANGED <<sel, changes, retained, creating, pdf, emitted>>
    BY DEF Recompute, Computed, ComputeFails, RetryTick, LateAnswer, PublishPdf
<1>3. compute' \in ComputePc /\ (compute = "off" => compute' = "off")
    BY <1>1 DEF TypeOK, ComputePc, Recompute, Computed, ComputeFails, RetryTick, LateAnswer, PublishPdf
<1>4. result' \in {result, sel} /\ (compute' = "done" => result' = sel)
    BY <1>1 DEF QuietPageIsCurrent, Recompute, Computed, ComputeFails, RetryTick, LateAnswer,
                PublishPdf
<1>5. late' \subseteq late /\ softError' \in {softError, "none", "compute"}
      /\ published' \subseteq Quotes
    BY <1>1 DEF TypeOK, Recompute, Computed, ComputeFails, RetryTick, LateAnswer, PublishPdf
<1>6. TypeOK' BY <1>1, <1>2, <1>3, <1>4, <1>5 DEF TypeOK
<1>7. ComputesASelection' BY <1>1, <1>2, <1>3 DEF ComputesASelection
<1>8. QuietPageIsCurrent' BY <1>2, <1>4 DEF QuietPageIsCurrent
<1>9. OneDownloadPerRequest' /\ CreatesFromNothing'
    BY <1>2 DEF CotizadorInv, OneDownloadPerRequest, CreatesFromNothing
<1>10. QED BY <1>6, <1>7, <1>8, <1>9 DEF CotizadorInv

(* The quote.                                                              *)

LEMMA CreateCall ==
    ASSUME TypeOK, NEW caller \in {"pdf", "whatsapp"}, CreateQuote(caller)
    PROVE  creating' \in [sel: Selections \cup {NoSelection}, caller: {"none", "pdf", "whatsapp"}]
           /\ pdf' = pdf
    BY DEF TypeOK, CreateQuote

LEMMA ButtonsInv ==
    ASSUME CotizadorInv, OnDownloadPdf \/ OnWhatsapp
    PROVE  CotizadorInv'
<1>1. /\ TypeOK /\ ComputesASelection /\ QuietPageIsCurrent
      /\ OneDownloadPerRequest /\ CreatesFromNothing
    BY DEF CotizadorInv
<1>2. UNCHANGED <<sel, changes, result, compute, late, retained, emitted, published>>
      /\ softError' \in {softError, "none"}
    BY DEF OnDownloadPdf, OnWhatsapp
<1>3. CASE retained # NoQuote /\ StartPolling(retained) /\ UNCHANGED creating
    <2>1. retained \in Quotes BY <1>1, <1>3 DEF TypeOK
    <2>2. pdf' \in PdfStates /\ pdf'.generating /\ pdf'.deadline /\ pdf'.downloads = 0
        BY <1>1, <1>3, <2>1, StartPollingPdf DEF TypeOK
    <2>3. TypeOK' BY <1>1, <1>2, <1>3, <2>2 DEF TypeOK
    <2>4. OneDownloadPerRequest' BY <2>2 DEF OneDownloadPerRequest
    <2>5. QED
        BY <1>1, <1>2, <1>3, <2>3, <2>4
        DEF CotizadorInv, ComputesASelection, QuietPageIsCurrent, CreatesFromNothing
<1>4. ASSUME NEW caller \in {"pdf", "whatsapp"}, retained = NoQuote, CreateQuote(caller)
      PROVE  CotizadorInv'
    <2>1. TypeOK' BY <1>1, <1>2, <1>4, CreateCall DEF TypeOK
    <2>2. pdf' = pdf BY <1>1, <1>4, CreateCall
    <2>3. QED
        BY <1>1, <1>2, <1>4, <2>1, <2>2
        DEF CotizadorInv, ComputesASelection, QuietPageIsCurrent, OneDownloadPerRequest,
            CreatesFromNothing
<1>5. QED BY <1>3, <1>4 DEF OnDownloadPdf, OnWhatsapp

LEMMA CreatedInv ==
    ASSUME CotizadorInv, NEW q \in Quotes, Created(q)
    PROVE  CotizadorInv'
<1>1. /\ TypeOK /\ ComputesASelection /\ QuietPageIsCurrent
      /\ OneDownloadPerRequest /\ CreatesFromNothing
    BY DEF CotizadorInv
<1>2. /\ UNCHANGED <<sel, changes, result, compute, late, published>>
      /\ retained' = q /\ creating' = NotCreating
      /\ emitted' = [emitted EXCEPT ![q] = creating.sel]
    BY DEF Created
<1>3. emitted' \in [Quotes -> Selections \cup {NoSelection}] BY <1>1, <1>2 DEF TypeOK
<1>4. pdf' \in PdfStates /\ OneDownloadPerRequest' /\ softError' \in {softError, "none"}
    <2>1. CASE StartPolling(q) /\ softError' = "none"
        BY <1>1, <2>1, StartPollingPdf DEF TypeOK, OneDownloadPerRequest
    <2>2. CASE UNCHANGED <<pdf, softError>>
        BY <1>1, <2>2 DEF TypeOK, OneDownloadPerRequest
    <2>3. QED BY <2>1, <2>2 DEF Created
<1>5. TypeOK' BY <1>1, <1>2, <1>3, <1>4, NotCreatingType DEF TypeOK
<1>6. QED
    BY <1>1, <1>2, <1>4, <1>5
    DEF CotizadorInv, ComputesASelection, QuietPageIsCurrent, CreatesFromNothing

LEMMA CreateFailsInv == ASSUME CotizadorInv, CreateFails PROVE CotizadorInv'
<1>1. /\ TypeOK /\ ComputesASelection /\ QuietPageIsCurrent
      /\ OneDownloadPerRequest /\ CreatesFromNothing
    BY DEF CotizadorInv
<1>2. /\ UNCHANGED <<sel, changes, result, compute, late, retained, pdf, published>>
      /\ creating' = NotCreating /\ softError' = "emit"
    BY DEF CreateFails
<1>3. emitted' \in [Quotes -> Selections \cup {NoSelection}]
    <2>1. creating.sel \in Selections \cup {NoSelection} BY <1>1 DEF TypeOK
    <2>2. QED BY <1>1, <2>1 DEF TypeOK, CreateFails
<1>4. TypeOK' BY <1>1, <1>2, <1>3, NotCreatingType DEF TypeOK
<1>5. QED
    BY <1>1, <1>2, <1>4
    DEF CotizadorInv, ComputesASelection, QuietPageIsCurrent, OneDownloadPerRequest,
        CreatesFromNothing

\* The poll, the download and the deadline touch only the PDF state.
LEMMA PdfStepsInv ==
    ASSUME CotizadorInv, Poll \/ PollAnswer \/ DownloadReady \/ Deadline
    PROVE  CotizadorInv'
<1>1. /\ TypeOK /\ ComputesASelection /\ QuietPageIsCurrent
      /\ OneDownloadPerRequest /\ CreatesFromNothing
    BY DEF CotizadorInv
<1>2. UNCHANGED <<sel, changes, result, compute, late, retained, creating, emitted, published>>
      /\ softError' \in {softError, "emit"}
    BY DEF Poll, PollAnswer, DownloadReady, Deadline
<1>3. pdf \in PdfStates BY <1>1 DEF TypeOK
<1>4. pdf' \in PdfStates /\ OneDownloadPerRequest'
    <2>1. CASE Poll BY <1>1, <1>3, <2>1 DEF Poll, PdfStates, OneDownloadPerRequest
    <2>2. CASE PollAnswer
        <3>1. (pdf.quote \in published) \in BOOLEAN OBVIOUS
        <3>2. QED BY <1>1, <1>3, <2>2, <3>1 DEF PollAnswer, PdfStates, OneDownloadPerRequest
    <2>3. CASE DownloadReady
        <3>1. pdf.downloads = 0 BY <1>1, <2>3 DEF DownloadReady, OneDownloadPerRequest
        <3>2. pdf' = [pdf EXCEPT !.deadline = FALSE, !.generating = FALSE, !.url = TRUE,
                                 !.downloads = @ + 1]
            BY <2>3 DEF DownloadReady
        <3>3. pdf' = [pdf EXCEPT !.deadline = FALSE, !.generating = FALSE, !.url = TRUE,
                                 !.downloads = 1]
            BY <3>1, <3>2
        <3>4. pdf' \in PdfStates BY <1>3, <3>3 DEF PdfStates
        <3>5. pdf'.downloads = 1 /\ pdf'.generating = FALSE BY <1>3, <3>3 DEF PdfStates
        <3>6. QED BY <3>4, <3>5 DEF OneDownloadPerRequest
    <2>4. CASE Deadline BY <1>1, <1>3, <2>4 DEF Deadline, PdfStates, OneDownloadPerRequest
    <2>5. QED BY <2>1, <2>2, <2>3, <2>4
<1>5. TypeOK' BY <1>1, <1>2, <1>4 DEF TypeOK
<1>6. QED
    BY <1>1, <1>2, <1>4, <1>5
    DEF CotizadorInv, ComputesASelection, QuietPageIsCurrent, CreatesFromNothing

LEMMA StepInv == CotizadorInv /\ [Next]_vars => CotizadorInv'
<1> SUFFICES ASSUME CotizadorInv, [Next]_vars PROVE CotizadorInv' OBVIOUS
<1>1. CASE \E s \in Selections : HandlePickUnit(s) \/ ChangeControls(s) \/ LateAnswer(s)
    BY <1>1, SelectionInv, RecomputeInv DEF HandlePickUnit, ChangeControls
<1>2. CASE CambiarUnidad BY <1>2, SelectionInv
<1>3. CASE Recompute \/ Computed \/ ComputeFails \/ RetryTick BY <1>3, RecomputeInv
<1>4. CASE OnDownloadPdf \/ OnWhatsapp BY <1>4, ButtonsInv
<1>5. CASE \E q \in Quotes : Created(q) \/ PublishPdf(q) BY <1>5, CreatedInv, RecomputeInv
<1>6. CASE CreateFails BY <1>6, CreateFailsInv
<1>7. CASE Poll \/ PollAnswer \/ DownloadReady \/ Deadline BY <1>7, PdfStepsInv
<1>8. CASE UNCHANGED vars
    BY <1>8 DEF vars, CotizadorInv, TypeOK, ComputesASelection, QuietPageIsCurrent,
                OneDownloadPerRequest, CreatesFromNothing
<1>9. QED BY <1>1, <1>2, <1>3, <1>4, <1>5, <1>6, <1>7, <1>8 DEF Next

\* The page never ends up with the pair of an older selection, whatever the
\* order in which computes answer.
THEOREM PageIsCurrent == Spec => []QuietPageIsCurrent
<1>1. Spec => []CotizadorInv BY InitInv, StepInv, PTL DEF Spec
<1>2. CotizadorInv => QuietPageIsCurrent BY DEF CotizadorInv
<1>3. QED BY <1>1, <1>2, PTL

\* One automatic download per request, and no generation without a deadline.
THEOREM DownloadsOnce == Spec => []OneDownloadPerRequest
<1>1. Spec => []CotizadorInv BY InitInv, StepInv, PTL DEF Spec
<1>2. CotizadorInv => OneDownloadPerRequest BY DEF CotizadorInv
<1>3. QED BY <1>1, <1>2, PTL

\* The two buttons share one emission for as long as the selection stays.
THEOREM EmitsOnce == Spec => OneQuotePerSelection
<1>1. Spec => []CotizadorInv BY InitInv, StepInv, PTL DEF Spec
<1>2. CotizadorInv /\ [Next]_vars
        => [retained # NoQuote /\ changes' = changes => retained' = retained]_vars
    <2> SUFFICES ASSUME CotizadorInv, [Next]_vars, retained # NoQuote, changes' = changes
                 PROVE  retained' = retained
        OBVIOUS
    <2>1. changes \in Nat BY CotizadorAssumption DEF CotizadorInv, TypeOK
    <2>2. CASE \E s \in Selections : HandlePickUnit(s) \/ ChangeControls(s) \/ LateAnswer(s)
        BY <2>1, <2>2 DEF HandlePickUnit, ChangeControls, Pick, LateAnswer
    <2>3. CASE CambiarUnidad BY <2>1, <2>3 DEF CambiarUnidad
    <2>4. CASE \E q \in Quotes : Created(q) \/ PublishPdf(q)
        BY <2>4 DEF CotizadorInv, CreatesFromNothing, Created, PublishPdf
    <2>5. CASE Recompute \/ Computed \/ ComputeFails \/ RetryTick
        BY <2>5 DEF Recompute, Computed, ComputeFails, RetryTick
    <2>6. CASE OnDownloadPdf \/ OnWhatsapp \/ CreateFails
        BY <2>6 DEF OnDownloadPdf, OnWhatsapp, CreateFails
    <2>7. CASE Poll \/ PollAnswer \/ DownloadReady \/ Deadline
        BY <2>7 DEF Poll, PollAnswer, DownloadReady, Deadline
    <2>8. CASE UNCHANGED vars BY <2>8 DEF vars
    <2>9. QED BY <2>2, <2>3, <2>4, <2>5, <2>6, <2>7, <2>8 DEF Next
<1>3. QED BY <1>1, <1>2, PTL DEF Spec, OneQuotePerSelection

-----------------------------------------------------------------------------
(* The board.                                                              *)

\* Two calls that differ only in whether their callbacks are still there.
SameCall(c, d) ==
    /\ c.n = d.n /\ c.observer = d.observer /\ c.lead = d.lead /\ c.estado = d.estado
    /\ c.snapshot = d.snapshot /\ c.st = d.st /\ c.unsure = d.unsure

\* The calls ds are those of cs but for that; forms do not come to overlap.
KeptCalls(cs, ds) ==
    /\ ds \subseteq Board!Calls
    /\ \A d \in ds : \E c \in cs : SameCall(c, d)
    /\ \A c \in cs : \E d \in ds : SameCall(c, d)

OneForm(cs) ==
    \A c, d \in cs : c.observer = "alta" /\ d.observer = "alta" /\ c.lead = d.lead => c = d

LEMMA KeptHeard ==
    ASSUME NEW c \in Board!Calls, NEW h \in BOOLEAN, NEW d, d = [c EXCEPT !.heard = h]
    PROVE  d \in Board!Calls /\ SameCall(c, d)
  BY DEF Board!Calls, SameCall

LEMMA BoardUnmount ==
    ASSUME NEW cs \in SUBSET Board!Calls, NEW observers
    PROVE  /\ KeptCalls(cs, Board!Unmount(cs, observers))
           /\ OneForm(cs) => OneForm(Board!Unmount(cs, observers))
<1> DEFINE h(c) == c.heard /\ c.observer \notin observers
           f(c) == [c EXCEPT !.heard = h(c)]
<1>1. Board!Unmount(cs, observers) = {f(c) : c \in cs} BY DEF Board!Unmount
<1>2. ASSUME NEW c \in cs PROVE f(c) \in Board!Calls /\ SameCall(c, f(c))
    <2>1. h(c) \in BOOLEAN BY DEF Board!Calls
    <2>2. QED BY <2>1, KeptHeard
<1> HIDE DEF f, h
<1>3. KeptCalls(cs, {f(c) : c \in cs}) BY <1>2 DEF KeptCalls
<1>4. OneForm(cs) => OneForm({f(c) : c \in cs}) BY <1>2 DEF OneForm, SameCall
<1>5. QED BY <1>1, <1>3, <1>4

LEMMA BoardMutate ==
    ASSUME NEW cs \in SUBSET Board!Calls, NEW call \in Board!Calls
    PROVE  \E ds : /\ Board!Mutate(cs, call) = ds \cup {call}
                   /\ KeptCalls(cs, ds) /\ (OneForm(cs) => OneForm(ds))
<1> DEFINE h(c) == c.heard /\ c.observer # call.observer
           f(c) == [c EXCEPT !.heard = h(c)]
<1>1. Board!Mutate(cs, call) = {f(c) : c \in cs} \cup {call} BY DEF Board!Mutate
<1>2. ASSUME NEW c \in cs PROVE f(c) \in Board!Calls /\ SameCall(c, f(c))
    <2>1. h(c) \in BOOLEAN BY DEF Board!Calls
    <2>2. QED BY <2>1, KeptHeard
<1> HIDE DEF f, h
<1>3. KeptCalls(cs, {f(c) : c \in cs}) BY <1>2 DEF KeptCalls
<1>4. OneForm(cs) => OneForm({f(c) : c \in cs}) BY <1>2 DEF OneForm, SameCall
<1>5. QED BY <1>1, <1>3, <1>4

\* A row later than another.
LEMMA RowFacts ==
    ASSUME NEW r \in Board!Rows
    PROVE  /\ r.notas \in Nat /\ (r.notas = 0 <=> r = Board!Absent)
           /\ \A e \in Board!Etapas : r # Board!Absent =>
                 /\ [r EXCEPT !.estado = e] \in Board!Rows
                 /\ [r EXCEPT !.estado = e].notas = r.notas
           /\ r # Board!Absent => [r EXCEPT !.notas = @ + 1] \in Board!Rows
  BY DEF Board!Rows, Board!Absent, Board!Etapas

\* An optimistic move keeps the entries, and the other leads.
LEMMA MovedFacts ==
    ASSUME NEW rows \in [Leads -> Board!Rows], NEW k \in Leads, NEW e \in Board!Etapas,
           NEW moved, moved = Board!Moved(rows, k, e)
    PROVE  /\ moved \in [Leads -> Board!Rows]
           /\ \A l \in Leads : moved[l].notas = rows[l].notas
           /\ \A l \in Leads \ {k} : moved[l] = rows[l]
<1>1. CASE rows[k] = Board!Absent BY <1>1 DEF Board!Moved
<1>2. CASE rows[k] # Board!Absent
    <2>1. moved = [rows EXCEPT ![k] = [rows[k] EXCEPT !.estado = e]] BY <1>2 DEF Board!Moved
    <2>2. /\ [rows[k] EXCEPT !.estado = e] \in Board!Rows
          /\ [rows[k] EXCEPT !.estado = e].notas = rows[k].notas
        BY <1>2, RowFacts
    <2>3. QED BY <2>1, <2>2
<1>3. QED BY <1>1, <1>2

\* The parts of the page that say what is shown and sent.
UiTypes == [open: Leads \cup {NoLead}, pending: Leads \cup {NoLead}, error: BOOLEAN,
            alta: {"closed", "form", "done"}]

LEMMA UiMoves ==
    ASSUME NEW u \in UiTypes
    PROVE  /\ \A x \in Leads \cup {NoLead} : /\ [u EXCEPT !.open = x] \in UiTypes
                                            /\ [u EXCEPT !.pending = x] \in UiTypes
                                            /\ [u EXCEPT !.pending = x].pending = x
                                            /\ [u EXCEPT !.open = x].pending = u.pending
                                            /\ [u EXCEPT !.pending = x, !.error = FALSE] \in UiTypes
                                            /\ [u EXCEPT !.pending = x, !.error = FALSE].pending = x
           /\ \A x \in BOOLEAN : /\ [u EXCEPT !.error = x] \in UiTypes
                                 /\ [u EXCEPT !.error = x].pending = u.pending
           /\ \A x \in {"closed", "form", "done"} : /\ [u EXCEPT !.alta = x] \in UiTypes
                                                    /\ [u EXCEPT !.alta = x].pending = u.pending
  BY DEF UiTypes

\* What a click or an answer does to the prompt: it closes, or stays.
LEMMA PromptStays ==
    ASSUME ui \in UiTypes, NoLead \notin Leads,
           \/ \E x \in Leads \cup {NoLead} : ui' = [ui EXCEPT !.open = x]
           \/ ui' = [ui EXCEPT !.pending = NoLead]
           \/ \E x \in {"closed", "form", "done"} : ui' = [ui EXCEPT !.alta = x]
           \/ ui' = ui
    PROVE  ui' \in UiTypes /\ (ui'.pending \in Leads => ui'.pending = ui.pending)
<1>1. CASE \E x \in Leads \cup {NoLead} : ui' = [ui EXCEPT !.open = x]
    BY <1>1 DEF UiTypes
<1>2. CASE ui' = [ui EXCEPT !.pending = NoLead]
    <2>1. ui' \in UiTypes /\ ui'.pending = NoLead BY <1>2 DEF UiTypes
    <2>2. QED BY <2>1
<1>3. CASE \E x \in {"closed", "form", "done"} : ui' = [ui EXCEPT !.alta = x]
    BY <1>3 DEF UiTypes
<1>4. QED BY <1>1, <1>2, <1>3

\* A step that sends nothing and learns nothing: it may drop callbacks, close
\* or open parts of the page, and start a fetch.
LEMMA BoardLooks ==
    ASSUME Board!BoardInv, UNCHANGED <<db, data, isError, made, saved, doubt, clears>>,
           ui' \in UiTypes, ui'.pending \in Leads => db[ui'.pending] # Board!Absent,
           KeptCalls(calls, calls'), OneForm(calls'),
           fetch' = fetch \/ fetch' = Board!NewFetch
    PROVE  Board!BoardInv'
<1>1. Board!TypeOK /\ Board!ServerAhead /\ Board!RowsGenuine /\ Board!NoEntryMissing
    BY DEF Board!BoardInv
<1>2. Board!TypeOK'
    <2>1. fetch' \in [on: BOOLEAN, read: SUBSET [Leads -> Board!Rows]]
        <3>1. fetch \in [on: BOOLEAN, read: SUBSET [Leads -> Board!Rows]]
            BY <1>1 DEF Board!TypeOK
        <3>2. Board!NewFetch \in [on: BOOLEAN, read: SUBSET [Leads -> Board!Rows]]
            BY DEF Board!NewFetch
        <3>3. QED BY <3>1, <3>2
    <2>2. calls' \subseteq Board!Calls BY DEF KeptCalls
    <2>3. \A c \in calls' : Board!MoveCall(c)
        BY <1>1 DEF Board!TypeOK, KeptCalls, SameCall, Board!MoveCall
    <2>4. QED BY <1>1, <2>1, <2>2, <2>3 DEF Board!TypeOK, UiTypes
<1>3. /\ \A d \in calls' : \E c \in calls : SameCall(c, d)
      /\ \A c \in calls : \E d \in calls' : SameCall(c, d)
    BY DEF KeptCalls
<1>4. fetch'.read \subseteq fetch.read /\ (~fetch'.on => ~fetch.on)
    BY <1>1 DEF Board!NewFetch, Board!TypeOK
<1>5. Board!ServerAhead'
    BY <1>1, <1>3 DEF Board!ServerAhead, OneForm, SameCall
<1>6. \A l \in Leads : /\ Board!DoneOn(l) => Board!DoneOn(l)'
                       /\ Board!MovingOn(l) => Board!MovingOn(l)'
    BY <1>3 DEF SameCall, Board!DoneOn, Board!MovingOn
<1>7. Board!RowsGenuine'
    BY <1>1, <1>3, <1>4, <1>6 DEF Board!RowsGenuine, Board!Genuine, SameCall
<1>8. Board!NoEntryMissing'
    BY <1>1, <1>4, <1>6 DEF Board!NoEntryMissing
<1>9. QED BY <1>2, <1>5, <1>7, <1>8 DEF Board!BoardInv

\* The calls as they are keep themselves.
LEMMA KeptAsIs ==
    ASSUME NEW cs \in SUBSET Board!Calls
    PROVE  KeptCalls(cs, cs)
  BY DEF KeptCalls, SameCall

\* What a call is as it is sent.
LEMMA SentCall ==
    ASSUME Board!TypeOK, NEW o \in {"board", "nota", "alta"}, NEW l \in Leads,
           NEW e \in Board!Etapas \cup {"none"}, NEW ss \in SUBSET [Leads -> Board!Rows]
    PROVE  LET c == Board!Call(o, l, e, ss)
           IN /\ c \in Board!Calls /\ c.observer = o /\ c.lead = l /\ c.estado = e
              /\ c.snapshot = ss /\ c.st = "sent"
              /\ ss # {} => c.unsure = doubt \cup {d.lead : d \in calls}
<1> DEFINE un == IF ss = {} THEN {} ELSE doubt \cup {d.lead : d \in calls}
<1>1. un \in SUBSET Leads BY DEF Board!TypeOK, Board!Calls
<1>2. made \in Nat BY BrowserAssumption DEF Board!TypeOK, Board!LeadsBoardAssumption
<1>3. Board!Call(o, l, e, ss) = [n |-> made, observer |-> o, lead |-> l, estado |-> e,
         snapshot |-> ss, st |-> "sent", heard |-> TRUE, unsure |-> un]
    BY DEF Board!Call
<1> HIDE DEF un
<1>4. Board!Call(o, l, e, ss) \in Board!Calls BY <1>1, <1>2, <1>3 DEF Board!Calls
<1>5. QED BY <1>3, <1>4 DEF un

\* A call is sent of a lead the server has, or of a new one; a move shows at
\* once, without an entry.
LEMMA BoardSends ==
    ASSUME Board!BoardInv, NEW call \in Board!Calls,
           calls' = Board!Mutate(calls, call), call.st = "sent",
           UNCHANGED <<db, isError, fetch, saved, doubt, clears>>,
           made' \in 0..MaxCalls, ui' \in UiTypes, ui'.pending = ui.pending,
           Board!MoveCall(call),
           call.observer # "alta" => db[call.lead] # Board!Absent,
           call.observer = "alta" => db[call.lead] = Board!Absent,
           \A c \in calls : c.observer = "alta" /\ call.observer = "alta" => c.lead # call.lead,
           \/ call.snapshot = {} /\ data' = data
           \/ /\ call.observer = "board" /\ call.snapshot = {data}
              /\ call.unsure = doubt \cup {c.lead : c \in calls}
              /\ call.estado \in Board!Etapas
              /\ data' = Board!Moved(data, call.lead, call.estado)
    PROVE  Board!BoardInv'
<1>1. Board!TypeOK /\ Board!ServerAhead /\ Board!RowsGenuine /\ Board!NoEntryMissing
    BY DEF Board!BoardInv
<1>2. PICK ds : /\ calls' = ds \cup {call} /\ KeptCalls(calls, ds)
                /\ OneForm(calls) => OneForm(ds)
    BY <1>1, BoardMutate DEF Board!TypeOK
<1>3. /\ ds \subseteq Board!Calls
      /\ \A d \in ds : \E c \in calls : SameCall(c, d)
      /\ \A c \in calls : \E d \in calls' : SameCall(c, d)
    BY <1>2 DEF KeptCalls
<1>4. call.lead \in Leads BY DEF Board!Calls
<1>5. /\ data' \in [Leads -> Board!Rows]
      /\ \A l \in Leads : data'[l].notas = data[l].notas
      /\ \A l \in Leads \ {call.lead} : data'[l] = data[l]
      /\ data' = data \/ call.observer = "board"
    <2>1. data \in [Leads -> Board!Rows] BY <1>1 DEF Board!TypeOK
    <2>2. QED BY <2>1, <1>4, MovedFacts
<1>6. Board!TypeOK'
    <2>1. \A c \in calls' : Board!MoveCall(c)
        BY <1>1, <1>2, <1>3 DEF Board!TypeOK, SameCall, Board!MoveCall
    <2>2. QED BY <1>1, <1>2, <1>3, <1>5, <2>1 DEF Board!TypeOK, UiTypes
<1>7. Board!ServerAhead'
    <2>1. \A l \in Leads : data'[l].notas <= db'[l].notas
        BY <1>1, <1>5 DEF Board!ServerAhead
    <2>2. \A c \in calls' : \A s \in c.snapshot, l \in Leads : s[l].notas <= db'[l].notas
        BY <1>1, <1>2, <1>3 DEF Board!ServerAhead, SameCall
    <2>3. \A c \in calls' : /\ c.observer # "alta" => db'[c.lead] # Board!Absent
                            /\ c.observer = "alta" /\ c.st = "sent" => db'[c.lead] = Board!Absent
        BY <1>1, <1>2, <1>3 DEF Board!ServerAhead, SameCall
    <2>4. OneForm(ds) BY <1>1, <1>2 DEF Board!ServerAhead, OneForm
    <2>5. \A d \in ds : d.observer = "alta" /\ call.observer = "alta" => d.lead # call.lead
        BY <1>3 DEF SameCall
    <2>6. OneForm(calls') BY <1>2, <2>4, <2>5 DEF OneForm
    <2>7. ui'.pending \in Leads => db'[ui'.pending] # Board!Absent BY <1>1 DEF Board!ServerAhead
    <2>8. QED BY <2>1, <2>2, <2>3, <2>6, <2>7 DEF Board!ServerAhead, OneForm
<1>8. \A l \in Leads : /\ Board!DoneOn(l) => Board!DoneOn(l)'
                       /\ Board!MovingOn(l) => Board!MovingOn(l)'
                       /\ call.observer = "board" /\ l = call.lead => Board!MovingOn(l)'
    BY <1>2, <1>3 DEF SameCall, Board!DoneOn, Board!MovingOn
<1>9. Board!RowsGenuine'
    <2>1. \A l \in Leads \ doubt' : Board!Genuine(data[l], l) \/ Board!MovingOn(l)'
        BY <1>1, <1>8 DEF Board!RowsGenuine
    <2>2. \A l \in Leads \ doubt' : Board!Genuine(data[l], l)' \/ Board!MovingOn(l)'
        BY <1>5, <1>8, <2>1 DEF Board!Genuine
    <2>3. \A l \in Leads \ call.unsure : call.snapshot = {data} => Board!Genuine(data[l], l)
        BY <1>1 DEF Board!RowsGenuine, Board!MovingOn
    <2>4. \A s \in call.snapshot, l \in Leads \ call.unsure : Board!Genuine(s[l], l)
        BY <2>3
    <2>5. \A c \in calls' : \A s \in c.snapshot, l \in Leads \ c.unsure : Board!Genuine(s[l], l)
        BY <1>1, <1>2, <1>3, <2>4 DEF Board!RowsGenuine, SameCall
    <2>6. QED BY <1>1, <2>2, <2>5 DEF Board!RowsGenuine, Board!Genuine
<1>10. Board!NoEntryMissing'
    BY <1>1, <1>5, <1>8 DEF Board!NoEntryMissing
<1>11. QED BY <1>6, <1>7, <1>9, <1>10 DEF Board!BoardInv

\* What the server has only gains entries.
ServerMoves ==
    /\ db' \in [Leads -> Board!Rows]
    /\ \A l \in Leads : db'[l] = db[l] \/ db[l].notas < db'[l].notas

LEMMA LaterRows ==
    ASSUME Board!TypeOK, ServerMoves
    PROVE  \A l \in Leads :
             /\ db[l] # Board!Absent => db'[l] # Board!Absent
             /\ \A row \in Board!Rows : row.notas <= db[l].notas =>
                    /\ row.notas <= db'[l].notas
                    /\ Board!Genuine(row, l) => Board!Genuine(row, l)'
                    /\ db'[l] # db[l] => Board!Genuine(row, l)'
<1> SUFFICES ASSUME NEW l \in Leads
             PROVE  /\ db[l] # Board!Absent => db'[l] # Board!Absent
                    /\ \A row \in Board!Rows : row.notas <= db[l].notas =>
                           /\ row.notas <= db'[l].notas
                           /\ Board!Genuine(row, l) => Board!Genuine(row, l)'
                           /\ db'[l] # db[l] => Board!Genuine(row, l)'
    OBVIOUS
<1>1. db[l] \in Board!Rows /\ db'[l] \in Board!Rows BY DEF ServerMoves, Board!TypeOK
<1>2. db'[l] = db[l] \/ db[l].notas < db'[l].notas BY DEF ServerMoves
<1>3. \A row \in Board!Rows : row.notas \in Nat /\ (row.notas = 0 <=> row = Board!Absent)
    BY RowFacts
<1>4. db[l] # Board!Absent => db'[l] # Board!Absent BY <1>1, <1>2, <1>3
<1>5. ASSUME NEW row \in Board!Rows, row.notas <= db[l].notas
      PROVE /\ row.notas <= db'[l].notas
            /\ Board!Genuine(row, l) => Board!Genuine(row, l)'
            /\ db'[l] # db[l] => Board!Genuine(row, l)'
    BY <1>1, <1>2, <1>3, <1>5 DEF Board!Genuine
<1>6. QED BY <1>4, <1>5

\* A row the server had is not ahead of it.
LEMMA GenuineNotAhead ==
    ASSUME Board!TypeOK, NEW row \in Board!Rows, NEW l \in Leads, Board!Genuine(row, l)
    PROVE  row.notas <= db[l].notas
<1>1. db[l] \in Board!Rows BY DEF Board!TypeOK
<1>2. row.notas \in Nat /\ db[l].notas \in Nat BY <1>1, RowFacts
<1>3. QED BY <1>2 DEF Board!Genuine

\* The server takes a call: a commit adds an entry to its lead.
LEMMA BoardServes ==
    ASSUME Board!BoardInv, NEW c \in calls, Board!ServerTakes(c)
    PROVE  Board!BoardInv'
<1>1. Board!TypeOK /\ Board!ServerAhead /\ Board!RowsGenuine /\ Board!NoEntryMissing
    BY DEF Board!BoardInv
<1>2. c \in Board!Calls /\ c.lead \in Leads /\ c.st = "sent"
    BY <1>1 DEF Board!TypeOK, Board!Calls, Board!ServerTakes
<1>3. UNCHANGED <<data, isError, fetch, made, ui, doubt, clears, saved>>
    BY DEF Board!ServerTakes
<1>4. PICK verdict \in {"done", "refused"} :
          /\ calls' = Board!Served(c, verdict)
          /\ db' = IF verdict = "done" THEN Board!Applied(db, c) ELSE db
    BY DEF Board!ServerTakes
<1> DEFINE served == [c EXCEPT !.st = verdict]
<1>5. /\ served \in Board!Calls /\ served.lead = c.lead /\ served.observer = c.observer
      /\ served.snapshot = c.snapshot /\ served.unsure = c.unsure /\ served.st = verdict
    BY <1>2 DEF Board!Calls
<1>6. calls' = (calls \ {c}) \cup {served} BY <1>4 DEF Board!Served
<1> HIDE DEF served
<1>7. /\ db' \in [Leads -> Board!Rows]
      /\ \A l \in Leads : db'[l] = db[l] \/ db[l].notas < db'[l].notas
      /\ \A l \in Leads : db'[l] = db[l] <=> l # c.lead \/ verdict = "refused"
    <2>1. db \in [Leads -> Board!Rows] BY <1>1 DEF Board!TypeOK
    <2>2. CASE verdict = "refused" BY <1>4, <2>1, <2>2
    <2>3. CASE verdict = "done"
        <3>1. db[c.lead] \in Board!Rows /\ db[c.lead].notas \in Nat BY <1>2, <2>1, RowFacts
        <3>2. PICK row \in Board!Rows : /\ row.notas = db[c.lead].notas + 1
                                         /\ db' = [db EXCEPT ![c.lead] = row]
            <4>1. CASE c.observer = "board"
                <5>1. c.estado \in Board!Etapas
                    BY <1>1, <1>2, <4>1 DEF Board!TypeOK, Board!MoveCall
                <5>2. db' = [db EXCEPT ![c.lead] = [estado |-> c.estado,
                                                    notas |-> db[c.lead].notas + 1]]
                    BY <1>2, <1>4, <2>1, <2>3, <4>1 DEF Board!Applied
                <5>3. [estado |-> c.estado, notas |-> db[c.lead].notas + 1] \in Board!Rows
                    BY <3>1, <5>1 DEF Board!Rows
                <5>4. [estado |-> c.estado, notas |-> db[c.lead].notas + 1].notas
                          = db[c.lead].notas + 1
                    OBVIOUS
                <5>5. QED BY <5>2, <5>3, <5>4, Zenon
            <4>2. CASE c.observer = "nota"
                <5>1. db[c.lead] # Board!Absent BY <1>1, <4>2 DEF Board!ServerAhead
                <5>2. db[c.lead] \in [estado: Board!Etapas, notas: Nat \ {0}]
                    BY <1>2, <2>1, <5>1 DEF Board!Rows
                <5>3. db' = [db EXCEPT ![c.lead].notas = @ + 1]
                    BY <1>4, <2>3, <4>2 DEF Board!Applied
                <5>4. db' = [db EXCEPT ![c.lead] = [db[c.lead] EXCEPT !.notas = @ + 1]]
                    BY <1>2, <2>1, <5>3
                <5>5. /\ [db[c.lead] EXCEPT !.notas = @ + 1] \in Board!Rows
                      /\ [db[c.lead] EXCEPT !.notas = @ + 1].notas = db[c.lead].notas + 1
                    BY <5>2 DEF Board!Rows
                <5>6. QED BY <5>4, <5>5, Zenon
            <4>3. CASE c.observer = "alta"
                <5>1. db[c.lead].notas = 0
                    BY <1>1, <1>2, <4>3 DEF Board!ServerAhead, Board!Absent
                <5>2. db' = [db EXCEPT ![c.lead] = [estado |-> "nuevo", notas |-> 1]]
                    BY <1>4, <2>3, <4>3 DEF Board!Applied
                <5>3. [estado |-> "nuevo", notas |-> 1] \in Board!Rows
                    BY BrowserAssumption DEF Board!LeadsBoardAssumption, Board!Rows, Board!Etapas
                <5>4. [estado |-> "nuevo", notas |-> 1].notas = db[c.lead].notas + 1 BY <5>1
                <5>5. QED BY <5>2, <5>3, <5>4, Zenon
            <4>4. QED BY <1>2, <4>1, <4>2, <4>3 DEF Board!Calls
        <3>3. db'[c.lead] = row /\ row # db[c.lead] BY <1>2, <2>1, <3>1, <3>2
        <3>4. QED BY <1>2, <2>1, <2>3, <3>1, <3>2, <3>3
    <2>4. QED BY <2>2, <2>3
<1>8. Board!TypeOK'
    <2>1. served.estado = c.estado BY DEF served
    <2>2. \A d \in calls' : Board!MoveCall(d)
        BY <1>1, <1>5, <1>6, <2>1 DEF Board!TypeOK, Board!MoveCall
    <2>3. QED BY <1>1, <1>3, <1>5, <1>6, <1>7, <2>2 DEF Board!TypeOK
<1>9. ServerMoves BY <1>7 DEF ServerMoves
<1>10. \A c2 \in calls' : c2 = served \/ (c2 \in calls /\ c2 # c) BY <1>6
<1>11. Board!ServerAhead'
    <2>1. \A d \in calls' : \A s \in d.snapshot, l \in Leads : s[l].notas <= db'[l].notas
        BY <1>1, <1>2, <1>5, <1>9, <1>10, LaterRows DEF Board!ServerAhead, Board!Calls, Board!TypeOK
    <2>2. \A l \in Leads : data'[l].notas <= db'[l].notas
        BY <1>1, <1>3, <1>9, LaterRows DEF Board!ServerAhead, Board!TypeOK
    <2>3. ASSUME NEW d \in calls', d.observer # "alta" PROVE db'[d.lead] # Board!Absent
        BY <1>1, <1>5, <1>9, <1>10, <2>3, LaterRows DEF Board!ServerAhead, Board!Calls, Board!TypeOK
    <2>4. ASSUME NEW d \in calls', d.observer = "alta", d.st = "sent"
          PROVE db'[d.lead] = Board!Absent
        <3>1. (d \in calls /\ d # c /\ d.lead \in Leads) \/ (d = served /\ verdict = "sent")
            BY <1>1, <1>5, <1>10, <2>4 DEF Board!TypeOK, Board!Calls
        <3>2. d \in calls /\ d # c /\ d.lead \in Leads BY <3>1
        <3>3. db[d.lead] = Board!Absent BY <1>1, <2>4, <3>2 DEF Board!ServerAhead
        <3>4. d.lead # c.lead
            <4>1. CASE c.observer = "alta" BY <1>1, <2>4, <3>2, <4>1 DEF Board!ServerAhead
            <4>2. CASE c.observer # "alta" BY <1>1, <3>3, <4>2 DEF Board!ServerAhead
            <4>3. QED BY <4>1, <4>2
        <3>5. QED BY <1>7, <3>2, <3>3, <3>4
    <2>5. \A d1, d2 \in calls' : d1.observer = "alta" /\ d2.observer = "alta" /\ d1.lead = d2.lead
                                   => d1 = d2
        BY <1>1, <1>5, <1>10 DEF Board!ServerAhead
    <2>6. ui'.pending \in Leads => db'[ui'.pending] # Board!Absent
        BY <1>1, <1>3, <1>9, LaterRows DEF Board!ServerAhead, Board!TypeOK
    <2>7. QED BY <2>1, <2>2, <2>3, <2>4, <2>5, <2>6 DEF Board!ServerAhead
<1>12. \A l \in Leads : /\ Board!DoneOn(l) => Board!DoneOn(l)'
                        /\ db'[l] # db[l] => Board!DoneOn(l)'
                        /\ db'[l] = db[l] /\ Board!MovingOn(l) => Board!MovingOn(l)'
    <2>1. served \in calls' /\ \A d \in calls : d = c \/ d \in calls' BY <1>6
    <2>2. QED BY <1>2, <1>5, <1>7, <2>1 DEF Board!DoneOn, Board!MovingOn
<1>13. Board!RowsGenuine'
    <2>1. \A l \in Leads \ doubt' : Board!Genuine(data[l], l)' \/ Board!MovingOn(l)'
        <3>1. \A l \in Leads : data[l] \in Board!Rows /\ data[l].notas <= db[l].notas
            BY <1>1 DEF Board!TypeOK, Board!ServerAhead
        <3>2. \A l \in Leads : db'[l] # db[l] \/ Board!Genuine(data[l], l)
                                  => Board!Genuine(data[l], l)'
            BY <1>1, <1>3, <1>9, <3>1, LaterRows
        <3>3. QED BY <1>1, <1>3, <1>12, <3>2 DEF Board!RowsGenuine
    <2>2. ASSUME NEW rows \in [Leads -> Board!Rows], NEW l \in Leads, Board!Genuine(rows[l], l)
          PROVE Board!Genuine(rows[l], l)'
        <3>1. rows[l] \in Board!Rows /\ rows[l].notas <= db[l].notas
            BY <1>1, <2>2, GenuineNotAhead
        <3>2. QED BY <1>1, <1>9, <2>2, <3>1, LaterRows
    <2>3. \A d \in calls' : \A s \in d.snapshot, l \in Leads \ d.unsure : Board!Genuine(s[l], l)'
        <3>1. \A d \in calls : d.snapshot \subseteq [Leads -> Board!Rows]
            BY <1>1 DEF Board!TypeOK, Board!Calls
        <3>2. \A d \in calls : \A s \in d.snapshot, l \in Leads \ d.unsure : Board!Genuine(s[l], l)'
            BY <1>1, <2>2, <3>1 DEF Board!RowsGenuine
        <3>3. QED BY <1>5, <1>10, <3>2
    <2>4. \A rows \in fetch'.read, l \in Leads : Board!Genuine(rows[l], l)'
        BY <1>1, <1>3, <2>2 DEF Board!RowsGenuine, Board!TypeOK
    <2>5. QED BY <2>1, <2>3, <2>4 DEF Board!RowsGenuine
<1>14. Board!NoEntryMissing'
    BY <1>1, <1>3, <1>12 DEF Board!NoEntryMissing
<1>15. QED BY <1>8, <1>11, <1>13, <1>14 DEF Board!BoardInv

\* Another session writes: its lead is in doubt.
LEMMA BoardElsewhere ==
    ASSUME Board!BoardInv, NEW l \in Leads, NEW e \in Board!Etapas, db[l] # Board!Absent,
           Board!OtherSession(l, e)
    PROVE  Board!BoardInv'
<1>1. Board!TypeOK /\ Board!ServerAhead /\ Board!RowsGenuine /\ Board!NoEntryMissing
    BY DEF Board!BoardInv
<1>2. /\ UNCHANGED <<data, isError, fetch, calls, ui, saved>> /\ made' \in 0..MaxCalls
      /\ doubt' = doubt \cup {l} /\ clears' = clears \ {l}
      /\ db' = [db EXCEPT ![l] = [estado |-> e, notas |-> @.notas + 1]]
    BY <1>1, BrowserAssumption
    DEF Board!OtherSession, Board!Doubt, Board!TypeOK, Board!LeadsBoardAssumption
<1>3. ServerMoves
    <2>1. db \in [Leads -> Board!Rows] /\ db[l].notas \in Nat BY <1>1, RowFacts DEF Board!TypeOK
    <2>2. [estado |-> e, notas |-> db[l].notas + 1] \in Board!Rows BY <2>1 DEF Board!Rows
    <2>3. QED BY <1>2, <2>1, <2>2 DEF ServerMoves
<1>4. \A k \in Leads \ {l} : db'[k] = db[k] BY <1>1, <1>2 DEF Board!TypeOK
<1>5. Board!TypeOK' BY <1>1, <1>2, <1>3 DEF Board!TypeOK, ServerMoves
<1>6. ASSUME NEW k \in Leads
      PROVE /\ db[k] # Board!Absent => db'[k] # Board!Absent
            /\ db[k] = Board!Absent => db'[k] = Board!Absent
            /\ \A row \in Board!Rows : /\ row.notas <= db[k].notas => row.notas <= db'[k].notas
                                       /\ Board!Genuine(row, k) => Board!Genuine(row, k)'
    <2>1. \A row \in Board!Rows : Board!Genuine(row, k) => row.notas <= db[k].notas
        BY <1>1, GenuineNotAhead
    <2>2. QED BY <1>1, <1>3, <1>4, <2>1, LaterRows
<1>7. \A d \in calls : d.lead \in Leads /\ d.snapshot \subseteq [Leads -> Board!Rows]
    BY <1>1 DEF Board!TypeOK, Board!Calls
<1>8. Board!ServerAhead'
    <2>1. \A k \in Leads : data'[k].notas <= db'[k].notas
        BY <1>1, <1>2, <1>6 DEF Board!ServerAhead, Board!TypeOK
    <2>2. \A d \in calls : \A s \in d.snapshot, k \in Leads : s[k].notas <= db'[k].notas
        BY <1>1, <1>6, <1>7 DEF Board!ServerAhead
    <2>3. QED BY <1>1, <1>2, <1>6, <1>7, <2>1, <2>2 DEF Board!ServerAhead
<1>9. \A k \in Leads : /\ Board!DoneOn(k) <=> Board!DoneOn(k)'
                       /\ Board!MovingOn(k) <=> Board!MovingOn(k)'
    BY <1>2 DEF Board!DoneOn, Board!MovingOn
<1>10. Board!RowsGenuine'
    <2>1. \A k \in Leads \ doubt' : Board!Genuine(data[k], k)' \/ Board!MovingOn(k)'
        BY <1>1, <1>2, <1>6, <1>9 DEF Board!RowsGenuine, Board!TypeOK
    <2>2. \A d \in calls : \A s \in d.snapshot, k \in Leads \ d.unsure : Board!Genuine(s[k], k)'
        BY <1>1, <1>6, <1>7 DEF Board!RowsGenuine
    <2>3. \A rows \in fetch.read, k \in Leads : Board!Genuine(rows[k], k)'
        BY <1>1, <1>6 DEF Board!RowsGenuine, Board!TypeOK
    <2>4. QED BY <1>2, <2>1, <2>2, <2>3 DEF Board!RowsGenuine
<1>11. Board!NoEntryMissing' BY <1>1, <1>2, <1>4, <1>9 DEF Board!NoEntryMissing
<1>12. QED BY <1>5, <1>8, <1>10, <1>11 DEF Board!BoardInv
\* An answer is heard, or lost, and its call is gone: the page refetches, or
\* the lead the answer may have left behind is in doubt.
LEMMA BoardForgets ==
    ASSUME Board!BoardInv, NEW c \in calls, calls' = calls \ {c},
           UNCHANGED <<db, data, isError, made, saved>>,
           ui' \in UiTypes, ui'.pending \in Leads => ui'.pending = ui.pending,
           \/ /\ fetch' = Board!NewFetch /\ c.st = "done" /\ doubt' = doubt /\ clears' = {}
           \/ /\ fetch' = fetch
              /\ \E ls \in SUBSET Leads :
                     /\ doubt' = doubt \cup ls /\ clears' = clears \ ls
                     /\ c.st = "done" \/ c.observer = "board" => c.lead \in ls
    PROVE  Board!BoardInv'
<1>1. Board!TypeOK /\ Board!ServerAhead /\ Board!RowsGenuine /\ Board!NoEntryMissing
    BY DEF Board!BoardInv
<1>2. /\ fetch \in [on: BOOLEAN, read: SUBSET [Leads -> Board!Rows]]
      /\ Board!NewFetch \in [on: BOOLEAN, read: SUBSET [Leads -> Board!Rows]]
      /\ Board!NewFetch.on /\ Board!NewFetch.read = {}
    BY <1>1 DEF Board!TypeOK, Board!NewFetch
<1>3. /\ fetch' \in [on: BOOLEAN, read: SUBSET [Leads -> Board!Rows]]
      /\ fetch'.read \subseteq fetch.read /\ (~fetch'.on => ~fetch.on)
      /\ doubt \subseteq doubt' /\ doubt' \subseteq Leads /\ clears' \subseteq doubt'
    BY <1>1, <1>2 DEF Board!TypeOK
<1>4. Board!TypeOK' BY <1>1, <1>3 DEF Board!TypeOK, UiTypes
<1>5. Board!ServerAhead' BY <1>1 DEF Board!ServerAhead
<1>6. \A l \in Leads : /\ Board!DoneOn(l) => Board!DoneOn(l)' \/ (c.lead = l /\ c.st = "done")
                       /\ Board!MovingOn(l) => Board!MovingOn(l)'
                              \/ (c.lead = l /\ c.observer = "board" /\ c.st # "done")
    BY DEF Board!DoneOn, Board!MovingOn
<1>7. Board!RowsGenuine'
    <2>1. \A l \in Leads \ doubt' : Board!Genuine(data[l], l) \/ Board!MovingOn(l)'
        BY <1>1, <1>3, <1>6 DEF Board!RowsGenuine
    <2>2. QED BY <1>1, <1>3, <2>1 DEF Board!RowsGenuine, Board!Genuine
<1>8. Board!NoEntryMissing'
    <2>1. CASE fetch' = Board!NewFetch BY <1>2, <2>1 DEF Board!NoEntryMissing
    <2>2. CASE fetch' = fetch /\ fetch' # Board!NewFetch
        <3>1. PICK ls \in SUBSET Leads :
                  /\ doubt' = doubt \cup ls /\ clears' = clears \ ls
                  /\ c.st = "done" => c.lead \in ls
            BY <2>2
        <3>2. \A l \in Leads \ doubt' : Board!DoneOn(l) => Board!DoneOn(l)' BY <1>6, <3>1
        <3>3. \A l \in Leads \ (doubt' \ clears') :
                  l \notin doubt \ clears /\ (Board!DoneOn(l) => Board!DoneOn(l)')
            BY <1>6, <3>1
        <3>4. QED BY <1>1, <1>3, <2>2, <3>2, <3>3 DEF Board!NoEntryMissing
    <2>3. QED BY <2>1, <2>2
<1>9. QED BY <1>4, <1>5, <1>7, <1>8 DEF Board!BoardInv

\* What Show leaves of the calls and the page.
LEMMA ShowFacts ==
    ASSUME Board!TypeOK, NEW rows, NEW error, NEW cs \in SUBSET calls, NEW u \in UiTypes,
           Board!Show(rows, error, cs, u)
    PROVE  /\ data' = rows /\ isError' = error
           /\ KeptCalls(cs, calls') /\ (OneForm(cs) => OneForm(calls'))
           /\ ui' \in UiTypes /\ ui'.pending = u.pending
<1>1. cs \in SUBSET Board!Calls BY DEF Board!TypeOK
<1>2. \E gone : calls' = Board!Unmount(cs, gone) BY DEF Board!Show
<1>3. KeptCalls(cs, calls') /\ (OneForm(cs) => OneForm(calls')) BY <1>1, <1>2, BoardUnmount
<1>4. \E b \in BOOLEAN : ui' = [u EXCEPT !.alta = IF b /\ @ = "done" THEN "form" ELSE @]
    BY DEF Board!Show
<1>5. ui' \in UiTypes /\ ui'.pending = u.pending BY <1>4 DEF UiTypes
<1>6. QED BY <1>3, <1>5 DEF Board!Show

\* A rollback: what it restores is the server's but for the leads in doubt.
LEMMA BoardRollsBack ==
    ASSUME Board!BoardInv, NEW c \in calls, Board!MoveFails(c)
    PROVE  Board!BoardInv'
<1>1. Board!TypeOK /\ Board!ServerAhead /\ Board!RowsGenuine /\ Board!NoEntryMissing
    BY DEF Board!BoardInv
<1>2. /\ c \in Board!Calls /\ c.lead \in Leads /\ c.snapshot \subseteq [Leads -> Board!Rows]
      /\ c.unsure \subseteq Leads /\ ui \in UiTypes
    BY <1>1 DEF Board!TypeOK, Board!Calls, UiTypes
<1> DEFINE u == [ui EXCEPT !.error = TRUE]
           moved(s) == Board!Moved(s, c.lead, c.estado)
           ls(s) == c.unsure \cup (IF c.st = "done" THEN {c.lead} ELSE {})
                        \cup {l \in Leads : isError \/ data[l] # moved(s)[l]}
<1>3. PICK s \in c.snapshot : /\ Board!Show(s, FALSE, calls \ {c}, u)
                              /\ doubt' = doubt \cup ls(s) /\ clears' = clears \ ls(s)
    BY DEF Board!MoveFails, Board!Doubt
<1>4. UNCHANGED <<db, fetch, made, saved>> BY DEF Board!MoveFails
<1>5. u \in UiTypes /\ u.pending = ui.pending BY <1>2, UiMoves
<1>6. /\ data' = s /\ isError' = FALSE
      /\ KeptCalls(calls \ {c}, calls') /\ (OneForm(calls \ {c}) => OneForm(calls'))
      /\ ui' \in UiTypes /\ ui'.pending = ui.pending
    BY <1>1, <1>3, <1>5, ShowFacts
<1>7. /\ calls' \subseteq Board!Calls
      /\ \A d \in calls' : \E e \in calls : SameCall(e, d)
      /\ \A e \in calls \ {c} : \E d \in calls' : SameCall(e, d)
    BY <1>6 DEF KeptCalls
<1>8. /\ doubt' \subseteq Leads /\ clears' \subseteq doubt' /\ doubt \subseteq doubt'
      /\ \A l \in Leads \ doubt' : /\ l \notin c.unsure /\ ~isError /\ data[l] = moved(s)[l]
                                   /\ ~(c.st = "done" /\ l = c.lead)
      /\ \A l \in Leads \ (doubt' \ clears') : /\ l \notin doubt \ clears
                                               /\ ~(c.st = "done" /\ l = c.lead)
    BY <1>1, <1>2, <1>3 DEF Board!TypeOK
<1>9. /\ moved(s) \in [Leads -> Board!Rows]
      /\ \A l \in Leads : moved(s)[l].notas = s[l].notas
      /\ \A l \in Leads \ {c.lead} : moved(s)[l] = s[l]
    <2>1. c.observer = "board" /\ c.estado \in Board!Etapas
        BY <1>1 DEF Board!TypeOK, Board!MoveCall
    <2>2. QED BY <1>2, <2>1, MovedFacts
<1> HIDE DEF u, moved, ls
<1>10. s \in [Leads -> Board!Rows] BY <1>2
<1>11. Board!TypeOK'
    <2>1. \A d \in calls' : Board!MoveCall(d)
        BY <1>1, <1>7 DEF Board!TypeOK, SameCall, Board!MoveCall
    <2>2. QED BY <1>1, <1>4, <1>6, <1>7, <1>8, <1>10, <2>1 DEF Board!TypeOK, UiTypes
<1>12. Board!ServerAhead'
    <2>1. \A l \in Leads : data'[l].notas <= db'[l].notas
        BY <1>1, <1>4, <1>6 DEF Board!ServerAhead
    <2>2. \A d \in calls' :
              /\ \A r \in d.snapshot, l \in Leads : r[l].notas <= db'[l].notas
              /\ d.observer # "alta" => db'[d.lead] # Board!Absent
              /\ d.observer = "alta" /\ d.st = "sent" => db'[d.lead] = Board!Absent
        BY <1>1, <1>4, <1>7 DEF Board!ServerAhead, SameCall
    <2>3. OneForm(calls') BY <1>1, <1>6 DEF Board!ServerAhead, OneForm
    <2>4. QED BY <1>1, <1>4, <1>6, <2>1, <2>2, <2>3 DEF Board!ServerAhead, OneForm
<1>13. \A l \in Leads \ doubt' : /\ Board!DoneOn(l) => Board!DoneOn(l)'
                                 /\ l # c.lead /\ Board!MovingOn(l) => Board!MovingOn(l)'
    BY <1>7, <1>8 DEF Board!DoneOn, Board!MovingOn, SameCall
<1>14. \A l \in Leads \ (doubt' \ clears') : Board!DoneOn(l) => Board!DoneOn(l)'
    BY <1>7, <1>8 DEF Board!DoneOn, SameCall
<1>15. Board!RowsGenuine'
    <2>1. ASSUME NEW l \in Leads \ doubt' PROVE Board!Genuine(s[l], l)
        BY <1>1, <1>8, <2>1 DEF Board!RowsGenuine
    <2>2. \A l \in Leads \ doubt' : Board!Genuine(data[l], l)'
        BY <1>4, <1>6, <2>1 DEF Board!Genuine
    <2>3. \A d \in calls' : \A r \in d.snapshot, l \in Leads \ d.unsure : Board!Genuine(r[l], l)
        BY <1>1, <1>7 DEF Board!RowsGenuine, SameCall
    <2>4. QED BY <1>1, <1>4, <2>2, <2>3 DEF Board!RowsGenuine, Board!Genuine
<1>16. Board!NoEntryMissing'
    <2>1. \A l \in Leads \ doubt' : data'[l].notas = data[l].notas /\ ~isError
        BY <1>6, <1>8, <1>9
    <2>2. ~fetch'.on => \A l \in Leads \ doubt' : Board!DoneOn(l)' \/ data'[l].notas = db'[l].notas
        BY <1>1, <1>4, <1>8, <1>13, <2>1 DEF Board!NoEntryMissing
    <2>3. \A rows \in fetch'.read, l \in Leads \ (doubt' \ clears') :
              Board!DoneOn(l)' \/ rows[l].notas = db'[l].notas
        BY <1>1, <1>4, <1>8, <1>14 DEF Board!NoEntryMissing
    <2>4. QED BY <2>2, <2>3 DEF Board!NoEntryMissing
<1>17. QED BY <1>11, <1>12, <1>15, <1>16 DEF Board!BoardInv

\* The rows of a fetch land, or it fails.
LEMMA BoardFetches ==
    ASSUME Board!BoardInv, Board!ListForProject \/ Board!FetchLands \/ Board!FetchFails
    PROVE  Board!BoardInv'
<1>1. Board!TypeOK /\ Board!ServerAhead /\ Board!RowsGenuine /\ Board!NoEntryMissing
    BY DEF Board!BoardInv
<1>2. /\ fetch \in [on: BOOLEAN, read: SUBSET [Leads -> Board!Rows]]
      /\ Board!NoFetch \in [on: BOOLEAN, read: SUBSET [Leads -> Board!Rows]]
      /\ ~Board!NoFetch.on /\ Board!NoFetch.read = {}
      /\ db \in [Leads -> Board!Rows] /\ ui \in UiTypes
    BY <1>1 DEF Board!TypeOK, Board!NoFetch, UiTypes
<1>3. CASE Board!ListForProject
    <2>1. /\ clears' = doubt /\ fetch' = [fetch EXCEPT !.read = {db}] /\ fetch.on
          /\ UNCHANGED <<db, data, isError, calls, made, ui, doubt, saved>>
        BY <1>3 DEF Board!ListForProject, Board!ServerReads
    <2>2. fetch' \in [on: BOOLEAN, read: SUBSET [Leads -> Board!Rows]]
          /\ fetch'.on /\ fetch'.read = {db}
        BY <1>2, <2>1
    <2>3. Board!TypeOK' BY <1>1, <2>1, <2>2 DEF Board!TypeOK
    <2>4. Board!ServerAhead' BY <1>1, <2>1 DEF Board!ServerAhead
    <2>5. Board!RowsGenuine'
        BY <1>1, <2>1, <2>2 DEF Board!RowsGenuine, Board!Genuine, Board!MovingOn
    <2>6. Board!NoEntryMissing' BY <2>1, <2>2 DEF Board!NoEntryMissing
    <2>7. QED BY <2>3, <2>4, <2>5, <2>6 DEF Board!BoardInv
<1>4. CASE Board!FetchLands \/ Board!FetchFails
    <2>1. PICK rows, error :
              /\ Board!Show(rows, error, calls, ui) /\ fetch' = Board!NoFetch /\ clears' = {}
              /\ UNCHANGED <<db, made, saved>>
              /\ \/ rows \in fetch.read /\ error = FALSE /\ doubt' = doubt \ clears
                 \/ rows = data /\ error = TRUE /\ doubt' = doubt
        BY <1>4 DEF Board!FetchLands, Board!FetchFails
    <2>2. /\ data' = rows /\ isError' = error /\ KeptCalls(calls, calls')
          /\ OneForm(calls) => OneForm(calls')
          /\ ui' \in UiTypes /\ ui'.pending = ui.pending
        BY <1>1, <1>2, <2>1, ShowFacts
    <2>3. /\ calls' \subseteq Board!Calls
          /\ \A d \in calls' : \E e \in calls : SameCall(e, d)
          /\ \A e \in calls : \E d \in calls' : SameCall(e, d)
        BY <2>2 DEF KeptCalls
    <2>4. /\ fetch' \in [on: BOOLEAN, read: SUBSET [Leads -> Board!Rows]]
          /\ ~fetch'.on /\ fetch'.read = {}
        BY <1>2, <2>1
    <2>5. /\ data' \in [Leads -> Board!Rows] /\ isError' \in BOOLEAN /\ doubt' \subseteq doubt
          /\ data' = data \/ data' \in fetch.read
        BY <1>1, <1>2, <2>1, <2>2 DEF Board!TypeOK
    <2>6. Board!TypeOK'
        <3>1. \A d \in calls' : Board!MoveCall(d)
            BY <1>1, <2>3 DEF Board!TypeOK, SameCall, Board!MoveCall
        <3>2. QED BY <1>1, <2>1, <2>2, <2>3, <2>4, <2>5, <3>1 DEF Board!TypeOK, UiTypes
    <2>7. Board!ServerAhead'
        <3>1. ASSUME NEW l \in Leads PROVE data'[l].notas <= db'[l].notas
            <4>1. CASE data' = data BY <1>1, <2>1, <4>1 DEF Board!ServerAhead
            <4>2. CASE data' \in fetch.read
                <5>1. data'[l] \in Board!Rows /\ Board!Genuine(data'[l], l)
                    BY <1>1, <2>5, <4>2 DEF Board!RowsGenuine
                <5>2. QED BY <1>1, <2>1, <5>1, GenuineNotAhead
            <4>3. QED BY <2>5, <4>1, <4>2
        <3>2. \A d \in calls' :
                  /\ \A r \in d.snapshot, l \in Leads : r[l].notas <= db'[l].notas
                  /\ d.observer # "alta" => db'[d.lead] # Board!Absent
                  /\ d.observer = "alta" /\ d.st = "sent" => db'[d.lead] = Board!Absent
            BY <1>1, <2>1, <2>3 DEF Board!ServerAhead, SameCall
        <3>3. OneForm(calls') BY <1>1, <2>2 DEF Board!ServerAhead, OneForm
        <3>4. QED BY <1>1, <2>1, <2>2, <3>1, <3>2, <3>3 DEF Board!ServerAhead, OneForm
    <2>8. \A l \in Leads : /\ Board!DoneOn(l) => Board!DoneOn(l)'
                           /\ Board!MovingOn(l) => Board!MovingOn(l)'
        BY <2>3 DEF Board!DoneOn, Board!MovingOn, SameCall
    <2>9. Board!RowsGenuine'
        <3>1. \A l \in Leads \ doubt' : Board!Genuine(data'[l], l) \/ Board!MovingOn(l)'
            BY <1>1, <2>1, <2>2, <2>8 DEF Board!RowsGenuine
        <3>2. \A d \in calls' : \A r \in d.snapshot, l \in Leads \ d.unsure : Board!Genuine(r[l], l)
            BY <1>1, <2>3 DEF Board!RowsGenuine, SameCall
        <3>3. QED BY <2>1, <2>4, <3>1, <3>2 DEF Board!RowsGenuine, Board!Genuine
    <2>10. Board!NoEntryMissing'
        <3>1. ~isError' => \A l \in Leads \ doubt' : Board!DoneOn(l)' \/ data'[l].notas = db'[l].notas
            BY <1>1, <2>1, <2>2, <2>8 DEF Board!NoEntryMissing
        <3>2. QED BY <2>4, <3>1 DEF Board!NoEntryMissing
    <2>11. QED BY <2>6, <2>7, <2>9, <2>10 DEF Board!BoardInv
<1>5. QED BY <1>3, <1>4

LEMMA BoardInit == Board!Init => Board!BoardInv
<1> SUFFICES ASSUME Board!Init PROVE Board!BoardInv OBVIOUS
<1>1. PICK present \in SUBSET Leads :
          db = [l \in Leads |-> IF l \in present THEN [estado |-> "nuevo", notas |-> 1]
                                                 ELSE Board!Absent]
    BY DEF Board!Init, Board!PageInit
<1>2. /\ data = db /\ isError = FALSE /\ fetch = Board!NoFetch /\ calls = {} /\ made = 0
      /\ saved = {} /\ doubt = {} /\ clears = {}
      /\ ui = [open |-> NoLead, pending |-> NoLead, error |-> FALSE, alta |-> "closed"]
    BY DEF Board!Init, Board!PageInit
<1>3. [estado |-> "nuevo", notas |-> 1] \in Board!Rows /\ Board!Absent \in Board!Rows
    BY BrowserAssumption DEF Board!LeadsBoardAssumption, Board!Rows, Board!Etapas
<1>4. db \in [Leads -> Board!Rows] BY <1>1, <1>3
<1>5. fetch \in [on: BOOLEAN, read: SUBSET [Leads -> Board!Rows]] /\ fetch.read = {}
    BY <1>2 DEF Board!NoFetch
<1>6. Board!TypeOK
    <2>1. made \in 0..MaxCalls BY <1>2, BrowserAssumption DEF Board!LeadsBoardAssumption
    <2>2. ui \in UiTypes BY <1>2 DEF UiTypes
    <2>3. QED BY <1>2, <1>4, <1>5, <2>1, <2>2 DEF Board!TypeOK, UiTypes
<1>7. \A l \in Leads : db[l].notas \in Nat BY <1>4, RowFacts
<1>8. NoLead \notin Leads BY BrowserAssumption DEF Board!LeadsBoardAssumption
<1>9. Board!ServerAhead BY <1>2, <1>7, <1>8 DEF Board!ServerAhead
<1>10. Board!RowsGenuine BY <1>2, <1>5 DEF Board!RowsGenuine, Board!Genuine
<1>11. Board!NoEntryMissing BY <1>2, <1>5 DEF Board!NoEntryMissing
<1>12. QED BY <1>6, <1>9, <1>10, <1>11 DEF Board!BoardInv

\* What a screen shows the server has.
LEMMA ShownAreServers ==
    ASSUME Board!BoardInv, NEW l \in Board!Shown(data)
    PROVE  l \in Leads /\ db[l] # Board!Absent
<1>1. data \in [Leads -> Board!Rows] /\ db \in [Leads -> Board!Rows]
    BY DEF Board!BoardInv, Board!TypeOK
<1>2. l \in Leads /\ data[l] # Board!Absent BY DEF Board!Shown
<1>3. /\ data[l].notas \in Nat /\ data[l].notas # 0
      /\ db[l].notas \in Nat /\ (db[l].notas = 0 <=> db[l] = Board!Absent)
    BY <1>1, <1>2, RowFacts
<1>4. data[l].notas <= db[l].notas BY <1>2 DEF Board!BoardInv, Board!ServerAhead
<1>5. QED BY <1>2, <1>3, <1>4

\* The operator moves a lead, or is asked for its desenlace first.
LEMMA BoardMoves ==
    ASSUME Board!BoardInv, NEW l \in Leads, db[l] # Board!Absent,
           \/ \E e \in Abiertos \cup {"cerrado"} : Board!RequestTransition(l, e)
           \/ \E e \in Cierres : Board!CommitTransition(l, e)
    PROVE  Board!BoardInv'
<1>1. Board!TypeOK /\ ui \in UiTypes /\ data \in [Leads -> Board!Rows] /\ calls \subseteq Board!Calls
    BY DEF Board!BoardInv, Board!TypeOK, UiTypes
<1>2. ASSUME NEW e \in Board!Etapas, Board!CommitTransition(l, e) PROVE Board!BoardInv'
    <2> DEFINE call == Board!Call("board", l, e, {data})
    <2>1. /\ call \in Board!Calls /\ call.observer = "board" /\ call.lead = l /\ call.estado = e
          /\ call.snapshot = {data} /\ call.st = "sent"
          /\ call.unsure = doubt \cup {c.lead : c \in calls}
        BY <1>1, SentCall
    <2>2. /\ calls' = Board!Mutate(calls, call) /\ made' = made + 1 /\ made < MaxCalls
          /\ data' = Board!Moved(data, l, e) /\ ui' = [ui EXCEPT !.error = FALSE]
          /\ UNCHANGED <<db, isError, fetch, doubt, clears, saved>>
        BY <1>2 DEF Board!CommitTransition
    <2>3. made' \in 0..MaxCalls
        BY <1>1, <2>2, BrowserAssumption DEF Board!TypeOK, Board!LeadsBoardAssumption
    <2>4. ui' \in UiTypes /\ ui'.pending = ui.pending BY <1>1, <2>2, UiMoves
    <2> HIDE DEF call
    <2>5. Board!MoveCall(call) BY <2>1 DEF Board!MoveCall
    <2>6. QED BY <2>1, <2>2, <2>3, <2>4, <2>5, BoardSends
<1>3. ASSUME ui' = [ui EXCEPT !.pending = l, !.error = FALSE],
             UNCHANGED <<db, data, isError, fetch, calls, made, doubt, clears, saved>>
      PROVE  Board!BoardInv'
    <2>1. ui' \in UiTypes /\ ui'.pending = l BY <1>1, <1>3, UiMoves
    <2>2. KeptCalls(calls, calls') /\ OneForm(calls')
        BY <1>1, <1>3, KeptAsIs DEF Board!BoardInv, Board!ServerAhead, OneForm
    <2>3. QED BY <1>3, <2>1, <2>2, BoardLooks
<1>4. \A e \in Abiertos \cup Cierres : e \in Board!Etapas BY DEF Board!Etapas
<1>5. QED BY <1>2, <1>3, <1>4 DEF Board!RequestTransition

\* A note, or a new lead.
LEMMA BoardWrites ==
    ASSUME Board!BoardInv, Board!SubmitNote \/ \E l \in Leads : Board!SubmitAlta(l)
    PROVE  Board!BoardInv'
<1>1. Board!TypeOK /\ ui \in UiTypes /\ calls \subseteq Board!Calls
    BY DEF Board!BoardInv, Board!TypeOK, UiTypes
<1>2. PICK o \in {"nota", "alta"}, l \in Leads, e \in {"none", "nuevo"} :
          /\ calls' = Board!Mutate(calls, Board!Call(o, l, e, {}))
          /\ made' = made + 1 /\ made < MaxCalls
          /\ UNCHANGED <<db, data, isError, fetch, ui, doubt, clears, saved>>
          /\ o = "nota" => l \in Board!Shown(data)
          /\ o = "alta" => db[l] = Board!Absent /\ \A c \in calls : c.observer = "alta" => c.lead # l
    <2>1. CASE Board!SubmitNote
        BY <2>1 DEF Board!SubmitNote, Board!Shown
    <2>2. CASE \E l \in Leads : Board!SubmitAlta(l)
        BY <2>2 DEF Board!SubmitAlta
    <2>3. QED BY <2>1, <2>2
<1> DEFINE call == Board!Call(o, l, e, {})
<1>3. e \in Board!Etapas \cup {"none"}
    BY BrowserAssumption DEF Board!LeadsBoardAssumption, Board!Etapas
<1>4. /\ call \in Board!Calls /\ call.observer = o /\ call.lead = l /\ call.snapshot = {}
      /\ call.st = "sent"
    BY <1>1, <1>3, SentCall
<1>5. calls' = Board!Mutate(calls, call) BY <1>2
<1> HIDE DEF call
<1>6. made' \in 0..MaxCalls
    BY <1>1, <1>2, BrowserAssumption DEF Board!TypeOK, Board!LeadsBoardAssumption
<1>7. o # "alta" => db[l] # Board!Absent BY <1>2, ShownAreServers
<1>8. Board!MoveCall(call) BY <1>4 DEF Board!MoveCall
<1>9. QED BY <1>1, <1>2, <1>4, <1>5, <1>6, <1>7, <1>8, BoardSends

\* An answer comes in.
LEMMA BoardHears ==
    ASSUME Board!BoardInv, NEW c \in calls,
           Board!Succeeds(c) \/ Board!CallFails(c) \/ Board!Unheard(c)
    PROVE  Board!BoardInv'
<1>1. ui \in UiTypes /\ c.lead \in Leads /\ c.st \in {"sent", "done", "refused"}
    BY DEF Board!BoardInv, Board!TypeOK, UiTypes, Board!Calls
<1>2. CASE Board!Succeeds(c)
    <2>1. /\ calls' = calls \ {c} /\ c.st = "done" /\ UNCHANGED <<db, data, isError, made, saved>>
          /\ fetch' = Board!NewFetch /\ doubt' = doubt /\ clears' = {}
        BY <1>2 DEF Board!Succeeds, Board!Succeeded, Board!RefetchBoard, Board!Refetch
    <2>2. \/ ui' = [ui EXCEPT !.pending = NoLead] \/ ui' = [ui EXCEPT !.alta = "done"] \/ ui' = ui
        BY <1>2 DEF Board!Succeeds
    <2>3. NoLead \notin Leads BY BrowserAssumption DEF Board!LeadsBoardAssumption
    <2>4. ui' \in UiTypes /\ (ui'.pending \in Leads => ui'.pending = ui.pending)
        BY <1>1, <2>2, <2>3, PromptStays
    <2>5. QED BY <2>1, <2>4, BoardForgets
<1>3. CASE Board!CallFails(c)
    <2>1. c.observer # "board" /\ calls' = calls \ {c}
          /\ UNCHANGED <<db, data, isError, fetch, made, ui, saved>>
          /\ doubt' = doubt \cup (IF c.st = "done" THEN {c.lead} ELSE {})
          /\ clears' = clears \ (IF c.st = "done" THEN {c.lead} ELSE {})
        BY <1>3 DEF Board!CallFails, Board!Doubt
    <2>2. (IF c.st = "done" THEN {c.lead} ELSE {}) \in SUBSET Leads BY <1>1
    <2>3. QED BY <1>1, <2>1, <2>2, BoardForgets
<1>4. CASE Board!Unheard(c)
    <2> DEFINE ls == IF c.st = "done" \/ c.observer = "board" THEN {c.lead} ELSE {}
    <2>1. calls' = calls \ {c} /\ UNCHANGED <<db, data, isError, fetch, made, ui, saved>>
          /\ doubt' = doubt \cup ls /\ clears' = clears \ ls
        BY <1>4 DEF Board!Unheard, Board!Doubt
    <2>2. ls \in SUBSET Leads /\ (c.st = "done" \/ c.observer = "board" => c.lead \in ls) BY <1>1
    <2> HIDE DEF ls
    <2>3. QED BY <1>1, <2>1, <2>2, BoardForgets
<1>5. QED BY <1>2, <1>3, <1>4

\* The drawer, the prompt and the form open and close; a fetch starts.
LEMMA BoardClicks ==
    ASSUME Board!BoardInv,
           \/ (\E l \in Leads : Board!OpenDrawer(l)) \/ Board!CancelCerrado \/ Board!CloseDrawer
           \/ Board!ToggleAlta \/ Board!FetchStarts
    PROVE  Board!BoardInv'
<1>1. ui \in UiTypes /\ calls \in SUBSET Board!Calls /\ OneForm(calls)
    BY DEF Board!BoardInv, Board!TypeOK, UiTypes, Board!ServerAhead, OneForm
<1>2. /\ UNCHANGED <<db, data, isError, made, saved, doubt, clears>>
      /\ calls' = calls \/ calls' = Board!Unmount(calls, {"nota"})
    BY DEF Board!OpenDrawer, Board!CancelCerrado, Board!CloseDrawer, Board!ToggleAlta, Board!FetchStarts
<1>3. fetch' = fetch \/ fetch' = Board!NewFetch
    BY DEF Board!OpenDrawer, Board!CancelCerrado, Board!CloseDrawer, Board!ToggleAlta,
           Board!FetchStarts, Board!StartFetch
<1>5. KeptCalls(calls, calls') /\ OneForm(calls')
    <2>1. KeptCalls(calls, calls) BY <1>1, KeptAsIs
    <2>2. KeptCalls(calls, Board!Unmount(calls, {"nota"})) /\ OneForm(Board!Unmount(calls, {"nota"}))
        BY <1>1, BoardUnmount
    <2>3. QED BY <1>1, <1>2, <2>1, <2>2, Zenon
<1>6. \/ \E x \in Leads \cup {NoLead} : ui' = [ui EXCEPT !.open = x]
      \/ ui' = [ui EXCEPT !.pending = NoLead]
      \/ \E x \in {"closed", "form", "done"} : ui' = [ui EXCEPT !.alta = x]
      \/ ui' = ui
    <2>1. CASE \E l \in Leads : Board!OpenDrawer(l) BY <2>1 DEF Board!OpenDrawer
    <2>2. CASE Board!CancelCerrado BY <2>2 DEF Board!CancelCerrado
    <2>3. CASE Board!CloseDrawer BY <2>3 DEF Board!CloseDrawer
    <2>4. CASE Board!ToggleAlta
        <3>1. ui' = [ui EXCEPT !.alta = IF ui.alta = "closed" THEN "form" ELSE "closed"]
            BY <2>4 DEF Board!ToggleAlta
        <3>2. QED BY <3>1
    <2>5. CASE Board!FetchStarts BY <2>5 DEF Board!FetchStarts
    <2>6. QED BY <2>1, <2>2, <2>3, <2>4, <2>5
<1>7. NoLead \notin Leads BY BrowserAssumption DEF Board!LeadsBoardAssumption
<1>8. ui' \in UiTypes /\ (ui'.pending \in Leads => ui'.pending = ui.pending)
    BY <1>1, <1>6, <1>7, PromptStays
<1>9. ui'.pending \in Leads => db[ui'.pending] # Board!Absent
    BY <1>8 DEF Board!BoardInv, Board!ServerAhead
<1>10. QED BY <1>2, <1>3, <1>5, <1>8, <1>9, BoardLooks

LEMMA BoardStep == Board!BoardInv /\ Board!Next => Board!BoardInv'
<1> SUFFICES ASSUME Board!BoardInv, Board!Next PROVE Board!BoardInv' OBVIOUS
<1>1. CASE \/ (\E l \in Leads : Board!OpenDrawer(l)) \/ Board!CancelCerrado \/ Board!CloseDrawer
           \/ Board!ToggleAlta \/ Board!FetchStarts
    BY <1>1, BoardClicks
<1>2. CASE Board!SubmitNote \/ \E l \in Leads : Board!SubmitAlta(l) BY <1>2, BoardWrites
<1>3. ASSUME NEW l \in Leads, NEW e \in Abiertos \cup {"cerrado"},
             Board!DropOnColumn(l, e) \/ Board!SelectEstado(l, e)
      PROVE  Board!BoardInv'
    <2>1. l \in Board!Shown(data) /\ Board!RequestTransition(l, e)
        BY <1>3 DEF Board!DropOnColumn, Board!SelectEstado
    <2>2. db[l] # Board!Absent BY <2>1, ShownAreServers
    <2>3. QED BY <2>1, <2>2, BoardMoves
<1>4. ASSUME NEW d \in Cierres, Board!ConfirmCerrado(d) PROVE Board!BoardInv'
    <2>1. ui.pending \in Leads /\ Board!CommitTransition(ui.pending, d)
        BY <1>4 DEF Board!ConfirmCerrado
    <2>2. db[ui.pending] # Board!Absent BY <2>1 DEF Board!BoardInv, Board!ServerAhead
    <2>3. QED BY <2>1, <2>2, BoardMoves
<1>5. ASSUME NEW l \in Leads, NEW e \in Board!Etapas, db[l] # Board!Absent, Board!OtherSession(l, e)
      PROVE  Board!BoardInv'
    BY <1>5, BoardElsewhere
<1>6. ASSUME NEW c \in calls, Board!ServerTakes(c) PROVE Board!BoardInv' BY <1>6, BoardServes
<1>7. ASSUME NEW c \in calls, Board!Succeeds(c) \/ Board!CallFails(c) \/ Board!Unheard(c)
      PROVE  Board!BoardInv'
    BY <1>7, BoardHears
<1>8. ASSUME NEW c \in calls, Board!MoveFails(c) PROVE Board!BoardInv' BY <1>8, BoardRollsBack
<1>9. CASE Board!ListForProject \/ Board!FetchLands \/ Board!FetchFails BY <1>9, BoardFetches
<1>10. QED BY <1>1, <1>2, <1>3, <1>4, <1>5, <1>6, <1>7, <1>8, <1>9 DEF Board!Next

\* Nothing moves and nothing is missing on a quiet board.
LEMMA BoardSettles == Board!BoardInv => Board!SettledBoardIsServer
<1> SUFFICES ASSUME Board!BoardInv, Board!Quiet, NEW l \in Leads \ doubt PROVE data[l] = db[l]
    BY DEF Board!SettledBoardIsServer
<1>1. Board!TypeOK /\ Board!RowsGenuine /\ Board!NoEntryMissing BY DEF Board!BoardInv
<1>2. calls = {} /\ ~fetch.on /\ ~isError BY DEF Board!Quiet
<1>3. ~Board!MovingOn(l) /\ ~Board!DoneOn(l) BY <1>2 DEF Board!MovingOn, Board!DoneOn
<1>4. Board!Genuine(data[l], l) BY <1>1, <1>3 DEF Board!RowsGenuine
<1>5. data[l].notas = db[l].notas BY <1>1, <1>2, <1>3 DEF Board!NoEntryMissing
<1>6. db[l] \in Board!Rows BY <1>1 DEF Board!TypeOK
<1>7. db[l].notas \in Nat BY <1>6, RowFacts
<1>8. QED BY <1>4, <1>5, <1>7 DEF Board!Genuine

-----------------------------------------------------------------------------
(* The units page.                                                         *)

LEMMA ObserverNames ==
    /\ \A u, v \in Units : /\ Grid!PrecioOf(u) = Grid!PrecioOf(v) => u = v
                           /\ Grid!EstadoOf(u) = Grid!EstadoOf(v) => u = v
                           /\ Grid!PrecioOf(u) # Grid!EstadoOf(v)
    /\ \A u \in Units : \A o \in {Grid!DryRunMut, Grid!ImportMut, Grid!PreviewMut, Grid!BulkMut} :
           o # Grid!PrecioOf(u) /\ o # Grid!EstadoOf(u)
    /\ Grid!DryRunMut # Grid!ImportMut /\ Grid!DryRunMut # Grid!PreviewMut
    /\ Grid!DryRunMut # Grid!BulkMut /\ Grid!ImportMut # Grid!PreviewMut
    /\ Grid!ImportMut # Grid!BulkMut /\ Grid!PreviewMut # Grid!BulkMut
  BY DEF Grid!PrecioOf, Grid!EstadoOf, Grid!DryRunMut, Grid!ImportMut, Grid!PreviewMut, Grid!BulkMut

LEMMA ObserverKinds ==
    /\ \A u \in Units : Grid!PrecioOf(u) \in Grid!Writers /\ Grid!EstadoOf(u) \in Grid!Writers
    /\ Grid!ImportMut \in Grid!Writers /\ Grid!BulkMut \in Grid!Writers
    /\ Grid!DryRunMut \in Grid!Observers \ Grid!Writers
    /\ Grid!PreviewMut \in Grid!Observers \ Grid!Writers
    /\ Grid!Writers \subseteq Grid!Observers
  BY ObserverNames DEF Grid!Writers, Grid!Observers

\* One call of an observer is heard.
OneHeard(cs) == \A c, d \in cs : c.heard /\ d.heard /\ c.observer = d.observer => c = d

\* The calls ds are those of cs, but that those of some observers are not
\* heard any more.
SameWrite(c, d) ==
    /\ c.n = d.n /\ c.observer = d.observer /\ c.what = d.what /\ c.units = d.units /\ c.st = d.st

CallsFrom(cs, gone, ds) ==
    /\ ds \subseteq Grid!Calls /\ (OneHeard(cs) => OneHeard(ds))
    /\ \A d \in ds : \E c \in cs : SameWrite(c, d) /\ (d.heard => c.heard /\ c.observer \notin gone)
    /\ \A c \in cs : \E d \in ds : SameWrite(c, d) /\ (c.heard /\ c.observer \notin gone => d.heard)

LEMMA FromAsIs ==
    ASSUME NEW cs \in SUBSET Grid!Calls
    PROVE  CallsFrom(cs, {}, cs)
  BY DEF CallsFrom, SameWrite

LEMMA FromUnmount ==
    ASSUME NEW cs \in SUBSET Grid!Calls, NEW gone
    PROVE  CallsFrom(cs, gone, Grid!Unmount(cs, gone))
<1> DEFINE h(c) == c.heard /\ c.observer \notin gone
           f(c) == [c EXCEPT !.heard = h(c)]
<1>1. Grid!Unmount(cs, gone) = {f(c) : c \in cs} BY DEF Grid!Unmount
<1>2. ASSUME NEW c \in cs
      PROVE  f(c) \in Grid!Calls /\ SameWrite(c, f(c)) /\ f(c).heard = h(c)
    <2>1. h(c) \in BOOLEAN BY DEF Grid!Calls
    <2> HIDE DEF h
    <2>2. QED BY <2>1 DEF Grid!Calls, SameWrite
<1> HIDE DEF f
<1>3. ASSUME OneHeard(cs) PROVE OneHeard({f(c) : c \in cs})
    <2>1. \A c \in cs : (f(c).heard => c.heard) /\ f(c).observer = c.observer
        BY <1>2 DEF SameWrite
    <2> HIDE DEF h
    <2>2. ASSUME NEW a \in cs, NEW b \in cs, f(a).heard, f(b).heard, f(a).observer = f(b).observer
          PROVE  f(a) = f(b)
        <3>1. a.heard /\ b.heard /\ a.observer = b.observer BY <2>1, <2>2, Zenon
        <3>2. a = b BY <1>3, <3>1, Zenon DEF OneHeard
        <3>3. QED BY <3>2, Zenon
    <2>3. \A x, y \in {f(c) : c \in cs} :
              \E a, b \in cs : x = f(a) /\ y = f(b)
        OBVIOUS
    <2>4. ASSUME NEW x \in {f(c) : c \in cs}, NEW y \in {f(c) : c \in cs},
                 x.heard /\ y.heard /\ x.observer = y.observer
          PROVE  x = y
        <3>1. PICK a \in cs, b \in cs : x = f(a) /\ y = f(b) BY <2>3, Zenon
        <3>2. f(a).heard /\ f(b).heard /\ f(a).observer = f(b).observer BY <2>4, <3>1, Zenon
        <3>3. QED BY <2>2, <3>1, <3>2, Zenon
    <2>5. QED BY <2>4, Zenon DEF OneHeard
<1>4. \A d \in {f(c) : c \in cs} :
          \E c \in cs : SameWrite(c, d) /\ (d.heard => c.heard /\ c.observer \notin gone)
    BY <1>2
<1>5. \A c \in cs : \E d \in {f(x) : x \in cs} :
          SameWrite(c, d) /\ (c.heard /\ c.observer \notin gone => d.heard)
    BY <1>2
<1>6. QED BY <1>1, <1>2, <1>3, <1>4, <1>5 DEF CallsFrom

LEMMA FromMutate ==
    ASSUME NEW cs \in SUBSET Grid!Calls, NEW call
    PROVE  \E ds : /\ Grid!Mutate(cs, call) = ds \cup {call}
                   /\ CallsFrom(cs, {call.observer}, ds)
<1>1. Grid!Mutate(cs, call) = Grid!Unmount(cs, {call.observer}) \cup {call}
    BY DEF Grid!Mutate, Grid!Unmount
<1>2. QED BY <1>1, FromUnmount

\* What a call is as it is sent.
LEMMA GridCall ==
    ASSUME made \in 0..MaxCalls, NEW o \in Grid!Observers, NEW what \in Grid!Reviewed,
           NEW us \in SUBSET Units
    PROVE  LET c == Grid!Call(o, what, us)
           IN /\ c \in Grid!Calls /\ c.observer = o /\ c.what = what /\ c.units = us
              /\ c.st = "sent" /\ c.heard
  BY DEF Grid!Call, Grid!Calls

\* A step that takes the calls cs on, drops some callbacks and may send a new
\* call: what the parts of the invariant ask of it.
Takes(cs, gone, new) ==
    /\ cs \subseteq calls
    /\ \E ds : CallsFrom(cs, gone, ds) /\ calls' = ds \cup new
    /\ new \subseteq Grid!Calls
    /\ \A c, d \in new : c = d
    /\ \A c \in new : /\ c.st = "sent" /\ (c.heard => c.observer \in gone)
                      /\ c.observer \in Grid!Writers => c.units # {}

LEMMA TakesFacts ==
    ASSUME Grid!GridInv, NEW cs, NEW gone, NEW new, Takes(cs, gone, new)
    PROVE  /\ calls' \subseteq Grid!Calls
           /\ \A d \in calls' : d \in new \/ \E c \in cs : SameWrite(c, d)
                                                /\ (d.heard => c.heard /\ c.observer \notin gone)
           /\ \A c \in cs : \E d \in calls' : SameWrite(c, d)
                                /\ (c.heard /\ c.observer \notin gone => d.heard)
           /\ new \subseteq calls'
  BY DEF Takes, CallsFrom

LEMMA TakesCalls ==
    ASSUME Grid!GridInv, NEW cs, NEW gone, NEW new, Takes(cs, gone, new),
           ui'.modal = "bulk" => ui'.selected # {}
    PROVE  Grid!CallsInv'
<1>1. Grid!CallsInv /\ cs \subseteq calls BY DEF Grid!GridInv, Takes
<1>2. PICK ds : CallsFrom(cs, gone, ds) /\ calls' = ds \cup new BY DEF Takes
<1>3. OneHeard(ds)
    <2>1. OneHeard(cs) BY <1>1 DEF OneHeard, Grid!CallsInv
    <2>2. QED BY <1>2, <2>1 DEF CallsFrom
<1>4. \A c \in new, d \in ds : c.heard /\ d.heard => c.observer # d.observer
    BY <1>2 DEF Takes, CallsFrom, SameWrite
<1>5. \A c, d \in calls' : c.heard /\ d.heard /\ c.observer = d.observer => c = d
    BY <1>2, <1>3, <1>4 DEF OneHeard, Takes
<1>6. \A d \in calls' : d \in new \/ \E c \in calls : SameWrite(c, d)
    BY <1>1, TakesFacts
<1>7. \A c \in calls' : c.observer \in Grid!Writers => c.units # {}
    BY <1>1, <1>6 DEF Grid!CallsInv, SameWrite, Takes
<1>8. QED BY <1>5, <1>7 DEF Grid!CallsInv

LEMMA TakesSaved ==
    ASSUME Grid!GridInv, NEW cs, NEW gone, NEW new, Takes(cs, gone, new),
           UNCHANGED <<db, data, saved>>, fetch'.read \subseteq fetch.read,
           ~fetch'.on /\ ~isError' => ~fetch.on /\ ~isError
    PROVE  Grid!SavedInv'
<1>1. Grid!SavedInv /\ cs \subseteq calls BY DEF Grid!GridInv, Takes
<1>2. \A c \in calls' : c.st = "done" => \E d \in calls : SameWrite(d, c)
    <2>1. \A d \in calls' : d \in new \/ \E c \in calls : SameWrite(c, d) BY <1>1, TakesFacts
    <2>2. QED BY <2>1 DEF Takes
<1>3. \A c \in calls' : c.st = "done" => \A u \in c.units : c.n \in db'[u]
    BY <1>1, <1>2 DEF Grid!SavedInv, SameWrite
<1>4. QED BY <1>1, <1>3 DEF Grid!SavedInv, Grid!SavedIsShown

\* The page is told of a commit, and refetches.
LEMMA TakesAnswer ==
    ASSUME Grid!GridInv, NEW c \in calls, NEW gone, Takes(calls \ {c}, gone, {}),
           c.observer \in Grid!Writers, c.st = "done",
           UNCHANGED <<db, data>>, saved' = saved \cup {c.n}, fetch' = Grid!NewFetch
    PROVE  Grid!SavedInv'
<1>1. Grid!SavedInv /\ Grid!CallsInv /\ Grid!TypeOK BY DEF Grid!GridInv
<1>2. \A d \in calls' : \E e \in calls : SameWrite(e, d) BY TakesFacts
<1>3. \A d \in calls' : d.st = "done" => \A u \in d.units : d.n \in db'[u]
    BY <1>1, <1>2 DEF Grid!SavedInv, SameWrite
<1>4. PICK u \in c.units : c.n \in db[u] BY <1>1 DEF Grid!SavedInv, Grid!CallsInv
<1>5. u \in Units BY <1>1 DEF Grid!TypeOK, Grid!Calls
<1>6. saved' \subseteq UNION {db'[v] : v \in Units} BY <1>1, <1>4, <1>5 DEF Grid!SavedInv
<1>7. fetch'.on /\ fetch'.read = {} BY DEF Grid!NewFetch
<1>8. QED BY <1>3, <1>6, <1>7 DEF Grid!SavedInv, Grid!SavedIsShown

LEMMA TakesSpins ==
    ASSUME Grid!GridInv, NEW cs, NEW gone, NEW new, Takes(cs, gone, new),
           \A u \in Units :
              /\ ui'.cells.precio[u] = "saving" =>
                     \/ \E c \in new : c.heard /\ c.observer = Grid!PrecioOf(u)
                     \/ /\ ui.cells.precio[u] = "saving" /\ Grid!PrecioOf(u) \notin gone
                        /\ \A c \in calls \ cs : c.heard => c.observer # Grid!PrecioOf(u)
              /\ ui'.cells.estado[u] = "saving" =>
                     \/ \E c \in new : c.heard /\ c.observer = Grid!EstadoOf(u)
                     \/ /\ ui.cells.estado[u] = "saving" /\ Grid!EstadoOf(u) \notin gone
                        /\ \A c \in calls \ cs : c.heard => c.observer # Grid!EstadoOf(u)
    PROVE  Grid!NothingSpinsForever'
<1>1. Grid!NothingSpinsForever BY DEF Grid!GridInv
<1>2. ASSUME NEW o, Grid!Pending(o), o \notin gone, \A c \in calls \ cs : c.heard => c.observer # o
      PROVE  Grid!Pending(o)'
    BY <1>2, TakesFacts DEF Grid!Pending, SameWrite
<1>3. ASSUME NEW o, \E c \in new : c.heard /\ c.observer = o PROVE Grid!Pending(o)'
    BY <1>3, TakesFacts DEF Grid!Pending
<1>4. QED BY <1>1, <1>2, <1>3 DEF Grid!NothingSpinsForever

LEMMA TakesWizard ==
    ASSUME Grid!GridInv, NEW cs, NEW gone, NEW new, Takes(cs, gone, new),
           ui'.wizard.file = ui.wizard.file, ui'.wizard.mixed = ui.wizard.mixed,
           ui'.wizard.report = ui.wizard.report,
           \A r \in ui'.reads : r \in ui.reads \/ r.use # Grid!DryRunMut \/ ~r.mounted,
           \A c \in new : c.heard /\ c.observer = Grid!DryRunMut /\ ~ui.wizard.mixed
                             => c.what = ui.wizard.file
    PROVE  Grid!WizardInv'
<1>1. Grid!WizardInv /\ cs \subseteq calls BY DEF Grid!GridInv, Takes
<1>3. ASSUME ~ui.wizard.mixed, NEW d \in calls', d.observer = Grid!DryRunMut, d.heard
      PROVE  d.what = ui.wizard.file
    BY <1>1, <1>3, TakesFacts DEF Grid!WizardInv, SameWrite
<1>4. QED BY <1>1, <1>3 DEF Grid!WizardInv

LEMMA TakesBulk ==
    ASSUME Grid!GridInv, NEW cs, NEW gone, NEW new, Takes(cs, gone, new),
           UNCHANGED <<ui.bulk>>, \A c \in new : c.heard => c.observer # Grid!PreviewMut
    PROVE  Grid!BulkInv'
<1>1. Grid!BulkInv /\ cs \subseteq calls BY DEF Grid!GridInv, Takes
<1>2. ui'.bulk = ui.bulk OBVIOUS
<1>3. \A d \in calls' : d.observer = Grid!PreviewMut /\ d.heard =>
          \E c \in calls : c.observer = Grid!PreviewMut /\ c.heard /\ c.what = d.what
    BY <1>1, TakesFacts DEF SameWrite
<1>4. QED BY <1>1, <1>2, <1>3 DEF Grid!BulkInv, Grid!Pending

LEMMA TakesType ==
    ASSUME Grid!GridInv, NEW cs, NEW gone, NEW new, Takes(cs, gone, new),
           UNCHANGED <<db, data, isError>>, made' \in 0..MaxCalls, saved' \subseteq 0..MaxCalls,
           fetch' = fetch \/ fetch' = Grid!NewFetch, ui' \in Grid!Uis
    PROVE  Grid!TypeOK'
<1>1. Grid!TypeOK BY DEF Grid!GridInv
<1>2. Grid!NewFetch \in [on: BOOLEAN, read: SUBSET [Units -> SUBSET (0..MaxCalls)]]
    BY DEF Grid!NewFetch
<1>3. calls' \subseteq Grid!Calls BY TakesFacts
<1>4. QED BY <1>1, <1>2, <1>3 DEF Grid!TypeOK

LEMMA TakesAsIs ==
    ASSUME Grid!GridInv, NEW cs \in SUBSET calls, calls' = cs
    PROVE  Takes(cs, {}, {})
<1>1. cs \in SUBSET Grid!Calls BY DEF Grid!GridInv, Grid!TypeOK
<1>2. CallsFrom(cs, {}, cs) /\ calls' = cs \cup {} BY <1>1, FromAsIs
<1>3. QED BY <1>2 DEF Takes

LEMMA TakesUnmount ==
    ASSUME Grid!GridInv, NEW cs \in SUBSET calls, NEW gone, calls' = Grid!Unmount(cs, gone)
    PROVE  Takes(cs, gone, {})
<1>1. cs \in SUBSET Grid!Calls BY DEF Grid!GridInv, Grid!TypeOK
<1>2. CallsFrom(cs, gone, calls') /\ calls' = calls' \cup {} BY <1>1, FromUnmount
<1>3. QED BY <1>2 DEF Takes

LEMMA TakesMutate ==
    ASSUME Grid!GridInv, NEW call \in Grid!Calls, calls' = Grid!Mutate(calls, call),
           call.st = "sent", call.observer \in Grid!Writers => call.units # {}
    PROVE  Takes(calls, {call.observer}, {call})
<1>1. calls \in SUBSET Grid!Calls BY DEF Grid!GridInv, Grid!TypeOK
<1>2. PICK ds : calls' = ds \cup {call} /\ CallsFrom(calls, {call.observer}, ds)
    BY <1>1, FromMutate
<1>3. QED BY <1>2 DEF Takes

\* The parts of the page.
LEMMA UiParts ==
    ASSUME Grid!GridInv
    PROVE  /\ ui \in Grid!Uis /\ ui.cells \in Grid!CellStates /\ ui.selected \subseteq Units
           /\ ui.wizard \in Grid!Wizards /\ ui.bulk \in Grid!Bulks /\ ui.reads \subseteq Grid!Reads
           /\ ui.wizard.file \in Grid!Reviewed /\ ui.bulk.params \in Grid!Reviewed
           /\ made \in 0..MaxCalls /\ saved \subseteq 0..MaxCalls /\ calls \subseteq Grid!Calls
  BY DEF Grid!GridInv, Grid!TypeOK, Grid!Uis, Grid!Wizards, Grid!Bulks

LEMMA MadeNext ==
    ASSUME Grid!GridInv, made < MaxCalls, made' = made + 1
    PROVE  made' \in 0..MaxCalls
  BY BrowserAssumption DEF Grid!GridInv, Grid!TypeOK, Grid!UnitsPageAssumption

LEMMA TimerCell ==
    ASSUME NEW x \in Grid!Uis, NEW u \in Units, NEW n \in Nat,
           NEW v, v = [x EXCEPT !.cells.timers[u] = n]
    PROVE  /\ v \in Grid!Uis /\ v.selected = x.selected /\ v.modal = x.modal
           /\ v.wizard = x.wizard /\ v.bulk = x.bulk /\ v.reads = x.reads
           /\ v.cells.estado = x.cells.estado /\ v.cells.precio = x.cells.precio
  BY DEF Grid!Uis, Grid!CellStates

LEMMA EstadoCell ==
    ASSUME ui \in Grid!Uis, NEW u \in Units, NEW st \in {"idle", "saving", "error"},
           NEW v, v = [ui EXCEPT !.cells.estado[u] = st]
    PROVE  /\ v \in Grid!Uis /\ v.selected = ui.selected /\ v.modal = ui.modal
           /\ v.wizard = ui.wizard /\ v.bulk = ui.bulk /\ v.reads = ui.reads
           /\ v.cells.precio = ui.cells.precio
           /\ \A w \in Units : v.cells.estado[w] = IF w = u THEN st ELSE ui.cells.estado[w]
  BY DEF Grid!Uis, Grid!CellStates

SameParts(parts) ==
    /\ "selected" \in parts => ui'.selected = ui.selected
    /\ "modal" \in parts => ui'.modal = ui.modal
    /\ "wizard" \in parts => ui'.wizard = ui.wizard
    /\ "bulk" \in parts => ui'.bulk = ui.bulk
    /\ "reads" \in parts => ui'.reads = ui.reads
    /\ "cells" \in parts => ui'.cells = ui.cells

\* No modal opens, and no cell of the observers gone starts to spin.
SameModal == ui'.modal = ui.modal /\ ui'.selected = ui.selected
SameModals == SameModal /\ ui'.wizard = ui.wizard /\ ui'.bulk = ui.bulk /\ ui'.reads = ui.reads

LEMMA CellsMove ==
    ASSUME Grid!GridInv, ui' \in Grid!Uis, SameModals,
           UNCHANGED <<db, data, isError, fetch, calls, made, saved>>,
           \A u \in Units : /\ ui'.cells.precio[u] = "saving" => ui.cells.precio[u] = "saving"
                            /\ ui'.cells.estado[u] = "saving" => ui.cells.estado[u] = "saving"
    PROVE  Grid!GridInv'
<1>1. Takes(calls, {}, {}) BY TakesAsIs
<1>2. Grid!TypeOK' BY UiParts, <1>1, TakesType
<1>3. Grid!CallsInv'
    <2>1. Grid!CallsInv BY DEF Grid!GridInv
    <2>2. QED BY <1>1, <2>1, TakesCalls DEF Grid!CallsInv, SameModals, SameModal
<1>4. Grid!SavedInv' BY <1>1, TakesSaved
<1>5. Grid!WizardInv' BY <1>1, TakesWizard DEF SameModals
<1>6. Grid!BulkInv' BY <1>1, TakesBulk DEF SameModals
<1>7. Grid!NothingSpinsForever' BY <1>1, TakesSpins
<1>8. QED BY <1>2, <1>3, <1>4, <1>5, <1>6, <1>7 DEF Grid!GridInv

LEMMA GridCells ==
    ASSUME Grid!GridInv, NEW u \in Units,
           Grid!BeginEdit(u) \/ Grid!EndEdit(u) \/ Grid!SavedTimer(u)
    PROVE  Grid!GridInv'
<1>1. ui \in Grid!Uis BY UiParts
<1>2. ASSUME NEW st \in {"idle", "editing", "error"}, ui' = [ui EXCEPT !.cells.precio[u] = st],
             UNCHANGED <<db, data, isError, fetch, calls, made, saved>>
      PROVE  Grid!GridInv'
    <2>1. /\ ui' \in Grid!Uis /\ SameModals /\ ui'.cells.estado = ui.cells.estado
          /\ \A w \in Units : ui'.cells.precio[w] = IF w = u THEN st ELSE ui.cells.precio[w]
        <3>1. st \in {"idle", "editing", "saving", "saved", "error"} BY <1>2
        <3>2. ui' = [ui EXCEPT !.cells.precio[u] = st] BY <1>2
        <3>3. /\ ui' \in Grid!Uis /\ ui'.selected = ui.selected /\ ui'.modal = ui.modal
              /\ ui'.wizard = ui.wizard /\ ui'.bulk = ui.bulk /\ ui'.reads = ui.reads
              /\ ui'.cells.estado = ui.cells.estado
              /\ \A w \in Units : ui'.cells.precio[w] = IF w = u THEN st ELSE ui.cells.precio[w]
            BY <1>1, <3>1, <3>2 DEF Grid!Uis, Grid!CellStates
        <3>4. QED BY <3>3 DEF SameModals, SameModal
    <2>2. QED BY <1>2, <2>1, CellsMove
<1>3. CASE Grid!BeginEdit(u) BY <1>2, <1>3 DEF Grid!BeginEdit
<1>4. CASE Grid!EndEdit(u) BY <1>2, <1>4 DEF Grid!EndEdit
<1>5. CASE Grid!SavedTimer(u)
    <2>1. ui' = [[ui EXCEPT !.cells.timers[u] = ui.cells.timers[u] - 1] EXCEPT !.cells.precio[u] = "idle"]
        BY <1>5 DEF Grid!SavedTimer
    <2>2. ui.cells.timers[u] - 1 \in Nat
        BY <1>1, <1>5 DEF Grid!SavedTimer, Grid!Uis, Grid!CellStates
    <2> DEFINE x == [ui EXCEPT !.cells.timers[u] = ui.cells.timers[u] - 1]
    <2>3. /\ x \in Grid!Uis /\ x.selected = ui.selected /\ x.modal = ui.modal
          /\ x.wizard = ui.wizard /\ x.bulk = ui.bulk /\ x.reads = ui.reads
          /\ x.cells.estado = ui.cells.estado /\ x.cells.precio = ui.cells.precio
        BY <1>1, <2>2, TimerCell, ZenonT(60)
    <2> HIDE DEF x
    <2>4. ui' = [x EXCEPT !.cells.precio[u] = "idle"] BY <2>1 DEF x
    <2>5. /\ ui' \in Grid!Uis /\ SameModals /\ ui'.cells.estado = ui.cells.estado
          /\ \A w \in Units : ui'.cells.precio[w] = IF w = u THEN "idle" ELSE ui.cells.precio[w]
        <3>1. /\ ui' \in Grid!Uis /\ ui'.selected = x.selected /\ ui'.modal = x.modal
              /\ ui'.wizard = x.wizard /\ ui'.bulk = x.bulk /\ ui'.reads = x.reads
              /\ ui'.cells.estado = x.cells.estado
              /\ \A w \in Units : ui'.cells.precio[w] = IF w = u THEN "idle" ELSE x.cells.precio[w]
            BY <2>3, <2>4 DEF Grid!Uis, Grid!CellStates
        <3>2. QED BY <2>3, <3>1 DEF SameModals, SameModal
    <2>6. UNCHANGED <<db, data, isError, fetch, calls, made, saved>>
        BY <1>5 DEF Grid!SavedTimer
    <2>7. QED BY <2>5, <2>6, CellsMove
<1>6. QED BY <1>3, <1>4, <1>5

\* A price or an estado is sent.
LEMMA CellSends ==
    ASSUME Grid!GridInv, NEW u \in Units, NEW o \in {Grid!PrecioOf(u), Grid!EstadoOf(u)},
           made < MaxCalls, made' = made + 1, calls' = Grid!Mutate(calls, Grid!Call(o, Nothing, {u})),
           UNCHANGED <<db, data, isError, fetch, saved>>, ui' \in Grid!Uis, SameModals,
           \A w \in Units : /\ ui'.cells.precio[w] = "saving" =>
                                   o = Grid!PrecioOf(w) \/ ui.cells.precio[w] = "saving"
                            /\ ui'.cells.estado[w] = "saving" =>
                                   o = Grid!EstadoOf(w) \/ ui.cells.estado[w] = "saving"
    PROVE  Grid!GridInv'
<1> DEFINE call == Grid!Call(o, Nothing, {u})
<1>1. o \in Grid!Observers /\ o # Grid!DryRunMut /\ o # Grid!PreviewMut
    BY ObserverKinds, ObserverNames
<1>2. call \in Grid!Calls /\ call.observer = o /\ call.units = {u} /\ call.st = "sent" /\ call.heard
    <2>1. Nothing \in Grid!Reviewed BY DEF Grid!Reviewed
    <2>2. QED BY <1>1, <2>1, UiParts, GridCall
<1> HIDE DEF call
<1>3. calls' = Grid!Mutate(calls, call) BY DEF call
<1>4. Takes(calls, {o}, {call})
    <2>1. Takes(calls, {call.observer}, {call}) BY <1>2, <1>3, TakesMutate
    <2>2. QED BY <2>1, <1>2
<1>5. Grid!TypeOK'
    <2>1. made' \in 0..MaxCalls BY MadeNext
    <2>2. QED BY <1>4, <2>1, UiParts, TakesType
<1>6. Grid!CallsInv'
    <2>1. Grid!CallsInv BY DEF Grid!GridInv
    <2>2. QED BY <1>4, <2>1, TakesCalls DEF Grid!CallsInv, SameModals, SameModal
<1>7. Grid!SavedInv' BY <1>4, TakesSaved
<1>8. Grid!WizardInv'
    BY <1>1, <1>2, <1>4, TakesWizard DEF SameModals
<1>9. Grid!BulkInv' BY <1>1, <1>2, <1>4, TakesBulk DEF SameModals
<1>10. Grid!NothingSpinsForever'
    <2>1. \A w \in Units :
              /\ ui'.cells.precio[w] = "saving" =>
                     (\E c \in {call} : c.heard /\ c.observer = Grid!PrecioOf(w))
                     \/ (ui.cells.precio[w] = "saving" /\ Grid!PrecioOf(w) \notin {o})
              /\ ui'.cells.estado[w] = "saving" =>
                     (\E c \in {call} : c.heard /\ c.observer = Grid!EstadoOf(w))
                     \/ (ui.cells.estado[w] = "saving" /\ Grid!EstadoOf(w) \notin {o})
        BY <1>2
    <2>2. QED BY <1>4, <2>1, TakesSpins
<1>11. QED BY <1>5, <1>6, <1>7, <1>8, <1>9, <1>10 DEF Grid!GridInv

LEMMA GridCellWrites ==
    ASSUME Grid!GridInv, NEW u \in Units, Grid!CommitPrice(u) \/ Grid!ChangeEstado(u)
    PROVE  Grid!GridInv'
<1>1. ui \in Grid!Uis BY UiParts
<1>2. CASE Grid!CommitPrice(u)
    <2>1. ui' = [ui EXCEPT !.cells.precio[u] = "saving"] BY <1>2 DEF Grid!CommitPrice
    <2>2. /\ ui' \in Grid!Uis /\ SameModals /\ ui'.cells.estado = ui.cells.estado
          /\ \A w \in Units : ui'.cells.precio[w] = IF w = u THEN "saving" ELSE ui.cells.precio[w]
        <3>1. /\ ui' \in Grid!Uis /\ ui'.selected = ui.selected /\ ui'.modal = ui.modal
              /\ ui'.wizard = ui.wizard /\ ui'.bulk = ui.bulk /\ ui'.reads = ui.reads
              /\ ui'.cells.estado = ui.cells.estado
              /\ \A w \in Units : ui'.cells.precio[w] = IF w = u THEN "saving" ELSE ui.cells.precio[w]
            BY <1>1, <2>1, SMTT(30) DEF Grid!Uis, Grid!CellStates
        <3>2. QED BY <3>1 DEF SameModals, SameModal
    <2>3. /\ made < MaxCalls /\ made' = made + 1
          /\ calls' = Grid!Mutate(calls, Grid!Call(Grid!PrecioOf(u), Nothing, {u}))
          /\ UNCHANGED <<db, data, isError, fetch, saved>>
        BY <1>2 DEF Grid!CommitPrice
    <2>4. QED BY <2>2, <2>3, CellSends
<1>3. CASE Grid!ChangeEstado(u)
    <2>1. ui' = [ui EXCEPT !.cells.estado[u] = "saving"] BY <1>3 DEF Grid!ChangeEstado
    <2>2. /\ ui' \in Grid!Uis /\ SameModals /\ ui'.cells.precio = ui.cells.precio
          /\ \A w \in Units : ui'.cells.estado[w] = IF w = u THEN "saving" ELSE ui.cells.estado[w]
        BY <1>1, <2>1, EstadoCell DEF SameModals, SameModal
    <2>3. /\ made < MaxCalls /\ made' = made + 1
          /\ calls' = Grid!Mutate(calls, Grid!Call(Grid!EstadoOf(u), Nothing, {u}))
          /\ UNCHANGED <<db, data, isError, fetch, saved>>
        BY <1>3 DEF Grid!ChangeEstado
    <2>4. QED BY <2>2, <2>3, CellSends
<1>4. QED BY <1>2, <1>3

\* An observer of a cell is told how its call went.
LEMMA CellHears ==
    ASSUME Grid!GridInv, NEW u \in Units, NEW o \in {Grid!PrecioOf(u), Grid!EstadoOf(u)},
           NEW c \in calls, c.observer = o, c.heard, calls' = calls \ {c},
           \/ c.st = "done" /\ saved' = saved \cup {c.n} /\ fetch' = Grid!NewFetch
           \/ UNCHANGED <<saved, fetch>>,
           UNCHANGED <<db, data, isError, made>>, ui' \in Grid!Uis, SameModals,
           \A w \in Units : /\ ui'.cells.precio[w] = "saving" =>
                                   o # Grid!PrecioOf(w) /\ ui.cells.precio[w] = "saving"
                            /\ ui'.cells.estado[w] = "saving" =>
                                   o # Grid!EstadoOf(w) /\ ui.cells.estado[w] = "saving"
    PROVE  Grid!GridInv'
<1>1. o \in Grid!Writers BY ObserverKinds
<1>2. Takes(calls \ {c}, {}, {}) BY TakesAsIs
<1>3. c \in Grid!Calls BY UiParts
<1>4. Grid!TypeOK'
    <2>1. c.n \in 0..MaxCalls BY <1>3 DEF Grid!Calls
    <2>2. made' \in 0..MaxCalls /\ saved' \subseteq 0..MaxCalls BY <2>1, UiParts
    <2>3. fetch' = fetch \/ fetch' = Grid!NewFetch OBVIOUS
    <2>4. UNCHANGED <<db, data, isError>> OBVIOUS
    <2>5. QED BY <1>2, <2>2, <2>3, <2>4, TakesType
<1>5. Grid!CallsInv'
    <2>1. Grid!CallsInv BY DEF Grid!GridInv
    <2>2. QED BY <1>2, <2>1, TakesCalls DEF Grid!CallsInv, SameModals, SameModal
<1>6. Grid!SavedInv'
    <2>1. CASE c.st = "done" /\ saved' = saved \cup {c.n} /\ fetch' = Grid!NewFetch
        BY <1>1, <1>2, <2>1, TakesAnswer
    <2>2. CASE UNCHANGED <<saved, fetch>> BY <1>2, <2>2, TakesSaved
    <2>3. QED BY <2>1, <2>2
<1>7. Grid!WizardInv' BY <1>2, TakesWizard DEF SameModals
<1>8. Grid!BulkInv' BY <1>2, TakesBulk DEF SameModals
<1>9. Grid!NothingSpinsForever' BY <1>2, TakesSpins
<1>10. QED BY <1>4, <1>5, <1>6, <1>7, <1>8, <1>9 DEF Grid!GridInv

LEMMA GridCellAnswers ==
    ASSUME Grid!GridInv, NEW u \in Units, NEW c \in calls,
           Grid!PriceAnswers(u, c) \/ Grid!EstadoAnswers(u, c)
    PROVE  Grid!GridInv'
<1>1. ui \in Grid!Uis BY UiParts
<1>2. CASE Grid!PriceAnswers(u, c)
    <2>1. c.observer = Grid!PrecioOf(u) /\ calls' = calls \ {c} /\ c.heard
          /\ UNCHANGED <<db, data, isError, made>>
        BY <1>2 DEF Grid!PriceAnswers, Grid!Succeeded, Grid!Failed
    <2>2. PICK st \in {"saved", "error"}, n \in Nat :
              /\ ui' = [[ui EXCEPT !.cells.precio[u] = st] EXCEPT !.cells.timers[u] = n]
                 \/ ui' = [ui EXCEPT !.cells.precio[u] = st]
        <3>1. ui.cells.timers[u] + 1 \in Nat BY <1>1 DEF Grid!Uis, Grid!CellStates
        <3>2. CASE ui' = [ui EXCEPT !.cells.precio[u] = "saved", !.cells.timers[u] = @ + 1]
            <4>1. ui' = [[ui EXCEPT !.cells.precio[u] = "saved"]
                            EXCEPT !.cells.timers[u] = ui.cells.timers[u] + 1]
                BY <3>2
            <4>2. QED BY <3>1, <4>1
        <3>3. CASE ui' = [ui EXCEPT !.cells.precio[u] = "error"] BY <3>1, <3>3
        <3>4. QED BY <1>2, <3>2, <3>3 DEF Grid!PriceAnswers
    <2>3. \/ c.st = "done" /\ saved' = saved \cup {c.n} /\ fetch' = Grid!NewFetch
          \/ UNCHANGED <<saved, fetch>>
        BY <1>2 DEF Grid!PriceAnswers, Grid!Succeeded, Grid!RefetchGrid, Grid!Refetch
    <2> DEFINE x == [ui EXCEPT !.cells.precio[u] = st]
    <2>4. /\ x \in Grid!Uis /\ x.selected = ui.selected /\ x.modal = ui.modal
          /\ x.wizard = ui.wizard /\ x.bulk = ui.bulk /\ x.reads = ui.reads
          /\ x.cells.estado = ui.cells.estado
          /\ \A w \in Units : x.cells.precio[w] = IF w = u THEN st ELSE ui.cells.precio[w]
        BY <1>1 DEF Grid!Uis, Grid!CellStates
    <2> HIDE DEF x
    <2>5. ui' = [x EXCEPT !.cells.timers[u] = n] \/ ui' = x BY <2>2 DEF x
    <2>6. /\ ui' \in Grid!Uis /\ ui'.selected = x.selected /\ ui'.modal = x.modal
          /\ ui'.wizard = x.wizard /\ ui'.bulk = x.bulk /\ ui'.reads = x.reads
          /\ ui'.cells.estado = x.cells.estado /\ ui'.cells.precio = x.cells.precio
        BY <2>4, <2>5 DEF Grid!Uis, Grid!CellStates
    <2>7. \A w \in Units :
              /\ ui'.cells.precio[w] = "saving" =>
                     Grid!PrecioOf(u) # Grid!PrecioOf(w) /\ ui.cells.precio[w] = "saving"
              /\ ui'.cells.estado[w] = "saving" =>
                     Grid!PrecioOf(u) # Grid!EstadoOf(w) /\ ui.cells.estado[w] = "saving"
        BY <2>4, <2>6, ObserverNames
    <2>8. SameModals BY <2>4, <2>6 DEF SameModals, SameModal
    <2>9. QED BY <2>1, <2>3, <2>6, <2>7, <2>8, CellHears
<1>3. CASE Grid!EstadoAnswers(u, c)
    <2>1. c.observer = Grid!EstadoOf(u) /\ calls' = calls \ {c} /\ c.heard
          /\ UNCHANGED <<db, data, isError, made>>
        BY <1>3 DEF Grid!EstadoAnswers, Grid!Succeeded, Grid!Failed
    <2>2. PICK st \in {"idle", "error"} : ui' = [ui EXCEPT !.cells.estado[u] = st]
        BY <1>3 DEF Grid!EstadoAnswers
    <2>3. \/ c.st = "done" /\ saved' = saved \cup {c.n} /\ fetch' = Grid!NewFetch
          \/ UNCHANGED <<saved, fetch>>
        BY <1>3 DEF Grid!EstadoAnswers, Grid!Succeeded, Grid!RefetchGrid, Grid!Refetch
    <2>4. /\ ui' \in Grid!Uis /\ ui'.selected = ui.selected /\ ui'.modal = ui.modal
          /\ ui'.wizard = ui.wizard /\ ui'.bulk = ui.bulk /\ ui'.reads = ui.reads
          /\ ui'.cells.precio = ui.cells.precio
          /\ \A w \in Units : ui'.cells.estado[w] = IF w = u THEN st ELSE ui.cells.estado[w]
        BY <1>1, <2>2 DEF Grid!Uis, Grid!CellStates
    <2>5. \A w \in Units :
              /\ ui'.cells.precio[w] = "saving" =>
                     Grid!EstadoOf(u) # Grid!PrecioOf(w) /\ ui.cells.precio[w] = "saving"
              /\ ui'.cells.estado[w] = "saving" =>
                     Grid!EstadoOf(u) # Grid!EstadoOf(w) /\ ui.cells.estado[w] = "saving"
        BY <2>4, ObserverNames
    <2>6. SameModals BY <2>4 DEF SameModals, SameModal
    <2>7. QED BY <2>1, <2>3, <2>4, <2>5, <2>6, CellHears
<1>4. QED BY <1>2, <1>3

\* The selection and the modals.
LEMMA GridSelects ==
    ASSUME Grid!GridInv,
           \/ \E units \in SUBSET Units : Grid!Select(units)
           \/ \E modal \in {"import", "bulk"} : Grid!Open(modal)
    PROVE  Grid!GridInv'
<1>1. ui \in Grid!Uis BY UiParts
<1>2. UNCHANGED <<db, data, isError, fetch, calls, made, saved>> /\ ui.modal = "none"
    BY DEF Grid!Select, Grid!Open, Grid!Cells
<1>3. /\ ui' \in Grid!Uis /\ ui'.cells = ui.cells /\ ui'.wizard = ui.wizard /\ ui'.bulk = ui.bulk
      /\ ui'.reads = ui.reads /\ (ui'.modal = "bulk" => ui'.selected # {})
    <2>1. CASE \E units \in SUBSET Units : Grid!Select(units)
        <3>1. PICK units \in SUBSET Units : ui' = [ui EXCEPT !.selected = units]
            BY <2>1 DEF Grid!Select
        <3>2. QED BY <1>1, <1>2, <3>1 DEF Grid!Uis
    <2>2. CASE \E modal \in {"import", "bulk"} : Grid!Open(modal)
        <3>1. PICK modal \in {"import", "bulk"} :
                  ui' = [ui EXCEPT !.modal = modal] /\ (modal = "bulk" => ui.selected # {})
            BY <2>2 DEF Grid!Open
        <3>2. QED BY <1>1, <3>1 DEF Grid!Uis
    <2>3. QED BY <2>1, <2>2
<1>4. Takes(calls, {}, {}) BY <1>2, TakesAsIs
<1>5. Grid!TypeOK' BY <1>2, <1>3, <1>4, UiParts, TakesType
<1>6. Grid!CallsInv' BY <1>3, <1>4, TakesCalls
<1>7. Grid!SavedInv' BY <1>2, <1>4, TakesSaved
<1>8. Grid!WizardInv' BY <1>3, <1>4, TakesWizard
<1>9. Grid!BulkInv' BY <1>3, <1>4, TakesBulk
<1>10. Grid!NothingSpinsForever' BY <1>3, <1>4, TakesSpins
<1>11. QED BY <1>5, <1>6, <1>7, <1>8, <1>9, <1>10 DEF Grid!GridInv

\* What a step of a modal leaves: the cells, and which modal is open.
Aside == /\ ui'.cells = ui.cells /\ ui'.selected = ui.selected /\ ui'.modal = ui.modal

LEMMA AsideKeeps ==
    ASSUME Grid!GridInv, Aside, NEW cs \in {calls}, NEW gone, NEW new, Takes(cs, gone, new),
           \A u \in Units : Grid!PrecioOf(u) \notin gone /\ Grid!EstadoOf(u) \notin gone,
           ui' \in Grid!Uis, UNCHANGED <<db, data, isError, fetch, saved>>, made' \in 0..MaxCalls
    PROVE  Grid!TypeOK' /\ Grid!CallsInv' /\ Grid!SavedInv' /\ Grid!NothingSpinsForever'
<1>1. Grid!TypeOK' BY UiParts, TakesType
<1>2. Grid!CallsInv'
    <2>1. Grid!CallsInv BY DEF Grid!GridInv
    <2>2. QED BY <2>1, TakesCalls DEF Grid!CallsInv, Aside
<1>3. Grid!SavedInv' BY TakesSaved
<1>4. Grid!NothingSpinsForever' BY TakesSpins DEF Aside
<1>5. QED BY <1>1, <1>2, <1>3, <1>4

LEMMA GridDrops ==
    ASSUME Grid!GridInv, NEW f \in Files, Grid!HandleFile(f)
    PROVE  Grid!GridInv'
<1>1. ui \in Grid!Uis BY UiParts
<1>2. UNCHANGED <<db, data, isError, fetch, calls, saved>> /\ made < MaxCalls /\ made' = made + 1
    BY DEF Grid!HandleFile
<1> DEFINE busy == Grid!Pending(Grid!DryRunMut) \/ \E r \in ui.reads : r.mounted
           read == [file |-> f, use |-> Grid!DryRunMut, n |-> made, mounted |-> TRUE]
           wizard == [Grid!NoWizard EXCEPT !.file = f, !.mixed = ui.wizard.mixed \/ busy]
<1>3. ui' = [ui EXCEPT !.wizard = wizard, !.reads = @ \cup {read}] BY DEF Grid!HandleFile
<1>4. busy \in BOOLEAN /\ f \in Grid!Reviewed /\ Nothing \in Grid!Reviewed
    BY DEF Grid!Reviewed
<1>5. read \in Grid!Reads /\ read.file = f /\ read.use = Grid!DryRunMut
    BY <1>4, UiParts DEF Grid!Reads
<1> HIDE DEF busy, read
<1>6. /\ wizard \in Grid!Wizards /\ wizard.file = f /\ wizard.report = Nothing
      /\ wizard.mixed = (ui.wizard.mixed \/ busy)
    BY <1>4 DEF Grid!Wizards, Grid!NoWizard
<1> HIDE DEF wizard
<1>7. /\ ui' \in Grid!Uis /\ Aside /\ ui'.wizard = wizard /\ ui'.bulk = ui.bulk
      /\ ui'.reads = ui.reads \cup {read}
    BY <1>1, <1>3, <1>5, <1>6 DEF Grid!Uis, Aside
<1>8. Takes(calls, {}, {}) BY <1>2, TakesAsIs
<1>9. Grid!TypeOK' /\ Grid!CallsInv' /\ Grid!SavedInv' /\ Grid!NothingSpinsForever'
    <2>1. made' \in 0..MaxCalls BY <1>2, MadeNext
    <2>2. QED BY <1>2, <1>7, <1>8, <2>1, AsideKeeps
<1>10. Grid!WizardInv'
    <2>1. CASE busy BY <1>6, <1>7, <2>1 DEF Grid!WizardInv
    <2>2. CASE ~busy
        <3>1. \A c \in calls' : c.observer = Grid!DryRunMut => ~c.heard
            BY <1>2, <2>2 DEF busy, Grid!Pending
        <3>2. \A r \in ui'.reads : r.mounted => r.file = f
            BY <1>5, <1>7, <2>2 DEF busy
        <3>3. QED BY <1>6, <1>7, <3>1, <3>2 DEF Grid!WizardInv
    <2>3. QED BY <2>1, <2>2
<1>11. Grid!BulkInv' BY <1>7, <1>8, TakesBulk
<1>12. QED BY <1>9, <1>10, <1>11 DEF Grid!GridInv

LEMMA GridApplies ==
    ASSUME Grid!GridInv, Grid!ConfirmApply
    PROVE  Grid!GridInv'
<1>1. ui \in Grid!Uis BY UiParts
<1>2. UNCHANGED <<db, data, isError, fetch, calls, saved>> /\ made < MaxCalls /\ made' = made + 1
    BY DEF Grid!ConfirmApply
<1> DEFINE read == [file |-> ui.wizard.file, use |-> Grid!ImportMut, n |-> made, mounted |-> TRUE]
<1>3. ui' = [ui EXCEPT !.reads = @ \cup {read}] BY DEF Grid!ConfirmApply
<1>4. read \in Grid!Reads /\ read.use = Grid!ImportMut
    BY UiParts DEF Grid!Reads
<1> HIDE DEF read
<1>5. /\ ui' \in Grid!Uis /\ Aside /\ ui'.wizard = ui.wizard /\ ui'.bulk = ui.bulk
      /\ ui'.reads = ui.reads \cup {read}
    BY <1>1, <1>3, <1>4 DEF Grid!Uis, Aside
<1>6. Takes(calls, {}, {}) BY <1>2, TakesAsIs
<1>7. Grid!TypeOK' /\ Grid!CallsInv' /\ Grid!SavedInv' /\ Grid!NothingSpinsForever'
    <2>1. made' \in 0..MaxCalls BY <1>2, MadeNext
    <2>2. QED BY <1>2, <1>5, <1>6, <2>1, AsideKeeps
<1>8. Grid!WizardInv' BY <1>4, <1>5, <1>6, TakesWizard, ObserverNames
<1>9. Grid!BulkInv' BY <1>5, <1>6, TakesBulk
<1>10. QED BY <1>7, <1>8, <1>9 DEF Grid!GridInv

\* Where the observers of the modals are meant, no cell's is.
LEMMA ModalObservers ==
    ASSUME NEW gone, gone \subseteq {Grid!DryRunMut, Grid!ImportMut, Grid!PreviewMut, Grid!BulkMut}
    PROVE  \A u \in Units : Grid!PrecioOf(u) \notin gone /\ Grid!EstadoOf(u) \notin gone
  BY ObserverNames

LEMMA GridReads ==
    ASSUME Grid!GridInv, NEW r \in ui.reads, Grid!ReadEnds(r)
    PROVE  Grid!GridInv'
<1>1. ui \in Grid!Uis /\ r \in Grid!Reads BY UiParts
<1>2. UNCHANGED <<db, data, isError, fetch, made, saved>> BY DEF Grid!ReadEnds
<1>3. ui' = [ui EXCEPT !.reads = @ \ {r}] BY DEF Grid!ReadEnds
<1>4. /\ ui' \in Grid!Uis /\ Aside /\ ui'.wizard = ui.wizard /\ ui'.bulk = ui.bulk
      /\ ui'.reads = ui.reads \ {r}
    BY <1>1, <1>3 DEF Grid!Uis, Aside
<1> DEFINE units == IF r.use = Grid!ImportMut THEN Units ELSE {}
           sent == Grid!Call(r.use, r.file, units)
           call == [sent EXCEPT !.n = r.n, !.heard = r.mounted]
<1>5. /\ r.use \in {Grid!DryRunMut, Grid!ImportMut} /\ r.file \in Grid!Reviewed
      /\ r.n \in 0..MaxCalls /\ r.mounted \in BOOLEAN
    BY <1>1 DEF Grid!Reads
<1>6. r.use \in Grid!Observers /\ (r.use \in Grid!Writers => r.use = Grid!ImportMut)
    BY <1>5, ObserverKinds
<1>7. /\ call \in Grid!Calls /\ call.observer = r.use /\ call.what = r.file /\ call.units = units
      /\ call.st = "sent" /\ call.heard = r.mounted
    <2>1. units \in SUBSET Units OBVIOUS
    <2> HIDE DEF units
    <2>2. /\ sent \in Grid!Calls /\ sent.observer = r.use /\ sent.what = r.file
          /\ sent.units = units /\ sent.st = "sent" /\ sent.heard
        BY <1>5, <1>6, <2>1, UiParts, GridCall
    <2> HIDE DEF sent
    <2>3. QED BY <1>5, <2>2 DEF Grid!Calls
<1>8. call.observer \in Grid!Writers => call.units # {}
    BY <1>6, <1>7, BrowserAssumption DEF Grid!UnitsPageAssumption
<1>9. calls' \in {IF r.mounted THEN Grid!Mutate(calls, call) ELSE calls \cup {call}, calls}
    BY DEF Grid!ReadEnds
<1> HIDE DEF call
<1>10. calls \in SUBSET Grid!Calls BY UiParts
<1>11. PICK gone, new : Takes(calls, gone, new) /\ gone \subseteq {r.use} /\ new \subseteq {call}
    <2>1. CASE calls' = calls
        <3>1. Takes(calls, {}, {}) BY <2>1, TakesAsIs
        <3>2. QED BY <3>1
    <2>2. CASE r.mounted /\ calls' = Grid!Mutate(calls, call)
        <3>1. Takes(calls, {call.observer}, {call}) BY <2>2, <1>7, <1>8, TakesMutate
        <3>2. QED BY <3>1, <1>7
    <2>3. CASE ~r.mounted /\ calls' = calls \cup {call}
        <3>1. CallsFrom(calls, {}, calls) BY <1>10, FromAsIs
        <3>2. Takes(calls, {}, {call}) BY <2>3, <3>1, <1>7, <1>8 DEF Takes
        <3>3. QED BY <3>2
    <2>4. QED BY <1>9, <2>1, <2>2, <2>3
<1>12. Grid!TypeOK' /\ Grid!CallsInv' /\ Grid!SavedInv' /\ Grid!NothingSpinsForever'
    <2>1. \A u \in Units : Grid!PrecioOf(u) \notin gone /\ Grid!EstadoOf(u) \notin gone
        BY <1>5, <1>11, ModalObservers
    <2>2. made' \in 0..MaxCalls BY <1>2, UiParts
    <2>3. QED BY <1>2, <1>4, <1>11, <2>1, <2>2, AsideKeeps
<1>13. Grid!WizardInv'
    <2>1. ASSUME NEW c \in new, c.heard, c.observer = Grid!DryRunMut, ~ui.wizard.mixed
          PROVE  c.what = ui.wizard.file
        <3>1. c = call /\ r.mounted /\ r.use = Grid!DryRunMut BY <2>1, <1>7, <1>11
        <3>2. r.file = ui.wizard.file BY <2>1, <3>1 DEF Grid!GridInv, Grid!WizardInv
        <3>3. QED BY <3>1, <3>2, <1>7
    <2>2. \A x \in ui'.reads : x \in ui.reads BY <1>4
    <2>3. QED BY <1>4, <1>11, <2>1, <2>2, TakesWizard
<1>14. Grid!BulkInv'
    <2>1. \A c \in new : c.observer # Grid!PreviewMut BY <1>5, <1>7, <1>11, ObserverNames
    <2>2. QED BY <1>4, <1>11, <2>1, TakesBulk
<1>15. QED BY <1>12, <1>13, <1>14 DEF Grid!GridInv

\* An answer to the wizard or to the bulk edit: the call goes, and with a
\* commit the page refetches.
LEMMA ModalHears ==
    ASSUME Grid!GridInv, NEW c \in calls, NEW gone, Takes(calls \ {c}, gone, {}),
           gone \cup {c.observer} \subseteq {Grid!DryRunMut, Grid!ImportMut, Grid!PreviewMut, Grid!BulkMut},
           \/ c.observer \in Grid!Writers /\ c.st = "done" /\ saved' = saved \cup {c.n}
              /\ fetch' = Grid!NewFetch
           \/ UNCHANGED <<saved, fetch>>,
           UNCHANGED <<db, data, isError, made>>, ui' \in Grid!Uis, ui'.cells = ui.cells,
           ui'.modal = "bulk" => ui.modal = "bulk" /\ ui'.selected = ui.selected
    PROVE  Grid!TypeOK' /\ Grid!CallsInv' /\ Grid!SavedInv' /\ Grid!NothingSpinsForever'
<1>1. c \in Grid!Calls BY UiParts
<1>2. Grid!TypeOK'
    <2>1. c.n \in 0..MaxCalls BY <1>1 DEF Grid!Calls
    <2>2. made' \in 0..MaxCalls /\ saved' \subseteq 0..MaxCalls BY <2>1, UiParts
    <2>3. fetch' = fetch \/ fetch' = Grid!NewFetch OBVIOUS
    <2>4. UNCHANGED <<db, data, isError>> OBVIOUS
    <2>5. QED BY <2>2, <2>3, <2>4, TakesType
<1>3. Grid!CallsInv'
    <2>1. Grid!CallsInv BY DEF Grid!GridInv
    <2>2. ui'.modal = "bulk" => ui'.selected # {} BY <2>1 DEF Grid!CallsInv
    <2>3. QED BY <2>2, TakesCalls
<1>4. Grid!SavedInv'
    <2>1. CASE c.observer \in Grid!Writers /\ c.st = "done" /\ saved' = saved \cup {c.n}
               /\ fetch' = Grid!NewFetch
        BY <2>1, TakesAnswer
    <2>2. CASE UNCHANGED <<saved, fetch>> BY <2>2, TakesSaved
    <2>3. QED BY <2>1, <2>2
<1>5. Grid!NothingSpinsForever'
    <2>1. \A u \in Units : /\ Grid!PrecioOf(u) \notin gone /\ Grid!EstadoOf(u) \notin gone
                           /\ c.observer # Grid!PrecioOf(u) /\ c.observer # Grid!EstadoOf(u)
        BY ModalObservers
    <2>2. QED BY <2>1, TakesSpins
<1>6. QED BY <1>2, <1>3, <1>4, <1>5

LEMMA GridReports ==
    ASSUME Grid!GridInv, NEW c \in calls, Grid!DryRunAnswers(c)
    PROVE  Grid!GridInv'
<1>1. ui \in Grid!Uis /\ ui.wizard \in Grid!Wizards /\ c \in Grid!Calls BY UiParts
<1>2. /\ UNCHANGED <<db, data, isError, fetch, made, saved>> /\ calls' = calls \ {c} /\ c.heard
      /\ c.observer = Grid!DryRunMut
    BY DEF Grid!DryRunAnswers, Grid!Succeeded, Grid!Failed
<1>3. Takes(calls \ {c}, {}, {}) BY <1>2, TakesAsIs
<1>4. c.what \in Grid!Reviewed BY <1>1 DEF Grid!Calls
<1>5. PICK w \in Grid!Wizards :
          /\ ui' = [ui EXCEPT !.wizard = w] /\ w.file = ui.wizard.file /\ w.mixed = ui.wizard.mixed
          /\ w.report \in {c.what, ui.wizard.report}
    <2>1. CASE UNCHANGED ui
        <3>1. ui' = [ui EXCEPT !.wizard = ui.wizard] BY <1>1, <2>1 DEF Grid!Uis
        <3>2. QED BY <1>1, <3>1
    <2>2. ASSUME NEW bad \in BOOLEAN, ui' = [ui EXCEPT !.wizard.report = c.what, !.wizard.bad = bad]
          PROVE  \E w \in Grid!Wizards :
                    /\ ui' = [ui EXCEPT !.wizard = w] /\ w.file = ui.wizard.file
                    /\ w.mixed = ui.wizard.mixed /\ w.report \in {c.what, ui.wizard.report}
        <3> DEFINE w == [ui.wizard EXCEPT !.report = c.what, !.bad = bad]
        <3>1. ui' = [ui EXCEPT !.wizard = w] BY <1>1, <2>2 DEF Grid!Uis
        <3>2. /\ w \in Grid!Wizards /\ w.file = ui.wizard.file /\ w.mixed = ui.wizard.mixed
              /\ w.report = c.what
            BY <1>1, <1>4 DEF Grid!Wizards
        <3> HIDE DEF w
        <3>3. QED BY <3>1, <3>2
    <2>3. QED BY <2>1, <2>2 DEF Grid!DryRunAnswers
<1>6. /\ ui' \in Grid!Uis /\ Aside /\ ui'.wizard = w /\ ui'.bulk = ui.bulk /\ ui'.reads = ui.reads
    BY <1>1, <1>5 DEF Grid!Uis, Aside
<1>7. Grid!TypeOK' /\ Grid!CallsInv' /\ Grid!SavedInv' /\ Grid!NothingSpinsForever'
    BY <1>2, <1>3, <1>6, ModalHears DEF Aside
<1>8. Grid!WizardInv'
    <2>1. Grid!WizardInv BY DEF Grid!GridInv
    <2>2. ~ui.wizard.mixed => c.what = ui.wizard.file BY <1>2, <2>1 DEF Grid!WizardInv
    <2>3. QED BY <1>2, <1>5, <1>6, <2>1, <2>2 DEF Grid!WizardInv
<1>9. Grid!BulkInv' BY <1>3, <1>6, TakesBulk
<1>10. QED BY <1>7, <1>8, <1>9 DEF Grid!GridInv

LEMMA GridImports ==
    ASSUME Grid!GridInv, NEW c \in calls, Grid!ImportAnswers(c)
    PROVE  Grid!GridInv'
<1>1. ui \in Grid!Uis /\ ui.wizard \in Grid!Wizards BY UiParts
<1>2. /\ UNCHANGED <<db, data, isError, made>> /\ calls' = calls \ {c} /\ c.heard
      /\ c.observer = Grid!ImportMut
    BY DEF Grid!ImportAnswers, Grid!Succeeded, Grid!Failed
<1>3. Takes(calls \ {c}, {}, {}) BY <1>2, TakesAsIs
<1>4. \/ c.observer \in Grid!Writers /\ c.st = "done" /\ saved' = saved \cup {c.n}
         /\ fetch' = Grid!NewFetch
      \/ UNCHANGED <<saved, fetch>>
    BY <1>2, ObserverKinds DEF Grid!ImportAnswers, Grid!Succeeded, Grid!RefetchGrid, Grid!Refetch
<1>5. ui' = [ui EXCEPT !.wizard.applied = TRUE] \/ ui' = ui BY DEF Grid!ImportAnswers
<1>6. /\ ui' \in Grid!Uis /\ Aside /\ ui'.bulk = ui.bulk /\ ui'.reads = ui.reads
      /\ ui'.wizard.file = ui.wizard.file /\ ui'.wizard.mixed = ui.wizard.mixed
      /\ ui'.wizard.report = ui.wizard.report
    <2>1. CASE ui' = ui BY <1>1, <2>1 DEF Aside
    <2>2. CASE ui' = [ui EXCEPT !.wizard.applied = TRUE]
        <3> DEFINE w == [ui.wizard EXCEPT !.applied = TRUE]
        <3>1. ui' = [ui EXCEPT !.wizard = w] BY <1>1, <2>2 DEF Grid!Uis
        <3>2. /\ w \in Grid!Wizards /\ w.file = ui.wizard.file /\ w.mixed = ui.wizard.mixed
              /\ w.report = ui.wizard.report
            BY <1>1 DEF Grid!Wizards
        <3> HIDE DEF w
        <3>3. QED BY <1>1, <3>1, <3>2 DEF Grid!Uis, Aside
    <2>3. QED BY <1>5, <2>1, <2>2
<1>7. Grid!TypeOK' /\ Grid!CallsInv' /\ Grid!SavedInv' /\ Grid!NothingSpinsForever'
    BY <1>2, <1>3, <1>4, <1>6, ModalHears DEF Aside
<1>8. Grid!WizardInv' BY <1>3, <1>6, TakesWizard
<1>9. Grid!BulkInv' BY <1>3, <1>6, TakesBulk
<1>10. QED BY <1>7, <1>8, <1>9 DEF Grid!GridInv

\* Callbacks that went are not heard.
LEMMA GoneUnheard ==
    ASSUME Grid!GridInv, NEW cs, NEW gone, Takes(cs, gone, {}), NEW o \in gone
    PROVE  \A c \in calls' : c.observer = o => ~c.heard
  BY TakesFacts DEF SameWrite

LEMMA OrphansUnmounted ==
    ASSUME ui \in Grid!Uis
    PROVE  /\ Grid!Orphaned(ui.reads) \subseteq Grid!Reads
           /\ \A r \in Grid!Orphaned(ui.reads) : ~r.mounted
<1>1. \A r \in ui.reads : [r EXCEPT !.mounted = FALSE] \in Grid!Reads
                             /\ ~[r EXCEPT !.mounted = FALSE].mounted
    BY DEF Grid!Uis, Grid!Reads
<1>2. QED BY <1>1 DEF Grid!Orphaned

LEMMA FreshModals ==
    /\ Grid!NoWizard \in Grid!Wizards /\ Grid!NoWizard.report = Nothing
    /\ Grid!NoBulk \in Grid!Bulks /\ Grid!NoBulk.preview = Nothing
    /\ Grid!FreshCells \in Grid!CellStates
    /\ \A u \in Units : Grid!FreshCells.precio[u] = "idle" /\ Grid!FreshCells.estado[u] = "idle"
  BY DEF Grid!NoWizard, Grid!NoBulk, Grid!Wizards, Grid!Bulks, Grid!Reviewed,
         Grid!FreshCells, Grid!CellStates

LEMMA GridCloses ==
    ASSUME Grid!GridInv, Grid!CloseImport
    PROVE  Grid!GridInv'
<1> DEFINE gone == {Grid!DryRunMut, Grid!ImportMut}
           orphans == Grid!Orphaned(ui.reads)
<1>1. ui \in Grid!Uis BY UiParts
<1>2. UNCHANGED <<db, data, isError, fetch, made, saved>> /\ calls' = Grid!Unmount(calls, gone)
    BY DEF Grid!CloseImport
<1>3. ui' = [ui EXCEPT !.modal = "none", !.wizard = Grid!NoWizard, !.reads = orphans]
    BY DEF Grid!CloseImport
<1>4. orphans \subseteq Grid!Reads /\ \A r \in orphans : ~r.mounted BY <1>1, OrphansUnmounted
<1> HIDE DEF orphans
<1>5. /\ ui' \in Grid!Uis /\ ui'.cells = ui.cells /\ ui'.modal = "none" /\ ui'.wizard = Grid!NoWizard
      /\ ui'.bulk = ui.bulk /\ ui'.reads = orphans
    BY <1>1, <1>3, <1>4, FreshModals DEF Grid!Uis
<1>6. Takes(calls, gone, {}) BY <1>2, TakesUnmount
<1>7. Grid!TypeOK'
    <2>1. made' \in 0..MaxCalls BY <1>2, UiParts
    <2>2. QED BY <1>2, <1>5, <1>6, <2>1, UiParts, TakesType
<1>8. Grid!CallsInv' BY <1>5, <1>6, TakesCalls
<1>9. Grid!SavedInv' BY <1>2, <1>6, TakesSaved
<1>10. Grid!NothingSpinsForever'
    <2>1. \A u \in Units : Grid!PrecioOf(u) \notin gone /\ Grid!EstadoOf(u) \notin gone
        BY ModalObservers
    <2>2. QED BY <1>5, <1>6, <2>1, TakesSpins
<1>11. Grid!WizardInv'
    <2>1. \A c \in calls' : c.observer = Grid!DryRunMut => ~c.heard
        <3>1. Grid!DryRunMut \in gone OBVIOUS
        <3>2. QED BY <3>1, <1>6, GoneUnheard
    <2>2. QED BY <1>4, <1>5, <2>1, FreshModals DEF Grid!WizardInv
<1>12. Grid!BulkInv' BY <1>5, <1>6, TakesBulk
<1>13. QED BY <1>7, <1>8, <1>9, <1>10, <1>11, <1>12 DEF Grid!GridInv

\* A step of the bulk edit's form, which tells nobody.
LEMMA GridEdits ==
    ASSUME Grid!GridInv, (\E p \in Params : Grid!EditForm(p)) \/ Grid!CancelPreview
    PROVE  Grid!GridInv'
<1>1. ui \in Grid!Uis /\ ui.bulk \in Grid!Bulks BY UiParts
<1>2. UNCHANGED <<db, data, isError, fetch, calls, made, saved>>
    BY DEF Grid!EditForm, Grid!CancelPreview
<1>3. Grid!BulkInv BY DEF Grid!GridInv
<1>4. PICK b \in Grid!Bulks :
          /\ ui' = [ui EXCEPT !.bulk = b] /\ b.preview = Nothing
          /\ ~b.touched => ~Grid!Pending(Grid!PreviewMut)
    <2>1. CASE \E p \in Params : Grid!EditForm(p)
        <3>1. PICK p \in Params : Grid!EditForm(p) BY <2>1
        <3> DEFINE t == ui.bulk.touched \/ Grid!Pending(Grid!PreviewMut)
                   b == [ui.bulk EXCEPT !.params = p, !.touched = t]
        <3>2. ui' = [ui EXCEPT !.bulk = b] /\ ui.bulk.preview = Nothing
            BY <1>1, <3>1 DEF Grid!EditForm, Grid!BulkForm, Grid!Uis
        <3>3. t \in BOOLEAN /\ (~t => ~Grid!Pending(Grid!PreviewMut)) BY <1>1 DEF Grid!Bulks
        <3>4. p \in Grid!Reviewed BY DEF Grid!Reviewed
        <3> HIDE DEF t
        <3>5. b \in Grid!Bulks /\ b.preview = Nothing /\ b.touched = t
            BY <1>1, <3>2, <3>3, <3>4 DEF Grid!Bulks
        <3> HIDE DEF b
        <3>6. QED BY <3>2, <3>3, <3>5
    <2>2. CASE Grid!CancelPreview
        <3> DEFINE b == [ui.bulk EXCEPT !.preview = Nothing, !.bad = FALSE, !.touched = FALSE]
        <3>1. ui' = [ui EXCEPT !.bulk = b] BY <1>1, <2>2 DEF Grid!CancelPreview, Grid!Uis
        <3>2. ~Grid!Pending(Grid!PreviewMut)
            BY <1>3, <2>2 DEF Grid!BulkInv, Grid!CancelPreview, Grid!BulkPreview
        <3>3. b \in Grid!Bulks /\ b.preview = Nothing
            BY <1>1 DEF Grid!Bulks, Grid!Reviewed
        <3> HIDE DEF b
        <3>4. QED BY <3>1, <3>2, <3>3
    <2>3. QED BY <2>1, <2>2
<1>5. /\ ui' \in Grid!Uis /\ Aside /\ ui'.bulk = b /\ ui'.wizard = ui.wizard /\ ui'.reads = ui.reads
    BY <1>1, <1>4 DEF Grid!Uis, Aside
<1>6. Takes(calls, {}, {}) BY <1>2, TakesAsIs
<1>7. Grid!TypeOK' /\ Grid!CallsInv' /\ Grid!SavedInv' /\ Grid!NothingSpinsForever'
    <2>1. made' \in 0..MaxCalls BY <1>2, UiParts
    <2>2. QED BY <1>2, <1>5, <1>6, <2>1, AsideKeeps
<1>8. Grid!WizardInv' BY <1>5, <1>6, TakesWizard
<1>9. Grid!BulkInv' BY <1>2, <1>4, <1>5 DEF Grid!BulkInv, Grid!Pending
<1>10. QED BY <1>7, <1>8, <1>9 DEF Grid!GridInv

\* A preview or a bulk change is sent.
LEMMA GridBulkSends ==
    ASSUME Grid!GridInv, Grid!RunPreview \/ Grid!ConfirmBulk
    PROVE  Grid!GridInv'
<1>1. ui \in Grid!Uis /\ ui.bulk \in Grid!Bulks /\ ui.bulk.params \in Grid!Reviewed
      /\ ui.selected \in SUBSET Units /\ made \in 0..MaxCalls
    BY UiParts
<1>2. /\ UNCHANGED <<db, data, isError, fetch, saved>> /\ made < MaxCalls /\ made' = made + 1
    BY DEF Grid!RunPreview, Grid!ConfirmBulk
<1>3. PICK o \in {Grid!PreviewMut, Grid!BulkMut}, us \in SUBSET Units, b \in Grid!Bulks :
          /\ calls' = Grid!Mutate(calls, Grid!Call(o, ui.bulk.params, us))
          /\ o = Grid!BulkMut => us # {} /\ b = ui.bulk
          /\ o = Grid!PreviewMut => b.preview = Nothing /\ b.params = ui.bulk.params
          /\ ui' = [ui EXCEPT !.bulk = b]
    <2>1. CASE Grid!RunPreview
        <3> DEFINE b == [ui.bulk EXCEPT !.touched = FALSE]
        <3>1. ui' = [ui EXCEPT !.bulk = b] /\ ui.bulk.preview = Nothing
            BY <1>1, <2>1 DEF Grid!RunPreview, Grid!PreviewEnabled, Grid!BulkForm, Grid!Uis
        <3>2. b \in Grid!Bulks /\ b.preview = Nothing /\ b.params = ui.bulk.params
            BY <1>1, <3>1 DEF Grid!Bulks
        <3>3. calls' = Grid!Mutate(calls, Grid!Call(Grid!PreviewMut, ui.bulk.params, {}))
            BY <2>1 DEF Grid!RunPreview
        <3>4. {} \in SUBSET Units /\ Grid!PreviewMut # Grid!BulkMut BY ObserverNames
        <3> HIDE DEF b
        <3>5. QED BY <3>1, <3>2, <3>3, <3>4
    <2>2. CASE Grid!ConfirmBulk
        <3>1. ui' = [ui EXCEPT !.bulk = ui.bulk] /\ ui.modal = "bulk"
            BY <1>1, <2>2 DEF Grid!ConfirmBulk, Grid!BulkPreview, Grid!Bulk, Grid!Uis
        <3>2. ui.selected # {} BY <3>1 DEF Grid!GridInv, Grid!CallsInv
        <3>3. calls' = Grid!Mutate(calls, Grid!Call(Grid!BulkMut, ui.bulk.params, ui.selected))
            BY <2>2 DEF Grid!ConfirmBulk
        <3>4. Grid!PreviewMut # Grid!BulkMut BY ObserverNames
        <3>5. QED BY <1>1, <3>1, <3>2, <3>3, <3>4
    <2>3. QED BY <2>1, <2>2
<1> DEFINE call == Grid!Call(o, ui.bulk.params, us)
<1>4. call \in Grid!Calls /\ call.observer = o /\ call.what = ui.bulk.params /\ call.units = us
      /\ call.st = "sent" /\ call.heard
    <2>1. o \in Grid!Observers BY ObserverKinds
    <2>2. QED BY <1>1, <2>1, GridCall
<1>5. calls' = Grid!Mutate(calls, call) BY <1>3
<1> HIDE DEF call
<1>6. Takes(calls, {o}, {call})
    <2>1. call.observer \in Grid!Writers => call.units # {} BY <1>3, <1>4, ObserverKinds
    <2>2. Takes(calls, {call.observer}, {call}) BY <1>4, <1>5, <2>1, TakesMutate
    <2>3. QED BY <2>2, <1>4
<1>7. /\ ui' \in Grid!Uis /\ Aside /\ ui'.bulk = b /\ ui'.wizard = ui.wizard /\ ui'.reads = ui.reads
    BY <1>1, <1>3 DEF Grid!Uis, Aside
<1>8. Grid!TypeOK' /\ Grid!CallsInv' /\ Grid!SavedInv' /\ Grid!NothingSpinsForever'
    <2>1. made' \in 0..MaxCalls BY <1>2, MadeNext
    <2>2. \A u \in Units : Grid!PrecioOf(u) \notin {o} /\ Grid!EstadoOf(u) \notin {o}
        BY ModalObservers
    <2>3. QED BY <1>2, <1>6, <1>7, <2>1, <2>2, AsideKeeps
<1>9. Grid!WizardInv'
    <2>1. o # Grid!DryRunMut BY ObserverNames
    <2>2. QED BY <1>4, <1>6, <1>7, <2>1, TakesWizard
<1>10. Grid!BulkInv'
    <2>1. CASE o = Grid!BulkMut
        <3>1. o # Grid!PreviewMut BY <2>1, ObserverNames
        <3>2. QED BY <1>3, <1>4, <1>6, <1>7, <2>1, <3>1, TakesBulk
    <2>2. CASE o = Grid!PreviewMut
        <3>1. \A c \in calls' : c = call \/ (c.observer = Grid!PreviewMut => ~c.heard)
            BY <1>6, <2>2, TakesFacts DEF SameWrite
        <3>2. QED BY <1>3, <1>4, <1>7, <2>2, <3>1 DEF Grid!BulkInv
    <2>3. QED BY <2>1, <2>2
<1>11. QED BY <1>8, <1>9, <1>10 DEF Grid!GridInv

LEMMA GridPreviews ==
    ASSUME Grid!GridInv, NEW c \in calls, Grid!PreviewAnswers(c)
    PROVE  Grid!GridInv'
<1>1. ui \in Grid!Uis /\ ui.bulk \in Grid!Bulks /\ c \in Grid!Calls BY UiParts
<1>2. /\ UNCHANGED <<db, data, isError, fetch, made, saved>> /\ calls' = calls \ {c} /\ c.heard
      /\ c.observer = Grid!PreviewMut
    BY DEF Grid!PreviewAnswers, Grid!Succeeded, Grid!Failed
<1>3. Takes(calls \ {c}, {}, {}) BY <1>2, TakesAsIs
<1>4. c.what \in Grid!Reviewed BY <1>1 DEF Grid!Calls
<1>5. PICK b \in Grid!Bulks :
          /\ ui' = [ui EXCEPT !.bulk = b] /\ b.params = ui.bulk.params /\ b.touched = ui.bulk.touched
          /\ b.preview \in {c.what, ui.bulk.preview}
    <2>1. CASE UNCHANGED ui
        <3>1. ui' = [ui EXCEPT !.bulk = ui.bulk] BY <1>1, <2>1 DEF Grid!Uis
        <3>2. QED BY <1>1, <3>1
    <2>2. ASSUME NEW bad \in BOOLEAN, ui' = [ui EXCEPT !.bulk.preview = c.what, !.bulk.bad = bad]
          PROVE  \E b \in Grid!Bulks :
                    /\ ui' = [ui EXCEPT !.bulk = b] /\ b.params = ui.bulk.params
                    /\ b.touched = ui.bulk.touched /\ b.preview \in {c.what, ui.bulk.preview}
        <3> DEFINE b == [ui.bulk EXCEPT !.preview = c.what, !.bad = bad]
        <3>1. ui' = [ui EXCEPT !.bulk = b] BY <1>1, <2>2 DEF Grid!Uis
        <3>2. /\ b \in Grid!Bulks /\ b.params = ui.bulk.params /\ b.touched = ui.bulk.touched
              /\ b.preview = c.what
            BY <1>1, <1>4 DEF Grid!Bulks
        <3> HIDE DEF b
        <3>3. QED BY <3>1, <3>2
    <2>3. QED BY <2>1, <2>2 DEF Grid!PreviewAnswers
<1>6. /\ ui' \in Grid!Uis /\ Aside /\ ui'.bulk = b /\ ui'.wizard = ui.wizard /\ ui'.reads = ui.reads
    BY <1>1, <1>5 DEF Grid!Uis, Aside
<1>7. Grid!TypeOK' /\ Grid!CallsInv' /\ Grid!SavedInv' /\ Grid!NothingSpinsForever'
    BY <1>2, <1>3, <1>6, ModalHears DEF Aside
<1>8. Grid!WizardInv' BY <1>3, <1>6, TakesWizard
<1>9. Grid!BulkInv'
    <2>1. Grid!BulkInv /\ Grid!CallsInv BY DEF Grid!GridInv
    <2>2. ~ui.bulk.touched => c.what = ui.bulk.params BY <1>2, <2>1 DEF Grid!BulkInv
    <2>3. \A d \in calls' : d.observer = Grid!PreviewMut => ~d.heard
        BY <1>2, <2>1 DEF Grid!CallsInv
    <2>4. QED BY <1>2, <1>5, <1>6, <2>1, <2>2, <2>3 DEF Grid!BulkInv, Grid!Pending
<1>10. QED BY <1>7, <1>8, <1>9 DEF Grid!GridInv

LEMMA GridBulkCloses ==
    ASSUME Grid!GridInv, Grid!CloseBulk
    PROVE  Grid!GridInv'
<1> DEFINE gone == {Grid!PreviewMut, Grid!BulkMut}
<1>1. ui \in Grid!Uis BY UiParts
<1>2. UNCHANGED <<db, data, isError, fetch, made, saved>> /\ calls' = Grid!Unmount(calls, gone)
    BY DEF Grid!CloseBulk
<1>3. ui' = [ui EXCEPT !.modal = "none", !.bulk = Grid!NoBulk] BY DEF Grid!CloseBulk
<1>4. /\ ui' \in Grid!Uis /\ ui'.cells = ui.cells /\ ui'.modal = "none" /\ ui'.wizard = ui.wizard
      /\ ui'.bulk = Grid!NoBulk /\ ui'.reads = ui.reads
    BY <1>1, <1>3, FreshModals DEF Grid!Uis
<1>5. Takes(calls, gone, {}) BY <1>2, TakesUnmount
<1>6. Grid!TypeOK'
    <2>1. made' \in 0..MaxCalls BY <1>2, UiParts
    <2>2. QED BY <1>2, <1>4, <1>5, <2>1, UiParts, TakesType
<1>7. Grid!CallsInv' BY <1>4, <1>5, TakesCalls
<1>8. Grid!SavedInv' BY <1>2, <1>5, TakesSaved
<1>9. Grid!NothingSpinsForever'
    <2>1. \A u \in Units : Grid!PrecioOf(u) \notin gone /\ Grid!EstadoOf(u) \notin gone
        BY ModalObservers
    <2>2. QED BY <1>4, <1>5, <2>1, TakesSpins
<1>10. Grid!WizardInv' BY <1>4, <1>5, TakesWizard
<1>11. Grid!BulkInv'
    <2>1. \A c \in calls' : c.observer = Grid!PreviewMut => ~c.heard
        <3>1. Grid!PreviewMut \in gone OBVIOUS
        <3>2. QED BY <3>1, <1>5, GoneUnheard
    <2>2. QED BY <1>4, <2>1, FreshModals DEF Grid!BulkInv
<1>12. QED BY <1>6, <1>7, <1>8, <1>9, <1>10, <1>11 DEF Grid!GridInv

LEMMA GridBulkAnswers ==
    ASSUME Grid!GridInv, NEW c \in calls, Grid!BulkAnswers(c)
    PROVE  Grid!GridInv'
<1>1. ui \in Grid!Uis BY UiParts
<1>2. UNCHANGED <<db, data, isError, made>> /\ c.observer = Grid!BulkMut /\ c.heard
    BY DEF Grid!BulkAnswers, Grid!Succeeded, Grid!Failed
<1>3. CASE /\ Grid!Succeeded(c) /\ saved' = saved \cup {c.n} /\ Grid!RefetchGrid
           /\ ui' = [ui EXCEPT !.modal = "none", !.selected = {}, !.bulk = Grid!NoBulk]
           /\ calls' = Grid!Unmount(calls \ {c}, {Grid!PreviewMut, Grid!BulkMut})
    <2> DEFINE gone == {Grid!PreviewMut, Grid!BulkMut}
    <2>1. Takes(calls \ {c}, gone, {}) BY <1>3, TakesUnmount
    <2>2. /\ ui' \in Grid!Uis /\ ui'.cells = ui.cells /\ ui'.modal = "none" /\ ui'.wizard = ui.wizard
          /\ ui'.bulk = Grid!NoBulk /\ ui'.reads = ui.reads
        BY <1>1, <1>3, FreshModals DEF Grid!Uis
    <2>3. c.observer \in Grid!Writers /\ c.st = "done" /\ saved' = saved \cup {c.n}
          /\ fetch' = Grid!NewFetch
        BY <1>2, <1>3, ObserverKinds DEF Grid!Succeeded, Grid!RefetchGrid, Grid!Refetch
    <2>4. Grid!TypeOK' /\ Grid!CallsInv' /\ Grid!SavedInv' /\ Grid!NothingSpinsForever'
        BY <1>2, <2>1, <2>2, <2>3, ModalHears
    <2>5. Grid!WizardInv' BY <2>1, <2>2, TakesWizard
    <2>6. Grid!BulkInv'
        <3>1. \A d \in calls' : d.observer = Grid!PreviewMut => ~d.heard
            <4>1. Grid!PreviewMut \in gone OBVIOUS
            <4>2. QED BY <4>1, <2>1, GoneUnheard
        <3>2. QED BY <2>2, <3>1, FreshModals DEF Grid!BulkInv
    <2>7. QED BY <2>4, <2>5, <2>6 DEF Grid!GridInv
<1>4. CASE calls' = calls \ {c} /\ UNCHANGED <<saved, fetch, ui>>
    <2>1. Takes(calls \ {c}, {}, {}) BY <1>4, TakesAsIs
    <2>2. Grid!TypeOK' /\ Grid!CallsInv' /\ Grid!SavedInv' /\ Grid!NothingSpinsForever'
        <3>1. ui' \in Grid!Uis /\ ui'.cells = ui.cells /\ ui'.selected = ui.selected
              /\ ui'.modal = ui.modal
            BY <1>1, <1>4
        <3>2. UNCHANGED <<saved, fetch>> /\ UNCHANGED <<db, data, isError, made>> BY <1>2, <1>4
        <3>3. QED BY <1>2, <2>1, <3>1, <3>2, ModalHears
    <2>3. Grid!WizardInv' BY <1>4, <2>1, TakesWizard
    <2>4. Grid!BulkInv' BY <1>4, <2>1, TakesBulk
    <2>5. QED BY <2>2, <2>3, <2>4 DEF Grid!GridInv
<1>5. QED BY <1>3, <1>4 DEF Grid!BulkAnswers

\* The server commits a call or refuses it.
LEMMA GridServes ==
    ASSUME Grid!GridInv, NEW c \in calls, Grid!ServerTakes(c)
    PROVE  Grid!GridInv'
<1>1. /\ UNCHANGED <<data, isError, fetch, made, saved, ui>> /\ c.st = "sent" /\ c \in Grid!Calls
    BY UiParts DEF Grid!ServerTakes
<1>2. Grid!TypeOK /\ Grid!CallsInv /\ Grid!SavedInv /\ Grid!WizardInv /\ Grid!BulkInv
      /\ Grid!NothingSpinsForever
    BY DEF Grid!GridInv
<1>3. PICK st \in {"done", "refused"} :
          /\ calls' = (calls \ {c}) \cup {[c EXCEPT !.st = st]}
          /\ st = "done" => db' = [u \in Units |-> IF u \in c.units THEN db[u] \cup {c.n} ELSE db[u]]
          /\ st = "refused" => db' = db
    BY DEF Grid!ServerTakes, Grid!Served
<1> DEFINE d == [c EXCEPT !.st = st]
<1>4. /\ d \in Grid!Calls /\ d.n = c.n /\ d.observer = c.observer /\ d.what = c.what
      /\ d.units = c.units /\ d.heard = c.heard /\ d.st = st
    BY <1>1 DEF Grid!Calls
<1> HIDE DEF d
<1>5. calls' = (calls \ {c}) \cup {d} BY <1>3 DEF d
<1>6. \A e \in calls' : \E b \in calls : /\ b.n = e.n /\ b.observer = e.observer /\ b.what = e.what
                                         /\ b.units = e.units /\ b.heard = e.heard
    BY <1>4, <1>5
<1>7. \A b \in calls : \E e \in calls' : b.observer = e.observer /\ b.heard = e.heard
    BY <1>4, <1>5
<1>8. c.n \in 0..MaxCalls /\ c.units \subseteq Units BY <1>1 DEF Grid!Calls
<1>9. /\ db' \in [Units -> SUBSET (0..MaxCalls)]
      /\ \A u \in Units : db[u] \subseteq db'[u] /\ (st = "done" /\ u \in c.units => c.n \in db'[u])
    BY <1>2, <1>3, <1>8 DEF Grid!TypeOK
<1>10. Grid!TypeOK' BY <1>1, <1>2, <1>4, <1>5, <1>9 DEF Grid!TypeOK
<1>11. Grid!CallsInv'
    <2>1. \A x, y \in calls' : x.heard /\ y.heard /\ x.observer = y.observer => x = y
        BY <1>2, <1>4, <1>5 DEF Grid!CallsInv
    <2>2. \A e \in calls' : e.observer \in Grid!Writers => e.units # {}
        BY <1>2, <1>6 DEF Grid!CallsInv
    <2>3. QED BY <1>1, <1>2, <2>1, <2>2 DEF Grid!CallsInv
<1>12. Grid!SavedInv'
    <2>1. \A e \in calls' : e.st = "done" => \A u \in e.units : e.n \in db'[u]
        <3>1. ASSUME NEW e \in calls \ {c}, e.st = "done" PROVE \A u \in e.units : e.n \in db'[u]
            <4>1. e.units \subseteq Units BY <1>2 DEF Grid!TypeOK, Grid!Calls
            <4>2. QED BY <1>2, <1>9, <3>1, <4>1 DEF Grid!SavedInv
        <3>2. d.st = "done" => \A u \in d.units : d.n \in db'[u] BY <1>4, <1>8, <1>9
        <3>3. QED BY <1>5, <3>1, <3>2
    <2>2. saved' \subseteq UNION {db'[u] : u \in Units} BY <1>1, <1>2, <1>9 DEF Grid!SavedInv
    <2>3. QED BY <1>1, <1>2, <2>1, <2>2 DEF Grid!SavedInv, Grid!SavedIsShown
<1>13. Grid!WizardInv' BY <1>1, <1>2, <1>6 DEF Grid!WizardInv
<1>14. \A o : Grid!Pending(o) <=> Grid!Pending(o)' BY <1>6, <1>7 DEF Grid!Pending
<1>15. Grid!BulkInv' BY <1>1, <1>2, <1>6, <1>14 DEF Grid!BulkInv
<1>16. Grid!NothingSpinsForever' BY <1>1, <1>2, <1>14 DEF Grid!NothingSpinsForever
<1>17. QED BY <1>10, <1>11, <1>12, <1>13, <1>15, <1>16 DEF Grid!GridInv

LEMMA GridUnheard ==
    ASSUME Grid!GridInv, NEW c \in calls, Grid!Unheard(c)
    PROVE  Grid!GridInv'
<1>1. /\ UNCHANGED <<db, data, isError, fetch, made, saved, ui>> /\ calls' = calls \ {c} /\ ~c.heard
    BY DEF Grid!Unheard, Grid!Overheard
<1>2. Takes(calls \ {c}, {}, {}) BY <1>1, TakesAsIs
<1>3. Grid!TypeOK' BY <1>1, <1>2, UiParts, TakesType
<1>4. Grid!CallsInv'
    <2>1. Grid!CallsInv BY DEF Grid!GridInv
    <2>2. QED BY <1>1, <1>2, <2>1, TakesCalls DEF Grid!CallsInv
<1>5. Grid!SavedInv' BY <1>1, <1>2, TakesSaved
<1>6. Grid!WizardInv' BY <1>1, <1>2, TakesWizard
<1>7. Grid!BulkInv' BY <1>1, <1>2, TakesBulk
<1>8. Grid!NothingSpinsForever' BY <1>1, <1>2, TakesSpins
<1>9. QED BY <1>3, <1>4, <1>5, <1>6, <1>7, <1>8 DEF Grid!GridInv

\* Steps that leave the calls and the page's components alone.
LEMMA GridElsewhere ==
    ASSUME Grid!GridInv, UNCHANGED <<calls, saved, ui>>, Grid!TypeOK', Grid!SavedInv'
    PROVE  Grid!GridInv'
<1>1. Grid!CallsInv' BY DEF Grid!GridInv, Grid!CallsInv
<1>2. Grid!WizardInv' BY DEF Grid!GridInv, Grid!WizardInv
<1>3. Grid!BulkInv' BY DEF Grid!GridInv, Grid!BulkInv, Grid!Pending
<1>4. Grid!NothingSpinsForever' BY DEF Grid!GridInv, Grid!NothingSpinsForever, Grid!Pending
<1>5. QED BY <1>1, <1>2, <1>3, <1>4 DEF Grid!GridInv

LEMMA GridOthers ==
    ASSUME Grid!GridInv, NEW u \in Units, Grid!OtherSession(u)
    PROVE  Grid!GridInv'
<1>1. /\ UNCHANGED <<data, isError, fetch, calls, saved, ui>> /\ made < MaxCalls /\ made' = made + 1
      /\ db' = [db EXCEPT ![u] = @ \cup {made}]
    BY DEF Grid!OtherSession
<1>2. Grid!TypeOK /\ Grid!SavedInv BY DEF Grid!GridInv
<1>3. db' \in [Units -> SUBSET (0..MaxCalls)] /\ \A v \in Units : db[v] \subseteq db'[v]
    BY <1>1, <1>2 DEF Grid!TypeOK
<1>4. Grid!TypeOK'
    <2>1. made' \in 0..MaxCalls BY <1>1, MadeNext
    <2>2. QED BY <1>1, <1>2, <1>3, <2>1 DEF Grid!TypeOK
<1>5. Grid!SavedInv'
    <2>1. \A c \in calls' : c.st = "done" => \A v \in c.units : c.n \in db'[v]
        <3>1. \A c \in calls : c.units \subseteq Units BY <1>2 DEF Grid!TypeOK, Grid!Calls
        <3>2. QED BY <1>1, <1>2, <1>3, <3>1 DEF Grid!SavedInv
    <2>2. saved' \subseteq UNION {db'[v] : v \in Units} BY <1>1, <1>2, <1>3 DEF Grid!SavedInv
    <2>3. QED BY <1>1, <1>2, <2>1, <2>2 DEF Grid!SavedInv, Grid!SavedIsShown
<1>6. QED BY <1>1, <1>4, <1>5, GridElsewhere

LEMMA GridFetches ==
    ASSUME Grid!GridInv, Grid!FetchStarts \/ Grid!ListForProject \/ Grid!FetchLands
    PROVE  Grid!GridInv'
<1>1. Grid!TypeOK /\ Grid!SavedInv BY DEF Grid!GridInv
<1>2. UNCHANGED <<db, calls, made, saved, ui>>
    BY DEF Grid!FetchStarts, Grid!ListForProject, Grid!FetchLands
<1>3. CASE Grid!FetchStarts
    <2>1. UNCHANGED <<data, isError>> /\ fetch' = Grid!NewFetch
        BY <1>3 DEF Grid!FetchStarts, Grid!StartFetch
    <2>2. Grid!TypeOK' BY <1>1, <1>2, <2>1 DEF Grid!TypeOK, Grid!NewFetch
    <2>3. Grid!SavedInv' BY <1>1, <1>2, <2>1 DEF Grid!SavedInv, Grid!SavedIsShown, Grid!NewFetch
    <2>4. QED BY <1>2, <2>2, <2>3, GridElsewhere
<1>4. CASE Grid!ListForProject
    <2>1. UNCHANGED <<data, isError>> /\ fetch' = [fetch EXCEPT !.read = {db}] /\ fetch.on
        BY <1>4 DEF Grid!ListForProject, Grid!ServerReads
    <2>2. fetch' \in [on: BOOLEAN, read: SUBSET [Units -> SUBSET (0..MaxCalls)]] /\ fetch'.on
          /\ fetch'.read = {db}
        BY <1>1, <2>1 DEF Grid!TypeOK
    <2>3. Grid!TypeOK' BY <1>1, <1>2, <2>1, <2>2 DEF Grid!TypeOK
    <2>4. Grid!SavedInv' BY <1>1, <1>2, <2>1, <2>2 DEF Grid!SavedInv, Grid!SavedIsShown
    <2>5. QED BY <1>2, <2>3, <2>4, GridElsewhere
<1>5. CASE Grid!FetchLands
    <2>1. data' \in fetch.read /\ isError' = FALSE /\ fetch' = Grid!NoFetch
        BY <1>5 DEF Grid!FetchLands
    <2>2. Grid!TypeOK' BY <1>1, <1>2, <2>1 DEF Grid!TypeOK, Grid!NoFetch
    <2>3. Grid!SavedInv' BY <1>1, <1>2, <2>1 DEF Grid!SavedInv, Grid!SavedIsShown, Grid!NoFetch
    <2>4. QED BY <1>2, <2>2, <2>3, GridElsewhere
<1>6. QED BY <1>3, <1>4, <1>5

LEMMA GridFetchFails ==
    ASSUME Grid!GridInv, Grid!FetchFails
    PROVE  Grid!GridInv'
<1> DEFINE orphans == Grid!Orphaned(ui.reads)
<1>1. ui \in Grid!Uis /\ Grid!TypeOK BY UiParts DEF Grid!GridInv
<1>2. /\ fetch' = Grid!NoFetch /\ isError' = TRUE /\ UNCHANGED <<db, data, made, saved>>
      /\ calls' = Grid!Unmount(calls, Grid!Observers)
    BY DEF Grid!FetchFails
<1>3. ui' = [ui EXCEPT !.cells = Grid!FreshCells, !.wizard = Grid!NoWizard, !.bulk = Grid!NoBulk,
                       !.reads = orphans]
    BY DEF Grid!FetchFails
<1>4. orphans \subseteq Grid!Reads /\ \A r \in orphans : ~r.mounted BY <1>1, OrphansUnmounted
<1> HIDE DEF orphans
<1>5. /\ ui' \in Grid!Uis /\ ui'.cells = Grid!FreshCells /\ ui'.modal = ui.modal
      /\ ui'.selected = ui.selected /\ ui'.wizard = Grid!NoWizard /\ ui'.bulk = Grid!NoBulk
      /\ ui'.reads = orphans
    BY <1>1, <1>3, <1>4, FreshModals DEF Grid!Uis
<1>6. Takes(calls, Grid!Observers, {}) BY <1>2, TakesUnmount
<1>7. Grid!TypeOK'
    <2>1. calls' \subseteq Grid!Calls BY <1>6, TakesFacts
    <2>2. QED BY <1>1, <1>2, <1>5, <2>1 DEF Grid!TypeOK, Grid!NoFetch
<1>8. Grid!CallsInv'
    <2>1. Grid!CallsInv BY DEF Grid!GridInv
    <2>2. QED BY <1>5, <1>6, <2>1, TakesCalls DEF Grid!CallsInv
<1>9. Grid!SavedInv' BY <1>2, <1>6, TakesSaved DEF Grid!NoFetch
<1>10. Grid!NothingSpinsForever' BY <1>5, <1>6, FreshModals, TakesSpins
<1>11. \A c \in calls' : c.observer \in {Grid!DryRunMut, Grid!PreviewMut} => ~c.heard
    <2>1. Grid!DryRunMut \in Grid!Observers /\ Grid!PreviewMut \in Grid!Observers BY ObserverKinds
    <2>2. QED BY <1>6, <2>1, GoneUnheard
<1>12. Grid!WizardInv' BY <1>4, <1>5, <1>11, FreshModals DEF Grid!WizardInv
<1>13. Grid!BulkInv' BY <1>5, <1>11, FreshModals DEF Grid!BulkInv
<1>14. QED BY <1>7, <1>8, <1>9, <1>10, <1>12, <1>13 DEF Grid!GridInv

LEMMA GridInit == Grid!Init => Grid!GridInv
<1> SUFFICES ASSUME Grid!Init PROVE Grid!GridInv OBVIOUS
<1>1. /\ db = [u \in Units |-> {}] /\ data = db /\ isError = FALSE /\ fetch = Grid!NoFetch
      /\ calls = {} /\ made = 0 /\ saved = {}
    BY DEF Grid!Init, Grid!PageInit
<1>2. ui = [cells |-> Grid!FreshCells, selected |-> {}, modal |-> "none",
            wizard |-> Grid!NoWizard, bulk |-> Grid!NoBulk, reads |-> {}]
    BY DEF Grid!Init
<1>3. /\ ui \in Grid!Uis /\ ui.cells = Grid!FreshCells /\ ui.modal = "none" /\ ui.reads = {}
      /\ ui.wizard = Grid!NoWizard /\ ui.bulk = Grid!NoBulk
    BY <1>2, FreshModals DEF Grid!Uis
<1>4. Grid!TypeOK
    <2>1. 0 \in 0..MaxCalls BY BrowserAssumption DEF Grid!UnitsPageAssumption
    <2>2. QED BY <1>1, <1>3, <2>1 DEF Grid!TypeOK, Grid!NoFetch
<1>5. Grid!CallsInv BY <1>1, <1>3 DEF Grid!CallsInv
<1>6. Grid!SavedInv BY <1>1 DEF Grid!SavedInv, Grid!SavedIsShown, Grid!NoFetch
<1>7. Grid!WizardInv BY <1>1, <1>3, FreshModals DEF Grid!WizardInv
<1>8. Grid!BulkInv BY <1>1, <1>3, FreshModals DEF Grid!BulkInv
<1>9. Grid!NothingSpinsForever BY <1>3, FreshModals DEF Grid!NothingSpinsForever
<1>10. QED BY <1>4, <1>5, <1>6, <1>7, <1>8, <1>9 DEF Grid!GridInv

LEMMA GridStep == Grid!GridInv /\ Grid!Next => Grid!GridInv'
<1> SUFFICES ASSUME Grid!GridInv, Grid!Next PROVE Grid!GridInv' OBVIOUS
<1>1. ASSUME NEW u \in Units,
             \/ Grid!BeginEdit(u) \/ Grid!EndEdit(u) \/ Grid!CommitPrice(u) \/ Grid!SavedTimer(u)
             \/ Grid!ChangeEstado(u) \/ Grid!OtherSession(u)
             \/ \E c \in calls : Grid!PriceAnswers(u, c) \/ Grid!EstadoAnswers(u, c)
      PROVE  Grid!GridInv'
    BY <1>1, GridCells, GridCellWrites, GridOthers, GridCellAnswers
<1>2. ASSUME \/ \E units \in SUBSET Units : Grid!Select(units)
             \/ \E modal \in {"import", "bulk"} : Grid!Open(modal)
      PROVE  Grid!GridInv'
    BY <1>2, GridSelects
<1>3. ASSUME \/ \E f \in Files : Grid!HandleFile(f)
             \/ \E r \in ui.reads : Grid!ReadEnds(r)
             \/ Grid!ConfirmApply \/ Grid!CloseImport
      PROVE  Grid!GridInv'
    BY <1>3, GridDrops, GridReads, GridApplies, GridCloses
<1>4. ASSUME \/ \E p \in Params : Grid!EditForm(p)
             \/ Grid!RunPreview \/ Grid!CancelPreview \/ Grid!ConfirmBulk \/ Grid!CloseBulk
      PROVE  Grid!GridInv'
    BY <1>4, GridEdits, GridBulkSends, GridBulkCloses
<1>5. ASSUME NEW c \in calls,
             \/ Grid!ServerTakes(c) \/ Grid!Unheard(c) \/ Grid!DryRunAnswers(c)
             \/ Grid!ImportAnswers(c) \/ Grid!PreviewAnswers(c) \/ Grid!BulkAnswers(c)
      PROVE  Grid!GridInv'
    BY <1>5, GridServes, GridUnheard, GridReports, GridImports, GridPreviews, GridBulkAnswers
<1>6. ASSUME Grid!FetchStarts \/ Grid!ListForProject \/ Grid!FetchLands \/ Grid!FetchFails
      PROVE  Grid!GridInv'
    BY <1>6, GridFetches, GridFetchFails
<1>7. QED BY <1>1, <1>2, <1>3, <1>4, <1>5, <1>6 DEF Grid!Next

LEMMA GridShows ==
    Grid!GridInv => Grid!SavedIsShown /\ Grid!NothingSpinsForever /\ Grid!ConfirmsTheReviewed
  BY DEF Grid!GridInv, Grid!SavedInv, Grid!WizardInv, Grid!BulkInv, Grid!ConfirmsTheReviewed

-----------------------------------------------------------------------------
(* The hotspots editor.                                                    *)

EditorUis ==
    [drilled: Floors \cup {NoTarget}, selected: Editor!Targets \cup {NoTarget},
     drawing: Editor!Drawings, confirm: BOOLEAN, left: Editor!Drawings, cancelled: BOOLEAN]

LEMMA EditorFacts ==
    ASSUME Editor!EditorInv
    PROVE  /\ Editor!TypeOK /\ Editor!SavedInv /\ Editor!DeletesInv /\ ui \in EditorUis
           /\ calls \subseteq Editor!Calls /\ made \in 0..MaxCalls
  BY DEF Editor!EditorInv, Editor!TypeOK, EditorUis

LEMMA DrawingFacts ==
    /\ Editor!Empty \in Editor!Drawings
    /\ \A s \in Editor!Shapes : Editor!Closed(s) \in Editor!Drawings
    /\ \A d \in Editor!Drawings : d.phase = "drawing" =>
           d.n \in 0..MaxPoints /\ (d.n < MaxPoints => [d EXCEPT !.n = @ + 1] \in Editor!Drawings)
<1>1. MaxPoints \in Nat BY BrowserAssumption DEF Editor!HotspotsAssumption
<1>2. Editor!Empty = [Editor!Empty EXCEPT !.n = 0] BY DEF Editor!Empty
<1>3. Editor!Empty \in Editor!Drawings
    <2>1. 0 \in 0..MaxPoints BY <1>1
    <2>2. QED BY <1>2, <2>1 DEF Editor!Drawings
<1>4. \A s \in Editor!Shapes : Editor!Closed(s) \in Editor!Drawings BY DEF Editor!Drawings
<1>5. ASSUME NEW d \in Editor!Drawings, d.phase = "drawing"
      PROVE  d.n \in 0..MaxPoints /\ (d.n < MaxPoints => [d EXCEPT !.n = @ + 1] \in Editor!Drawings)
    <2>1. d \notin {Editor!Closed(s) : s \in Editor!Shapes}
        <3>1. \A s \in Editor!Shapes : Editor!Closed(s).phase = "closed" BY DEF Editor!Closed
        <3>2. QED BY <1>5, <3>1
    <2>2. PICK n \in 0..MaxPoints : d = [Editor!Empty EXCEPT !.n = n] BY <2>1 DEF Editor!Drawings
    <2>3. d.n = n /\ [d EXCEPT !.n = @ + 1] = [Editor!Empty EXCEPT !.n = n + 1]
        BY <2>2 DEF Editor!Empty
    <2>4. n < MaxPoints => n + 1 \in 0..MaxPoints BY <1>1
    <2>5. QED BY <2>3, <2>4 DEF Editor!Drawings
<1>6. QED BY <1>3, <1>4, <1>5

LEMMA CacheDraws ==
    ASSUME Editor!EditorInv, NEW t \in Editor!Targets
    PROVE  Editor!FromCache(t) \in Editor!Drawings
<1>1. data[t] \in Editor!Rows BY EditorFacts DEF Editor!TypeOK
<1>2. data[t].shape = NoShape \/ data[t].shape \in Editor!Shapes
    BY <1>1 DEF Editor!Rows, Editor!Shapes
<1>3. QED BY <1>2, DrawingFacts DEF Editor!FromCache

\* The operator draws, with no dialog open.
LEMMA EditorRedraws ==
    ASSUME Editor!EditorInv, ~ui.confirm, ui' \in EditorUis, ui'.drawing = ui'.left, ~ui'.confirm,
           ui'.cancelled = ui.cancelled, UNCHANGED <<db, data, isError, fetch, calls, made, saved>>
    PROVE  Editor!EditorInv'
<1>1. Editor!TypeOK' BY EditorFacts DEF Editor!TypeOK, EditorUis
<1>2. Editor!SavedInv' BY EditorFacts DEF Editor!SavedInv, Editor!SavedIsShown
<1>3. Editor!DeletesInv' BY EditorFacts DEF Editor!DeletesInv, Editor!DrawingIsKept
<1>4. QED BY <1>1, <1>2, <1>3 DEF Editor!EditorInv

LEMMA EditorDraws ==
    ASSUME Editor!EditorInv, UNCHANGED <<db, data, isError, fetch, calls, made, saved>>, ~ui.confirm,
           NEW d \in Editor!Drawings, NEW s \in Editor!Targets \cup {NoTarget},
           NEW f \in Floors \cup {NoTarget},
           ui' = [Editor!Draw(d) EXCEPT !.drilled = f, !.selected = s]
    PROVE  Editor!EditorInv'
<1>1. ui \in EditorUis BY EditorFacts
<1>2. ui' \in EditorUis /\ ui'.drawing = d /\ ui'.left = d /\ ui'.confirm = ui.confirm
      /\ ui'.cancelled = ui.cancelled
    BY <1>1 DEF Editor!Draw, EditorUis
<1>3. QED BY <1>2, EditorRedraws

LEMMA EditorDrawing ==
    ASSUME Editor!EditorInv,
           \/ \E t \in Editor!Targets : Editor!LoadTarget(t)
           \/ \E f \in Floors : Editor!DrillIntoFloor(f)
           \/ Editor!BackToExterior \/ Editor!AddVertex \/ Editor!Discard
           \/ \E s \in Editor!Shapes : Editor!ClosePolygon(s) \/ Editor!EditPolygon(s)
    PROVE  Editor!EditorInv'
<1>1. ui \in EditorUis BY EditorFacts
<1>2. UNCHANGED <<db, data, isError, fetch, calls, made, saved>> /\ ~ui.confirm
    BY DEF Editor!LoadTarget, Editor!DrillIntoFloor, Editor!BackToExterior, Editor!AddVertex,
           Editor!Discard, Editor!ClosePolygon, Editor!EditPolygon, Editor!Rail, Editor!Surface,
           Editor!Handles, Editor!Canvas
<1>3. ui.drilled \in Floors \cup {NoTarget} /\ ui.selected \in Editor!Targets \cup {NoTarget}
      /\ ui.drawing \in Editor!Drawings
    BY <1>1 DEF EditorUis
<1>4. ASSUME NEW d \in Editor!Drawings, ui' = Editor!Draw(d) PROVE Editor!EditorInv'
    <2>1. ui' = [Editor!Draw(d) EXCEPT !.drilled = ui.drilled, !.selected = ui.selected]
        BY <1>1, <1>4 DEF Editor!Draw, EditorUis
    <2>2. QED BY <1>2, <1>3, <2>1, EditorDraws
<1>5. CASE \E t \in Editor!Targets : Editor!LoadTarget(t)
    <2>1. PICK t \in Editor!Targets : ui' = [Editor!Draw(Editor!FromCache(t)) EXCEPT !.selected = t]
        BY <1>5 DEF Editor!LoadTarget
    <2>2. Editor!FromCache(t) \in Editor!Drawings BY CacheDraws
    <2>3. ui' = [Editor!Draw(Editor!FromCache(t)) EXCEPT !.drilled = ui.drilled, !.selected = t]
        BY <1>1, <2>1, <2>2 DEF Editor!Draw, EditorUis
    <2>4. QED BY <1>2, <1>3, <2>2, <2>3, EditorDraws
<1>6. CASE \E f \in Floors : Editor!DrillIntoFloor(f)
    <2>1. PICK f \in Floors :
              ui' = [Editor!Draw(Editor!Empty) EXCEPT !.drilled = f, !.selected = NoTarget]
        BY <1>6 DEF Editor!DrillIntoFloor
    <2>2. QED BY <1>2, <2>1, DrawingFacts, EditorDraws
<1>7. CASE Editor!BackToExterior
    <2>1. ui' = [Editor!Draw(Editor!Empty) EXCEPT !.drilled = NoTarget, !.selected = NoTarget]
        BY <1>7 DEF Editor!BackToExterior
    <2>2. QED BY <1>2, <2>1, DrawingFacts, EditorDraws
<1>8. CASE Editor!AddVertex
    <2>1. /\ ui.drawing.phase = "drawing" /\ ui.drawing.n < MaxPoints
          /\ ui' = Editor!Draw([ui.drawing EXCEPT !.n = @ + 1])
        BY <1>8 DEF Editor!AddVertex, Editor!Surface
    <2>2. [ui.drawing EXCEPT !.n = @ + 1] \in Editor!Drawings BY <1>3, <2>1, DrawingFacts
    <2>3. QED BY <1>4, <2>1, <2>2
<1>9. CASE Editor!Discard
    <2>1. ui.selected \in Editor!Targets /\ ui' = Editor!Draw(Editor!FromCache(ui.selected))
        BY <1>3, <1>9 DEF Editor!Discard, Editor!Canvas
    <2>2. QED BY <1>4, <2>1, CacheDraws
<1>10. CASE \E s \in Editor!Shapes : Editor!ClosePolygon(s) \/ Editor!EditPolygon(s)
    <2>1. PICK s \in Editor!Shapes : ui' = Editor!Draw(Editor!Closed(s))
        BY <1>10 DEF Editor!ClosePolygon, Editor!EditPolygon
    <2>2. QED BY <1>4, <2>1, DrawingFacts
<1>11. QED BY <1>5, <1>6, <1>7, <1>8, <1>9, <1>10

\* The dialog opens or is cancelled.
LEMMA EditorAsks ==
    ASSUME Editor!EditorInv, Editor!AskDelete \/ Editor!CancelDelete
    PROVE  Editor!EditorInv'
<1>1. ui \in EditorUis /\ Editor!DeletesInv BY EditorFacts
<1>2. UNCHANGED <<db, data, isError, fetch, calls, made, saved>>
    BY DEF Editor!AskDelete, Editor!CancelDelete
<1>3. Editor!Deleting <=> \E c \in calls : c.observer \in Editor!Deletes /\ c.heard
    BY DEF Editor!Deleting, Editor!Pending, Editor!Deletes
<1>4. /\ ui' \in EditorUis /\ ui'.selected = ui.selected /\ ui'.drawing = ui.drawing /\ ui'.left = ui.left
      /\ (ui'.confirm => ui.selected # NoTarget)
      /\ (~ui'.cancelled => ~ui.cancelled /\ ~Editor!Deleting)
    <2>1. CASE Editor!AskDelete
        <3>1. ui' = [ui EXCEPT !.confirm = TRUE] /\ ui.selected # NoTarget /\ ~Editor!Deleting
            BY <2>1 DEF Editor!AskDelete, Editor!DeleteEnabled, Editor!Canvas
        <3>2. QED BY <1>1, <3>1 DEF EditorUis
    <2>2. CASE Editor!CancelDelete
        <3> DEFINE t == ui.cancelled \/ Editor!Deleting
        <3>1. ui' = [ui EXCEPT !.confirm = FALSE, !.cancelled = t] BY <2>2 DEF Editor!CancelDelete
        <3>2. t \in BOOLEAN /\ (~t => ~ui.cancelled /\ ~Editor!Deleting) BY <1>1 DEF EditorUis
        <3> HIDE DEF t
        <3>3. QED BY <1>1, <3>1, <3>2 DEF EditorUis
    <2>3. QED BY <2>1, <2>2
<1>5. Editor!TypeOK' BY <1>2, <1>4, EditorFacts DEF Editor!TypeOK, EditorUis
<1>6. Editor!SavedInv' BY <1>2, EditorFacts DEF Editor!SavedInv, Editor!SavedIsShown
<1>7. Editor!DeletesInv'
    <2>1. ui'.confirm => ui'.selected \in Editor!Targets BY <1>1, <1>4 DEF EditorUis
    <2>2. QED BY <1>1, <1>2, <1>3, <1>4, <2>1 DEF Editor!DeletesInv, Editor!DrawingIsKept
<1>8. QED BY <1>5, <1>6, <1>7 DEF Editor!EditorInv

\* mutate(): the earlier calls stay, but for their callbacks.
LEMMA EditorMutate ==
    ASSUME NEW cs \in SUBSET Editor!Calls, NEW call \in Editor!Calls
    PROVE  /\ Editor!Mutate(cs, call) \subseteq Editor!Calls
           /\ \A d \in Editor!Mutate(cs, call) :
                  d = call \/ \E c \in cs : /\ c.n = d.n /\ c.observer = d.observer
                                            /\ c.target = d.target /\ c.st = d.st
                                            /\ (d.heard => c.heard)
           /\ \A x, y \in Editor!Mutate(cs, call) \ {call} :
                  \E a, b \in cs : /\ (x.heard => a.heard) /\ (y.heard => b.heard)
                                   /\ a.observer = x.observer /\ b.observer = y.observer
                                   /\ (a = b => x = y)
<1> DEFINE h(c) == c.heard /\ c.observer # call.observer
           f(c) == [c EXCEPT !.heard = h(c)]
<1>1. Editor!Mutate(cs, call) = {f(c) : c \in cs} \cup {call} BY DEF Editor!Mutate
<1>2. ASSUME NEW c \in cs
      PROVE  /\ f(c) \in Editor!Calls /\ f(c).n = c.n /\ f(c).observer = c.observer
             /\ f(c).target = c.target /\ f(c).st = c.st /\ (f(c).heard => c.heard)
    <2>1. h(c) \in BOOLEAN /\ (h(c) => c.heard) BY DEF Editor!Calls
    <2> HIDE DEF h
    <2>2. QED BY <2>1 DEF Editor!Calls
<1> HIDE DEF f
<1>3. \A x \in {f(c) : c \in cs} : \E a \in cs : x = f(a) OBVIOUS
<1>4. ASSUME NEW x \in {f(c) : c \in cs}, NEW y \in {f(c) : c \in cs}
      PROVE  \E a, b \in cs : /\ (x.heard => a.heard) /\ (y.heard => b.heard)
                              /\ a.observer = x.observer /\ b.observer = y.observer
                              /\ (a = b => x = y)
    <2>1. PICK a \in cs, b \in cs : x = f(a) /\ y = f(b) BY <1>3
    <2>2. /\ (x.heard => a.heard) /\ (y.heard => b.heard)
          /\ a.observer = x.observer /\ b.observer = y.observer
        BY <1>2, <2>1
    <2>3. a = b => x = y BY <2>1
    <2>4. QED BY <2>2, <2>3
<1>5. QED BY <1>1, <1>2, <1>3, <1>4

LEMMA EditorSends ==
    ASSUME Editor!EditorInv, Editor!Save \/ Editor!PerformDelete
    PROVE  Editor!EditorInv'
<1>1. ui \in EditorUis /\ Editor!DeletesInv /\ Editor!SavedInv /\ Editor!TypeOK
      /\ calls \in SUBSET Editor!Calls /\ made \in 0..MaxCalls
    BY EditorFacts
<1>2. /\ UNCHANGED <<db, data, isError, fetch, saved, ui>> /\ made < MaxCalls /\ made' = made + 1
    BY DEF Editor!Save, Editor!PerformDelete
<1>3. Editor!Deleting <=> \E c \in calls : c.observer \in Editor!Deletes /\ c.heard
    BY DEF Editor!Deleting, Editor!Pending, Editor!Deletes
<1>4. PICK call \in Editor!Calls :
          /\ calls' = Editor!Mutate(calls, call) /\ call.st = "sent" /\ call.target = ui.selected
          /\ call.observer \in Editor!Deletes => ui.confirm /\ ~Editor!Deleting
    <2>1. CASE Editor!Save
        <3> DEFINE call == Editor!Call("setFloor", "setUnit", ui.drawing.shape)
        <3>1. /\ calls' = Editor!Mutate(calls, call) /\ ui.selected \in Editor!Targets
              /\ ui.drawing.shape \in Good
            BY <1>1, <2>1 DEF Editor!Save, Editor!SaveEnabled, Editor!Handles, Editor!Canvas, EditorUis
        <3>2. /\ call \in Editor!Calls /\ call.st = "sent" /\ call.target = ui.selected
              /\ call.observer \in {"setFloor", "setUnit"}
            BY <1>1, <3>1 DEF Editor!Call, Editor!Calls, Editor!Shapes
        <3> HIDE DEF call
        <3>3. call.observer \notin Editor!Deletes BY <3>2 DEF Editor!Deletes
        <3>4. QED BY <3>1, <3>2, <3>3
    <2>2. CASE Editor!PerformDelete
        <3> DEFINE call == Editor!Call("clearFloor", "clearUnit", NoShape)
        <3>1. calls' = Editor!Mutate(calls, call) /\ ui.confirm /\ ~Editor!Deleting
            BY <2>2 DEF Editor!PerformDelete
        <3>2. ui.selected \in Editor!Targets BY <1>1, <3>1 DEF Editor!DeletesInv
        <3>3. call \in Editor!Calls /\ call.st = "sent" /\ call.target = ui.selected
            BY <1>1, <3>2 DEF Editor!Call, Editor!Calls, Editor!Deletes
        <3> HIDE DEF call
        <3>4. QED BY <3>1, <3>3
    <2>3. QED BY <2>1, <2>2
<1>5. /\ calls' \subseteq Editor!Calls
      /\ \A d \in calls' : d = call \/ \E c \in calls : /\ c.n = d.n /\ c.observer = d.observer
                                                        /\ c.target = d.target /\ c.st = d.st
                                                        /\ (d.heard => c.heard)
    BY <1>1, <1>4, EditorMutate
<1>6. \A x, y \in calls' \ {call} :
          \E a, b \in calls : /\ (x.heard => a.heard) /\ (y.heard => b.heard)
                              /\ a.observer = x.observer /\ b.observer = y.observer
                              /\ (a = b => x = y)
    BY <1>1, <1>4, EditorMutate
<1>7. Editor!TypeOK'
    <2>1. made' \in 0..MaxCalls
        BY <1>1, <1>2, BrowserAssumption DEF Editor!HotspotsAssumption
    <2>2. QED BY <1>1, <1>2, <1>5, <2>1 DEF Editor!TypeOK
<1>8. Editor!SavedInv'
    <2>1. \A d \in calls' : d.st = "done" => d.n \in db'[d.target].writes
        BY <1>1, <1>2, <1>4, <1>5 DEF Editor!SavedInv
    <2>2. QED BY <1>1, <1>2, <2>1 DEF Editor!SavedInv, Editor!SavedIsShown
<1>9. Editor!DeletesInv'
    <2>1. ASSUME NEW x \in calls', NEW y \in calls', x.heard, y.heard,
                 x.observer \in Editor!Deletes, y.observer \in Editor!Deletes
          PROVE  x = y
        <3>1. CASE x = call \/ y = call
            <4>1. ~Editor!Deleting BY <1>4, <2>1, <3>1
            <4>2. x = call /\ y = call BY <1>3, <1>5, <2>1, <4>1
            <4>3. QED BY <4>2
        <3>2. CASE x # call /\ y # call
            <4>1. PICK a \in calls, b \in calls :
                      /\ (x.heard => a.heard) /\ (y.heard => b.heard)
                      /\ a.observer = x.observer /\ b.observer = y.observer
                      /\ (a = b => x = y)
                BY <1>6, <3>2
            <4>2. a = b BY <1>1, <2>1, <4>1 DEF Editor!DeletesInv
            <4>3. QED BY <4>1, <4>2
        <3>3. QED BY <3>1, <3>2
    <2>2. ~ui.cancelled => \A d \in calls' : d.heard /\ d.observer \in Editor!Deletes
                                               => ui.confirm /\ d.target = ui.selected
        BY <1>1, <1>4, <1>5 DEF Editor!DeletesInv
    <2>3. QED BY <1>1, <1>2, <2>1, <2>2 DEF Editor!DeletesInv, Editor!DrawingIsKept
<1>10. QED BY <1>7, <1>8, <1>9 DEF Editor!EditorInv

\* The page is told of a commit, and refetches.
LEMMA EditorSaved ==
    ASSUME Editor!EditorInv, NEW c \in calls, calls' = calls \ {c}, UNCHANGED <<db, data, isError>>,
           \/ c.st = "done" /\ saved' = saved \cup {c.n} /\ fetch' = Editor!NewFetch
           \/ UNCHANGED <<saved, fetch>>
    PROVE  Editor!SavedInv'
<1>1. Editor!SavedInv /\ c \in Editor!Calls BY EditorFacts
<1>2. \A d \in calls' : d.st = "done" => d.n \in db'[d.target].writes
    BY <1>1 DEF Editor!SavedInv
<1>3. CASE c.st = "done" /\ saved' = saved \cup {c.n} /\ fetch' = Editor!NewFetch
    <2>1. c.n \in db[c.target].writes /\ c.target \in Editor!Targets
        BY <1>1, <1>3 DEF Editor!SavedInv, Editor!Calls
    <2>2. saved' \subseteq UNION {db'[t].writes : t \in Editor!Targets}
        BY <1>1, <1>3, <2>1 DEF Editor!SavedInv
    <2>3. fetch'.on /\ fetch'.read = {} BY <1>3 DEF Editor!NewFetch
    <2>4. QED BY <1>2, <2>2, <2>3 DEF Editor!SavedInv, Editor!SavedIsShown
<1>4. CASE UNCHANGED <<saved, fetch>>
    BY <1>1, <1>2, <1>4 DEF Editor!SavedInv, Editor!SavedIsShown
<1>5. QED BY <1>3, <1>4

LEMMA EditorHears ==
    ASSUME Editor!EditorInv, NEW c \in calls, Editor!SaveAnswers(c) \/ Editor!DeleteAnswers(c)
    PROVE  Editor!EditorInv'
<1>1. ui \in EditorUis /\ Editor!DeletesInv /\ Editor!TypeOK /\ c \in Editor!Calls
    BY EditorFacts
<1>2. /\ UNCHANGED <<db, data, isError, made>> /\ calls' = calls \ {c} /\ c.heard
      /\ \/ c.st = "done" /\ saved' = saved \cup {c.n} /\ fetch' = Editor!NewFetch
         \/ UNCHANGED <<saved, fetch>>
    BY DEF Editor!SaveAnswers, Editor!DeleteAnswers, Editor!Succeeded, Editor!Failed,
           Editor!InvalidatePolygons, Editor!Refetch
<1>3. Editor!SavedInv' BY <1>2, EditorSaved
<1>4. ASSUME ui' \in EditorUis PROVE Editor!TypeOK'
    <2>1. c.n \in 0..MaxCalls BY <1>1 DEF Editor!Calls
    <2>2. saved' \subseteq 0..MaxCalls
          /\ fetch' \in [on: BOOLEAN, read: SUBSET [Editor!Targets -> Editor!Rows]]
        <3>1. Editor!NewFetch \in [on: BOOLEAN, read: SUBSET [Editor!Targets -> Editor!Rows]]
            BY DEF Editor!NewFetch
        <3>2. saved \subseteq 0..MaxCalls
              /\ fetch \in [on: BOOLEAN, read: SUBSET [Editor!Targets -> Editor!Rows]]
            BY <1>1 DEF Editor!TypeOK
        <3>3. QED BY <1>2, <2>1, <3>1, <3>2
    <2>3. QED BY <1>1, <1>2, <1>4, <2>2 DEF Editor!TypeOK, EditorUis
<1>5. CASE Editor!SaveAnswers(c)
    <2>1. ui' = ui BY <1>5 DEF Editor!SaveAnswers
    <2>2. Editor!TypeOK' BY <1>1, <1>4, <2>1
    <2>3. Editor!DeletesInv' BY <1>1, <1>2, <2>1 DEF Editor!DeletesInv, Editor!DrawingIsKept
    <2>4. QED BY <1>3, <2>2, <2>3 DEF Editor!EditorInv
<1>6. CASE Editor!DeleteAnswers(c)
    <2>1. c.observer \in Editor!Deletes BY <1>6 DEF Editor!DeleteAnswers
    <2>2. \A d \in calls' : d.observer \in Editor!Deletes => ~d.heard
        <3>1. \A d \in calls : d.heard /\ d.observer \in Editor!Deletes => d = c
            BY <1>1, <1>2, <2>1 DEF Editor!DeletesInv
        <3>2. QED BY <1>2, <3>1
    <2>3. ~ui.cancelled => c.target = ui.selected BY <1>1, <1>2, <2>1 DEF Editor!DeletesInv
    <2>4. /\ ui' \in EditorUis /\ ~ui'.confirm /\ ui'.cancelled = ui.cancelled
          /\ (~ui.cancelled => ui'.drawing = ui'.left)
        <3>1. CASE ui' = [ui EXCEPT !.confirm = FALSE]
            BY <1>1, <3>1 DEF EditorUis, Editor!DeletesInv, Editor!DrawingIsKept
        <3>2. CASE ui' = [ui EXCEPT !.drawing = Editor!Empty, !.confirm = FALSE,
                                    !.left = IF c.target = ui.selected THEN Editor!Empty ELSE @]
            <4> DEFINE l == IF c.target = ui.selected THEN Editor!Empty ELSE ui.left
            <4>1. ui' = [ui EXCEPT !.drawing = Editor!Empty, !.confirm = FALSE, !.left = l]
                BY <1>1, <3>2 DEF EditorUis
            <4>2. l \in Editor!Drawings /\ (~ui.cancelled => l = Editor!Empty)
                BY <1>1, <2>3, DrawingFacts DEF EditorUis
            <4> HIDE DEF l
            <4>3. QED BY <1>1, <4>1, <4>2, DrawingFacts DEF EditorUis
        <3>3. QED BY <1>6, <3>1, <3>2 DEF Editor!DeleteAnswers
    <2>5. Editor!TypeOK' BY <1>4, <2>4
    <2>6. Editor!DeletesInv' BY <2>2, <2>4 DEF Editor!DeletesInv, Editor!DrawingIsKept
    <2>7. QED BY <1>3, <2>5, <2>6 DEF Editor!EditorInv
<1>7. QED BY <1>5, <1>6

\* Steps that leave the calls and the page's components alone.
LEMMA EditorElsewhere ==
    ASSUME Editor!EditorInv, UNCHANGED <<calls, saved, ui>>, Editor!TypeOK', Editor!SavedInv'
    PROVE  Editor!EditorInv'
  BY DEF Editor!EditorInv, Editor!DeletesInv, Editor!DrawingIsKept

\* The router commits a call or refuses it.
LEMMA EditorServes ==
    ASSUME Editor!EditorInv, NEW c \in calls, Editor!ServerTakes(c)
    PROVE  Editor!EditorInv'
<1>1. /\ UNCHANGED <<data, isError, fetch, made, saved, ui>> /\ c.st = "sent"
    BY DEF Editor!ServerTakes
<1>2. Editor!TypeOK /\ Editor!SavedInv /\ Editor!DeletesInv /\ c \in Editor!Calls
    BY EditorFacts
<1>3. PICK st \in {"done", "refused"} :
          /\ calls' = (calls \ {c}) \cup {[c EXCEPT !.st = st]}
          /\ \/ st = "refused" /\ db' = db
             \/ /\ c.shape \in Good \cup {NoShape}
                /\ db' = [db EXCEPT ![c.target] = [shape |-> c.shape, writes |-> @.writes \cup {c.n}]]
    BY DEF Editor!ServerTakes, Editor!Served
<1> DEFINE d == [c EXCEPT !.st = st]
<1>4. /\ d \in Editor!Calls /\ d.n = c.n /\ d.observer = c.observer /\ d.target = c.target
      /\ d.heard = c.heard /\ d.st = st
    BY <1>2 DEF Editor!Calls
<1> HIDE DEF d
<1>5. calls' = (calls \ {c}) \cup {d} BY <1>3 DEF d
<1>6. c.target \in Editor!Targets /\ c.n \in 0..MaxCalls BY <1>2 DEF Editor!Calls
<1>7. /\ db' \in [Editor!Targets -> Editor!Rows]
      /\ \A t \in Editor!Targets : db[t].writes \subseteq db'[t].writes
      /\ st = "done" => c.n \in db'[c.target].writes
    <2>1. CASE st = "refused" /\ db' = db BY <1>2, <2>1 DEF Editor!TypeOK
    <2>2. CASE /\ c.shape \in Good \cup {NoShape}
               /\ db' = [db EXCEPT ![c.target] = [shape |-> c.shape, writes |-> @.writes \cup {c.n}]]
        <3> DEFINE row == [shape |-> c.shape, writes |-> db[c.target].writes \cup {c.n}]
        <3>1. db \in [Editor!Targets -> Editor!Rows] BY <1>2 DEF Editor!TypeOK
        <3>2. db[c.target] \in Editor!Rows BY <1>6, <3>1
        <3>3. /\ row \in Editor!Rows /\ c.n \in row.writes
              /\ db[c.target].writes \subseteq row.writes
            BY <1>6, <2>2, <3>2 DEF Editor!Rows
        <3>4. db' = [db EXCEPT ![c.target] = row] BY <2>2
        <3> HIDE DEF row
        <3>5. QED BY <1>6, <3>1, <3>3, <3>4
    <2>3. QED BY <1>3, <2>1, <2>2
<1>8. Editor!TypeOK' BY <1>1, <1>2, <1>4, <1>5, <1>7 DEF Editor!TypeOK
<1>9. Editor!SavedInv'
    <2>1. \A e \in calls' : e.st = "done" => e.n \in db'[e.target].writes
        <3>1. ASSUME NEW e \in calls \ {c}, e.st = "done" PROVE e.n \in db'[e.target].writes
            <4>1. e.target \in Editor!Targets BY <1>2 DEF Editor!TypeOK, Editor!Calls
            <4>2. QED BY <1>2, <1>7, <3>1, <4>1 DEF Editor!SavedInv
        <3>2. QED BY <1>4, <1>5, <1>7, <3>1
    <2>2. saved' \subseteq UNION {db'[t].writes : t \in Editor!Targets}
        BY <1>1, <1>2, <1>7 DEF Editor!SavedInv
    <2>3. QED BY <1>1, <1>2, <2>1, <2>2 DEF Editor!SavedInv, Editor!SavedIsShown
<1>10. Editor!DeletesInv'
    <2>1. \A x, y \in calls' : x.heard /\ y.heard /\ x.observer \in Editor!Deletes
                                /\ y.observer \in Editor!Deletes => x = y
        BY <1>2, <1>4, <1>5 DEF Editor!DeletesInv
    <2>2. ~ui.cancelled => \A e \in calls' : e.heard /\ e.observer \in Editor!Deletes
                                               => ui.confirm /\ e.target = ui.selected
        BY <1>2, <1>4, <1>5 DEF Editor!DeletesInv
    <2>3. QED BY <1>1, <1>2, <2>1, <2>2 DEF Editor!DeletesInv, Editor!DrawingIsKept
<1>11. QED BY <1>8, <1>9, <1>10 DEF Editor!EditorInv

LEMMA EditorOthers ==
    ASSUME Editor!EditorInv, NEW t \in Editor!Targets, NEW s \in Good \cup {NoShape},
           Editor!OtherSession(t, s)
    PROVE  Editor!EditorInv'
<1>1. /\ UNCHANGED <<data, isError, fetch, calls, saved, ui>> /\ made < MaxCalls /\ made' = made + 1
      /\ db' = [db EXCEPT ![t] = [shape |-> s, writes |-> @.writes \cup {made}]]
    BY DEF Editor!OtherSession
<1>2. Editor!TypeOK /\ Editor!SavedInv BY EditorFacts
<1> DEFINE row == [shape |-> s, writes |-> db[t].writes \cup {made}]
<1>3. db \in [Editor!Targets -> Editor!Rows] /\ made \in 0..MaxCalls BY <1>2 DEF Editor!TypeOK
<1>4. db[t] \in Editor!Rows BY <1>3
<1>5. row \in Editor!Rows /\ db[t].writes \subseteq row.writes BY <1>3, <1>4 DEF Editor!Rows
<1>6. db' = [db EXCEPT ![t] = row] BY <1>1
<1> HIDE DEF row
<1>7. /\ db' \in [Editor!Targets -> Editor!Rows]
      /\ \A v \in Editor!Targets : db[v].writes \subseteq db'[v].writes
    BY <1>3, <1>5, <1>6
<1>8. Editor!TypeOK'
    <2>1. made' \in 0..MaxCalls BY <1>1, <1>3, BrowserAssumption DEF Editor!HotspotsAssumption
    <2>2. QED BY <1>1, <1>2, <1>7, <2>1 DEF Editor!TypeOK
<1>9. Editor!SavedInv'
    <2>1. \A e \in calls' : e.st = "done" => e.n \in db'[e.target].writes
        <3>1. \A e \in calls : e.target \in Editor!Targets BY <1>2 DEF Editor!TypeOK, Editor!Calls
        <3>2. QED BY <1>1, <1>2, <1>7, <3>1 DEF Editor!SavedInv
    <2>2. saved' \subseteq UNION {db'[v].writes : v \in Editor!Targets}
        BY <1>1, <1>2, <1>7 DEF Editor!SavedInv
    <2>3. QED BY <1>1, <1>2, <2>1, <2>2 DEF Editor!SavedInv, Editor!SavedIsShown
<1>10. QED BY <1>1, <1>8, <1>9, EditorElsewhere

LEMMA EditorFetches ==
    ASSUME Editor!EditorInv,
           Editor!FetchStarts \/ Editor!GetForProject \/ Editor!FetchLands \/ Editor!FetchFails
    PROVE  Editor!EditorInv'
<1>1. Editor!TypeOK /\ Editor!SavedInv BY EditorFacts
<1>2. UNCHANGED <<db, calls, made, saved, ui>>
    BY DEF Editor!FetchStarts, Editor!GetForProject, Editor!FetchLands, Editor!FetchFails
<1>3. CASE Editor!FetchStarts
    <2>1. UNCHANGED <<data, isError>> /\ fetch' = Editor!NewFetch
        BY <1>3 DEF Editor!FetchStarts, Editor!StartFetch
    <2>2. Editor!TypeOK' BY <1>1, <1>2, <2>1 DEF Editor!TypeOK, Editor!NewFetch
    <2>3. Editor!SavedInv' BY <1>1, <1>2, <2>1 DEF Editor!SavedInv, Editor!SavedIsShown, Editor!NewFetch
    <2>4. QED BY <1>2, <2>2, <2>3, EditorElsewhere
<1>4. CASE Editor!GetForProject
    <2>1. UNCHANGED <<data, isError>> /\ fetch' = [fetch EXCEPT !.read = {db}] /\ fetch.on
        BY <1>4 DEF Editor!GetForProject, Editor!ServerReads
    <2>2. fetch' \in [on: BOOLEAN, read: SUBSET [Editor!Targets -> Editor!Rows]] /\ fetch'.on
          /\ fetch'.read = {db}
        BY <1>1, <2>1 DEF Editor!TypeOK
    <2>3. Editor!TypeOK' BY <1>1, <1>2, <2>1, <2>2 DEF Editor!TypeOK
    <2>4. Editor!SavedInv' BY <1>1, <1>2, <2>1, <2>2 DEF Editor!SavedInv, Editor!SavedIsShown
    <2>5. QED BY <1>2, <2>3, <2>4, EditorElsewhere
<1>5. CASE Editor!FetchLands
    <2>1. data' \in fetch.read /\ isError' = FALSE /\ fetch' = Editor!NoFetch
        BY <1>5 DEF Editor!FetchLands
    <2>2. Editor!TypeOK' BY <1>1, <1>2, <2>1 DEF Editor!TypeOK, Editor!NoFetch
    <2>3. Editor!SavedInv' BY <1>1, <1>2, <2>1 DEF Editor!SavedInv, Editor!SavedIsShown, Editor!NoFetch
    <2>4. QED BY <1>2, <2>2, <2>3, EditorElsewhere
<1>6. CASE Editor!FetchFails
    <2>1. data' = data /\ isError' = TRUE /\ fetch' = Editor!NoFetch
        BY <1>6 DEF Editor!FetchFails
    <2>2. Editor!TypeOK' BY <1>1, <1>2, <2>1 DEF Editor!TypeOK, Editor!NoFetch
    <2>3. Editor!SavedInv' BY <1>1, <1>2, <2>1 DEF Editor!SavedInv, Editor!SavedIsShown, Editor!NoFetch
    <2>4. QED BY <1>2, <2>2, <2>3, EditorElsewhere
<1>7. QED BY <1>3, <1>4, <1>5, <1>6

LEMMA EditorInit == Editor!Init => Editor!EditorInv
<1> SUFFICES ASSUME Editor!Init PROVE Editor!EditorInv OBVIOUS
<1>1. PICK shape \in Good \cup {NoShape} :
          /\ db = [t \in Editor!Targets |-> [shape |-> shape, writes |-> {}]] /\ data = db
          /\ isError = FALSE /\ fetch = Editor!NoFetch /\ calls = {} /\ made = 0 /\ saved = {}
    BY DEF Editor!Init, Editor!PageInit
<1>2. ui = [drilled |-> NoTarget, selected |-> NoTarget, drawing |-> Editor!Empty, confirm |-> FALSE,
            left |-> Editor!Empty, cancelled |-> FALSE]
    BY DEF Editor!Init
<1>3. ui \in EditorUis /\ ~ui.confirm /\ ui.drawing = ui.left
    BY <1>2, DrawingFacts DEF EditorUis
<1>4. Editor!TypeOK
    <2>1. 0 \in 0..MaxCalls BY BrowserAssumption DEF Editor!HotspotsAssumption
    <2>2. db \in [Editor!Targets -> Editor!Rows] BY <1>1 DEF Editor!Rows
    <2>3. QED BY <1>1, <1>3, <2>1, <2>2 DEF Editor!TypeOK, Editor!NoFetch, EditorUis
<1>5. Editor!SavedInv BY <1>1 DEF Editor!SavedInv, Editor!SavedIsShown, Editor!NoFetch
<1>6. Editor!DeletesInv BY <1>1, <1>3 DEF Editor!DeletesInv, Editor!DrawingIsKept
<1>7. QED BY <1>4, <1>5, <1>6 DEF Editor!EditorInv

LEMMA EditorStep == Editor!EditorInv /\ Editor!Next => Editor!EditorInv'
<1> SUFFICES ASSUME Editor!EditorInv, Editor!Next PROVE Editor!EditorInv' OBVIOUS
<1>1. ASSUME \/ \E t \in Editor!Targets : Editor!LoadTarget(t)
             \/ \E f \in Floors : Editor!DrillIntoFloor(f)
             \/ Editor!BackToExterior \/ Editor!AddVertex \/ Editor!Discard
             \/ \E s \in Editor!Shapes : Editor!ClosePolygon(s) \/ Editor!EditPolygon(s)
      PROVE  Editor!EditorInv'
    BY <1>1, EditorDrawing
<1>2. ASSUME Editor!Save \/ Editor!AskDelete \/ Editor!CancelDelete \/ Editor!PerformDelete
      PROVE  Editor!EditorInv'
    BY <1>2, EditorAsks, EditorSends
<1>3. ASSUME NEW c \in calls,
             Editor!SaveAnswers(c) \/ Editor!DeleteAnswers(c) \/ Editor!ServerTakes(c)
      PROVE  Editor!EditorInv'
    BY <1>3, EditorHears, EditorServes
<1>4. ASSUME NEW t \in Editor!Targets, NEW s \in Good \cup {NoShape}, Editor!OtherSession(t, s)
      PROVE  Editor!EditorInv'
    BY <1>4, EditorOthers
<1>5. ASSUME Editor!FetchStarts \/ Editor!GetForProject \/ Editor!FetchLands \/ Editor!FetchFails
      PROVE  Editor!EditorInv'
    BY <1>5, EditorFetches
<1>6. QED BY <1>1, <1>2, <1>3, <1>4, <1>5 DEF Editor!Next

-----------------------------------------------------------------------------
(* The tab.                                                                *)

\* Each page keeps its invariant while the tab is at it.
TabInv ==
    /\ page = "leads" => Board!BoardInv
    /\ page = "unidades" => Grid!GridInv
    /\ page = "hotspots" => Editor!EditorInv

tabVars == <<page, vars, panelVars, ghostVars>>

\* A page nothing happens on keeps its invariant.
LEMMA BoardIdle == Board!BoardInv /\ UNCHANGED <<panelVars, ghostVars>> => Board!BoardInv'
<1> SUFFICES ASSUME Board!BoardInv, UNCHANGED <<panelVars, ghostVars>> PROVE Board!BoardInv'
    OBVIOUS
<1>1. UNCHANGED <<db, data, isError, fetch, calls, made, saved, ui, doubt, clears>>
    BY DEF panelVars, ghostVars
<1>2. Board!TypeOK' BY <1>1 DEF Board!BoardInv, Board!TypeOK
<1>3. Board!ServerAhead' BY <1>1 DEF Board!BoardInv, Board!ServerAhead
<1>4. (\A l \in Leads : Board!MovingOn(l) <=> Board!MovingOn(l)')
      /\ (\A l \in Leads : Board!DoneOn(l) <=> Board!DoneOn(l)')
    BY <1>1 DEF Board!MovingOn, Board!DoneOn
<1>5. Board!RowsGenuine' BY <1>1, <1>4 DEF Board!BoardInv, Board!RowsGenuine, Board!Genuine
<1>6. Board!NoEntryMissing' BY <1>1, <1>4 DEF Board!BoardInv, Board!NoEntryMissing
<1>7. QED BY <1>2, <1>3, <1>5, <1>6 DEF Board!BoardInv

LEMMA GridIdle == Grid!GridInv /\ UNCHANGED panelVars => Grid!GridInv'
<1> SUFFICES ASSUME Grid!GridInv, UNCHANGED panelVars PROVE Grid!GridInv' OBVIOUS
<1>1. UNCHANGED <<db, data, isError, fetch, calls, made, saved, ui>> BY DEF panelVars
<1>2. Grid!TypeOK' BY <1>1 DEF Grid!GridInv, Grid!TypeOK
<1>3. Grid!SavedInv' BY <1>1 DEF Grid!GridInv, Grid!SavedInv, Grid!SavedIsShown
<1>4. QED BY <1>1, <1>2, <1>3, GridElsewhere

LEMMA EditorIdle == Editor!EditorInv /\ UNCHANGED panelVars => Editor!EditorInv'
<1> SUFFICES ASSUME Editor!EditorInv, UNCHANGED panelVars PROVE Editor!EditorInv' OBVIOUS
<1>1. UNCHANGED <<db, data, isError, fetch, calls, made, saved, ui>> BY DEF panelVars
<1>2. Editor!TypeOK' BY <1>1 DEF Editor!EditorInv, Editor!TypeOK
<1>3. Editor!SavedInv' BY <1>1 DEF Editor!EditorInv, Editor!SavedInv, Editor!SavedIsShown
<1>4. QED BY <1>1, <1>2, <1>3, EditorElsewhere

LEMMA TabInvariant == BrowserSpec => []TabInv
<1>1. BrowserInit => TabInv
    BY BoardInit, GridInit, EditorInit DEF BrowserInit, TabInv
<1>2. TabInv /\ [BrowserNext]_tabVars => TabInv'
    <2> SUFFICES ASSUME TabInv, [BrowserNext]_tabVars PROVE TabInv' OBVIOUS
    <2>1. CASE page = "cotizar" /\ Next /\ UNCHANGED <<page, panelVars, ghostVars>>
        BY <2>1 DEF TabInv
    <2>2. CASE page = "leads" /\ Board!Next /\ UNCHANGED <<page, vars>>
        BY <2>2, BoardStep DEF TabInv
    <2>3. CASE page = "unidades" /\ Grid!Next /\ UNCHANGED <<page, vars, ghostVars>>
        BY <2>3, GridStep DEF TabInv
    <2>4. CASE page = "hotspots" /\ Editor!Next /\ UNCHANGED <<page, vars, ghostVars>>
        BY <2>4, EditorStep DEF TabInv
    <2>5. CASE UNCHANGED tabVars
        <3>1. page' = page /\ UNCHANGED <<panelVars, ghostVars>> BY <2>5 DEF tabVars
        <3>2. UNCHANGED panelVars BY <3>1
        <3>3. QED BY <3>1, <3>2, BoardIdle, GridIdle, EditorIdle DEF TabInv
    <2>6. QED BY <2>1, <2>2, <2>3, <2>4, <2>5 DEF BrowserNext
<1>3. QED BY <1>1, <1>2, PTL DEF BrowserSpec, tabVars

\* A tab is a simulator, whatever page it is at: what is proved of the
\* simulator holds of the tab.
THEOREM TabIsSimulator == BrowserSpec => Spec
<1>1. BrowserInit => Init BY DEF BrowserInit
<1>2. [BrowserNext]_tabVars => [Next]_vars BY DEF BrowserNext, tabVars
<1>3. QED BY <1>1, <1>2, PTL DEF BrowserSpec, Spec, tabVars

\* A quiet board shows what the server has, but for the leads in doubt:
\* whatever moves and forms overlap, are refused or lose their answers, and
\* whatever fetches cross them.
THEOREM BoardIsServer == BrowserSpec => []SettledBoardIsServer
<1>1. TabInv => SettledBoardIsServer BY BoardSettles DEF TabInv, SettledBoardIsServer
<1>2. QED BY <1>1, TabInvariant, PTL

\* What the grid or the editor was told is saved is on screen once nothing is
\* being fetched.
THEOREM SavedOnScreen == BrowserSpec => []SavedIsShown
<1>1. Editor!EditorInv => Editor!SavedIsShown BY DEF Editor!EditorInv, Editor!SavedInv
<1>2. TabInv => SavedIsShown BY <1>1, GridShows DEF TabInv, SavedIsShown
<1>3. QED BY <1>2, TabInvariant, PTL

\* A cell that says it is saving will hear an answer.
THEOREM NoCellSpins == BrowserSpec => []NothingSpinsForever
<1>1. TabInv => NothingSpinsForever BY GridShows DEF TabInv, NothingSpinsForever
<1>2. QED BY <1>1, TabInvariant, PTL

\* An import sends the file of its report and a bulk change the parameters of
\* its preview, but for what was changed while they were computed.
THEOREM ConfirmsReviewed == BrowserSpec => []ConfirmsTheReviewed
<1>1. TabInv => ConfirmsTheReviewed BY GridShows DEF TabInv, ConfirmsTheReviewed
<1>2. QED BY <1>1, TabInvariant, PTL

\* No answer and no refetch changes what the operator drew.
THEOREM DrawingStays == BrowserSpec => []DrawingIsKept
<1>1. Editor!EditorInv => Editor!DrawingIsKept BY DEF Editor!EditorInv, Editor!DeletesInv
<1>2. TabInv => DrawingIsKept BY <1>1 DEF TabInv, DrawingIsKept
<1>3. QED BY <1>2, TabInvariant, PTL

=============================================================================
