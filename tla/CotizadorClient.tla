-------------------------- MODULE CotizadorClient --------------------------
(***************************************************************************)
(* The public simulator (cotizador-simulator.tsx): a selection, a          *)
(* debounced compute of its two arms, one quote emitted on demand and      *)
(* shared by the WhatsApp and the PDF buttons, and a poll of the PDF with  *)
(* a deadline.  Each await, timer and answer is a step of its own, so the  *)
(* buyer may change the selection between any two of them.                 *)
(*                                                                         *)
(* Data: a selection stands for (unit, plan, modalidad); a shown pair and  *)
(* an emitted quote are told apart by the selection they were made for.    *)
(* The server is what the quotes router and the PDF pipeline promise       *)
(* (module PdfDelivery): a quote may get its PDF at any time, or never.    *)
(***************************************************************************)
EXTENDS Naturals

CONSTANTS
    Selections,
    Quotes,        \* the ids quotes.create may mint: bounds the emissions
    NoSelection,   \* the picker is shown
    NoQuote,
    MaxChanges     \* bounds the changes of selection

ASSUME CotizadorAssumption ==
    NoSelection \notin Selections /\ NoQuote \notin Quotes /\ MaxChanges \in Nat

VARIABLES
    sel,          \* what the controls of the page say
    changes,      \* how often they changed
    result,       \* the selection whose pair is shown, or NoSelection
    compute,      \* the current run of the compute effect
    late,         \* selections with a cancelled compute still in flight
    softError,
    retained,     \* retainedQuoteRef
    creating,     \* create.mutateAsync in flight: its selection and caller
    pdf,          \* the PDF state of the page and its poll
    emitted,      \* the quotes table: the selection each quote froze
    published     \* quotes whose PDF the server has

vars == <<sel, changes, result, compute, late, softError,
          retained, creating, pdf, emitted, published>>

ComputePc == {"off", "debounce", "calling", "backoff", "done", "failed"}
NotCreating == [sel |-> NoSelection, caller |-> "none"]
PdfStates == [quote: Quotes \cup {NoQuote}, generating: BOOLEAN, deadline: BOOLEAN,
              polling: BOOLEAN, seen: BOOLEAN, url: BOOLEAN, downloads: Nat]
NoPdf == [quote |-> NoQuote, generating |-> FALSE, deadline |-> FALSE,
          polling |-> FALSE, seen |-> FALSE, url |-> FALSE, downloads |-> 0]

TypeOK ==
    /\ sel \in Selections \cup {NoSelection} /\ changes \in 0..MaxChanges
    /\ result \in Selections \cup {NoSelection}
    /\ compute \in ComputePc /\ late \subseteq Selections
    /\ softError \in {"none", "compute", "emit"}
    /\ retained \in Quotes \cup {NoQuote}
    /\ creating \in [sel: Selections \cup {NoSelection}, caller: {"none", "pdf", "whatsapp"}]
    /\ pdf \in PdfStates
    /\ emitted \in [Quotes -> Selections \cup {NoSelection}]
    /\ published \subseteq Quotes

\* The page opens at the picker, or with the unit of its URL selected.
Init ==
    /\ sel \in Selections \cup {NoSelection} /\ changes = 0 /\ result = NoSelection
    /\ compute = (IF sel = NoSelection THEN "off" ELSE "debounce") /\ late = {} /\ softError = "none"
    /\ retained = NoQuote /\ creating = NotCreating /\ pdf = NoPdf
    /\ emitted = [q \in Quotes |-> NoSelection] /\ published = {}

-----------------------------------------------------------------------------
(* The selection and the effects that depend on it.                        *)

\* The cleanup of the compute effect: the call in flight, if any, is
\* cancelled; its answer will still arrive.
CancelCompute == late' = IF compute = "calling" THEN late \cup {sel} ELSE late

\* The effect on [unitId, planId, modalidad] drops the quote, the poll and
\* the deadline of the selection before.
DropQuote == retained' = NoQuote /\ pdf' = NoPdf

Pick(s) ==
    /\ changes < MaxChanges
    /\ sel' = s /\ changes' = changes + 1
    /\ CancelCompute /\ compute' = "debounce"
    /\ DropQuote
    /\ UNCHANGED <<result, softError, creating, emitted, published>>

HandlePickUnit(s) == sel = NoSelection /\ Pick(s)

\* The plan's slider and the modalidad toggle.
ChangeControls(s) == sel \notin {NoSelection, s} /\ Pick(s)

CambiarUnidad ==
    /\ sel # NoSelection /\ changes < MaxChanges
    /\ sel' = NoSelection /\ changes' = changes + 1 /\ result' = NoSelection
    /\ CancelCompute /\ compute' = "off"
    /\ DropQuote
    /\ UNCHANGED <<softError, creating, emitted, published>>

-----------------------------------------------------------------------------
(* The recompute.                                                          *)

Recompute ==
    /\ compute = "debounce"
    /\ compute' = "calling" /\ softError' = "none"
    /\ UNCHANGED <<sel, changes, result, late, retained, creating, pdf, emitted, published>>

Computed ==
    /\ compute = "calling"
    /\ compute' = "done" /\ result' = sel
    /\ UNCHANGED <<sel, changes, late, softError, retained, creating, pdf, emitted, published>>

\* A 429 arms the back-off, any other refusal shows an error; both keep the
\* pair shown before.
ComputeFails ==
    /\ compute = "calling"
    /\ compute' \in {"backoff", "failed"} /\ softError' = "compute"
    /\ UNCHANGED <<sel, changes, result, late, retained, creating, pdf, emitted, published>>

RetryTick ==
    /\ compute = "backoff"
    /\ compute' = "debounce"
    /\ UNCHANGED <<sel, changes, result, late, softError, retained, creating, pdf,
                   emitted, published>>

LateAnswer_Written(s) ==
    /\ s \in late /\ late' = late \ {s} /\ result' = s
    /\ UNCHANGED <<sel, changes, compute, softError, retained, creating, pdf,
                   emitted, published>>

LateAnswer(s) ==
    /\ s \in late /\ late' = late \ {s}
    /\ UNCHANGED <<sel, changes, result, compute, softError, retained, creating, pdf,
                   emitted, published>>

-----------------------------------------------------------------------------
(* The two buttons and the quote they share.                               *)

CtaEnabled == sel # NoSelection /\ result # NoSelection /\ creating = NotCreating

\* startPolling: a fresh deadline; what the poll of the same quote already
\* answered is still in the query cache.
StartPolling(q) ==
    pdf' = [NoPdf EXCEPT !.quote = q, !.generating = TRUE, !.deadline = TRUE,
                         !.polling = pdf.quote = q /\ pdf.polling,
                         !.seen = pdf.quote = q /\ pdf.seen]

CreateQuote(caller) ==
    /\ creating' = [sel |-> sel, caller |-> caller]
    /\ UNCHANGED pdf

OnDownloadPdf_Emits ==
    /\ CtaEnabled /\ ~pdf.generating
    /\ softError' = "none"
    /\ CreateQuote("pdf")
    /\ UNCHANGED <<sel, changes, result, compute, late, retained, emitted, published>>

OnDownloadPdf ==
    /\ CtaEnabled /\ ~pdf.generating
    /\ softError' = "none"
    /\ \/ retained # NoQuote /\ StartPolling(retained) /\ UNCHANGED creating
       \/ retained = NoQuote /\ CreateQuote("pdf")
    /\ UNCHANGED <<sel, changes, result, compute, late, retained, emitted, published>>

\* With a quote retained WhatsApp opens at once: nothing of the page changes.
OnWhatsapp ==
    /\ CtaEnabled /\ retained = NoQuote
    /\ CreateQuote("whatsapp")
    /\ UNCHANGED <<sel, changes, result, compute, late, softError, retained, emitted, published>>

\* quotes.create answered: ensureQuote retains the quote whatever the
\* selection is by now, and the caller goes on.
Created(q) ==
    /\ creating # NotCreating /\ emitted[q] = NoSelection
    /\ emitted' = [emitted EXCEPT ![q] = creating.sel]
    /\ retained' = q /\ creating' = NotCreating
    /\ \/ creating.caller = "pdf" /\ StartPolling(q) /\ softError' = "none"
       \/ creating.caller = "whatsapp" /\ UNCHANGED <<pdf, softError>>
    /\ UNCHANGED <<sel, changes, result, compute, late, published>>

\* The request was refused or its answer lost, the quote perhaps inserted.
CreateFails ==
    /\ creating # NotCreating
    /\ \/ UNCHANGED emitted
       \/ \E q \in Quotes : /\ emitted[q] = NoSelection
                            /\ emitted' = [emitted EXCEPT ![q] = creating.sel]
    /\ creating' = NotCreating /\ softError' = "emit"
    /\ UNCHANGED <<sel, changes, result, compute, late, retained, pdf, published>>

-----------------------------------------------------------------------------
(* The poll, the download and the deadline.                                *)

PublishPdf(q) ==
    /\ emitted[q] # NoSelection /\ q \notin published
    /\ published' = published \cup {q}
    /\ UNCHANGED <<sel, changes, result, compute, late, softError, retained, creating, pdf,
                   emitted>>

Poll ==
    /\ pdf.generating /\ ~pdf.polling /\ ~pdf.seen
    /\ pdf' = [pdf EXCEPT !.polling = TRUE]
    /\ UNCHANGED <<sel, changes, result, compute, late, softError, retained, creating,
                   emitted, published>>

PollAnswer ==
    /\ pdf.polling
    /\ \/ pdf' = [pdf EXCEPT !.polling = FALSE, !.seen = pdf.quote \in published]
       \/ pdf' = [pdf EXCEPT !.polling = FALSE]     \* a 429 or a network error
    /\ UNCHANGED <<sel, changes, result, compute, late, softError, retained, creating,
                   emitted, published>>

DownloadReady_Repeats ==
    /\ pdf.generating /\ pdf.seen /\ pdf.downloads < 3
    /\ pdf' = [pdf EXCEPT !.deadline = FALSE, !.url = TRUE, !.downloads = @ + 1]
    /\ UNCHANGED <<sel, changes, result, compute, late, softError, retained, creating,
                   emitted, published>>

DownloadReady ==
    /\ pdf.generating /\ pdf.seen
    /\ pdf' = [pdf EXCEPT !.deadline = FALSE, !.generating = FALSE, !.url = TRUE,
                          !.downloads = @ + 1]
    /\ UNCHANGED <<sel, changes, result, compute, late, softError, retained, creating,
                   emitted, published>>

Deadline ==
    /\ pdf.deadline
    /\ pdf' = [pdf EXCEPT !.deadline = FALSE, !.generating = FALSE]
    /\ softError' = "emit"
    /\ UNCHANGED <<sel, changes, result, compute, late, retained, creating, emitted, published>>

-----------------------------------------------------------------------------
Next ==
    \/ \E s \in Selections : HandlePickUnit(s) \/ ChangeControls(s) \/ LateAnswer(s)
    \/ CambiarUnidad
    \/ Recompute \/ Computed \/ ComputeFails \/ RetryTick
    \/ OnDownloadPdf \/ OnWhatsapp \/ CreateFails
    \/ \E q \in Quotes : Created(q) \/ PublishPdf(q)
    \/ Poll \/ PollAnswer \/ DownloadReady \/ Deadline

Spec == Init /\ [][Next]_vars

-----------------------------------------------------------------------------
(* Properties.                                                             *)

\* Answers of compute come back in any order; once the page stops computing
\* it shows the pair of the selection its controls show, never that of an
\* older one that answered late (the `cancelled` flag and seqRef).
QuietPageIsCurrent == compute = "done" => result = sel

\* Between two changes of the selection the page retains one quote and keeps
\* it: the WhatsApp message and the PDF are of the same emission, and a PDF
\* asked for again after a deadline does not emit another (D-01).
OneQuotePerSelection ==
    [][retained # NoQuote /\ changes' = changes => retained' = retained]_vars

\* A PDF request triggers at most one automatic download, and the page never
\* generates without a deadline to end it.
OneDownloadPerRequest ==
    /\ pdf.downloads <= 1
    /\ pdf.generating => pdf.deadline /\ pdf.downloads = 0

\* A selection change invalidates the retained quote, so that the next
\* trigger emits a fresh quote of the new selection with its own PDF
\* (comments at ensureQuote and at the selection-change effect).  An answer
\* of create that comes after the change breaks it.
RetainedIsOfSelection == retained # NoQuote => emitted[retained] = sel

=============================================================================
