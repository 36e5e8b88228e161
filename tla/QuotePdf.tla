------------------------------ MODULE QuotePdf ------------------------------
(***************************************************************************)
(* The quote pipeline end to end: quotes.create (resolve, insert, enqueue, *)
(* reply), the BullMQ job, processQuotePdf in the worker (read, render,    *)
(* put, write back), and the buyer's pdfStatus poll and download.          *)
(*                                                                         *)
(* Data: a price is a small number, the document is the pair of the total  *)
(* it shows and the emission date stamped on it.  Every create call has a  *)
(* fresh quote id, so Quotes indexes the calls too.                        *)
(***************************************************************************)
EXTENDS JobQueue

CONSTANTS
    Quotes,      \* ids of the quotes created
    Runs,        \* concurrent processor runs of the worker (concurrency 2)
    NoQuote,     \* the quote of an idle run
    NoObject,    \* nothing stored under a key
    MaxPrecio,   \* prices are 1..MaxPrecio; 0 means "no row"
    MaxDia,      \* the calendar reaches MaxDia
    LockLoss     \* may a live run lose its BullMQ lock?

ASSUME QuoteAssumption ==
    /\ MaxPrecio \in Nat \ {0} /\ MaxDia \in Nat \ {0}
    /\ LockLoss \in BOOLEAN
    /\ NoQuote \notin Quotes
    /\ NoObject \notin [total: 0..MaxPrecio, fecha: 0..MaxDia]

VARIABLES
    precio,      \* the unit's live price
    publicado,   \* is the project published?
    dia,         \* today, in America/Argentina/Buenos_Aires
    quotes,      \* the quotes table
    objects,     \* the R2 bucket, by quote (quotePdfKey is injective in it)
    jobs,        \* the quote-pdf queue, by jobId
    req,         \* the create calls
    runs,        \* the worker's processor runs
    listo,       \* quotes whose download link the buyer holds
    visto        \* documents the buyer downloaded

tenant == <<precio, publicado, dia>>
buyer == <<listo, visto>>
vars == <<precio, publicado, dia, quotes, objects, jobs, req, runs, listo, visto>>

Doc == [total: 0..MaxPrecio, fecha: 0..MaxDia]
ReqPc == {"new", "resolved", "inserted", "enqueued", "replied", "error"}
RunPc == {"idle", "read", "render", "put", "write", "ack"}

\* snapshot 0: the row does not exist.  pdfKey is deterministic, so null or not.
QuoteRow == [snapshot: 0..MaxPrecio, pdfKey: BOOLEAN]

\* total and fecha: what the run has read and rendered so far.
Run == [pc: RunPc, quote: Quotes \cup {NoQuote},
        total: 0..MaxPrecio, fecha: 0..MaxDia, lock: BOOLEAN]
IdleRun == [pc |-> "idle", quote |-> NoQuote, total |-> 0, fecha |-> 0, lock |-> FALSE]
FreshRun(q) == [pc |-> "read", quote |-> q, total |-> 0, fecha |-> 0, lock |-> TRUE]

TypeOK ==
    /\ precio \in 1..MaxPrecio
    /\ publicado \in BOOLEAN
    /\ dia \in 1..MaxDia
    /\ quotes \in [Quotes -> QuoteRow]
    /\ objects \in [Quotes -> Doc \cup {NoObject}]
    /\ jobs \in [Quotes -> Job]
    /\ req \in [Quotes -> [pc: ReqPc, total: 0..MaxPrecio]]
    /\ runs \in [Runs -> Run]
    /\ listo \in SUBSET Quotes
    /\ visto \in [Quotes -> SUBSET (Doc \cup {NoObject})]

Init ==
    /\ precio \in 1..MaxPrecio
    /\ publicado = TRUE
    /\ dia = 1
    /\ quotes = [q \in Quotes |-> [snapshot |-> 0, pdfKey |-> FALSE]]
    /\ objects = [q \in Quotes |-> NoObject]
    /\ jobs = [q \in Quotes |-> NoJob]
    /\ req = [q \in Quotes |-> [pc |-> "new", total |-> 0]]
    /\ runs = [r \in Runs |-> IdleRun]
    /\ listo = {}
    /\ visto = [q \in Quotes |-> {}]

-----------------------------------------------------------------------------
(* The surroundings of the pipeline: panel writes and the calendar.        *)

\* units.updatePrice and its siblings move the live price.
UpdatePrice ==
    /\ precio' \in (1..MaxPrecio) \ {precio}
    /\ UNCHANGED <<publicado, dia, quotes, objects, jobs, req, runs, buyer>>

\* projects.updateSettings takes the project off the public site and back.
UpdateSettings ==
    /\ publicado' = ~publicado
    /\ UNCHANGED <<precio, dia, quotes, objects, jobs, req, runs, buyer>>

NextDay ==
    /\ dia < MaxDia
    /\ dia' = dia + 1
    /\ UNCHANGED <<precio, publicado, quotes, objects, jobs, req, runs, buyer>>

-----------------------------------------------------------------------------
(* quotes.create.  Each await is a step: the transaction that resolves and *)
(* computes, the transaction that inserts, the push to Redis, the reply.   *)

ResolveAndQuote(q) ==
    /\ req[q].pc = "new" /\ publicado
    /\ req' = [req EXCEPT ![q] = [pc |-> "resolved", total |-> precio]]
    /\ UNCHANGED <<tenant, quotes, objects, jobs, runs, buyer>>

InsertQuote(q) ==
    /\ req[q].pc = "resolved"
    /\ quotes' = [quotes EXCEPT ![q].snapshot = req[q].total]
    /\ req' = [req EXCEPT ![q].pc = "inserted"]
    /\ UNCHANGED <<tenant, objects, jobs, runs, buyer>>

\* Mutant of EnqueuePdf: the push does not wait for the commit of the row.
EnqueuePdf_BeforeCommit(q) ==
    /\ req[q].pc = "resolved"
    /\ jobs' = [jobs EXCEPT ![q] = AddJob(@)]
    /\ UNCHANGED <<tenant, quotes, objects, req, runs, buyer>>

EnqueuePdf(q) ==
    /\ req[q].pc = "inserted"
    /\ jobs' = [jobs EXCEPT ![q] = AddJob(@)]
    /\ req' = [req EXCEPT ![q].pc = "enqueued"]
    /\ UNCHANGED <<tenant, quotes, objects, runs, buyer>>

ReplyCreated(q) ==
    /\ req[q].pc = "enqueued"
    /\ req' = [req EXCEPT ![q].pc = "replied"]
    /\ UNCHANGED <<tenant, quotes, objects, jobs, runs, buyer>>

\* NOT_FOUND on an unpublished project, or any later await failing: a
\* database error, Redis down, the web process killed, the reply lost.
CreateFails(q) ==
    /\ \/ req[q].pc = "new" /\ ~publicado
       \/ req[q].pc \in {"resolved", "inserted", "enqueued"}
    /\ req' = [req EXCEPT ![q].pc = "error"]
    /\ UNCHANGED <<tenant, quotes, objects, jobs, runs, buyer>>

-----------------------------------------------------------------------------
(* The worker: processQuotePdf, one run per claimed job.                   *)

Idle(r) == runs[r].pc = "idle"
Rendered(r) == [total |-> runs[r].total, fecha |-> runs[r].fecha]
Locked(q) == \E r \in Runs : runs[r].quote = q /\ runs[r].lock

Claim(r, q) ==
    /\ Idle(r) /\ jobs[q].st = "waiting"
    /\ jobs' = [jobs EXCEPT ![q] = ClaimJob(@)]
    /\ runs' = [runs EXCEPT ![r] = FreshRun(q)]
    /\ UNCHANGED <<tenant, quotes, objects, req, buyer>>

\* Mutant of ReadQuote: the totals are recomputed from the live price.
ReadQuote_LivePrice(r) == LET row == quotes[runs[r].quote] IN
    /\ runs[r].pc = "read" /\ row.snapshot # 0
    /\ runs' = [runs EXCEPT
                  ![r].pc = IF row.pdfKey THEN "ack" ELSE "render",
                  ![r].total = precio]
    /\ UNCHANGED <<tenant, quotes, objects, jobs, req, buyer>>

\* Mutant of ReadQuote: no short-circuit.
ReadQuote_NoShortCircuit(r) == LET row == quotes[runs[r].quote] IN
    /\ runs[r].pc = "read" /\ row.snapshot # 0
    /\ runs' = [runs EXCEPT ![r].pc = "render", ![r].total = row.snapshot]
    /\ UNCHANGED <<tenant, quotes, objects, jobs, req, buyer>>

\* readQuoteForPdf and the short-circuit on an existing pdfKey.  A missing
\* row throws, which is RunFails.
ReadQuote(r) == LET row == quotes[runs[r].quote] IN
    /\ runs[r].pc = "read" /\ row.snapshot # 0
    /\ runs' = [runs EXCEPT
                  ![r].pc = IF row.pdfKey THEN "ack" ELSE "render",
                  ![r].total = row.snapshot]
    /\ UNCHANGED <<tenant, quotes, objects, jobs, req, buyer>>

\* toPdfModel, the header with today's date, renderToBuffer.
Render(r) ==
    /\ runs[r].pc = "render"
    /\ runs' = [runs EXCEPT ![r].pc = "put", ![r].fecha = dia]
    /\ UNCHANGED <<tenant, quotes, objects, jobs, req, buyer>>

\* Mutant of PutPdf: the upload is not awaited, so its failure goes unseen.
PutPdf_NotAwaited(r) ==
    /\ runs[r].pc = "put"
    /\ \/ objects' = [objects EXCEPT ![runs[r].quote] = Rendered(r)]
       \/ UNCHANGED objects
    /\ runs' = [runs EXCEPT ![r].pc = "write"]
    /\ UNCHANGED <<tenant, quotes, jobs, req, buyer>>

PutPdf(r) ==
    /\ runs[r].pc = "put"
    /\ objects' = [objects EXCEPT ![runs[r].quote] = Rendered(r)]
    /\ runs' = [runs EXCEPT ![r].pc = "write"]
    /\ UNCHANGED <<tenant, quotes, jobs, req, buyer>>

WritePdfKey(r) ==
    /\ runs[r].pc = "write"
    /\ quotes' = [quotes EXCEPT ![runs[r].quote].pdfKey = TRUE]
    /\ runs' = [runs EXCEPT ![r].pc = "ack"]
    /\ UNCHANGED <<tenant, objects, jobs, req, buyer>>

\* The processor returned.  Without the lock BullMQ refuses the result.
CompleteRun(r) == LET q == runs[r].quote IN
    /\ runs[r].pc = "ack"
    /\ jobs' = IF runs[r].lock THEN [jobs EXCEPT ![q] = CompleteJob(@)] ELSE jobs
    /\ runs' = [runs EXCEPT ![r] = IdleRun]
    /\ UNCHANGED <<tenant, quotes, objects, req, buyer>>

\* Mutant of RunFails: the processor catches the error and returns.
RunFails_Swallowed(r) == LET q == runs[r].quote IN
    /\ ~Idle(r)
    /\ jobs' = IF runs[r].lock THEN [jobs EXCEPT ![q] = CompleteJob(@)] ELSE jobs
    /\ runs' = [runs EXCEPT ![r] = IdleRun]
    /\ UNCHANGED <<tenant, quotes, objects, req, buyer>>

\* Any await of the processor throws, also after its effect took place
\* (a commit or an upload whose answer was lost).
RunFails(r) == LET q == runs[r].quote IN
    /\ ~Idle(r)
    /\ jobs' = IF runs[r].lock THEN [jobs EXCEPT ![q] = FailJob(@)] ELSE jobs
    /\ runs' = [runs EXCEPT ![r] = IdleRun]
    /\ UNCHANGED <<tenant, quotes, objects, req, buyer>>

\* The worker process dies (a deploy, an OOM kill): every run vanishes.
WorkerCrash ==
    /\ \E r \in Runs : ~Idle(r)
    /\ runs' = [r \in Runs |-> IdleRun]
    /\ UNCHANGED <<tenant, quotes, objects, jobs, req, buyer>>

\* The lock of a live run expires: a blocked event loop, a Redis outage.
LoseLock(r) ==
    /\ LockLoss /\ runs[r].lock
    /\ runs' = [runs EXCEPT ![r].lock = FALSE]
    /\ UNCHANGED <<tenant, quotes, objects, jobs, req, buyer>>

RecoverStalled(q) ==
    /\ jobs[q].st = "active" /\ ~Locked(q)
    /\ jobs' = [jobs EXCEPT ![q] = StallJob(@)]
    /\ UNCHANGED <<tenant, quotes, objects, req, runs, buyer>>

-----------------------------------------------------------------------------
(* The buyer: quotes.pdfStatus until ready, then the presigned link.       *)

PdfStatus(q) ==
    /\ req[q].pc = "replied" /\ publicado /\ quotes[q].pdfKey
    /\ listo' = listo \cup {q}
    /\ UNCHANGED <<tenant, quotes, objects, jobs, req, runs, visto>>

Download(q) ==
    /\ q \in listo
    /\ visto' = [visto EXCEPT ![q] = @ \cup {objects[q]}]
    /\ UNCHANGED <<tenant, quotes, objects, jobs, req, runs, listo>>

-----------------------------------------------------------------------------
Environment == UpdatePrice \/ UpdateSettings \/ NextDay

Create(q) ==
    \/ ResolveAndQuote(q) \/ InsertQuote(q) \/ EnqueuePdf(q)
    \/ ReplyCreated(q) \/ CreateFails(q)

\* What a run does when nothing goes wrong.
Process(r) ==
    \/ ReadQuote(r) \/ Render(r) \/ PutPdf(r) \/ WritePdfKey(r) \/ CompleteRun(r)

Worker ==
    \/ \E r \in Runs : Process(r) \/ RunFails(r) \/ LoseLock(r)
    \/ \E r \in Runs, q \in Quotes : Claim(r, q)
    \/ \E q \in Quotes : RecoverStalled(q)
    \/ WorkerCrash

Buyer == \E q \in Quotes : PdfStatus(q) \/ Download(q)

Next == Environment \/ (\E q \in Quotes : Create(q)) \/ Worker \/ Buyer

Spec == Init /\ [][Next]_vars

\* The worker process is restarted by its container and keeps consuming;
\* no fairness is assumed of buyers, of the panel or of the web process.
WorkerFairness ==
    /\ \A r \in Runs : WF_vars(Process(r))
    /\ \A q \in Quotes : WF_vars(\E r \in Runs : Claim(r, q))
    /\ \A q \in Quotes : WF_vars(RecoverStalled(q))

FairSpec == Spec /\ WorkerFairness

-----------------------------------------------------------------------------
(* Properties.                                                             *)

\* A quote row that names a pdfKey has its document in R2, and no download
\* ever found the key empty: put happens before the write-back, in every
\* order of crashes, retries and overlapping runs (quote-pdf.ts:94-97).
PdfKeyImpliesObject ==
    \A q \in Quotes : /\ quotes[q].pdfKey => objects[q] # NoObject
                      /\ NoObject \notin visto[q]

\* Whatever the panel does to prices while the job waits or is retried, the
\* document a buyer downloads shows the total that create replied to them:
\* the worker reads the frozen snapshot and nothing else (quote-pdf.ts:66-69).
PdfShowsRepliedTotal ==
    \A q \in Quotes : \A d \in visto[q] : d # NoObject => d.total = req[q].total

\* A job never exists before its row is committed, so readQuoteForPdf never
\* misses it; and a buyer who was given a quoteId has a job behind it
\* (quotes.ts:203-223).
CreateOrder ==
    \A q \in Quotes : /\ jobs[q].st # "absent" => quotes[q].snapshot # 0
                      /\ req[q].pc = "replied" => jobs[q].st # "absent"

\* BullMQ reports a job completed only when its quote is published: no error
\* of the processor is swallowed into a success (quote-pdf.ts:50-51).
CompletedIsPublished ==
    \A q \in Quotes : jobs[q].st = "completed" => quotes[q].pdfKey

\* Once a quote is published its document never changes (quote-pdf.ts:61).
PublishedIsFrozen ==
    [][\A q \in Quotes : quotes[q].pdfKey => objects'[q] = objects[q]]_vars

\* Every job that was accepted is eventually completed or given up, through
\* any number of crashes: nothing waits or stays active for ever.
JobsFinish == \A q \in Quotes : jobs[q].st = "waiting" ~> Finished(jobs[q])

-----------------------------------------------------------------------------
(* The inductive invariant behind the properties.                          *)

\* The request, the row and the job of one quote appear in that order, and
\* the row keeps the total the request computed.
CreateInv == \A q \in Quotes : LET snap == quotes[q].snapshot IN
    /\ snap \in {0, req[q].total}
    /\ req[q].pc \in {"new", "resolved"} => snap = 0
    /\ req[q].pc = "resolved" => req[q].total # 0
    /\ req[q].pc \in {"inserted", "enqueued", "replied"} => snap # 0
    /\ req[q].pc \in {"enqueued", "replied"} => jobs[q].st # "absent"
    /\ jobs[q].st # "absent" => snap # 0

\* Everything stored or seen under a quote shows the total of its row.
StoreInv == \A q \in Quotes : LET snap == quotes[q].snapshot IN
    /\ objects[q] # NoObject => snap # 0 /\ objects[q].total = snap
    /\ quotes[q].pdfKey => objects[q] # NoObject
    /\ q \in listo => quotes[q].pdfKey
    /\ \A d \in visto[q] : d # NoObject /\ snap # 0 /\ d.total = snap
    /\ jobs[q].st = "completed" => quotes[q].pdfKey

\* A lock is held by one run, of an active job; no job is short of attempts.
LockInv ==
    /\ \A r \in Runs : Idle(r) => runs[r].quote = NoQuote /\ ~runs[r].lock
    /\ \A r \in Runs : ~Idle(r) => runs[r].quote \in Quotes
    /\ \A r \in Runs : runs[r].lock => jobs[runs[r].quote].st = "active"
    /\ \A r, s \in Runs : runs[r].lock /\ runs[s].lock /\ runs[r].quote = runs[s].quote => r = s
    /\ \A q \in Quotes : HasBudget(jobs[q])

\* What a run has established when it reaches each step.
RunInv == \A r \in Runs : LET q == runs[r].quote IN
    /\ ~Idle(r) => jobs[q].st # "absent"
    /\ runs[r].pc \in {"render", "put", "write"} => runs[r].total = quotes[q].snapshot
    /\ runs[r].pc = "write" => objects[q] # NoObject
    /\ runs[r].pc = "ack" => quotes[q].pdfKey

\* While no lock is lost every run holds its job's lock, and a run past the
\* short-circuit works on a quote that is not published.
SingleRunInv == ~LockLoss => \A r \in Runs :
    /\ ~Idle(r) => runs[r].lock
    /\ runs[r].pc \in {"render", "put", "write"} => ~quotes[runs[r].quote].pdfKey

PipelineInv == TypeOK /\ LockInv /\ CreateInv /\ StoreInv /\ RunInv /\ SingleRunInv

-----------------------------------------------------------------------------
(* The promise to the buyer, implemented.                                  *)

pdfVisible == [q \in Quotes |-> IF quotes[q].pdfKey THEN objects[q] ELSE NoObject]

Delivery == INSTANCE PdfDelivery WITH
    Totals <- 1..MaxPrecio, Dias <- 0..MaxDia, NoTotal <- 0, NoPdf <- NoObject,
    oferta <- [q \in Quotes |-> quotes[q].snapshot],
    pdf <- pdfVisible

\* The pipeline implements PdfDelivery: a quote is offered once, its PDF
\* appears once with the offered total, and every download returns it.
ImplementsDelivery == Delivery!Spec

=============================================================================
