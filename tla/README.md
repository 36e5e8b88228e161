# A TLA+ model of ImBau

ImBau sells real-estate developments: developers keep the grid of units and
prices of a project in a panel, buyers simulate and order quotes on public
pages, leads arrive in a board. This directory holds TLA+ specifications of the
parts of it where the order of things matters, the TLC configurations that
check them on small instances, and TLAPS proofs of what matters most for every
size. Every definition is a translation of code; `PROJECT.json` ("map") says of
which lines. Paths below are relative to the repository.

    tlc -config QuotePdf.cfg MCQuotePdf.tla       # one run, see "Runs"
    tlapm QuotePdfProofs.tla                      # one module of proofs

## 1. The system

A pnpm monorepo in TypeScript: `apps/panel` (Next.js, the developers' side),
`apps/web` (Next.js, public), `apps/worker` (Node), over `packages/api` (tRPC
routers), `packages/db` (Drizzle, PostgreSQL with row-level security),
`packages/quoting` (pure arithmetic), `packages/storage` (R2 keys, BullMQ
queues). State lives in four places: PostgreSQL, Redis (BullMQ 5.78.1), the R2
bucket, and the browser. Each call to one of them can fail on its own, and
nothing spans two of them in one transaction; that is where the hard
behaviours come from.

| component | state | operations | interacts with |
|---|---|---|---|
| Quote emission and PDF (`api/src/trpc/routers/quotes.ts`, `worker/src/quote-pdf*.ts`) | rows of `quotes`, queue `quote-pdf`, objects under `quotePdfKey` | create: resolve, insert, enqueue, reply; worker: read, render, put, write back; pdfStatus; download | reads the grid and the project's settings; polled by the simulator |
| Leads router (`routers/leads.ts`) | rows of `leads` with a JSON timeline, `events` | create, updateEstado, addNote | enqueues the notification; the board calls it |
| Lead notification (`worker/src/lead-email.ts`) | queue `lead-email`, emails at Resend | read lead and recipients, send | Resend; `leads.create` produces its jobs |
| Media pipeline (`routers/media.ts`, `worker/src/media*.ts`, `db/src/seed/media.ts`) | rows of `media`, queue `media-processing`, originals and variants in R2 | createUpload, PUT, confirmUpload; seed: check, put, insert, enqueue, poll; worker: get, render, put each variant, write | public pages resolve a row to a srcset |
| Worker shell (`worker/src/index.ts`) | processes and their job locks | start, consume with concurrency 2, fail, crash, restart, recover stalled jobs | runs the processors above |
| Events partitions (`worker/src/partitions.ts`) | partitions of `events` | monthly job: create the next month | scheduled by the shell; inserts of events |
| Units router and import (`routers/units.ts`, `api/src/excel/*`) | `units`, `prices`, `events` | updatePrice, updateEstado, dry run, import, bulk preview, bulk update, export | quotes read the prices |
| Quoting engine (`packages/quoting`) | none | calcQuote, rounding, serialisation, comparison | called by create and by the simulator |
| Hotspots (`routers/hotspots.ts`, `hotspots/geometry.ts`, `hotspots-editor.tsx`) | polygons of floors and units; the drawing | draw, save, delete, move between levels | the picker reads the polygons |
| Projects router (`routers/projects.ts`) | settings, publication | create, update, updateSettings | gate of the public routers, recipients of emails |
| Cotizador client (`web/components/cotizador-simulator.tsx`) | selection, shown pair, retained quote, poll and its deadline | pick, recompute, emit once, poll, download, share | `quotes.compute`, `create`, `pdfStatus` |
| Leads board client (`panel/.../leads/*.tsx`) | the query's cache, drawer, prompt of the outcome, form | optimistic move with rollback, note, new lead | the leads router |
| Units grid client (`panel/.../unidades/*.tsx`) | the query's cache, cells and their timers, wizard, bulk form | edit a cell, dry run and import, preview and apply | the units router |
| Tenancy and roles (`db/src/with-tenant.ts`, `api/src/trpc/{init,middleware}.ts`) | the transaction's organization, the member's role | withTenant, requireRole | every protected procedure |
| Organizations, authentication, seed, observability, UI, deployment | | | see `PROJECT.json` "components" |

### What is hard

* Three writes to three stores in one request or one job, each of which may
  fail after the previous one took effect, and a retry that starts over.
* Jobs are delivered at least once: a worker may die, or lose its lock while it
  is still alive, and the job is run again beside or after the first run.
* A job id derived from the row makes enqueueing idempotent, and also stays
  taken after the job failed.
* Read-modify-write of a JSON column without a row lock.
* Values read at one moment (a price, an absent pdfKey, a dry run) and used at a
  later one, while the panel goes on writing.
* In the browser: answers arrive in any order or not at all, a background fetch
  reads the server before a write and lands after it, a timer or a file read ends
  when the page shows something else, and TanStack Query drops the callbacks of a
  call that was overtaken or whose component is gone.

### What makes each part correct

* Quotes: a buyer never sees a document that disagrees with the total of the
  reply, never gets a link to nothing, and a published document does not change.
* Leads: an outcome exactly while a lead is closed, an ordered append-only
  timeline whose transitions chain up to the current state, an audit trail that
  agrees with what was committed.
* Notification: no email for a lead that does not exist, none silently lost,
  duplicates bounded.
* Media: a row never names a variant that is not stored; a completed job shows
  one and the same image; a re-run of the seed is harmless.
* Units: every change leaves an audit event; an unchanged re-import writes
  nothing; what is applied is what was previewed.
* Engine: anticipo, instalments and refuerzos add up to the price to the dollar; requests
  with a missing row and degenerate plans, only these, are refused, each with its code.
* Simulator: the amounts shown are of the selection, one quote is emitted for it, a
  request downloads once.
* Panel pages: when nothing is in flight they show what the server has; what is sent
  is what was reviewed; nothing waits for an answer it will not hear; a drawing is not
  lost.
* Partitions: the rows of a month are in the partition of that month.

"hazards" in `PROJECT.json` lists where in the code each of these could go
wrong, and which property looks there.

## 2. The modules

| module | what it is | extends / refines |
|---|---|---|
| `JobQueue` | one BullMQ job as the pipelines use it: add, claim, complete, fail, stall | used by the three pipelines |
| `PdfDelivery` | what the buyer is promised about a quote | abstract |
| `QuotePdf` | the quote pipeline, from the create call to the download | implements `PdfDelivery` |
| `LeadHistory` | an append-only history and the state it tells | abstract |
| `Leads` | the three mutations of the leads router as transactions | implements `LeadHistory` |
| `LeadEmail` | from the create call to the email accepted by Resend | |
| `MediaPipeline` | two producers, the worker, the public resolver's condition | |
| `UnitGrid` | the units router: edits, the import and the bulk update of prices | |
| `CotizadorClient` | the buyer's simulator, from the choice of a unit to the download | |
| `PanelPage` | one query, its background fetch, and mutations heard or not | extended by the three pages |
| `LeadsBoard`, `UnitsPage`, `HotspotsEditor` | the three pages of the panel that keep state of their own | extend `PanelPage` |
| `QuoteEngine` | `calcQuote` and the reads that feed it | |
| `Polygon` | the verdict on a polygon while it is drawn | |
| `Partitions` | the monthly partitions of `events` | |
| `MC...` | symmetry sets and constants for TLC; `MCBrowser` and `MCCalc` put several modules side by side, one of them active in each behaviour; their parameters stay CONSTANTs that the configurations give values, so that the proofs are about them too | |
| `JobQueueProofs` | what the transitions of a job preserve | used by the proofs of two pipelines |
| `QuotePdfProofs`, `LeadsProofs`, `LeadEmailProofs`, `MediaPipelineProofs`, `UnitGridProofs` | theorems about the module of that name, and their proofs | |
| `BrowserProofs` | the simulator and the three pages of the panel | extends `MCBrowser` |
| `CalcProofs` | the engine, the polygon and the partitions | extends `MCCalc` |

`JobQueue` is external: BullMQ is not part of the repository. Its operators are
what the code asks of it, that is, the options in `packages/storage/src/` (job
id, attempts, backoff) and the defaults of `Worker` in
`apps/worker/src/index.ts`. A job delayed by its backoff counts as waiting. The
same module serves three pipelines, so that the compositions differ only in
what their processors do. Other external definitions are the lock expiry, the
stalled-jobs checker, the death of the worker's process, and the rules of
TanStack Query 5 in `PanelPage`.

**How state corresponds.** A variable is a table, a queue, a bucket or the local
state of a call. `quotes`, `leads`, `rows`, `precios` are committed rows.
`jobs` is a queue by job id. `objects` and `originals` are R2. `req`, `conf`,
`calls`, `tx` hold where a request is, and what it has read. `runs` holds where
each processor invocation is, what it has read, and whether it still has the
BullMQ lock. Between two awaits of the code lies one action. A statement that
is a single SQL statement, a single PUT or a single Redis command is one step.

**How failures correspond.** Every await may throw, also after its effect took
place: `CreateFails`, `ConfirmFails`, `SeedFails`, `RunFails`, `Rollback`.
`WorkerCrash` ends every run at once and leaves the jobs active, which
`RecoverStalled` returns to the queue or fails. With `LockLoss = TRUE`,
`LoseLock` takes the lock away from a live run (a blocked event loop, or a Redis
outage longer than the lock duration); the run goes on, and BullMQ refuses its
result. `LockLoss = FALSE` is the assumption that this never happens.

**What is abstracted.** A price is a small number, a document is the total and
the date it shows, an image is its width, a note is its timestamp, a recipient
list is empty or not. Layout, wording, formats and logs are left out. In
`MediaPipeline` the AVIF and WebP of a width are one object, as they are uploaded
next to each other.

### QuotePdf

`ResolveAndQuote`, `InsertQuote`, `EnqueuePdf`, `ReplyCreated`, `CreateFails` are
the awaits of `quotes.create`. `Claim`, `ReadQuote` (with the short-circuit on
`pdfKey`), `Render` (which stamps the date), `PutPdf`, `WritePdfKey`,
`CompleteRun` are `processQuotePdf`. `PdfStatus` and `Download` are the buyer.
`UpdatePrice`, `UpdateSettings` and `NextDay` are the surroundings: prices move,
the project may be unpublished, a retry may happen on another day.

`PdfDelivery` has a variable for the document each quote shows: it may be set
once, with the total of the reply, and the buyer sees nothing else.
`ImplementsDelivery` is the refinement; the mapping hides an object until its
row names it.

### Leads

One READ COMMITTED transaction per mutation: `SelectForMove` / `SelectForNote`
read without a lock and build the new timeline; `UpdateRow` waits for the row
lock; `InsertEvent` writes the audit row of a transition; `CommitMove` /
`CommitNote` publish; `Rollback` undoes. `Serial = TRUE` assumes that mutations of
one lead do not overlap, which is what users who work one after the other do,
and under which `ImplementsHistory` holds. `Serial = FALSE` is the code as it is.

### LeadEmail

`InsertLead`, `EnqueueLeadEmail`, `ReplyCreated`, `CreateFails` are `leads.create`
after its validation. `ReadLead` finds a recipient or throws (`NoRecipient`),
`SendLeadNotification` counts an email, `CompleteRun` completes the job.
`RunFails` includes the case in which Resend accepted the email and the answer
was lost, because it may also happen in `ack`. `RESEND_API_KEY` is assumed to be set, as staging
requires: without it `sendLeadNotification` logs the lead and returns
(`send-lead-notification.ts:53-58`, for development and tests), and a completed job
means no email.

### MediaPipeline

The client may replace the original as long as its presigned URL is valid
(`PutOriginal`), also by bytes that are no image (`Garbage`). `HeadOriginal` and
`EnqueueMedia` are `confirmUpload`. The seed visits its catalog one asset after
the other, waits for what it enqueued and gives up at its deadline. A processor
run keeps the bytes it downloaded (`image`) and the variants still to upload
(`faltan`, ascending). `pickWidths` is the list of `media-variants.ts`:
breakpoints below the source, and the source or the largest breakpoint.

### UnitGrid

An operator (`ops`) makes one inline edit (`EditPrice`, `EditEstado`), or exports the
grid, edits a cell of the file, sees the dry run and imports it (`Export...`,
`EditFile`, `DryRun...`, `Import...`), or previews and applies a bulk update
(`BulkPreview`, `BulkApply`). `readGrid` takes two SELECTs, hence two steps. The
changes to be made are computed at the reads (`pendientes`) and written one by one
(`Write`), each with its audit row, under the lock of the row; `Commit` publishes,
`Rollback` drops. Within a transaction the code goes through the rows in their order and
through the columns of a row in a fixed one, so a pending change has a `turno` and the lowest
is written next. `buildDryRun` and `computeBulkPreview` are the pure functions of
`packages/api/src/excel`, used by preview and apply alike, as in the code.
`movidas` is the one variable the code does not have: it remembers which cells
others have committed since an operator's preview, so that the properties can say
what holds where nobody interfered.

Left out: what a spreadsheet cell parses to is a price, blank or refused; binary
rounding of a percentage such as 1.15 is taken as exact; a project has both USD
lists, and an identificador names one unit (the schema has no UNIQUE on it).

### CotizadorClient

`HandlePickUnit`, `ChangeControls` and `CambiarUnidad` change the selection and run the effect
that forgets the quote and ends the poll. `Recompute`, `Computed`, `ComputeFails` and
`LateAnswer` are the compute effect with its cancelled flag; the two prices it asks for are one
answer. `OnDownloadPdf` and `OnWhatsapp` go through `ensureQuote`, `Created` and `CreateFails`
are the create's answers; `Poll`, `PollAnswer`, `DownloadReady` and `Deadline` are the query on
`pdfStatus`, its effect and the deadline of forty seconds. `PublishPdf` stands for the whole of `QuotePdf`.
A selection is a model value.

### PanelPage and its three pages

`PanelPage` holds what the pages share: `db` is what the server would answer now, `data` is
the cache, `fetch` is the fetch in flight with what the server answered it, and `calls` are the
mutations under way. A call goes out, is committed or refused (`ServerTakes`), and its answer
comes later or is lost after the commit. The callbacks of a call are heard only if no later
call of the same observer was made and its component is still mounted. Other sessions write at
any time.

* `LeadsBoard`: `CommitTransition` snapshots, moves the card and sends; `MoveFails` restores the
  snapshot, `Succeeds` refetches; the branch of the page (error, empty, board) remounts what is
  in it. `doubt` and `clears` are ghosts: the leads whose row nobody promised to be current
  (written by another session, answered to nobody, or taken along by a rollback), and those a
  fetch in flight has read since. A rollback also clears the error of a query whose last fetch
  failed, and with it the sign that the rows are old: then every lead is in doubt.
* `UnitsPage`: cells with draft, saving and saved states and the 900 ms timer; the wizard with the
  reads of its file (`ui.reads`), the bulk form. A row is the set of writes that reached it, so
  that a stale cache is visible; what a write does to a price is `UnitGrid`'s matter.
* `HotspotsEditor`: the target, the drawing, save and delete over the router, which validates
  again. `left` is a ghost: the drawing as the operator left it.
  The SELECTs of floors and of units in `getForProject` are one read; no property relates the two.

### QuoteEngine, Polygon, Partitions

`QuoteEngine` has the request, the rows that may be missing, and one action that answers.
Decimals are integers (hundredths of a percent, ten-thousandths of a CAC, cents), so each
`ROUND_HALF_UP` is an integer division. `Polygon` is the drawing, `ValidatePolygon` the verdict
of both editor and router. In `Partitions` the months go by, a run reads the clock and executes its
DDL later; `LoseLock` and `RunFails` are BullMQ's and PostgreSQL's doing, and an event may be
inserted by a transaction that began in the month before. An instant is its UTC month; the
session of the database is assumed to be in UTC, as the migration's and the job's bare dates
are read in it.

## 3. Runs

Twelve runs. Ten say what holds: `quote_pdf`, `media_seed` and `leads_serial` under
an assumption they name (no lost locks, no overlap), the others of the code as it
is. Two show a statement of the repository violated.

| run | module | bounds | checks | shows |
|---|---|---|---|---|
| `quote_pdf` | `QuotePdf` | 1 quote, 2 runs, 3 attempts, 2 recoveries, 2 prices, 3 days, no lost locks | `PdfKeyImpliesObject`, `PublishedIsFrozen`, `ImplementsDelivery` | the pipeline keeps its promise to the buyer through failures, crashes and price changes |
| `quote_pdf_locks` | `QuotePdf` | 1 quote, 2 runs, 2 attempts, lost locks, `FairSpec` | `PipelineInv`, `PdfShowsRepliedTotal`, `CompletedIsPublished`, `JobsFinish` | what survives overlapping runs of one job; every job comes to an end |
| `leads` | `Leads` | 2 leads, 3 mutations, 5 stamps, overlapping | `DesenlaceSiiCerrado`, `TimelineSorted`, `AuditMatchesCommits` | what overlapping mutations cannot break |
| `leads_serial` | `Leads` | the same, one mutation of a lead at a time | `HistoryInv`, `ImplementsHistory` | then the history is append-only and tells the state |
| `leads_overlap` | `Leads` | 1 lead, 2 overlapping mutations | `TimelineAppendOnly` | violated, see section 5 |
| `lead_email` | `LeadEmail` | 1 lead, 2 runs, 3 attempts, 2 recoveries, lost locks, `FairSpec` | `EmailInv`, `EmailFollowsCommit`, `CompletedIsNotified`, `SendsBounded`, `NotifiedOrFailed` | no lead is lost silently, duplicates are bounded |
| `media` | `MediaPipeline` | 1 upload, 2 runs, lost locks, three widths and garbage, `FairSpec` | `ReadyHasVariants`, `ConfirmedSettles` | no broken srcset, every confirmed upload settles |
| `media_seed` | `MediaPipeline` | 1 upload, 1 asset, 1 run, no lost locks, `FairSpec` | `MediaInv`, `CompletedIsOneImage`, `ReseedIsIdempotent`, `SeedReturns` | the seed beside the worker; a completed job shows one image |
| `unit_grid` | `UnitGrid` | 2 units, 2 operators, prices 0..1 or none, 2 estados, a decrease and a doubling | `TypeOK`, `AuditEveryChange`, `ConfirmedIsApplied`, `ImportLeavesFile`, `AllOrNothing` | what was confirmed is what is applied, wherever nobody wrote in between |
| `browser` | `MCBrowser` | 2 selections, 2 quotes, 3 changes of selection; 2 leads, 3 stages; 1 unit, 2 files, 2 bulk forms; 1 floor, 1 unit, 3 shapes; 2 calls or writes of others per page | `QuietPageIsCurrent`, `OneDownloadPerRequest`, `OneQuotePerSelection`; `SettledBoardIsServer`; `SavedIsShown`, `NothingSpinsForever`, `ConfirmsTheReviewed`; `DrawingIsKept` | what each page promises, in every order of answers, fetches, timers and file reads |
| `cotizador` | `CotizadorClient` | 2 selections, 2 quotes | `RetainedIsOfSelection` | violated, see section 5 |
| `calc` | `MCCalc` | plans at and beside every bound with up to 2 refuerzos, prices 1, 99, 100, one CAC; polygons of up to 4 vertices over 10 points; nine months, 2 runs | `QuoteReconciles`, `RefusesExactlyTheDegenerate`; `VerdictIsGeometric`; `EventsFindTheirMonth` | the three calculations agree with their reference definitions |

The modules of `browser` and of `calc` do not interact: what they have in common is that each
behaviour has one of them active, so that their properties are stated side by side.

One type invariant is a property of a run, that of `UnitGrid`. The others (`TypeOK` of
`QuotePdf`, `Leads`, `LeadEmail`, `MediaPipeline` and of the panel's pages) are parts of
inductive invariants that are proved, and of which `PipelineInv`, `HistoryInv`, `EmailInv` and
`MediaInv` are run as well. The inductive invariants of the browser and of the grid (`BoardInv`,
`GridInv`, `EditorInv`) were checked by TLC on the same instances before they were proved; as
they imply the properties that are run, and the proofs are for every instance, they have no run
of their own. `CreateOrder` and `JobFindsOriginal` are consequences of `PipelineInv` and
`MediaInv`.

Each property of a passing run has a mutant in `PROJECT.json`: a definition with a
plausible bug, under which TLC finds the property violated.

### Bounds

The code allows 5 attempts and recovers a stalled job once. The runs use 2 or 3
attempts and 1 or 2 recoveries: the guards only compare with the limit, so the
cases are none left, one left, some left. Two runs are the worker's concurrency,
and enough for a run to overlap another of the same job. One quote, lead or media
is enough where items interact only through the runs; the proofs hold for any
number. Two prices and two or three days make a stale price or a moved date
visible. Three mutations of two leads let two of them overlap on one lead while
a third goes on elsewhere, and `MaxTs` is the number of stamps these calls need.
Against breakpoints {2, 4} the widths of `media`, {1, 2, 5}, are a source narrower than all, one
as wide as a breakpoint and one wider than all; those of `media_seed`, {3, 4}, one between two and
one as wide as the widest. `ReadyHasVariants` is run in the latter as a part of `MediaInv`. In the browser two calls are what it takes for one to overtake the
other, to fail after the other committed, or to lose its answer between two fetches, and
`MaxCalls` counts the writes of other sessions as well; three changes of selection leave a
selection, come back and leave it again while a create is in flight. Four vertices are the
fewest that can cross; the tenth point is outside the frame. The months run over a turn of the
year and beyond the partitions of the migration. `MaxTs`, `MaxDia`, `MaxPrecio`,
`MaxCalls`, `MaxChanges`, `MaxPoints`, `MaxVertices`, `LastMonth` and the sizes of the sets are
the only bounds; no other counter is cut.

### Fairness

`FairSpec` assumes that a run goes on while none of its awaits fails, that a
waiting job is eventually claimed by some run, and that the stalled-jobs checker
visits an active job without a lock. The code justifies it: the container
restarts the worker (`deploy/compose.staging.yml`), `boot` recreates its Workers,
and these consume and check for stalled jobs continuously. The seed runs on
once started. Nothing is assumed of clients, of the panel, or of the success of
any call: failures remain possible at every step.
`CHECK_DEADLOCK FALSE` is set where the system may be done: all create calls
answered, all mutations made, a tab left alone. The runs of pages and calculations
assume no fairness: `NothingSpinsForever` says in every state that a saving cell still has an
answer to hear, which is what the page contributes to its end. The pipelines with recurring surroundings are
checked for deadlock.

## 4. Proofs

TLAPS proves every safety and action property that a passing run checks, and the two
refinements, for every number of quotes, leads, units, operators, runs, attempts, recoveries,
plans, prices, vertices and months. The assumptions are those on the constants:
`QueueAssumption` (at least one attempt), `QuoteAssumption`, `LeadsAssumption`,
`EmailAssumption`, `MediaAssumption`, `CotizadorAssumption`, `PartitionsAssumption`,
`GridAssumption`, `BrowserAssumption` and `CalcAssumption` (these two collect those of the
modules they instantiate). They say that null values are not ids, that sets which are counted
are finite, that widths, prices and percentages are integers, that one breakpoint is the largest.
Where a theorem needs more it says so as a hypothesis: `~LockLoss` (no live run loses its job
lock) or `Serial` (mutations of one lead do not overlap).

| theorem | says |
|---|---|
| `QuotePdfProofs!PipelineCorrect` | `PipelineInv` is an invariant, with or without lost locks |
| `KeyHasObject`, `TotalsAgree`, `CreateOrdered`, `CompletedPublished` | the four safety properties of the quote pipeline |
| `PublishedFrozen`, `PipelineRefinesDelivery` | if no live run loses its lock: documents never change, and the pipeline implements `PdfDelivery` |
| `LeadsProofs!TypeCorrect`, `ClosedHasOutcome`, `TimelineOrdered`, `AuditComplete` | type, outcome, order and audit trail, whatever mutations overlap |
| `HistoryInvariant`, `SerialKeepsHistory` | `HistoryInv` is an invariant; if mutations of one lead do not overlap, the router implements `LeadHistory` |
| `LeadEmailProofs!EmailInvariant` | `EmailInv` is an invariant |
| `EmailsFollowCommits`, `CompletedNotified`, `DuplicatesBounded` | the three safety properties of the notification |
| `MediaPipelineProofs!MediaInvariant` | `MediaInv` is an invariant, with or without lost locks |
| `TypeCorrect`, `SrcsetHolds`, `OriginalIsThere` | the types, no broken srcset, the original before the job |
| `OneImage` | if no live run loses its lock, a completed job shows one image |
| `Reseed` | no step changes a processed asset of the seed, even when locks are lost |
| `UnitGridProofs!TypeCorrect` | types and the bounds of prices |
| `EveryChangeAudited` | a step that changes cells of a unit adds as many audit events of it |
| `ShownIsWritten`, `FileIsLeft`, `InvalidStopsAll` | what was shown is what is committed, where nobody else wrote; an import leaves the file; an invalid row or price stops everything |
| `BrowserProofs!PageIsCurrent`, `DownloadsOnce`, `EmitsOnce` | the three properties of the simulator that hold |
| `TabIsSimulator` | a tab at any page takes only steps of the simulator, or none of it |
| `BoardIsServer` | a quiet board shows the server, but for the leads in doubt |
| `SavedOnScreen`, `NoCellSpins`, `ConfirmsReviewed`, `DrawingStays` | the properties of the units page and of the hotspots editor |
| `CalcProofs!CuotasReconcile`, `AnticipoIsNearest` | of the two roundings: the instalments add up to the balance and differ in the last only; the advance is the nearest dollar and never above the price |
| `QuotesReconcile` | every answer of the engine adds up, to the dollar in USD and to half a cent per instalment in pesos |
| `RefusalsAreDocumented` | a request is refused as incomplete exactly if a row is missing, and a complete one exactly if a condition of `errors.ts` holds, with the code of one that does |
| `VerdictOfFigure` | the verdict on a polygon is of the figure: any first vertex, either direction; `self_intersecting` exactly if two edges cross inside both |
| `EventsPartitioned` | `EventsFindTheirMonth`, over any horizon and any number of runs |

**The quote pipeline.** None of the properties is inductive. `PipelineInv` adds what
the steps rely on: `CreateInv`, row, request and job of a quote appear in this order
and the row keeps the total the request computed (so a run that reads the row cannot
see a later price); `RunInv`, what each run has read is still true (its total is the
row's, the object it has put is there, a completed write is in the row); `StoreInv`,
whatever is stored or was downloaded has the row's total; and `LockInv`, a job has at
most one run with a lock, and only while it is active. With `~LockLoss` every run has
its lock, so `SingleRunInv` adds that a quote has one run, which is why nothing can
overwrite what it published. The refinement follows from these: only the first
`WritePdfKey` of a quote changes what the buyer may see.

**The leads.** `LeadInv` adds to the properties what a transaction in flight is about
to write: a timeline that is sorted and stamped in the past, an outcome exactly if
the estado it sets is cerrado. An overwritten timeline is then still sorted, though
not complete. `AuditInv` counts: events are the committed transitions, and a timeline about to be
stored shows at most one more than there are events, and only if its call is a transition that
has not been audited; a rollback removes both. `FreshInv` adds, for `Serial`, that what a call has
read is still what is committed, which overlapping would break. `HistoryInv` is all of these.

**The emails.** `SendsBounded` needs counting. A lead's emails, and its runs that may
still send (`Pending`), are together at most the number of times the job was claimed
(`Claims`); `ClaimBudget` bounds the claims by attempts and recoveries. A run that
lost its lock stays pending, its replacement has a claim of its own.

**The media.** `ReadyHasVariants` needs `RunInv`: what a run has uploaded is still there
when it writes the row. Another run may have overwritten it meanwhile, but nothing
deletes; and `StoreInv`, no object is enlarged, whoever wrote it, takes care of the
widths. `ProducerInv` orders the bytes, the row and the job for either producer.
`SingleRunInv` strengthens `RunInv`, for locks that last, from "some object is there" to
"this run's image is there", which makes `CompletedIsOneImage` inductive. `AssetInv`
says that everything ever stored for an asset comes from the one file of the catalog,
so a second run of the seed or of the worker rewrites it with itself. It needs no
locks, hence `Reseed` is stronger than what `media_seed` checks.

**The units.** `AuditEveryChange` and the others are about the step that commits, but what a
transaction commits was read, shown and written long before. `GridInv` therefore follows an
operator by its program counter (`PhaseInv`): what was read, and what was shown, is what a new look
at the grid would show in every cell that nobody else has written since (`ReadInv`); what
has been written and is still to be written is what was shown, nothing is forgotten, and the file
is valid (`WriteInv`); and a unit has as many audit events in the transaction as columns
written (`EventInv`). The step of another operator that commits moves cells into `movidas`, and
the invariant says nothing of these. The lemma that carries the argument is `PropuestaLocal`: what a
dry run or a bulk preview says of a cell depends on that cell alone. The order of the writes
matters to `FileIsLeft`: with a unit twice in a file the last row wins.

**The leads board.** `SettledBoardIsServer` is about states in which nothing is in flight, so the
invariant has to say what is in flight and where it will end. It is stated with the number of
timeline entries of a row, which no mutation lowers: the server is never behind a row the page holds,
snapshots and fetched rows included (`ServerAhead`); each of these rows was once the
server's (`Genuine`), except for a card moved by a call under way or a lead in doubt
(`RowsGenuine`); and an entry the page does not have yet belongs to a call whose answer is still to
be heard, to a fetch in flight that has read it, or to an error on screen (`NoEntryMissing`). A
genuine row with no entry missing is the server's row. To find `doubt` was the work: each
disjunct of it was a counterexample to a first form of `BoardInv`.

**The units page and the editor.** `SavedInv` follows a write from the answer (it is with the
server) to the refetch the answer started (it is in what was read) to the screen; that
the refetch cancels the fetch in flight is what makes the middle part inductive. `CallsInv` and
`DeletesInv`: of the calls of one observer one is heard. `WizardInv` and `BulkInv`: a read of a
file, a dry run and a preview under way are about what is chosen now, unless `mixed` or `touched`.
All pages share their variables, so `TabInv` states each invariant for its page and a tab
stays at the page it is at.

**The simulator.** `CotizadorInv` adds to the properties that a compute under way is of the
selection (`ComputesASelection`), which with the cancelled flag gives `QuietPageIsCurrent`, and that
a create is under way only while nothing is retained (`CreatesFromNothing`), so that no answer
overwrites a retained quote: the step that `OneQuotePerSelection` forbids. That the answer
is of the selection is not part of it, and is false (section 5).

**The partitions.** `PartitionsInv` says a partition is the month of its name, whence names that
differ and ranges that are disjoint; that what DEFAULT holds has no partition and is not of
the future, so that a run whose month has not passed is not refused; and that a run which ended
well left the partition of the following month behind.

**The engine.** `EngineInv` says that an answer is one `ResolveAndQuote` gives for the request; what
it amounts to is arithmetic. The sums of schedules are folds over functions. The
induction theorems of the library take an operator as a parameter, which the provers cannot
instantiate, so the facts about sums (`SumSplits`: an element and the rest, `SumOfEqual`, `SumDrifts`,
`SumPermutes`) are shown from a smallest counterexample: a set of naturals has a least element, and a
set of subsets of a finite set a minimal one (`NatLeast`, `SetLeast`, from the well-founded
orders of the library). `FinanciadoCases` and `RefuerzosLoop` follow `calcQuote` branch by branch,
the checks inside the loop over the refuerzos included; `IncompleteAnswer` and `CompleteAnswer` say
which requests get there.

**The polygon.** A list of vertices is turned by a permutation of its edges, or reversed by one that
also swaps the ends of each edge. `CrossingEdges` shows by expanding the products that the
orientations the code compares are the numbers of Cramer's rule, that the order and the
direction of two edges do not matter, and that edges with a common vertex never cross; hence the
code, which skips these and looks at each other pair once, finds every crossing
(`SelfIntersects`). The area is a sum over the edges, so `SumPermutes` gives the same
area or its opposite, and the bound on it is symmetric.

**Only model-checked**: the liveness properties `JobsFinish`, `NotifiedOrFailed`, `ConfirmedSettles`
and `SeedReturns` (they need fairness, which is beyond the prover), and the two violations.

## 5. Where the code and its comments disagree

* `leads_overlap`: two overlapping mutations of one lead, the second UPDATE overwrites
  the committed entry of the first. `leads.ts:2` and `:218` call the timeline
  append-only. A `SELECT ... FOR UPDATE`, or appending in SQL, would do.
* `cotizador`: `quotes.create` of selection A is in flight when the buyer moves to B. The effect
  forgets the retained quote, then the answer retains A's quote under B
  (`cotizador-simulator.tsx:249`), and B's buttons share and download it. `:235-236` promises
  the emission "for the current selection", and `:288-289` that a change invalidates it.

Noted while modelling, without a run of their own. The pipelines:

* `confirmUpload` replies `enqueued: true` although the job id is taken by a failed job and
  nothing is queued; the media can never be processed (`routers/media.ts:64-66`).
* Resend accepts the email, the worker dies or the answer is lost, the retry sends again.
  `lead-email.ts:7-8` promises exactly one send; `SendsBounded` is what holds.
* With lost locks `PublishedIsFrozen` fails: a run that lost its lock overwrites the document
  another run has published. `quote-pdf.ts:61` calls it frozen forever.
* A retry after the upload but before the write-back does render again, with the date
  of that day (`quote-pdf.ts:31-32` says a retry never re-renders). Nobody has seen the
  first document then, so `PublishedIsFrozen` holds.
* An original replaced between two attempts makes the retry write another image
  (`media-store.ts:36-37` says the same content).
* `bulk.ts:5-6`: the previewed rows are exactly what will be written. The apply
  computes them again from the prices of that moment, hence the condition in
  `ConfirmedIsApplied`.
* `units.ts:331-332`: an unchanged re-import is a no-op. With a unit twice in the file
  it is not: each row is compared with the grid as read, so a second import writes the
  other row's value back. `ImportLeavesFile` speaks of files with one row per unit.
* The producers' Redis connection has `maxRetriesPerRequest: null`: with Redis down
  `queue.add` neither returns nor fails, while `quotes.ts:216-217` expects an error.

The simulator (`cotizador-simulator.tsx`):

* A compute that fails keeps the pair of the previous selection on screen, and a PDF or WhatsApp
  trigger then clears the message that said so. `QuietPageIsCurrent` speaks of computes that
  ended well.
* The WhatsApp text takes its quote from the retained reference and its numbers from the
  screen; under the violation above they are of two selections.
* Contado and financiado are two calls, so a price change between them shows one of each version.
* A new request finds the cached answer of the last poll and opens its URL, which may have expired.

The panel:

* Board: a move does not cancel the fetches in flight, so one may put the card back until the next
  refetch. Of two overlapping moves only the later is heard: the first, if refused, is
  neither reverted nor reported. A rollback restores a snapshot over rows fetched since, nothing
  refetches after an error, and a lost answer rolls back a move that was committed. `doubt`
  is exactly this list. A rollback after a failed refetch also takes the error page away and shows the
  old rows as if they were current (`leads-board.tsx`, `onError`). Any success closes the prompt of another lead; the form of the first
  lead remounts with the board and loses its "Listo".
* Units: the 900 ms timer of a save sets a cell idle that is being edited again. A draft left
  untouched while the price changed elsewhere is committed on blur and writes the old price back. The drop zone
  stays active during the dry run, so a report of one file may be shown over another
  (`import-wizard.tsx:60-62` says it cannot); the bulk form stays editable while its preview is
  computed. `ConfirmsTheReviewed` excludes these two, by `mixed` and `touched`. Two clicks on
  "Aplicar" during the read of the file import it twice, and cancelling then does not stop it. A failed
  background fetch unmounts the page's modals. After a lost answer the message that nothing was
  written is false.
* Hotspots: the delete dialog can be cancelled while its call is in flight; the answer then clears
  the drawing of whatever target is selected by then. `DrawingIsKept` excludes it by
  `cancelled`. Discarding over a stale cache can bring back a deleted polygon. A double click
  leaves a duplicate vertex. Touching and collinear edges are not crossings, by design.

The calculations:

* A balance smaller than the number of instalments gives instalments of zero and everything on
  the last. A refuerzo of a negative amount is accepted.
* A month whose run was missed or failed has its rows in DEFAULT, and its partition can never be
  created while they are there; the monthly job is not retried.

## 6. What is not modelled, and the plan

Not modelled, and why: organizations, invitations and authentication (Better Auth
holds the state), the picker and the public pages (reads only), observability, UI kit,
build and deployment files (no behaviour of their own). `registerAndEnqueue` has no
caller. Row-level security appears as rows that do not exist. The role is read in a transaction
before the mutation's own, so a demotion in between does not stop it; nothing in the
repository relies on the contrary. `serialize.ts` formats and `compare.ts` subtracts what
`QuoteEngine` computes. While Redis is unreachable the producers' push neither returns nor
fails, which in the models is a request that takes no further step.

What could follow:

1. `CotizadorClient` composed with `QuotePdf` instead of `PublishPdf`, and `LeadsBoard` with
   `Leads`: the same buyer's or operator's request through both. What one side assumes of the other
   is stated on both sides already (`PdfDelivery`, the entries of a row), which is what a proof of the
   composition would use.
2. `UnitsPage` and `UnitGrid`: that the rows the page counts writes of are the cells of the grid.
3. An identificador that two units of a project share, which the schema allows: the import takes
   the last of them.
