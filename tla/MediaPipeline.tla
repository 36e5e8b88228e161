---------------------------- MODULE MediaPipeline ----------------------------
(***************************************************************************)
(* From an uploaded original to the variants a public page may show.  Two  *)
(* producers feed one BullMQ queue: the media router (createUpload, a      *)
(* direct PUT by the client, confirmUpload) and the seed (seedMedia).  The *)
(* worker's processMedia downloads the original once, renders, uploads the *)
(* variants one after the other and writes the row in one UPDATE.          *)
(*                                                                         *)
(* Data: an image is told apart by its width.  A variant is its width; its *)
(* AVIF and WebP files, uploaded next to each other, count as one object.  *)
(* A row holds the image its variants map, blurhash and dimensions come    *)
(* from, or NoImage for the '{}' before processing.                        *)
(***************************************************************************)
EXTENDS JobQueue

CONSTANTS
    Uploads,      \* media ids minted by createUpload
    Assets,       \* deterministic media ids of the seed's catalog
    Runs,         \* concurrent processor runs of the worker (concurrency 2)
    NoMedia, NoImage,
    Widths,       \* widths of the originals
    Breakpoints,  \* candidate srcset widths
    LockLoss      \* may a live run lose its BullMQ lock?

ASSUME MediaAssumption ==
    /\ Uploads \cap Assets = {} /\ NoMedia \notin Uploads \cup Assets
    /\ Widths \subseteq Nat \ {0} /\ Widths # {}
    /\ Breakpoints \subseteq Nat \ {0}
    /\ \E b \in Breakpoints : \A c \in Breakpoints : c <= b
    /\ NoImage \notin Nat
    /\ LockLoss \in BOOLEAN

VARIABLES
    originals,    \* the R2 objects under originalKey
    rows,         \* the media table
    objects,      \* the R2 objects under variantKey
    jobs,         \* the media-processing queue, by mediaId
    conf,         \* the confirmUpload calls
    seed,         \* the seedMedia process
    runs          \* the worker's processor runs

store == <<originals, rows, objects>>
vars == <<originals, rows, objects, jobs, conf, seed, runs>>

Media == Uploads \cup Assets

\* Bytes that sharp refuses: the presigned PUT does not look at them.
Garbage == 0
Original == Widths \cup {Garbage, NoImage}

Largest == CHOOSE b \in Breakpoints : \A c \in Breakpoints : c <= b

pickWidths(src) ==
    IF src = 0 THEN {}
    ELSE {b \in Breakpoints : b < src} \cup {IF src < Largest THEN src ELSE Largest}

Variants == Breakpoints \cup Widths

\* image and faltan: the rendered original, and the variants still to upload.
Run == [pc: {"idle", "get", "put", "ack"}, media: Media \cup {NoMedia},
        image: Widths \cup {NoImage}, faltan: SUBSET Variants, lock: BOOLEAN]
IdleRun == [pc |-> "idle", media |-> NoMedia, image |-> NoImage,
            faltan |-> {}, lock |-> FALSE]
FreshRun(m) == [pc |-> "get", media |-> m, image |-> NoImage,
                faltan |-> {}, lock |-> TRUE]

\* left: assets not visited yet; pending: assets this run waits for.
Seed == [pc: {"off", "loop", "put", "insert", "add"}, asset: Assets \cup {NoMedia},
         left: SUBSET Assets, pending: SUBSET Assets]
SeedOff == [pc |-> "off", asset |-> NoMedia, left |-> {}, pending |-> {}]

TypeOK ==
    /\ originals \in [Media -> Original]
    /\ rows \in [Media -> [alta: BOOLEAN, image: Widths \cup {NoImage}]]
    /\ objects \in [Media -> [Variants -> Widths \cup {NoImage}]]
    /\ jobs \in [Media -> Job]
    /\ conf \in [Uploads -> {"idle", "checked", "enqueued"}]
    /\ seed \in Seed
    /\ runs \in [Runs -> Run]

Init ==
    /\ originals = [m \in Media |-> NoImage]
    /\ rows = [m \in Media |-> [alta |-> FALSE, image |-> NoImage]]
    /\ objects = [m \in Media |-> [w \in Variants |-> NoImage]]
    /\ jobs = [m \in Media |-> NoJob]
    /\ conf = [u \in Uploads |-> "idle"]
    /\ seed = SeedOff
    /\ runs = [r \in Runs |-> IdleRun]

\* isReady of resolveMedia, variantsReady of the seed: the map is not empty.
Ready(m) == rows[m].image # NoImage

-----------------------------------------------------------------------------
(* The upload of a browser.                                                *)

\* createUpload: mint the id, insert the row, presign the PUT.
CreateUpload(u) ==
    /\ ~rows[u].alta
    /\ rows' = [rows EXCEPT ![u].alta = TRUE]
    /\ UNCHANGED <<originals, objects, jobs, conf, seed, runs>>

\* The client uses the presigned URL, valid for an hour, as often as it likes.
PutOriginal(u, image) ==
    /\ rows[u].alta
    /\ originals' = [originals EXCEPT ![u] = image]
    /\ UNCHANGED <<rows, objects, jobs, conf, seed, runs>>

\* Mutant of HeadOriginal: no object is no reason to stop.
HeadOriginal_Unchecked(u) ==
    /\ conf[u] # "checked" /\ rows[u].alta
    /\ conf' = [conf EXCEPT ![u] = "checked"]
    /\ UNCHANGED <<store, jobs, seed, runs>>

\* confirmUpload up to the HeadObject: NOT_FOUND without a row,
\* PRECONDITION_FAILED without bytes.  It may be called again and again.
HeadOriginal(u) ==
    /\ conf[u] # "checked" /\ rows[u].alta /\ originals[u] # NoImage
    /\ conf' = [conf EXCEPT ![u] = "checked"]
    /\ UNCHANGED <<store, jobs, seed, runs>>

\* The push to Redis and the reply enqueued: true.
EnqueueMedia(u) ==
    /\ conf[u] = "checked"
    /\ jobs' = [jobs EXCEPT ![u] = AddJob(@)]
    /\ conf' = [conf EXCEPT ![u] = "enqueued"]
    /\ UNCHANGED <<store, seed, runs>>

ConfirmFails(u) ==
    /\ conf[u] = "checked"
    /\ conf' = [conf EXCEPT ![u] = "idle"]
    /\ UNCHANGED <<store, jobs, seed, runs>>

-----------------------------------------------------------------------------
(* seedMedia: one asset after the other, then the bounded-poll waiter.     *)

SeedStart ==
    /\ seed.pc = "off"
    /\ seed' = [SeedOff EXCEPT !.pc = "loop", !.left = Assets]
    /\ UNCHANGED <<store, jobs, conf, runs>>

\* Skip-if-processed.
SeedCheck(a) ==
    /\ seed.pc = "loop" /\ a \in seed.left
    /\ seed' = [seed EXCEPT !.left = @ \ {a}, !.asset = a,
                            !.pc = IF Ready(a) THEN "loop" ELSE "put"]
    /\ UNCHANGED <<store, jobs, conf, runs>>

\* The catalog's file, the same bytes in every run of the seed.
Catalog == CHOOSE w \in Widths : TRUE

SeedPut ==
    /\ seed.pc = "put"
    /\ originals' = [originals EXCEPT ![seed.asset] = Catalog]
    /\ seed' = [seed EXCEPT !.pc = "insert"]
    /\ UNCHANGED <<rows, objects, jobs, conf, runs>>

\* Mutant of SeedInsert: an upsert instead of onConflictDoNothing.
SeedInsert_Upsert ==
    /\ seed.pc = "insert"
    /\ rows' = [rows EXCEPT ![seed.asset] = [alta |-> TRUE, image |-> NoImage]]
    /\ seed' = [seed EXCEPT !.pc = "add"]
    /\ UNCHANGED <<originals, objects, jobs, conf, runs>>

\* INSERT .. ON CONFLICT DO NOTHING.
SeedInsert ==
    /\ seed.pc = "insert"
    /\ rows' = [rows EXCEPT ![seed.asset].alta = TRUE]
    /\ seed' = [seed EXCEPT !.pc = "add"]
    /\ UNCHANGED <<originals, objects, jobs, conf, runs>>

SeedAdd ==
    /\ seed.pc = "add"
    /\ jobs' = [jobs EXCEPT ![seed.asset] = AddJob(@)]
    /\ seed' = [seed EXCEPT !.pc = "loop", !.pending = @ \cup {seed.asset}]
    /\ UNCHANGED <<store, conf, runs>>

SeedPoll(a) ==
    /\ seed.pc = "loop" /\ seed.left = {} /\ a \in seed.pending /\ Ready(a)
    /\ seed' = [seed EXCEPT !.pending = @ \ {a}]
    /\ UNCHANGED <<store, jobs, conf, runs>>

\* Mutant of SeedEnds: the waiter has no deadline.
SeedEnds_NoDeadline ==
    /\ seed.pc = "loop" /\ seed.left = {} /\ seed.pending = {}
    /\ seed' = SeedOff
    /\ UNCHANGED <<store, jobs, conf, runs>>

\* Nothing left to wait for, or the deadline passed and it throws.
SeedEnds ==
    /\ seed.pc = "loop" /\ seed.left = {}
    /\ seed' = SeedOff
    /\ UNCHANGED <<store, jobs, conf, runs>>

\* Any await throws, or the one-shot process is killed.
SeedFails ==
    /\ seed.pc # "off"
    /\ seed' = SeedOff
    /\ UNCHANGED <<store, jobs, conf, runs>>

-----------------------------------------------------------------------------
(* The worker: processMedia, one run per claimed job.                      *)

Idle(r) == runs[r].pc = "idle"
Locked(m) == \E r \in Runs : runs[r].media = m /\ runs[r].lock

Claim(r, m) ==
    /\ Idle(r) /\ jobs[m].st = "waiting"
    /\ jobs' = [jobs EXCEPT ![m] = ClaimJob(@)]
    /\ runs' = [runs EXCEPT ![r] = FreshRun(m)]
    /\ UNCHANGED <<store, conf, seed>>

\* Mutant of GetOriginal: a retry resumes with the variants that are missing.
GetOriginal_Resume(r) == LET image == originals[runs[r].media] IN
    /\ runs[r].pc = "get" /\ image \in Widths
    /\ runs' = [runs EXCEPT ![r].pc = "put", ![r].image = image,
         ![r].faltan = {w \in pickWidths(image) : objects[runs[r].media][w] = NoImage}]
    /\ UNCHANGED <<store, jobs, conf, seed>>

\* getOriginal and renderVariants: what is uploaded later comes from these
\* bytes.  No body, or bytes sharp refuses, throw: RunFails.
GetOriginal(r) == LET image == originals[runs[r].media] IN
    /\ runs[r].pc = "get" /\ image \in Widths
    /\ runs' = [runs EXCEPT ![r].pc = "put", ![r].image = image,
                            ![r].faltan = pickWidths(image)]
    /\ UNCHANGED <<store, jobs, conf, seed>>

\* Mutant of PutVariant: the upload is not awaited, so its failure goes unseen.
PutVariant_NotAwaited(r, w) ==
    /\ runs[r].pc = "put" /\ w \in runs[r].faltan
    /\ \A v \in runs[r].faltan : w <= v
    /\ \/ objects' = [objects EXCEPT ![runs[r].media][w] = runs[r].image]
       \/ UNCHANGED objects
    /\ runs' = [runs EXCEPT ![r].faltan = @ \ {w}]
    /\ UNCHANGED <<originals, rows, jobs, conf, seed>>

\* Ascending widths, one after the other, overwriting in place.
PutVariant(r, w) ==
    /\ runs[r].pc = "put" /\ w \in runs[r].faltan
    /\ \A v \in runs[r].faltan : w <= v
    /\ objects' = [objects EXCEPT ![runs[r].media][w] = runs[r].image]
    /\ runs' = [runs EXCEPT ![r].faltan = @ \ {w}]
    /\ UNCHANGED <<originals, rows, jobs, conf, seed>>

WriteVariants(r) ==
    /\ runs[r].pc = "put" /\ runs[r].faltan = {}
    /\ rows' = [rows EXCEPT ![runs[r].media].image = runs[r].image]
    /\ runs' = [runs EXCEPT ![r].pc = "ack"]
    /\ UNCHANGED <<originals, objects, jobs, conf, seed>>

\* The processor returned.  Without the lock BullMQ refuses the result.
CompleteRun(r) == LET m == runs[r].media IN
    /\ runs[r].pc = "ack"
    /\ jobs' = IF runs[r].lock THEN [jobs EXCEPT ![m] = CompleteJob(@)] ELSE jobs
    /\ runs' = [runs EXCEPT ![r] = IdleRun]
    /\ UNCHANGED <<store, conf, seed>>

\* An await throws, also after its effect took place.
RunFails(r) == LET m == runs[r].media IN
    /\ ~Idle(r)
    /\ jobs' = IF runs[r].lock THEN [jobs EXCEPT ![m] = FailJob(@)] ELSE jobs
    /\ runs' = [runs EXCEPT ![r] = IdleRun]
    /\ UNCHANGED <<store, conf, seed>>

\* getOriginal or sharp throws: no body, or bytes that are no image.
RefuseOriginal(r) ==
    /\ runs[r].pc = "get" /\ originals[runs[r].media] \notin Widths
    /\ RunFails(r)

WorkerCrash ==
    /\ \E r \in Runs : ~Idle(r)
    /\ runs' = [r \in Runs |-> IdleRun]
    /\ UNCHANGED <<store, jobs, conf, seed>>

LoseLock(r) ==
    /\ LockLoss /\ runs[r].lock
    /\ runs' = [runs EXCEPT ![r].lock = FALSE]
    /\ UNCHANGED <<store, jobs, conf, seed>>

RecoverStalled(m) ==
    /\ jobs[m].st = "active" /\ ~Locked(m)
    /\ jobs' = [jobs EXCEPT ![m] = StallJob(@)]
    /\ UNCHANGED <<store, conf, seed, runs>>

-----------------------------------------------------------------------------
Upload(u) ==
    \/ CreateUpload(u)
    \/ \E image \in Widths \cup {Garbage} : PutOriginal(u, image)
    \/ HeadOriginal(u) \/ EnqueueMedia(u) \/ ConfirmFails(u)

\* What the seed does when no await fails.
SeedStep ==
    \/ \E a \in Assets : SeedCheck(a) \/ SeedPoll(a)
    \/ SeedPut \/ SeedInsert \/ SeedAdd \/ SeedEnds

\* What a run does when nothing goes wrong.
Process(r) ==
    \/ GetOriginal(r) \/ RefuseOriginal(r)
    \/ \E w \in Variants : PutVariant(r, w)
    \/ WriteVariants(r) \/ CompleteRun(r)

Next ==
    \/ \E u \in Uploads : Upload(u)
    \/ SeedStart \/ SeedStep \/ SeedFails
    \/ \E r \in Runs : Process(r) \/ RunFails(r) \/ LoseLock(r)
    \/ \E r \in Runs, m \in Media : Claim(r, m)
    \/ \E m \in Media : RecoverStalled(m)
    \/ WorkerCrash

Spec == Init /\ [][Next]_vars

\* The container restarts the worker, which keeps consuming; the seed runs on
\* once started.  No fairness is assumed of the client.
WorkerFairness ==
    /\ \A r \in Runs : WF_vars(Process(r))
    /\ \A m \in Media : WF_vars(\E r \in Runs : Claim(r, m))
    /\ \A m \in Media : WF_vars(RecoverStalled(m))

FairSpec == Spec /\ WorkerFairness /\ WF_vars(SeedStep)

-----------------------------------------------------------------------------
(* Properties.                                                             *)

\* No page ever gets a srcset with a broken link: each variant named by a row
\* is in R2, none of them enlarged, in every order of crashes, retries,
\* overlapping runs and new originals (media.ts:136-142).
ReadyHasVariants ==
    \A m \in Media : Ready(m) =>
      \A w \in pickWidths(rows[m].image) :
        objects[m][w] # NoImage /\ w <= objects[m][w]

\* A job exists only for a row with its original in R2, whichever producer
\* enqueued it: getOriginal "should always find them" (media-runtime.ts:26-28).
JobFindsOriginal ==
    \A m \in Media : jobs[m].st # "absent" => rows[m].alta /\ originals[m] # NoImage

\* When BullMQ reports a media job completed, the row and all its variants
\* come from one and the same original, even if an earlier attempt uploaded
\* some of another (media.ts:116-118).
CompletedIsOneImage ==
    \A m \in Media : jobs[m].st = "completed" =>
      /\ Ready(m)
      /\ \A w \in pickWidths(rows[m].image) : objects[m][w] = rows[m].image

\* A re-run of the seed changes nothing of a processed asset, also when the
\* worker finishes between the seed's check and its insert
\* (seed/media.ts:8-13).
ReseedIsIdempotent ==
    [][\A a \in Assets : Ready(a) =>
         rows'[a] = rows[a] /\ objects'[a] = objects[a]]_vars

\* A confirmed upload is shown or its job ends up failed, where the failed
\* handler reported it; bytes that are no image cannot keep it busy for ever.
ConfirmedSettles ==
    \A u \in Uploads : conf[u] = "enqueued" ~> Ready(u) \/ jobs[u].st = "failed"

\* The bounded-poll waiter comes to an end whatever becomes of its jobs.
SeedReturns == seed.pc # "off" ~> seed.pc = "off"

-----------------------------------------------------------------------------
(* The inductive invariant behind the safety properties.                   *)

\* Every lock belongs to one run of an active job, and no job overdraws.
LockInv ==
    /\ \A r \in Runs : Idle(r) => runs[r].media = NoMedia /\ ~runs[r].lock
    /\ \A r \in Runs : ~Idle(r) =>
         runs[r].media \in Media /\ jobs[runs[r].media].st # "absent"
    /\ \A r \in Runs : runs[r].lock => jobs[runs[r].media].st = "active"
    /\ \A r, s \in Runs : runs[r].lock /\ runs[s].lock /\ runs[r].media = runs[s].media => r = s
    /\ \A m \in Media : HasBudget(jobs[m])

\* What the two producers have established before they add a job.
ProducerInv ==
    /\ \A u \in Uploads : conf[u] # "idle" => rows[u].alta /\ originals[u] # NoImage
    /\ seed.pc \in {"put", "insert", "add"} => seed.asset \in Assets
    /\ seed.pc \in {"insert", "add"} => originals[seed.asset] # NoImage
    /\ seed.pc = "add" => rows[seed.asset].alta

\* No object is an enlarged one, whichever run uploaded it.
StoreInv ==
    \A m \in Media : \A w \in Variants :
      objects[m][w] # NoImage => w <= objects[m][w]

\* What a run has uploaded is there, be it from this run or a later one.
RunInv == \A r \in Runs : LET run == runs[r] IN run.pc \in {"put", "ack"} =>
    /\ run.image \in Widths /\ run.faltan \subseteq pickWidths(run.image)
    /\ \A w \in pickWidths(run.image) \ run.faltan : objects[run.media][w] # NoImage
    /\ run.pc = "ack" => run.faltan = {} /\ Ready(run.media)

\* While no lock is lost, the objects of a job are those of its only run.
SingleRunInv == ~LockLoss => \A r \in Runs : LET run == runs[r] IN
    /\ ~Idle(r) => run.lock
    /\ run.pc \in {"put", "ack"} =>
         \A w \in pickWidths(run.image) \ run.faltan : objects[run.media][w] = run.image
    /\ run.pc = "ack" => rows[run.media].image = run.image

\* All that is ever stored for an asset of the seed comes from one file.
AssetInv ==
    /\ \A a \in Assets :
         /\ originals[a] \in {NoImage, Catalog} /\ rows[a].image \in {NoImage, Catalog}
         /\ \A w \in Variants : objects[a][w] \in {NoImage, Catalog}
         /\ Ready(a) => rows[a].alta
    /\ \A r \in Runs : runs[r].media \in Assets /\ runs[r].pc \in {"put", "ack"} =>
         runs[r].image = Catalog

\* The inductive invariant: all of it together (worker/lib/media.ts:90-142).
MediaInv ==
    /\ TypeOK /\ LockInv /\ ProducerInv /\ StoreInv /\ RunInv /\ SingleRunInv /\ AssetInv
    /\ ReadyHasVariants /\ JobFindsOriginal
    /\ ~LockLoss => CompletedIsOneImage

=============================================================================
