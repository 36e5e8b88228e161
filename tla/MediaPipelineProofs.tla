------------------------ MODULE MediaPipelineProofs ------------------------
(***************************************************************************)
(* Proofs about MediaPipeline for any number of uploads, assets and runs,  *)
(* any widths and breakpoints, and any limit of attempts and recoveries.   *)
(***************************************************************************)
EXTENDS MediaPipeline, JobQueueProofs

-----------------------------------------------------------------------------
(* The widths of the variants.                                             *)

\* The variants of an original are never wider than it.
LEMMA PickWidths ==
    ASSUME NEW src \in Widths
    PROVE  /\ pickWidths(src) \subseteq Variants
           /\ \A w \in pickWidths(src) : w <= src
<1>1. Largest \in Breakpoints /\ \A c \in Breakpoints : c <= Largest
  BY MediaAssumption DEF Largest
<1>2. src \in Nat \ {0} /\ Breakpoints \subseteq Nat
  BY MediaAssumption
<1>3. Largest \in Nat
  BY <1>1, <1>2
<1>4. pickWidths(src) = {b \in Breakpoints : b < src}
                          \cup {IF src < Largest THEN src ELSE Largest}
  BY <1>2 DEF pickWidths
<1>5. pickWidths(src) \subseteq Variants
  BY <1>1, <1>4 DEF Variants
<1>6. ASSUME NEW w \in pickWidths(src) PROVE w <= src
  <2>1. CASE w \in Breakpoints /\ w < src
    BY <1>2, <2>1
  <2>2. CASE w = IF src < Largest THEN src ELSE Largest
    BY <1>2, <1>3, <2>2
  <2>3. QED
    BY <1>4, <1>6, <2>1, <2>2
<1>7. QED
  BY <1>5, <1>6

LEMMA CatalogWidth == Catalog \in Widths /\ Catalog # NoImage
  BY MediaAssumption DEF Catalog

-----------------------------------------------------------------------------
(* Types.                                                                  *)

\* The fields of a run that its steps assign keep it well typed.
LEMMA RunUpdate ==
    ASSUME NEW f \in [Runs -> Run], NEW r \in Runs,
           NEW pc \in {"idle", "get", "put", "ack"}, NEW image \in Widths \cup {NoImage},
           NEW faltan \in SUBSET Variants, NEW lock \in BOOLEAN
    PROVE  /\ [f EXCEPT ![r].pc = pc] \in [Runs -> Run]
           /\ [f EXCEPT ![r].lock = lock] \in [Runs -> Run]
           /\ [f EXCEPT ![r].faltan = faltan] \in [Runs -> Run]
           /\ [f EXCEPT ![r].pc = pc, ![r].image = image, ![r].faltan = faltan]
                \in [Runs -> Run]
<1> DEFINE Faltan == SUBSET Variants
<1>1. Run = [pc: {"idle", "get", "put", "ack"}, media: Media \cup {NoMedia},
             image: Widths \cup {NoImage}, faltan: Faltan, lock: BOOLEAN]
  BY DEF Run
<1>2. faltan \in Faltan
  OBVIOUS
<1> HIDE DEF Faltan
<1>3. [f EXCEPT ![r].pc = pc] \in [Runs -> Run]
  BY <1>1
<1>4. [f EXCEPT ![r].lock = lock] \in [Runs -> Run]
  BY <1>1
<1>5. [f EXCEPT ![r].faltan = faltan] \in [Runs -> Run]
  BY <1>1, <1>2
<1>6. [f EXCEPT ![r].pc = pc, ![r].image = image, ![r].faltan = faltan] \in [Runs -> Run]
  BY <1>1, <1>2, ZenonT(30)
<1>7. QED
  BY <1>3, <1>4, <1>5, <1>6

LEMMA TypeStep == TypeOK /\ LockInv /\ ProducerInv /\ [Next]_vars => TypeOK'
<1> SUFFICES ASSUME TypeOK, LockInv, ProducerInv, [Next]_vars PROVE TypeOK'
  OBVIOUS
<1> USE MediaAssumption
<1>0. Uploads \subseteq Media /\ Assets \subseteq Media /\ IdleRun \in Run /\ SeedOff \in Seed
  BY DEF Media, IdleRun, Run, SeedOff, Seed
<1>1. ASSUME NEW u \in Uploads, Upload(u) PROVE TypeOK'
  <2>1. CASE CreateUpload(u)
    BY <1>0, <2>1 DEF CreateUpload, TypeOK
  <2>2. ASSUME NEW image \in Widths \cup {Garbage}, PutOriginal(u, image) PROVE TypeOK'
    BY <1>0, <2>2 DEF PutOriginal, TypeOK, Original
  <2>3. CASE HeadOriginal(u)
    BY <2>3 DEF HeadOriginal, TypeOK, store
  <2>4. CASE EnqueueMedia(u)
    <3>1. jobs' \in [Media -> Job]
      BY <1>0, <2>4, JobOps DEF EnqueueMedia, TypeOK
    <3>2. QED
      BY <2>4, <3>1 DEF EnqueueMedia, TypeOK, store
  <2>5. CASE ConfirmFails(u)
    BY <2>5 DEF ConfirmFails, TypeOK, store
  <2>6. QED
    BY <1>1, <2>1, <2>2, <2>3, <2>4, <2>5 DEF Upload
<1>2. CASE SeedStart
  BY <1>0, <1>2 DEF SeedStart, TypeOK, store, SeedOff, Seed
<1>3. ASSUME NEW a \in Assets, SeedCheck(a) \/ SeedPoll(a) PROVE TypeOK'
  <2>1. seed.left \ {a} \in SUBSET Assets /\ seed.pending \ {a} \in SUBSET Assets
    BY DEF TypeOK, Seed
  <2>2. CASE SeedCheck(a)
    <3>1. PICK pc \in {"loop", "put"} : seed' = [seed EXCEPT
             !.left = seed.left \ {a}, !.asset = a, !.pc = pc]
      BY <2>2 DEF SeedCheck
    <3>2. seed' \in Seed
      BY <2>1, <3>1 DEF TypeOK, Seed
    <3>3. QED
      BY <2>2, <3>2 DEF SeedCheck, TypeOK, store
  <2>3. CASE SeedPoll(a)
    <3>1. seed' \in Seed
      BY <2>1, <2>3 DEF SeedPoll, TypeOK, Seed
    <3>2. QED
      BY <2>3, <3>1 DEF SeedPoll, TypeOK, store
  <2>4. QED
    BY <1>3, <2>2, <2>3
<1>4. CASE SeedPut
  <2>1. originals' \in [Media -> Original]
    BY <1>4, CatalogWidth DEF SeedPut, TypeOK, Original
  <2>2. seed' \in Seed
    BY <1>4 DEF SeedPut, TypeOK, Seed
  <2>3. QED
    BY <1>4, <2>1, <2>2 DEF SeedPut, TypeOK
<1>5. CASE SeedInsert
  <2>1. rows' \in [Media -> [alta: BOOLEAN, image: Widths \cup {NoImage}]]
    BY <1>5 DEF SeedInsert, TypeOK
  <2>2. seed' \in Seed
    BY <1>5 DEF SeedInsert, TypeOK, Seed
  <2>3. QED
    BY <1>5, <2>1, <2>2 DEF SeedInsert, TypeOK
<1>6. CASE SeedAdd
  <2>1. seed.asset \in Assets
    BY <1>6 DEF SeedAdd, ProducerInv
  <2>2. jobs' \in [Media -> Job]
    BY <1>0, <1>6, <2>1, JobOps DEF SeedAdd, TypeOK
  <2>3. seed' \in Seed
    BY <1>6, <2>1 DEF SeedAdd, TypeOK, Seed
  <2>4. QED
    BY <1>6, <2>2, <2>3 DEF SeedAdd, TypeOK, store
<1>7. CASE SeedEnds \/ SeedFails
  BY <1>0, <1>7 DEF SeedEnds, SeedFails, TypeOK, store
<1>8. ASSUME NEW r \in Runs, Process(r) \/ RunFails(r) \/ LoseLock(r) PROVE TypeOK'
  <2> DEFINE m == runs[r].media
  <2>1. ~Idle(r) => m \in Media
    BY DEF LockInv
  <2>2. CASE GetOriginal(r)
    <3>1. PICK image \in Widths : runs' = [runs EXCEPT ![r].pc = "put", ![r].image = image,
                                                       ![r].faltan = pickWidths(image)]
      BY <2>2 DEF GetOriginal
    <3>2. pickWidths(image) \in SUBSET Variants
      BY PickWidths
    <3>3. runs' \in [Runs -> Run]
      BY <3>1, <3>2, RunUpdate DEF TypeOK
    <3>4. QED
      BY <2>2, <3>3 DEF GetOriginal, TypeOK, store
  <2>3. ASSUME NEW w \in Variants, PutVariant(r, w) PROVE TypeOK'
    <3>1. runs' \in [Runs -> Run]
      <4>1. runs[r].faltan \ {w} \in SUBSET Variants
        BY DEF TypeOK, Run
      <4>2. runs' = [runs EXCEPT ![r].faltan = runs[r].faltan \ {w}]
        BY <2>3 DEF PutVariant
      <4>3. QED
        BY <4>1, <4>2, RunUpdate, ZenonT(30) DEF TypeOK
    <3>2. runs[r].image \in Widths \cup {NoImage}
      BY DEF TypeOK, Run
    <3>3. objects' \in [Media -> [Variants -> Widths \cup {NoImage}]]
      BY <2>3, <3>2 DEF PutVariant, TypeOK
    <3>4. QED
      BY <2>3, <3>1, <3>3 DEF PutVariant, TypeOK
  <2>4. CASE WriteVariants(r)
    <3>1. runs' \in [Runs -> Run]
      BY <2>4, RunUpdate DEF WriteVariants, TypeOK
    <3>2. runs[r].image \in Widths \cup {NoImage}
      BY DEF TypeOK, Run
    <3>3. rows' \in [Media -> [alta: BOOLEAN, image: Widths \cup {NoImage}]]
      BY <2>4, <3>2 DEF WriteVariants, TypeOK
    <3>4. QED
      BY <2>4, <3>1, <3>3 DEF WriteVariants, TypeOK
  <2>5. CASE CompleteRun(r)
    <3>1. m \in Media
      BY <2>1, <2>5 DEF CompleteRun, Idle
    <3>2. jobs' \in [Media -> Job]
      BY <2>5, <3>1, JobOps DEF CompleteRun, TypeOK
    <3>3. QED
      BY <1>0, <2>5, <3>2 DEF CompleteRun, TypeOK, store
  <2>6. CASE RunFails(r)
    <3>1. m \in Media
      BY <2>1, <2>6 DEF RunFails
    <3>2. runs[r].lock => FailJob(jobs[m]) \in Job
      BY <3>1, JobFails DEF LockInv, TypeOK
    <3>3. jobs' \in [Media -> Job]
      BY <2>6, <3>1, <3>2 DEF RunFails, TypeOK
    <3>4. QED
      BY <1>0, <2>6, <3>3 DEF RunFails, TypeOK, store
  <2>7. CASE LoseLock(r)
    <3>1. runs' \in [Runs -> Run]
      BY <2>7, RunUpdate DEF LoseLock, TypeOK
    <3>2. QED
      BY <2>7, <3>1 DEF LoseLock, TypeOK, store
  <2>8. QED
    BY <1>8, <2>2, <2>3, <2>4, <2>5, <2>6, <2>7 DEF Process, RefuseOriginal
<1>9. ASSUME NEW r \in Runs, NEW m \in Media, Claim(r, m) PROVE TypeOK'
  <2>1. jobs' \in [Media -> Job]
    BY <1>9, JobOps DEF Claim, TypeOK
  <2>2. FreshRun(m) \in Run
    BY DEF FreshRun, Run
  <2>3. QED
    BY <1>9, <2>1, <2>2 DEF Claim, TypeOK, store
<1>10. ASSUME NEW m \in Media, RecoverStalled(m) PROVE TypeOK'
  <2>1. StallJob(jobs[m]) \in Job
    BY <1>10, JobStalls DEF RecoverStalled, LockInv, TypeOK
  <2>2. QED
    BY <1>10, <2>1 DEF RecoverStalled, TypeOK, store
<1>11. CASE WorkerCrash
  BY <1>0, <1>11 DEF WorkerCrash, TypeOK, store
<1>12. CASE UNCHANGED vars
  BY <1>12 DEF vars, TypeOK
<1>13. QED
  BY <1>1, <1>2, <1>3, <1>4, <1>5, <1>6, <1>7, <1>8, <1>9, <1>10, <1>11, <1>12
     DEF Next, SeedStep

-----------------------------------------------------------------------------
(* Locks and budgets.                                                      *)

\* A step in which no run takes a job or leaves one.
SameJobs == \A s \in Runs :
    /\ runs'[s].media = runs[s].media
    /\ runs'[s].lock => runs[s].lock
    /\ (runs'[s].pc = "idle") <=> (runs[s].pc = "idle")

\* The steps of a run between its claim and its end, with its lock or not.
LEMMA ProcessKeepsJobs ==
    ASSUME TypeOK, NEW r \in Runs,
           \/ GetOriginal(r) \/ \E w \in Variants : PutVariant(r, w)
           \/ WriteVariants(r) \/ LoseLock(r)
    PROVE  SameJobs /\ UNCHANGED jobs
<1>1. \A s \in Runs \ {r} : runs'[s] = runs[s]
  BY DEF GetOriginal, PutVariant, WriteVariants, LoseLock, TypeOK
<1>2. /\ runs'[r].media = runs[r].media
      /\ runs'[r].lock => runs[r].lock
      /\ (runs'[r].pc = "idle") <=> (runs[r].pc = "idle")
  <2>1. runs[r] = [pc |-> runs[r].pc, media |-> runs[r].media, image |-> runs[r].image,
                   faltan |-> runs[r].faltan, lock |-> runs[r].lock]
    BY DEF TypeOK, Run
  <2>2. CASE GetOriginal(r)
    <3>1. PICK image, faltan : runs' = [runs EXCEPT ![r].pc = "put", ![r].image = image,
                                                    ![r].faltan = faltan]
      BY <2>2 DEF GetOriginal
    <3>2. runs[r].pc = "get"
      BY <2>2 DEF GetOriginal
    <3>3. QED
      BY <2>1, <3>1, <3>2 DEF TypeOK
  <2>3. ASSUME NEW w \in Variants, PutVariant(r, w)
         PROVE  /\ runs'[r].media = runs[r].media
                /\ runs'[r].lock => runs[r].lock
                /\ (runs'[r].pc = "idle") <=> (runs[r].pc = "idle")
    BY <2>1, <2>3 DEF PutVariant, TypeOK
  <2>4. CASE WriteVariants(r)
    BY <2>1, <2>4 DEF WriteVariants, TypeOK
  <2>5. CASE LoseLock(r)
    BY <2>1, <2>5 DEF LoseLock, TypeOK
  <2>6. QED
    BY <2>2, <2>3, <2>4, <2>5
<1>3. UNCHANGED jobs
  BY DEF GetOriginal, PutVariant, WriteVariants, LoseLock
<1>4. QED
  BY <1>1, <1>2, <1>3 DEF SameJobs

\* A run that ends, leaving its job in a state with budget that is not
\* active if it held the lock and untouched if it did not.
LEMMA RunEndKeepsLocks ==
    ASSUME TypeOK, LockInv, NEW r \in Runs, ~Idle(r), NEW j \in Job,
           j.st \notin {"absent", "active"}, HasBudget(j),
           runs' = [runs EXCEPT ![r] = IdleRun],
           jobs' = IF runs[r].lock THEN [jobs EXCEPT ![runs[r].media] = j] ELSE jobs
    PROVE  LockInv'
<1>1. runs[r].media \in Media
  BY DEF LockInv
<1>2. \A s \in Runs \ {r} : runs'[s] = runs[s]
  BY DEF TypeOK
<1>3. runs'[r].pc = "idle" /\ runs'[r].media = NoMedia /\ ~runs'[r].lock
  BY DEF TypeOK, IdleRun
<1>4. CASE runs[r].lock
  <2>1. \A m \in Media : IF m = runs[r].media THEN jobs'[m] = j ELSE jobs'[m] = jobs[m]
    BY <1>1, <1>4 DEF TypeOK
  <2>2. QED
    BY <1>2, <1>3, <1>4, <2>1 DEF LockInv, Idle
<1>5. CASE ~runs[r].lock
  <2>1. jobs' = jobs
    BY <1>5
  <2>2. QED
    BY <1>2, <1>3, <2>1 DEF LockInv, Idle
<1>6. QED
  BY <1>4, <1>5

\* Neither producer disturbs a job that is already there.
LEMMA AddKeepsLocks ==
    ASSUME TypeOK, LockInv, NEW m \in Media,
           jobs' = [jobs EXCEPT ![m] = AddJob(jobs[m])], UNCHANGED runs
    PROVE  LockInv'
<1>1. /\ HasBudget(jobs'[m])
      /\ jobs[m].st # "absent" => jobs'[m] = jobs[m]
      /\ \A n \in Media \ {m} : jobs'[n] = jobs[n]
  BY JobOps DEF TypeOK, LockInv
<1>2. \A r \in Runs : runs[r].lock => runs[r].media \in Media
  BY DEF LockInv
<1>3. QED
  BY <1>1, <1>2 DEF LockInv, Idle

LEMMA LockStep == TypeOK /\ LockInv /\ ProducerInv /\ [Next]_vars => LockInv'
<1> SUFFICES ASSUME TypeOK, LockInv, ProducerInv, [Next]_vars PROVE LockInv'
  OBVIOUS
<1>0. Uploads \subseteq Media /\ Assets \subseteq Media
  BY DEF Media
<1>1. ASSUME UNCHANGED <<runs, jobs>> PROVE LockInv'
  BY <1>1 DEF LockInv, Idle
<1>2. ASSUME NEW u \in Uploads, EnqueueMedia(u) PROVE LockInv'
  BY <1>0, <1>2, AddKeepsLocks DEF EnqueueMedia
<1>3. CASE SeedAdd
  BY <1>0, <1>3, AddKeepsLocks DEF SeedAdd, ProducerInv
<1>4. ASSUME NEW r \in Runs, GetOriginal(r) \/ (\E w \in Variants : PutVariant(r, w))
                               \/ WriteVariants(r) \/ LoseLock(r)
      PROVE  LockInv'
  BY <1>4, ProcessKeepsJobs DEF LockInv, SameJobs, Idle
<1>5. ASSUME NEW r \in Runs, CompleteRun(r) PROVE LockInv'
  <2>1. ~Idle(r) /\ runs[r].media \in Media /\ jobs[runs[r].media] \in Job
    BY <1>5 DEF CompleteRun, Idle, LockInv, TypeOK
  <2>2. QED
    BY <1>5, <2>1, JobOps, RunEndKeepsLocks DEF CompleteRun
<1>6. ASSUME NEW r \in Runs, RunFails(r) PROVE LockInv'
  <2>1. ~Idle(r) /\ runs[r].media \in Media /\ jobs[runs[r].media] \in Job
    BY <1>6 DEF RunFails, LockInv, TypeOK
  <2>2. CASE runs[r].lock
    <3>1. jobs[runs[r].media].st = "active" /\ HasBudget(jobs[runs[r].media])
      BY <2>1, <2>2 DEF LockInv
    <3>2. QED
      BY <1>6, <2>1, <3>1, JobFails, RunEndKeepsLocks DEF RunFails
  <2>3. CASE ~runs[r].lock
    BY <1>6, <2>1, <2>3, JobOps, RunEndKeepsLocks DEF RunFails
  <2>4. QED
    BY <2>2, <2>3
<1>7. ASSUME NEW r \in Runs, NEW m \in Media, Claim(r, m) PROVE LockInv'
  <2>1. runs'[r].pc = "get" /\ runs'[r].media = m /\ runs'[r].lock
    BY <1>7 DEF Claim, TypeOK, FreshRun
  <2>2. \A s \in Runs \ {r} : runs'[s] = runs[s]
    BY <1>7 DEF Claim, TypeOK
  <2>3. \A s \in Runs : runs[s].lock => runs[s].media # m
    BY <1>7 DEF Claim, LockInv
  <2>4. jobs'[m].st = "active" /\ HasBudget(jobs'[m])
    BY <1>7, JobOps DEF Claim, TypeOK, LockInv, Finished
  <2>5. \A n \in Media \ {m} : jobs'[n] = jobs[n]
    BY <1>7 DEF Claim, TypeOK
  <2>6. QED
    BY <2>1, <2>2, <2>3, <2>4, <2>5 DEF LockInv, Idle
<1>8. ASSUME NEW m \in Media, RecoverStalled(m) PROVE LockInv'
  <2>1. HasBudget(jobs'[m]) /\ jobs'[m].st # "absent"
    BY <1>8, JobStalls DEF RecoverStalled, LockInv, TypeOK
  <2>2. \A n \in Media \ {m} : jobs'[n] = jobs[n]
    BY <1>8 DEF RecoverStalled, TypeOK
  <2>3. \A s \in Runs : runs[s].lock => runs[s].media # m
    BY <1>8 DEF RecoverStalled, Locked
  <2>4. runs' = runs
    BY <1>8 DEF RecoverStalled
  <2>5. QED
    BY <2>1, <2>2, <2>3, <2>4 DEF LockInv, Idle
<1>9. CASE WorkerCrash
  <2>1. \A s \in Runs : runs'[s].pc = "idle" /\ runs'[s].media = NoMedia /\ ~runs'[s].lock
    BY <1>9 DEF WorkerCrash, IdleRun
  <2>2. jobs' = jobs
    BY <1>9 DEF WorkerCrash
  <2>3. QED
    BY <2>1, <2>2 DEF LockInv, Idle
<1>10. QED
  BY <1>1, <1>2, <1>3, <1>4, <1>5, <1>6, <1>7, <1>8, <1>9
     DEF Next, vars, Upload, CreateUpload, PutOriginal, HeadOriginal, ConfirmFails,
         SeedStart, SeedStep, SeedCheck, SeedPut, SeedInsert, SeedPoll, SeedEnds,
         SeedFails, Process, RefuseOriginal

-----------------------------------------------------------------------------
(* The producers: nothing is enqueued before its row and its original.     *)

\* Originals and rows are never deleted.
OnlyMore == \A m \in Media :
    /\ originals[m] # NoImage => originals'[m] # NoImage
    /\ rows[m].alta => rows'[m].alta

LEMMA RowsStay == TypeOK /\ ProducerInv /\ [Next]_vars => OnlyMore
<1> SUFFICES ASSUME TypeOK, ProducerInv, [Next]_vars PROVE OnlyMore
  OBVIOUS
<1>1. ASSUME UNCHANGED <<originals, rows>> PROVE OnlyMore
  BY <1>1 DEF OnlyMore
<1>2. ASSUME NEW u \in Uploads, CreateUpload(u) PROVE OnlyMore
  BY <1>2 DEF CreateUpload, TypeOK, OnlyMore
<1>3. ASSUME NEW u \in Uploads, NEW image \in Widths \cup {Garbage}, PutOriginal(u, image)
      PROVE  OnlyMore
  <2>1. image # NoImage
    BY MediaAssumption DEF Garbage
  <2>2. QED
    BY <1>3, <2>1 DEF PutOriginal, TypeOK, OnlyMore
<1>4. CASE SeedPut
  BY <1>4, CatalogWidth DEF SeedPut, TypeOK, OnlyMore
<1>5. CASE SeedInsert
  BY <1>5 DEF SeedInsert, TypeOK, OnlyMore
<1>6. ASSUME NEW r \in Runs, WriteVariants(r) PROVE OnlyMore
  BY <1>6 DEF WriteVariants, TypeOK, OnlyMore
<1>7. QED
  BY <1>1, <1>2, <1>3, <1>4, <1>5, <1>6
     DEF Next, vars, store, Upload, HeadOriginal, EnqueueMedia, ConfirmFails, SeedStart,
         SeedStep, SeedCheck, SeedAdd, SeedPoll, SeedEnds, SeedFails, Process, GetOriginal,
         RefuseOriginal, PutVariant, CompleteRun, RunFails, LoseLock, Claim,
         RecoverStalled, WorkerCrash

\* A step of neither producer: no new job, no change of what they remember.
LEMMA NoNewJob ==
    ASSUME TypeOK, LockInv, ProducerInv, OnlyMore, JobFindsOriginal, UNCHANGED <<conf, seed>>,
           \A m \in Media : jobs'[m].st # "absent" => jobs[m].st # "absent"
    PROVE  (ProducerInv /\ JobFindsOriginal)'
<1>1. ProducerInv'
  BY DEF ProducerInv, OnlyMore, Media
<1>2. JobFindsOriginal'
  BY DEF JobFindsOriginal, OnlyMore
<1>3. QED
  BY <1>1, <1>2

LEMMA ProducerStep ==
    TypeOK /\ LockInv /\ ProducerInv /\ JobFindsOriginal /\ [Next]_vars
      => (ProducerInv /\ JobFindsOriginal)'
<1> SUFFICES ASSUME TypeOK, LockInv, ProducerInv, JobFindsOriginal, [Next]_vars
             PROVE  (ProducerInv /\ JobFindsOriginal)'
  OBVIOUS
<1>0. OnlyMore /\ Uploads \subseteq Media /\ Assets \subseteq Media
  BY RowsStay DEF Media
<1>1. ASSUME UNCHANGED <<conf, seed, jobs>> PROVE (ProducerInv /\ JobFindsOriginal)'
  BY <1>0, <1>1, NoNewJob
<1>2. ASSUME UNCHANGED <<seed, jobs>>, NEW u \in Uploads, NEW c,
             c # "idle" => rows[u].alta /\ originals[u] # NoImage,
             conf' = [conf EXCEPT ![u] = c]
      PROVE  (ProducerInv /\ JobFindsOriginal)'
  <2>1. \A v \in Uploads : conf'[v] # "idle" => rows'[v].alta /\ originals'[v] # NoImage
    BY <1>0, <1>2 DEF ProducerInv, OnlyMore, TypeOK
  <2>2. QED
    BY <1>0, <1>2, <2>1 DEF ProducerInv, JobFindsOriginal, OnlyMore
<1>3. ASSUME NEW u \in Uploads, HeadOriginal(u) \/ ConfirmFails(u)
      PROVE  (ProducerInv /\ JobFindsOriginal)'
  <2>1. CASE HeadOriginal(u)
    BY <1>2, <2>1 DEF HeadOriginal
  <2>2. CASE ConfirmFails(u)
    BY <1>2, <2>2 DEF ConfirmFails
  <2>3. QED
    BY <1>3, <2>1, <2>2
<1>4. ASSUME NEW u \in Uploads, EnqueueMedia(u) PROVE (ProducerInv /\ JobFindsOriginal)'
  <2>1. rows'[u].alta /\ originals'[u] # NoImage
    BY <1>0, <1>4 DEF EnqueueMedia, ProducerInv, OnlyMore
  <2>2. \A m \in Media \ {u} : jobs'[m] = jobs[m]
    BY <1>4 DEF EnqueueMedia, TypeOK
  <2>3. \A v \in Uploads \ {u} : conf'[v] = conf[v]
    BY <1>4 DEF EnqueueMedia, TypeOK
  <2>4. JobFindsOriginal'
    BY <1>0, <2>1, <2>2 DEF JobFindsOriginal, OnlyMore
  <2>5. ProducerInv'
    <3>1. \A v \in Uploads : conf'[v] # "idle" => rows'[v].alta /\ originals'[v] # NoImage
      BY <1>0, <2>1, <2>3 DEF ProducerInv, OnlyMore
    <3>2. UNCHANGED <<originals, rows, seed>>
      BY <1>4 DEF EnqueueMedia, store
    <3>3. QED
      BY <3>1, <3>2 DEF ProducerInv
  <2>6. QED
    BY <2>4, <2>5
<1>5. ASSUME UNCHANGED <<conf, jobs>>,
             seed'.pc \in {"put", "insert", "add"} => seed'.asset \in Assets,
             seed'.pc \in {"insert", "add"} => originals'[seed'.asset] # NoImage,
             seed'.pc = "add" => rows'[seed'.asset].alta
      PROVE  (ProducerInv /\ JobFindsOriginal)'
  BY <1>0, <1>5 DEF ProducerInv, JobFindsOriginal, OnlyMore
<1>6. ASSUME SeedStart \/ SeedEnds \/ SeedFails PROVE (ProducerInv /\ JobFindsOriginal)'
  <2>1. UNCHANGED <<conf, jobs>> /\ seed'.pc \in {"off", "loop"}
    <3>1. CASE SeedStart
      BY <3>1 DEF SeedStart, SeedOff
    <3>2. CASE SeedEnds \/ SeedFails
      BY <3>2 DEF SeedEnds, SeedFails, SeedOff
    <3>3. QED
      BY <1>6, <3>1, <3>2
  <2>2. QED
    BY <1>5, <2>1
<1>7. ASSUME NEW a \in Assets, SeedCheck(a) \/ SeedPoll(a)
      PROVE  (ProducerInv /\ JobFindsOriginal)'
  <2>1. UNCHANGED <<conf, jobs>> /\ seed'.pc \in {"loop", "put"}
    BY <1>7 DEF SeedCheck, SeedPoll, TypeOK, Seed
  <2>2. seed'.pc = "put" => seed'.asset \in Assets
    BY <1>7 DEF SeedCheck, SeedPoll, TypeOK, Seed
  <2>3. QED
    BY <1>5, <2>1, <2>2
<1>8. CASE SeedPut
  <2>1. seed'.pc = "insert" /\ seed'.asset = seed.asset /\ UNCHANGED <<conf, jobs>>
    BY <1>8 DEF SeedPut, TypeOK, Seed
  <2>2. seed.asset \in Assets
    BY <1>8 DEF SeedPut, ProducerInv
  <2>3. originals'[seed.asset] # NoImage
    BY <1>0, <1>8, <2>2, CatalogWidth DEF SeedPut, TypeOK
  <2>4. QED
    BY <1>5, <2>1, <2>2, <2>3
<1>9. CASE SeedInsert
  <2>1. seed'.pc = "add" /\ seed'.asset = seed.asset /\ UNCHANGED <<conf, jobs>>
    BY <1>9 DEF SeedInsert, TypeOK, Seed
  <2>2. seed.asset \in Assets /\ originals[seed.asset] # NoImage
    BY <1>9 DEF SeedInsert, ProducerInv
  <2>3. rows'[seed.asset].alta /\ originals'[seed.asset] # NoImage
    BY <1>0, <1>9, <2>2 DEF SeedInsert, TypeOK
  <2>4. QED
    BY <1>5, <2>1, <2>2, <2>3
<1>10. CASE SeedAdd
  <2>1. seed.asset \in Assets /\ rows'[seed.asset].alta /\ originals'[seed.asset] # NoImage
    BY <1>0, <1>10 DEF SeedAdd, ProducerInv, OnlyMore
  <2>2. \A m \in Media \ {seed.asset} : jobs'[m] = jobs[m]
    BY <1>10 DEF SeedAdd, TypeOK
  <2>3. JobFindsOriginal'
    BY <1>0, <2>1, <2>2 DEF JobFindsOriginal, OnlyMore
  <2>4. seed'.pc = "loop" /\ UNCHANGED conf
    BY <1>10 DEF SeedAdd, TypeOK, Seed
  <2>5. ProducerInv'
    BY <1>0, <2>4 DEF ProducerInv, OnlyMore
  <2>6. QED
    BY <2>3, <2>5
<1>11. ASSUME NEW r \in Runs, CompleteRun(r) \/ RunFails(r)
       PROVE  (ProducerInv /\ JobFindsOriginal)'
  <2>1. runs[r].media \in Media /\ jobs[runs[r].media].st # "absent"
    BY <1>11 DEF CompleteRun, RunFails, LockInv, Idle
  <2>2. \A m \in Media \ {runs[r].media} : jobs'[m] = jobs[m]
    BY <1>11, <2>1 DEF CompleteRun, RunFails, TypeOK
  <2>3. UNCHANGED <<conf, seed>>
    BY <1>11 DEF CompleteRun, RunFails
  <2>4. QED
    BY <1>0, <2>1, <2>2, <2>3, NoNewJob
<1>12. ASSUME NEW m \in Media, (\E r \in Runs : Claim(r, m)) \/ RecoverStalled(m)
       PROVE  (ProducerInv /\ JobFindsOriginal)'
  <2>1. jobs[m].st # "absent" /\ UNCHANGED <<conf, seed>>
    BY <1>12 DEF Claim, RecoverStalled
  <2>2. \A n \in Media \ {m} : jobs'[n] = jobs[n]
    BY <1>12 DEF Claim, RecoverStalled, TypeOK
  <2>3. QED
    BY <1>0, <2>1, <2>2, NoNewJob
<1>13. QED
  BY <1>1, <1>3, <1>4, <1>6, <1>7, <1>8, <1>9, <1>10, <1>11, <1>12
     DEF Next, vars, store, Upload, CreateUpload, PutOriginal, SeedStep, Process,
         GetOriginal, RefuseOriginal, PutVariant, WriteVariants, LoseLock, WorkerCrash

-----------------------------------------------------------------------------
(* The store: what the runs write, with or without their locks.            *)

\* A step that leaves runs, objects and the variants of every row alone.
SameStore == /\ UNCHANGED <<runs, objects>>
             /\ \A m \in Media : rows'[m].image = rows[m].image

\* All but the steps of the worker's runs are such.
LEMMA OthersKeepStore ==
    TypeOK /\ [Next]_vars =>
      \/ SameStore
      \/ \E r \in Runs : \/ GetOriginal(r) \/ \E w \in Variants : PutVariant(r, w)
                         \/ WriteVariants(r) \/ CompleteRun(r) \/ RunFails(r)
                         \/ LoseLock(r) \/ \E m \in Media : Claim(r, m)
      \/ WorkerCrash
<1> SUFFICES ASSUME TypeOK, [Next]_vars,
                    ~ \E r \in Runs : \/ GetOriginal(r) \/ \E w \in Variants : PutVariant(r, w)
                         \/ WriteVariants(r) \/ CompleteRun(r) \/ RunFails(r)
                         \/ LoseLock(r) \/ \E m \in Media : Claim(r, m),
                    ~WorkerCrash
             PROVE  SameStore
  OBVIOUS
<1>1. ASSUME UNCHANGED <<runs, rows, objects>> PROVE SameStore
  BY <1>1 DEF SameStore
<1>2. ASSUME NEW u \in Uploads, CreateUpload(u) PROVE SameStore
  BY <1>2 DEF CreateUpload, TypeOK, SameStore
<1>3. CASE SeedInsert
  BY <1>3 DEF SeedInsert, TypeOK, SameStore
<1>4. QED
  BY <1>1, <1>2, <1>3
     DEF Next, vars, store, Upload, PutOriginal, HeadOriginal, EnqueueMedia, ConfirmFails,
         SeedStart, SeedStep, SeedCheck, SeedPut, SeedAdd, SeedPoll, SeedEnds, SeedFails,
         Process, RefuseOriginal, RecoverStalled

\* The three invariants of the store, which hold whatever becomes of locks.
StoreInvs == StoreInv /\ RunInv /\ ReadyHasVariants

\* A step after which every run is in its step, or has nothing to show yet.
LEMMA RunsKeepStore ==
    ASSUME StoreInvs, UNCHANGED <<rows, objects>>,
           \A s \in Runs : \/ runs'[s].pc \in {"idle", "get"}
                           \/ /\ runs'[s].pc = runs[s].pc /\ runs'[s].media = runs[s].media
                              /\ runs'[s].image = runs[s].image
                              /\ runs'[s].faltan = runs[s].faltan
    PROVE  StoreInvs'
  BY DEF StoreInvs, StoreInv, RunInv, ReadyHasVariants, Ready

LEMMA StoreStep ==
    TypeOK /\ LockInv /\ StoreInvs /\ [Next]_vars => StoreInvs'
<1> SUFFICES ASSUME TypeOK, LockInv, StoreInvs, [Next]_vars PROVE StoreInvs'
  OBVIOUS
<1>1. CASE SameStore
  <2>1. UNCHANGED <<runs, objects>> /\ \A m \in Media : rows'[m].image = rows[m].image
    BY <1>1 DEF SameStore
  <2>2. \A r \in Runs : runs[r].pc \in {"put", "ack"} => runs[r].media \in Media
    BY DEF LockInv, Idle
  <2>3. RunInv'
    BY <2>1, <2>2 DEF StoreInvs, RunInv, Ready
  <2>4. QED
    BY <2>1, <2>3 DEF StoreInvs, StoreInv, ReadyHasVariants, Ready
<1>2. ASSUME NEW r \in Runs, GetOriginal(r) PROVE StoreInvs'
  <2>1. PICK image \in Widths : runs' = [runs EXCEPT ![r].pc = "put", ![r].image = image,
                                                     ![r].faltan = pickWidths(image)]
    BY <1>2 DEF GetOriginal
  <2>2. /\ runs'[r].pc = "put" /\ runs'[r].image = image
        /\ runs'[r].faltan = pickWidths(image)
    BY <2>1 DEF TypeOK, Run
  <2>3. \A s \in Runs \ {r} : runs'[s] = runs[s]
    BY <2>1 DEF TypeOK
  <2>4. UNCHANGED <<rows, objects>>
    BY <1>2 DEF GetOriginal, store
  <2>5. RunInv'
    BY <2>2, <2>3, <2>4 DEF StoreInvs, RunInv, Ready
  <2>6. QED
    BY <2>4, <2>5 DEF StoreInvs, StoreInv, ReadyHasVariants, Ready
<1>3. ASSUME NEW r \in Runs, NEW w \in Variants, PutVariant(r, w) PROVE StoreInvs'
  <2> DEFINE m == runs[r].media
             image == runs[r].image
  <2>1. /\ m \in Media /\ image \in Widths /\ image # NoImage
        /\ w \in runs[r].faltan /\ runs[r].faltan \subseteq pickWidths(image)
    BY <1>3, MediaAssumption DEF PutVariant, StoreInvs, RunInv, LockInv, Idle
  <2>2. w <= image
    BY <2>1, PickWidths
  <2>3. /\ objects'[m][w] = image
        /\ \A n \in Media : \A v \in Variants :
             n # m \/ v # w => objects'[n][v] = objects[n][v]
    BY <1>3, <2>1 DEF PutVariant, TypeOK
  <2>4. \A n \in Media : \A v \in Variants :
          objects[n][v] # NoImage => objects'[n][v] # NoImage
    BY <2>1, <2>3
  <2>5. /\ runs'[r].pc = runs[r].pc /\ runs'[r].media = m /\ runs'[r].image = image
        /\ runs'[r].faltan = runs[r].faltan \ {w} /\ runs[r].pc = "put"
    BY <1>3 DEF PutVariant, TypeOK, Run
  <2>6. \A s \in Runs \ {r} : runs'[s] = runs[s]
    BY <1>3 DEF PutVariant, TypeOK
  <2>7. UNCHANGED rows
    BY <1>3 DEF PutVariant
  <2> HIDE DEF m, image
  <2>8. StoreInv'
    BY <2>2, <2>3 DEF StoreInvs, StoreInv
  <2>9. ReadyHasVariants'
    <3>1. ASSUME NEW n \in Media, Ready(n) PROVE rows[n].image \in Widths
      BY <3>1 DEF Ready, TypeOK
    <3>2. ASSUME NEW n \in Media, Ready(n), NEW v \in pickWidths(rows[n].image)
          PROVE  objects'[n][v] # NoImage /\ v <= objects'[n][v]
      <4>1. v \in Variants
        BY <3>1, <3>2, PickWidths
      <4>2. objects[n][v] # NoImage
        BY <3>2 DEF StoreInvs, ReadyHasVariants
      <4>3. QED
        BY <2>4, <2>8, <4>1, <4>2 DEF StoreInv
    <3>3. QED
      BY <2>7, <3>2 DEF ReadyHasVariants, Ready
  <2>10. RunInv'
    <3>1. ASSUME NEW s \in Runs, runs[s].pc \in {"put", "ack"},
                 NEW v \in pickWidths(runs[s].image) \ runs[s].faltan
          PROVE  objects'[runs[s].media][v] # NoImage
      <4>1. runs[s].media \in Media /\ runs[s].image \in Widths
        BY <3>1 DEF StoreInvs, RunInv, LockInv, Idle
      <4>2. v \in Variants /\ objects[runs[s].media][v] # NoImage
        BY <3>1, <4>1, PickWidths DEF StoreInvs, RunInv
      <4>3. QED
        BY <2>4, <4>1, <4>2
    <3>2. \A v \in pickWidths(image) \ runs'[r].faltan : objects'[m][v] # NoImage
      BY <2>1, <2>3, <2>5, <3>1 DEF m, image
    <3>3. runs'[r].faltan \subseteq pickWidths(image)
      BY <2>1, <2>5
    <3>4. QED
      BY <2>1, <2>5, <2>6, <2>7, <3>1, <3>2, <3>3 DEF StoreInvs, RunInv, Ready
  <2>11. QED
    BY <2>8, <2>9, <2>10 DEF StoreInvs
<1>4. ASSUME NEW r \in Runs, WriteVariants(r) PROVE StoreInvs'
  <2> DEFINE m == runs[r].media
             image == runs[r].image
  <2>1. /\ m \in Media /\ image \in Widths /\ image # NoImage /\ runs[r].faltan = {}
        /\ \A w \in pickWidths(image) : objects[m][w] # NoImage
    BY <1>4, MediaAssumption DEF WriteVariants, StoreInvs, RunInv, LockInv, Idle
  <2>2. rows'[m].image = image /\ \A n \in Media \ {m} : rows'[n].image = rows[n].image
    BY <1>4, <2>1 DEF WriteVariants, TypeOK
  <2>3. UNCHANGED objects
    BY <1>4 DEF WriteVariants
  <2>4. /\ runs'[r].pc = "ack" /\ runs'[r].media = m /\ runs'[r].image = image
        /\ runs'[r].faltan = {}
    BY <1>4, <2>1 DEF WriteVariants, TypeOK, Run
  <2>5. \A s \in Runs \ {r} : runs'[s] = runs[s]
    BY <1>4 DEF WriteVariants, TypeOK
  <2> HIDE DEF m, image
  <2>6. rows'[m].image # NoImage
        /\ \A n \in Media : rows[n].image # NoImage => rows'[n].image # NoImage
    BY <2>1, <2>2
  <2>7. RunInv'
    <3>1. \A s \in Runs : runs[s].pc = "ack" => rows'[runs[s].media].image # NoImage
      BY <2>6 DEF StoreInvs, RunInv, LockInv, Idle, Ready
    <3>2. QED
      BY <2>1, <2>3, <2>4, <2>5, <2>6, <3>1 DEF StoreInvs, RunInv, Ready
  <2>8. ReadyHasVariants'
    <3>1. ASSUME NEW w \in pickWidths(image)
          PROVE  objects'[m][w] # NoImage /\ w <= objects'[m][w]
      BY <2>1, <2>3, <3>1, PickWidths DEF StoreInvs, StoreInv
    <3>2. QED
      BY <2>2, <2>3, <3>1 DEF StoreInvs, ReadyHasVariants, Ready
  <2>9. QED
    BY <2>3, <2>7, <2>8 DEF StoreInvs, StoreInv
<1>5. ASSUME NEW r \in Runs, CompleteRun(r) \/ RunFails(r) PROVE StoreInvs'
  <2>1. runs' = [runs EXCEPT ![r] = IdleRun] /\ UNCHANGED <<rows, objects>>
    BY <1>5 DEF CompleteRun, RunFails, store
  <2>2. runs'[r].pc = "idle" /\ \A s \in Runs \ {r} : runs'[s] = runs[s]
    BY <2>1 DEF TypeOK, IdleRun
  <2>3. QED
    BY <2>1, <2>2, RunsKeepStore
<1>6. ASSUME NEW r \in Runs, LoseLock(r) PROVE StoreInvs'
  <2>1. UNCHANGED <<rows, objects>> /\ \A s \in Runs \ {r} : runs'[s] = runs[s]
    BY <1>6 DEF LoseLock, store, TypeOK
  <2>2. /\ runs'[r].pc = runs[r].pc /\ runs'[r].media = runs[r].media
        /\ runs'[r].image = runs[r].image /\ runs'[r].faltan = runs[r].faltan
    BY <1>6 DEF LoseLock, TypeOK, Run
  <2>3. QED
    BY <2>1, <2>2, RunsKeepStore
<1>7. ASSUME NEW r \in Runs, NEW m \in Media, Claim(r, m) PROVE StoreInvs'
  <2>1. UNCHANGED <<rows, objects>> /\ \A s \in Runs \ {r} : runs'[s] = runs[s]
    BY <1>7 DEF Claim, store, TypeOK
  <2>2. runs'[r].pc = "get"
    BY <1>7 DEF Claim, TypeOK, FreshRun
  <2>3. QED
    BY <2>1, <2>2, RunsKeepStore
<1>8. CASE WorkerCrash
  <2>1. UNCHANGED <<rows, objects>> /\ \A s \in Runs : runs'[s].pc = "idle"
    BY <1>8 DEF WorkerCrash, store, IdleRun
  <2>2. QED
    BY <2>1, RunsKeepStore
<1>9. QED
  BY OthersKeepStore, <1>1, <1>2, <1>3, <1>4, <1>5, <1>6, <1>7, <1>8

-----------------------------------------------------------------------------
(* Completed jobs, while no lock is lost.                                  *)

\* Only the return of the processor completes a job.
LEMMA CompletedByRun ==
    TypeOK /\ LockInv /\ ProducerInv /\ [Next]_vars =>
      \/ \E r \in Runs : CompleteRun(r)
      \/ \A m \in Media : jobs'[m].st = "completed" => jobs[m].st = "completed"
<1> DEFINE Kept == \A m \in Media : jobs'[m].st = "completed" => jobs[m].st = "completed"
<1> SUFFICES ASSUME TypeOK, LockInv, ProducerInv, [Next]_vars, ~ \E r \in Runs : CompleteRun(r)
             PROVE  Kept
  OBVIOUS
<1>0. Uploads \subseteq Media /\ Assets \subseteq Media
  BY DEF Media
<1>1. ASSUME NEW m \in Media, jobs' = [jobs EXCEPT ![m] = AddJob(jobs[m])] PROVE Kept
  BY <1>1, JobOps DEF TypeOK
<1>2. ASSUME NEW u \in Uploads, EnqueueMedia(u) PROVE Kept
  BY <1>0, <1>1, <1>2 DEF EnqueueMedia
<1>3. CASE SeedAdd
  BY <1>0, <1>1, <1>3 DEF SeedAdd, ProducerInv
<1>4. ASSUME NEW r \in Runs, RunFails(r) PROVE Kept
  <2>1. runs[r].media \in Media /\ (runs[r].lock => jobs[runs[r].media].st = "active")
    BY <1>4 DEF RunFails, LockInv
  <2>2. runs[r].lock => FailJob(jobs[runs[r].media]).st # "completed"
    BY <2>1, JobFails DEF LockInv, TypeOK
  <2>3. QED
    BY <1>4, <2>1, <2>2 DEF RunFails, TypeOK
<1>5. ASSUME NEW r \in Runs, NEW m \in Media, Claim(r, m) PROVE Kept
  BY <1>5, JobOps DEF Claim, TypeOK
<1>6. ASSUME NEW m \in Media, RecoverStalled(m) PROVE Kept
  <2>1. StallJob(jobs[m]).st # "completed"
    BY <1>6, JobStalls DEF RecoverStalled, LockInv, TypeOK
  <2>2. QED
    BY <1>6, <2>1 DEF RecoverStalled, TypeOK
<1>7. CASE UNCHANGED jobs
  BY <1>7
<1>8. QED
  BY <1>2, <1>3, <1>4, <1>5, <1>6, <1>7
     DEF Next, vars, Upload, CreateUpload, PutOriginal, HeadOriginal, ConfirmFails,
         SeedStart, SeedStep, SeedCheck, SeedPut, SeedInsert, SeedPoll, SeedEnds,
         SeedFails, Process, GetOriginal, RefuseOriginal, PutVariant, WriteVariants,
         LoseLock, WorkerCrash

\* With locks that last, two runs never work on the same media.
LEMMA OneRunEach ==
    ASSUME LockInv, SingleRunInv, ~LockLoss, NEW r \in Runs, ~Idle(r)
    PROVE  /\ runs[r].media \in Media /\ jobs[runs[r].media].st = "active"
           /\ \A s \in Runs \ {r} : ~Idle(s) => runs[s].media # runs[r].media
  BY DEF LockInv, SingleRunInv

\* A step after which the runs are as they were, or have shown nothing yet.
LEMMA RunsKeepSingle ==
    ASSUME SingleRunInv, LockInv, ~LockLoss, UNCHANGED objects,
           \A m \in Media : rows'[m].image = rows[m].image,
           \A s \in Runs : \/ runs'[s] = runs[s]
                           \/ runs'[s].pc = "idle"
                           \/ runs'[s].pc = "get" /\ runs'[s].lock
    PROVE  SingleRunInv'
<1>1. \A s \in Runs : ~Idle(s) => runs[s].media \in Media
  BY DEF LockInv
<1>2. QED
  BY <1>1 DEF SingleRunInv, Idle

LEMMA SingleStep ==
    TypeOK /\ LockInv /\ ProducerInv /\ StoreInvs /\ SingleRunInv
      /\ (~LockLoss => CompletedIsOneImage) /\ [Next]_vars
    => (SingleRunInv /\ (~LockLoss => CompletedIsOneImage))'
<1> SUFFICES ASSUME TypeOK, LockInv, ProducerInv, StoreInvs, SingleRunInv,
                    CompletedIsOneImage, [Next]_vars, ~LockLoss
             PROVE  SingleRunInv' /\ CompletedIsOneImage'
  BY DEF SingleRunInv
<1> DEFINE Kept == \A m \in Media : jobs'[m].st = "completed" => jobs[m].st = "completed"
<1>1. ASSUME UNCHANGED objects, \A m \in Media : rows'[m].image = rows[m].image, Kept
      PROVE  CompletedIsOneImage'
  BY <1>1 DEF CompletedIsOneImage, Ready
<1>2. ASSUME SameStore, Kept PROVE SingleRunInv' /\ CompletedIsOneImage'
  <2>1. SingleRunInv'
    BY <1>2, RunsKeepSingle DEF SameStore
  <2>2. CompletedIsOneImage'
    BY <1>1, <1>2 DEF SameStore
  <2>3. QED
    BY <2>1, <2>2
<1>3. ASSUME NEW r \in Runs, GetOriginal(r) PROVE SingleRunInv' /\ CompletedIsOneImage'
  <2>1. PICK image \in Widths : runs' = [runs EXCEPT ![r].pc = "put", ![r].image = image,
                                                     ![r].faltan = pickWidths(image)]
    BY <1>3 DEF GetOriginal
  <2>2. /\ runs'[r].pc = "put" /\ runs'[r].image = image
        /\ runs'[r].faltan = pickWidths(image) /\ runs'[r].lock
    <3>1. runs[r].lock
      BY <1>3 DEF GetOriginal, SingleRunInv, Idle
    <3>2. QED
      BY <2>1, <3>1 DEF TypeOK, Run
  <2>3. \A s \in Runs \ {r} : runs'[s] = runs[s]
    BY <2>1 DEF TypeOK
  <2>4. UNCHANGED <<rows, objects, jobs>>
    BY <1>3 DEF GetOriginal, store
  <2>5. SingleRunInv'
    BY <2>2, <2>3, <2>4 DEF SingleRunInv, Idle
  <2>6. QED
    BY <1>1, <2>4, <2>5
<1>4. ASSUME NEW r \in Runs, NEW w \in Variants, PutVariant(r, w)
      PROVE  SingleRunInv' /\ CompletedIsOneImage'
  <2> DEFINE m == runs[r].media
             image == runs[r].image
  <2>1. /\ m \in Media /\ jobs[m].st = "active" /\ runs[r].lock
        /\ \A s \in Runs \ {r} : ~Idle(s) => runs[s].media # m
    BY <1>4, OneRunEach DEF PutVariant, Idle, SingleRunInv
  <2>2. /\ objects'[m][w] = image
        /\ \A v \in Variants \ {w} : objects'[m][v] = objects[m][v]
        /\ \A n \in Media \ {m} : objects'[n] = objects[n]
    BY <1>4, <2>1 DEF PutVariant, TypeOK
  <2>3. /\ runs'[r].pc = "put" /\ runs[r].pc = "put" /\ runs'[r].media = m
        /\ runs'[r].image = image /\ runs'[r].lock
        /\ runs'[r].faltan = runs[r].faltan \ {w}
    BY <1>4, <2>1 DEF PutVariant, TypeOK, Run
  <2>4. \A s \in Runs \ {r} : runs'[s] = runs[s]
    BY <1>4 DEF PutVariant, TypeOK
  <2>5. UNCHANGED <<rows, jobs>>
    BY <1>4 DEF PutVariant
  <2>6. pickWidths(image) \subseteq Variants
    BY <2>3, PickWidths DEF StoreInvs, RunInv
  <2>7. \A v \in pickWidths(image) \ runs[r].faltan : objects[m][v] = image
    BY <2>3 DEF SingleRunInv
  <2>8. \A s \in Runs \ {r} : ~Idle(s) => objects'[runs[s].media] = objects[runs[s].media]
    BY <2>1, <2>2 DEF LockInv
  <2> HIDE DEF m, image
  <2>9. \A v \in pickWidths(image) \ runs'[r].faltan : objects'[m][v] = image
    BY <2>2, <2>3, <2>6, <2>7
  <2>10. SingleRunInv'
    BY <2>3, <2>4, <2>5, <2>8, <2>9 DEF SingleRunInv, Idle
  <2>11. CompletedIsOneImage'
    BY <2>1, <2>2, <2>5 DEF CompletedIsOneImage, Ready
  <2>12. QED
    BY <2>10, <2>11
<1>5. ASSUME NEW r \in Runs, WriteVariants(r) PROVE SingleRunInv' /\ CompletedIsOneImage'
  <2> DEFINE m == runs[r].media
             image == runs[r].image
  <2>1. /\ m \in Media /\ jobs[m].st = "active" /\ runs[r].lock
        /\ \A s \in Runs \ {r} : ~Idle(s) => runs[s].media # m
    BY <1>5, OneRunEach DEF WriteVariants, Idle, SingleRunInv
  <2>2. rows'[m].image = image /\ \A n \in Media \ {m} : rows'[n] = rows[n]
    BY <1>5, <2>1 DEF WriteVariants, TypeOK
  <2>3. /\ runs'[r].pc = "ack" /\ runs[r].pc = "put" /\ runs'[r].media = m
        /\ runs'[r].image = image /\ runs'[r].lock /\ runs'[r].faltan = runs[r].faltan
    BY <1>5, <2>1 DEF WriteVariants, TypeOK, Run
  <2>4. \A s \in Runs \ {r} : runs'[s] = runs[s]
    BY <1>5 DEF WriteVariants, TypeOK
  <2>5. UNCHANGED <<objects, jobs>>
    BY <1>5 DEF WriteVariants
  <2>6. \A v \in pickWidths(image) \ runs[r].faltan : objects[m][v] = image
    BY <2>3 DEF SingleRunInv
  <2>7. \A s \in Runs \ {r} : ~Idle(s) => rows'[runs[s].media] = rows[runs[s].media]
    BY <2>1, <2>2 DEF LockInv
  <2> HIDE DEF m, image
  <2>8. SingleRunInv'
    BY <2>2, <2>3, <2>4, <2>5, <2>6, <2>7 DEF SingleRunInv, Idle
  <2>9. CompletedIsOneImage'
    BY <2>1, <2>2, <2>5 DEF CompletedIsOneImage, Ready
  <2>10. QED
    BY <2>8, <2>9
<1>6. ASSUME NEW r \in Runs, CompleteRun(r) PROVE SingleRunInv' /\ CompletedIsOneImage'
  <2> DEFINE m == runs[r].media
  <2>1. m \in Media
    BY <1>6, OneRunEach DEF CompleteRun, Idle
  <2>2. /\ Ready(m) /\ rows[m].image = runs[r].image /\ runs[r].faltan = {}
        /\ \A w \in pickWidths(rows[m].image) : objects[m][w] = rows[m].image
    BY <1>6 DEF CompleteRun, StoreInvs, RunInv, SingleRunInv
  <2>3. \A n \in Media \ {m} : jobs'[n] = jobs[n]
    BY <1>6 DEF CompleteRun, TypeOK
  <2>4. UNCHANGED <<rows, objects>> /\ runs' = [runs EXCEPT ![r] = IdleRun]
    BY <1>6 DEF CompleteRun, store
  <2>5. \A s \in Runs : runs'[s] = runs[s] \/ runs'[s].pc = "idle"
    BY <2>4 DEF TypeOK, IdleRun
  <2> HIDE DEF m
  <2>6. CompletedIsOneImage'
    BY <2>2, <2>3, <2>4 DEF CompletedIsOneImage, Ready
  <2>7. SingleRunInv'
    BY <2>4, <2>5, RunsKeepSingle
  <2>8. QED
    BY <2>6, <2>7
<1>7. ASSUME Kept, NEW r \in Runs, RunFails(r) PROVE SingleRunInv' /\ CompletedIsOneImage'
  <2>1. UNCHANGED <<rows, objects>> /\ runs' = [runs EXCEPT ![r] = IdleRun]
    BY <1>7 DEF RunFails, store
  <2>2. \A s \in Runs : runs'[s] = runs[s] \/ runs'[s].pc = "idle"
    BY <2>1 DEF TypeOK, IdleRun
  <2>3. SingleRunInv'
    BY <2>1, <2>2, RunsKeepSingle
  <2>4. QED
    BY <1>1, <1>7, <2>1, <2>3
<1>8. ASSUME Kept, NEW r \in Runs, NEW m \in Media, Claim(r, m)
      PROVE  SingleRunInv' /\ CompletedIsOneImage'
  <2>1. UNCHANGED <<rows, objects>> /\ runs' = [runs EXCEPT ![r] = FreshRun(m)]
    BY <1>8 DEF Claim, store
  <2>2. runs'[r].pc = "get" /\ runs'[r].lock /\ \A s \in Runs \ {r} : runs'[s] = runs[s]
    BY <2>1 DEF TypeOK, FreshRun
  <2>3. SingleRunInv'
    BY <2>1, <2>2, RunsKeepSingle
  <2>4. QED
    BY <1>1, <1>8, <2>1, <2>3
<1>9. ASSUME Kept, WorkerCrash PROVE SingleRunInv' /\ CompletedIsOneImage'
  <2>1. UNCHANGED <<rows, objects>> /\ \A s \in Runs : runs'[s].pc = "idle"
    BY <1>9 DEF WorkerCrash, store, IdleRun
  <2>2. SingleRunInv'
    BY <2>1, RunsKeepSingle
  <2>3. QED
    BY <1>1, <1>9, <2>1, <2>2
<1>10. QED
  <2>1. (\E r \in Runs : CompleteRun(r)) \/ Kept
    BY CompletedByRun
  <2>2. QED
    BY OthersKeepStore, <1>2, <1>3, <1>4, <1>5, <1>6, <1>7, <1>8, <1>9, <2>1 DEF LoseLock

-----------------------------------------------------------------------------
(* The seed's assets.                                                      *)

LEMMA AssetOriginals ==
    TypeOK /\ ProducerInv /\ AssetInv /\ [Next]_vars
      => \A a \in Assets : originals'[a] \in {NoImage, Catalog}
<1> SUFFICES ASSUME TypeOK, ProducerInv, AssetInv, [Next]_vars, NEW a \in Assets
             PROVE  originals'[a] \in {NoImage, Catalog}
  OBVIOUS
<1>0. originals[a] \in {NoImage, Catalog} /\ a \in Media /\ a \notin Uploads
  BY MediaAssumption DEF AssetInv, Media
<1>1. ASSUME NEW u \in Uploads, NEW image, PutOriginal(u, image)
      PROVE  originals'[a] = originals[a]
  BY <1>0, <1>1 DEF PutOriginal, TypeOK
<1>2. ASSUME SeedPut PROVE originals'[a] \in {originals[a], Catalog}
  BY <1>0, <1>2 DEF SeedPut, TypeOK
<1>3. CASE UNCHANGED originals
  BY <1>0, <1>3
<1>4. QED
  BY <1>0, <1>1, <1>2, <1>3
     DEF Next, vars, store, Upload, CreateUpload, HeadOriginal, EnqueueMedia, ConfirmFails,
         SeedStart, SeedStep, SeedCheck, SeedInsert, SeedAdd, SeedPoll, SeedEnds,
         SeedFails, Process, GetOriginal, RefuseOriginal, PutVariant, WriteVariants,
         CompleteRun, RunFails, LoseLock, Claim, RecoverStalled, WorkerCrash

\* What a step of the worker may do to the store, seen from an asset.
LEMMA AssetStore ==
    TypeOK /\ LockInv /\ ProducerInv /\ JobFindsOriginal /\ AssetInv /\ [Next]_vars
      => \A a \in Assets :
           /\ rows'[a].image \in {rows[a].image, Catalog}
           /\ \A w \in Variants : objects'[a][w] \in {objects[a][w], Catalog}
           /\ Ready(a)' => rows'[a].alta
<1> SUFFICES ASSUME TypeOK, LockInv, ProducerInv, JobFindsOriginal, AssetInv, [Next]_vars,
                    NEW a \in Assets
             PROVE  /\ rows'[a].image \in {rows[a].image, Catalog}
                    /\ \A w \in Variants : objects'[a][w] \in {objects[a][w], Catalog}
                    /\ Ready(a)' => rows'[a].alta
  OBVIOUS
<1>0. a \in Media /\ (rows[a].alta => rows'[a].alta)
  BY RowsStay DEF Media, OnlyMore
<1>1. Ready(a) => rows'[a].alta
  BY <1>0 DEF AssetInv
<1>2. CASE UNCHANGED objects /\ rows'[a].image = rows[a].image
  BY <1>1, <1>2 DEF Ready
<1>3. ASSUME NEW r \in Runs, NEW w \in Variants, PutVariant(r, w)
      PROVE  \A v \in Variants : objects'[a][v] \in {objects[a][v], Catalog}
  <2>1. runs[r].media \in Assets => runs[r].image = Catalog
    BY <1>3 DEF PutVariant, AssetInv
  <2>2. runs[r].media \in Media
    BY <1>3 DEF PutVariant, LockInv, Idle
  <2>3. \A v \in Variants : objects'[a][v] \in {objects[a][v]} \cup
          (IF runs[r].media = a THEN {runs[r].image} ELSE {})
    BY <1>0, <1>3, <2>2 DEF PutVariant, TypeOK
  <2>4. QED
    BY <2>1, <2>3
<1>4. ASSUME NEW r \in Runs, WriteVariants(r)
      PROVE  /\ rows'[a].image \in {rows[a].image, Catalog}
             /\ Ready(a)' => rows'[a].alta
  <2>1. CASE runs[r].media = a
    <3>1. runs[r].image = Catalog
      BY <1>4, <2>1 DEF WriteVariants, AssetInv
    <3>2. rows'[a].image = Catalog
      BY <1>0, <1>4, <2>1, <3>1 DEF WriteVariants, TypeOK
    <3>3. rows[a].alta
      BY <1>0, <1>4, <2>1 DEF WriteVariants, LockInv, Idle, JobFindsOriginal
    <3>4. QED
      BY <1>0, <3>2, <3>3
  <2>2. CASE runs[r].media # a
    <3>1. rows'[a] = rows[a]
      BY <1>0, <1>4, <2>2 DEF WriteVariants, TypeOK
    <3>2. QED
      BY <1>1, <3>1 DEF Ready
  <2>3. QED
    BY <2>1, <2>2
<1>5. CASE SameStore
  BY <1>0, <1>2, <1>5 DEF SameStore
<1>6. ASSUME NEW r \in Runs, \/ GetOriginal(r) \/ CompleteRun(r) \/ RunFails(r) \/ LoseLock(r)
                             \/ \E m \in Media : Claim(r, m)
      PROVE  UNCHANGED <<rows, objects>>
  BY <1>6 DEF GetOriginal, CompleteRun, RunFails, LoseLock, Claim, store
<1>7. ASSUME WorkerCrash PROVE UNCHANGED <<rows, objects>>
  BY <1>7 DEF WorkerCrash, store
<1>8. ASSUME NEW r \in Runs, NEW w \in Variants, PutVariant(r, w) PROVE UNCHANGED rows
  BY <1>8 DEF PutVariant
<1>9. ASSUME NEW r \in Runs, WriteVariants(r) PROVE UNCHANGED objects
  BY <1>9 DEF WriteVariants
<1>10. QED
  <2>1. ASSUME NEW r \in Runs, NEW w \in Variants, PutVariant(r, w)
        PROVE  Ready(a)' => rows'[a].alta
    BY <1>1, <1>8, <2>1 DEF Ready
  <2>2. QED
    BY OthersKeepStore, <1>2, <1>3, <1>4, <1>5, <1>6, <1>7, <1>8, <1>9, <2>1

LEMMA AssetStep ==
    TypeOK /\ LockInv /\ ProducerInv /\ JobFindsOriginal /\ AssetInv /\ [Next]_vars
      => AssetInv'
<1> SUFFICES ASSUME TypeOK, LockInv, ProducerInv, JobFindsOriginal, AssetInv, [Next]_vars
             PROVE  AssetInv'
  OBVIOUS
<1> DEFINE Ours(s) == runs'[s].media \in Assets /\ runs'[s].pc \in {"put", "ack"} =>
                        runs'[s].image = Catalog
           Kept(s) == \/ runs'[s].pc \in {"idle", "get"}
                      \/ /\ runs[s].pc \in {"put", "ack"} /\ runs'[s].media = runs[s].media
                         /\ runs'[s].image = runs[s].image
<1>1. \A a \in Assets :
        /\ originals'[a] \in {NoImage, Catalog} /\ rows'[a].image \in {NoImage, Catalog}
        /\ \A w \in Variants : objects'[a][w] \in {NoImage, Catalog}
        /\ Ready(a)' => rows'[a].alta
  <2>1. ASSUME NEW a \in Assets
        PROVE  rows'[a].image \in {NoImage, Catalog} /\ (Ready(a)' => rows'[a].alta)
    BY AssetStore DEF AssetInv
  <2>2. ASSUME NEW a \in Assets, NEW w \in Variants
        PROVE  objects'[a][w] \in {NoImage, Catalog}
    BY AssetStore DEF AssetInv
  <2>3. QED
    BY AssetOriginals, <2>1, <2>2
<1>2. ASSUME NEW s \in Runs, Kept(s) PROVE Ours(s)
  BY <1>2 DEF AssetInv
<1>3. ASSUME NEW s \in Runs PROVE Ours(s)
  <2>1. runs[s].pc \in {"idle", "get", "put", "ack"}
    BY DEF TypeOK, Run
  <2>2. CASE runs' = runs
    BY <2>1, <2>2, <1>2
  <2>3. ASSUME NEW r \in Runs, GetOriginal(r) PROVE Ours(s)
    <3>1. CASE s = r
      <4>1. /\ runs'[s].media = runs[s].media
            /\ runs'[s].image = originals[runs[s].media] /\ runs'[s].image \in Widths
        BY <2>3, <3>1 DEF GetOriginal, TypeOK, Run
      <4>2. QED
        BY <4>1, MediaAssumption, ZenonT(30) DEF AssetInv
    <3>2. CASE s # r
      <4>1. runs'[s] = runs[s]
        BY <2>3, <3>2 DEF GetOriginal, TypeOK
      <4>2. QED
        BY <2>1, <4>1, <1>2
    <3>3. QED
      BY <3>1, <3>2
  <2>4. ASSUME NEW r \in Runs, (\E w \in Variants : PutVariant(r, w)) \/ WriteVariants(r)
        PROVE  Ours(s)
    <3>1. Kept(s)
      <4>1. ASSUME NEW w \in Variants, PutVariant(r, w) PROVE Kept(s)
        BY <2>1, <4>1 DEF PutVariant, TypeOK, Run
      <4>2. CASE WriteVariants(r)
        BY <2>1, <4>2 DEF WriteVariants, TypeOK, Run
      <4>3. QED
        BY <2>4, <4>1, <4>2
    <3>2. QED
      BY <3>1, <1>2
  <2>5. ASSUME NEW r \in Runs, LoseLock(r) PROVE Ours(s)
    <3>1. Kept(s)
      BY <2>1, <2>5 DEF LoseLock, TypeOK, Run
    <3>2. QED
      BY <3>1, <1>2
  <2>6. ASSUME NEW r \in Runs, CompleteRun(r) \/ RunFails(r) PROVE Ours(s)
    <3>1. runs' = [runs EXCEPT ![r] = IdleRun]
      BY <2>6 DEF CompleteRun, RunFails
    <3>2. Kept(s)
      BY <2>1, <3>1 DEF TypeOK, IdleRun
    <3>3. QED
      BY <3>2, <1>2
  <2>7. ASSUME NEW r \in Runs, NEW m \in Media, Claim(r, m) PROVE Ours(s)
    <3>1. Kept(s)
      BY <2>1, <2>7 DEF Claim, TypeOK, FreshRun
    <3>2. QED
      BY <3>1, <1>2
  <2>8. CASE WorkerCrash
    BY <2>8, <1>2 DEF WorkerCrash, IdleRun
  <2>9. QED
    BY OthersKeepStore, <2>2, <2>3, <2>4, <2>5, <2>6, <2>7, <2>8 DEF SameStore
<1>4. QED
  BY <1>1, <1>3 DEF AssetInv

-----------------------------------------------------------------------------
(* The theorems.                                                           *)

LEMMA MediaInit == Init => MediaInv
<1> SUFFICES ASSUME Init PROVE MediaInv
  OBVIOUS
<1> USE MediaAssumption
<1>1. NoJob \in Job /\ HasBudget(NoJob) /\ NoJob.st = "absent"
  BY QueueAssumption DEF NoJob, Job, JobStates, HasBudget, Finished
<1>2. TypeOK
  <2>1. runs \in [Runs -> Run]
    BY DEF Init, IdleRun, Run
  <2>2. seed \in Seed
    BY DEF Init, SeedOff, Seed
  <2>3. jobs \in [Media -> Job] /\ originals \in [Media -> Original]
    BY <1>1 DEF Init, Original
  <2>4. QED
    BY <2>1, <2>2, <2>3 DEF Init, TypeOK
<1>3. \A r \in Runs : runs[r].pc = "idle" /\ runs[r].media = NoMedia /\ ~runs[r].lock
  BY DEF Init, IdleRun
<1>4. \A m \in Media : jobs[m].st = "absent" /\ HasBudget(jobs[m]) /\ ~Ready(m)
  BY <1>1 DEF Init, Ready
<1>5. LockInv /\ RunInv /\ SingleRunInv
  BY <1>3, <1>4 DEF LockInv, RunInv, SingleRunInv, Idle
<1>6. StoreInv
  BY DEF Init, StoreInv
<1>7. ProducerInv
  BY DEF Init, ProducerInv, SeedOff
<1>8. AssetInv
  BY <1>3, <1>4 DEF Init, AssetInv, Media, Ready
<1>9. ReadyHasVariants /\ JobFindsOriginal /\ CompletedIsOneImage
  BY <1>4 DEF ReadyHasVariants, JobFindsOriginal, CompletedIsOneImage
<1>10. QED
  BY <1>2, <1>5, <1>6, <1>7, <1>8, <1>9 DEF MediaInv

LEMMA MediaStep == MediaInv /\ [Next]_vars => MediaInv'
<1> SUFFICES ASSUME MediaInv, [Next]_vars PROVE MediaInv'
  OBVIOUS
<1>1. TypeOK' /\ LockInv'
  BY TypeStep, LockStep DEF MediaInv
<1>2. ProducerInv' /\ JobFindsOriginal'
  BY ProducerStep DEF MediaInv
<1>3. StoreInvs'
  BY StoreStep DEF MediaInv, StoreInvs
<1>4. SingleRunInv' /\ (~LockLoss => CompletedIsOneImage)'
  BY SingleStep DEF MediaInv, StoreInvs
<1>5. AssetInv'
  BY AssetStep DEF MediaInv
<1>6. QED
  BY <1>1, <1>2, <1>3, <1>4, <1>5 DEF MediaInv, StoreInvs

\* Every reachable state satisfies the invariant of the media pipeline: the
\* types, the locks, what producers and runs have established, and what the
\* store holds (worker/lib/media.ts:90-142).
THEOREM MediaInvariant == Spec => []MediaInv
  BY MediaInit, MediaStep, PTL DEF Spec

\* Every reachable state is well typed; no job runs out of its budget.
THEOREM TypeCorrect == Spec => []TypeOK
<1>1. MediaInv => TypeOK
  BY DEF MediaInv
<1>2. QED
  BY <1>1, MediaInvariant, PTL

\* No row ever names a variant that is not in R2 or is an enlarged one,
\* however many runs overlap, crash and retry, and whatever originals the
\* client puts meanwhile (worker/lib/media.ts:136-142).
THEOREM SrcsetHolds == Spec => []ReadyHasVariants
<1>1. MediaInv => ReadyHasVariants
  BY DEF MediaInv
<1>2. QED
  BY <1>1, MediaInvariant, PTL

\* No job is ever there without its row and its original, whichever producer
\* enqueued it (media-runtime.ts:26-28).
THEOREM OriginalIsThere == Spec => []JobFindsOriginal
<1>1. MediaInv => JobFindsOriginal
  BY DEF MediaInv
<1>2. QED
  BY <1>1, MediaInvariant, PTL

\* Where no live run loses its lock, a completed job's row and variants come
\* from one original, for any number of attempts and crashes.
THEOREM OneImage == ~LockLoss => (Spec => []CompletedIsOneImage)
<1>1. ~LockLoss /\ MediaInv => CompletedIsOneImage
  BY DEF MediaInv
<1>2. CASE ~LockLoss
  <2>1. MediaInv => CompletedIsOneImage
    BY <1>1, <1>2
  <2>2. QED
    BY <2>1, MediaInvariant, PTL
<1>3. QED
  BY <1>2

\* No step ever changes a processed asset of the seed, neither one of a
\* re-run of the seed nor one of a run that works on it once more: the
\* catalog's bytes make every rewrite the identity (seed/media.ts:8-13).
LEMMA ReseedStep ==
    ASSUME MediaInv, [Next]_vars, NEW a \in Assets, Ready(a)
    PROVE  rows'[a] = rows[a] /\ objects'[a] = objects[a]
<1>0. /\ a \in Media /\ rows[a].image = Catalog /\ rows[a].alta
      /\ rows[a] \in [alta: BOOLEAN, image: Widths \cup {NoImage}]
      /\ rows'[a] \in [alta: BOOLEAN, image: Widths \cup {NoImage}]
      /\ objects[a] \in [Variants -> Widths \cup {NoImage}]
  <2>1. TypeOK /\ TypeOK' /\ a \in Media
    BY TypeStep DEF MediaInv, Media
  <2>2. QED
    BY <2>1 DEF MediaInv, AssetInv, TypeOK, Ready
<1>1. rows'[a].alta
  BY <1>0, RowsStay DEF MediaInv, OnlyMore
<1>2. rows'[a].image = Catalog
  BY <1>0, AssetStore DEF MediaInv
<1>3. rows'[a] = rows[a]
  BY <1>0, <1>1, <1>2
<1>4. ASSUME NEW r \in Runs, NEW w \in Variants, PutVariant(r, w)
      PROVE  objects'[a] = objects[a]
  <2>1. CASE runs[r].media = a
    <3>1. runs[r].image = Catalog /\ w \in pickWidths(Catalog)
      BY <1>4, <2>1 DEF PutVariant, MediaInv, AssetInv, RunInv
    <3>2. objects[a][w] = Catalog
      BY <1>0, <3>1 DEF MediaInv, AssetInv, ReadyHasVariants, Ready
    <3>3. objects' = [objects EXCEPT ![a][w] = Catalog]
      BY <1>4, <2>1, <3>1 DEF PutVariant
    <3>4. objects'[a] = [objects[a] EXCEPT ![w] = Catalog]
      BY <1>0, <3>3 DEF MediaInv, TypeOK
    <3>5. QED
      BY <1>0, <3>2, <3>4
  <2>2. CASE runs[r].media # a
    BY <1>0, <1>4, <2>2 DEF PutVariant, MediaInv, TypeOK
  <2>3. QED
    BY <2>1, <2>2
<1>5. CASE UNCHANGED objects
  BY <1>3, <1>5
<1>6. QED
  BY OthersKeepStore, <1>3, <1>4, <1>5
     DEF MediaInv, SameStore, GetOriginal, WriteVariants, CompleteRun, RunFails, LoseLock,
         Claim, WorkerCrash, store

\* Re-running the seed is idempotent, also with locks lost and jobs retried.
THEOREM Reseed == Spec => ReseedIsIdempotent
<1>1. MediaInv /\ [Next]_vars =>
        [\A a \in Assets : Ready(a) => rows'[a] = rows[a] /\ objects'[a] = objects[a]]_vars
  BY ReseedStep
<1>2. QED
  BY <1>1, MediaInvariant, PTL DEF Spec, ReseedIsIdempotent

=============================================================================
