--------------------------- MODULE QuotePdfProofs ---------------------------
(***************************************************************************)
(* Proofs about QuotePdf for every number of quotes, runs, attempts and    *)
(* stalls, every price and every calendar.                                 *)
(***************************************************************************)
EXTENDS QuotePdf, JobQueueProofs

-----------------------------------------------------------------------------
(* The queue: types, locks and the budget of attempts.                     *)

\* A step that moves a run without changing what it holds.
SameLocks == \A s \in Runs :
    /\ runs'[s].quote = runs[s].quote
    /\ runs'[s].lock <=> runs[s].lock
    /\ (runs'[s].pc = "idle") <=> (runs[s].pc = "idle")

\* The four steps of a run between its claim and its end hold what they held.
LEMMA ProcessKeepsLocks ==
    ASSUME TypeOK, NEW r \in Runs, ReadQuote(r) \/ Render(r) \/ PutPdf(r) \/ WritePdfKey(r)
    PROVE  SameLocks /\ UNCHANGED jobs
<1>1. CASE ReadQuote(r)
  BY <1>1 DEF ReadQuote, TypeOK, SameLocks, Run
<1>2. CASE Render(r)
  BY <1>2 DEF Render, TypeOK, SameLocks, Run
<1>3. CASE PutPdf(r)
  BY <1>3 DEF PutPdf, TypeOK, SameLocks, Run
<1>4. CASE WritePdfKey(r)
  BY <1>4 DEF WritePdfKey, TypeOK, SameLocks, Run
<1>5. QED
  BY <1>1, <1>2, <1>3, <1>4

\* A run that ends, leaving its job in a state with budget that is not
\* active if it held the lock and untouched if it did not.
LEMMA RunEndKeepsLocks ==
    ASSUME TypeOK, LockInv, NEW r \in Runs, ~Idle(r), NEW j \in Job,
           j.st # "active", HasBudget(j),
           runs' = [runs EXCEPT ![r] = IdleRun],
           jobs' = IF runs[r].lock THEN [jobs EXCEPT ![runs[r].quote] = j] ELSE jobs
    PROVE  LockInv'
<1>1. runs[r].quote \in Quotes
  BY DEF LockInv
<1>2. \A s \in Runs \ {r} : runs'[s] = runs[s]
  BY DEF TypeOK
<1>3. runs'[r].pc = "idle" /\ runs'[r].quote = NoQuote /\ ~runs'[r].lock
  BY DEF TypeOK, IdleRun
<1>4. CASE runs[r].lock
  <2>1. \A q \in Quotes : IF q = runs[r].quote THEN jobs'[q] = j ELSE jobs'[q] = jobs[q]
    BY <1>1, <1>4 DEF TypeOK
  <2>2. QED
    BY <1>2, <1>3, <1>4, <2>1 DEF LockInv, Idle
<1>5. CASE ~runs[r].lock
  <2>1. jobs' = jobs
    BY <1>5
  <2>2. QED
    BY <1>2, <1>3, <2>1 DEF LockInv, Idle
<1>6. QED
  BY <1>4, <1>5

QueueInv == TypeOK /\ LockInv

LEMMA QueueInit == Init => QueueInv
<1> SUFFICES ASSUME Init PROVE TypeOK /\ LockInv
  BY DEF QueueInv
<1>1. NoJob \in Job /\ HasBudget(NoJob)
  BY QueueAssumption DEF NoJob, Job, JobStates, HasBudget, Finished
<1>2. TypeOK
  <2>1. runs \in [Runs -> Run]
    BY QuoteAssumption DEF Init, Run, IdleRun, RunPc
  <2>2. jobs \in [Quotes -> Job]
    BY <1>1 DEF Init
  <2>3. quotes \in [Quotes -> QuoteRow] /\ req \in [Quotes -> [pc: ReqPc, total: 0..MaxPrecio]]
    BY QuoteAssumption DEF Init, QuoteRow, ReqPc
  <2>4. QED
    BY <2>1, <2>2, <2>3, QuoteAssumption DEF Init, TypeOK
<1>3. LockInv
  BY <1>1 DEF Init, LockInv, Idle, IdleRun
<1>4. QED
  BY <1>2, <1>3

LEMMA TypeStep == TypeOK /\ LockInv /\ [Next]_vars => TypeOK'
<1> SUFFICES ASSUME TypeOK, LockInv, [Next]_vars PROVE TypeOK'
  OBVIOUS
<1> USE QuoteAssumption
<1>1. ASSUME Environment PROVE TypeOK'
  <2>1. CASE UpdatePrice
    BY <2>1 DEF UpdatePrice, TypeOK, buyer
  <2>2. CASE UpdateSettings
    BY <2>2 DEF UpdateSettings, TypeOK, buyer
  <2>3. CASE NextDay
    BY <2>3 DEF NextDay, TypeOK, buyer
  <2>4. QED
    BY <1>1, <2>1, <2>2, <2>3 DEF Environment
<1>2. ASSUME NEW q \in Quotes, Create(q) PROVE TypeOK'
  <2>1. CASE ResolveAndQuote(q)
    BY <2>1 DEF ResolveAndQuote, TypeOK, tenant, buyer, ReqPc
  <2>2. CASE InsertQuote(q)
    BY <2>2 DEF InsertQuote, TypeOK, tenant, buyer, ReqPc, QuoteRow
  <2>3. CASE EnqueuePdf(q)
    <3>1. jobs' \in [Quotes -> Job]
      BY <2>3, JobOps DEF EnqueuePdf, TypeOK
    <3>2. QED
      BY <2>3, <3>1 DEF EnqueuePdf, TypeOK, tenant, buyer, ReqPc
  <2>4. CASE ReplyCreated(q)
    BY <2>4 DEF ReplyCreated, TypeOK, tenant, buyer, ReqPc
  <2>5. CASE CreateFails(q)
    BY <2>5 DEF CreateFails, TypeOK, tenant, buyer, ReqPc
  <2>6. QED
    BY <1>2, <2>1, <2>2, <2>3, <2>4, <2>5 DEF Create
<1>3. ASSUME NEW r \in Runs, Process(r) \/ RunFails(r) \/ LoseLock(r) PROVE TypeOK'
  <2> DEFINE q == runs[r].quote
  <2>1. IdleRun \in Run
    BY DEF IdleRun, Run, RunPc
  <2>2. ~Idle(r) => q \in Quotes
    BY DEF LockInv
  <2>3. CASE ReadQuote(r)
    <3>1. q \in Quotes
      BY <2>2, <2>3 DEF ReadQuote, Idle
    <3>2. PICK p \in RunPc : runs' = [runs EXCEPT ![r].pc = p, ![r].total = quotes[q].snapshot]
      BY <2>3 DEF ReadQuote, RunPc
    <3>3. quotes[q].snapshot \in 0..MaxPrecio
      BY <3>1 DEF TypeOK, QuoteRow
    <3>4. runs' \in [Runs -> Run]
      BY <3>2, <3>3, ZenonT(30) DEF TypeOK, Run
    <3>5. QED
      BY <2>3, <3>4 DEF ReadQuote, TypeOK, tenant, buyer
  <2>4. CASE Render(r)
    <3>1. dia \in 0..MaxDia
      BY DEF TypeOK
    <3>2. runs' \in [Runs -> Run]
      <4>1. runs \in [Runs -> Run] /\ runs' = [runs EXCEPT ![r].pc = "put", ![r].fecha = dia]
        BY <2>4 DEF Render, TypeOK
      <4>2. QED
        BY <3>1, <4>1, ZenonT(30) DEF Run, RunPc
    <3>3. QED
      BY <2>4, <3>2 DEF Render, TypeOK, tenant, buyer
  <2>5. CASE PutPdf(r)
    <3>1. runs' \in [Runs -> Run]
      BY <2>5 DEF PutPdf, TypeOK, Run, RunPc
    <3>2. Rendered(r) \in Doc
      BY DEF TypeOK, Run, Rendered, Doc
    <3>3. objects' \in [Quotes -> Doc \cup {NoObject}]
      BY <2>5, <3>2 DEF PutPdf, TypeOK
    <3>4. QED
      BY <2>5, <3>1, <3>3 DEF PutPdf, TypeOK, tenant, buyer
  <2>6. CASE WritePdfKey(r)
    <3>1. runs' \in [Runs -> Run]
      BY <2>6 DEF WritePdfKey, TypeOK, Run, RunPc
    <3>2. quotes' \in [Quotes -> QuoteRow]
      BY <2>6 DEF WritePdfKey, TypeOK, QuoteRow
    <3>3. QED
      BY <2>6, <3>1, <3>2 DEF WritePdfKey, TypeOK, tenant, buyer
  <2>7. CASE CompleteRun(r)
    <3>1. q \in Quotes
      BY <2>2, <2>7 DEF CompleteRun, Idle
    <3>2. jobs' \in [Quotes -> Job]
      BY <2>7, <3>1, JobOps DEF CompleteRun, TypeOK
    <3>3. QED
      BY <2>1, <2>7, <3>2 DEF CompleteRun, TypeOK, tenant, buyer
  <2>8. CASE RunFails(r)
    <3>1. q \in Quotes
      BY <2>2, <2>8 DEF RunFails
    <3>2. runs[r].lock => FailJob(jobs[q]) \in Job
      BY <3>1, JobFails DEF LockInv, TypeOK
    <3>3. jobs' \in [Quotes -> Job]
      BY <2>8, <3>1, <3>2 DEF RunFails, TypeOK
    <3>4. QED
      BY <2>1, <2>8, <3>3 DEF RunFails, TypeOK, tenant, buyer
  <2>9. CASE LoseLock(r)
    <3>1. runs' \in [Runs -> Run]
      BY <2>9 DEF LoseLock, TypeOK, Run
    <3>2. QED
      BY <2>9, <3>1 DEF LoseLock, TypeOK, tenant, buyer
  <2>10. QED
    BY <1>3, <2>3, <2>4, <2>5, <2>6, <2>7, <2>8, <2>9 DEF Process
<1>4. ASSUME NEW r \in Runs, NEW q \in Quotes, Claim(r, q) PROVE TypeOK'
  <2>1. jobs' \in [Quotes -> Job]
    BY <1>4, JobOps DEF Claim, TypeOK
  <2>2. FreshRun(q) \in Run
    BY DEF FreshRun, Run, RunPc
  <2>3. runs' \in [Runs -> Run]
    BY <1>4, <2>2 DEF Claim, TypeOK
  <2>4. QED
    BY <1>4, <2>1, <2>3 DEF Claim, TypeOK, tenant, buyer
<1>5. ASSUME NEW q \in Quotes, RecoverStalled(q) PROVE TypeOK'
  <2>1. StallJob(jobs[q]) \in Job
    BY <1>5, JobStalls DEF RecoverStalled, LockInv, TypeOK
  <2>2. QED
    BY <1>5, <2>1 DEF RecoverStalled, TypeOK, tenant, buyer
<1>6. CASE WorkerCrash
  <2>1. IdleRun \in Run
    BY DEF IdleRun, Run, RunPc
  <2>2. QED
    BY <1>6, <2>1 DEF WorkerCrash, TypeOK, tenant, buyer
<1>7. CASE Buyer
  <2>1. ASSUME NEW q \in Quotes, PdfStatus(q) PROVE TypeOK'
    BY <2>1 DEF PdfStatus, TypeOK, tenant
  <2>2. ASSUME NEW q \in Quotes, Download(q) PROVE TypeOK'
    BY <2>2 DEF Download, TypeOK, tenant
  <2>3. QED
    BY <1>7, <2>1, <2>2 DEF Buyer
<1>8. CASE UNCHANGED vars
  BY <1>8 DEF vars, TypeOK
<1>9. QED
  BY <1>1, <1>2, <1>3, <1>4, <1>5, <1>6, <1>7, <1>8 DEF Next, Worker

LEMMA LockStep == TypeOK /\ LockInv /\ [Next]_vars => LockInv'
<1> SUFFICES ASSUME TypeOK, LockInv, [Next]_vars PROVE LockInv'
  OBVIOUS
<1>1. ASSUME UNCHANGED <<runs, jobs>> PROVE LockInv'
  BY <1>1 DEF LockInv, Idle
<1>2. ASSUME NEW q \in Quotes, EnqueuePdf(q) PROVE LockInv'
  <2>1. /\ HasBudget(jobs'[q])
        /\ jobs[q].st # "absent" => jobs'[q] = jobs[q]
        /\ \A p \in Quotes \ {q} : jobs'[p] = jobs[p]
    BY <1>2, JobOps DEF EnqueuePdf, TypeOK, LockInv
  <2>2. runs' = runs
    BY <1>2 DEF EnqueuePdf
  <2>3. \A r \in Runs : runs[r].lock => runs[r].quote \in Quotes
    BY DEF LockInv
  <2>4. QED
    BY <2>1, <2>2, <2>3 DEF LockInv, Idle
<1>3. ASSUME NEW r \in Runs, ReadQuote(r) \/ Render(r) \/ PutPdf(r) \/ WritePdfKey(r)
      PROVE  LockInv'
  BY <1>3, ProcessKeepsLocks DEF LockInv, SameLocks, Idle
<1>4. ASSUME NEW r \in Runs, CompleteRun(r) PROVE LockInv'
  <2>1. ~Idle(r) /\ runs[r].quote \in Quotes /\ jobs[runs[r].quote] \in Job
    BY <1>4 DEF CompleteRun, Idle, LockInv, TypeOK
  <2>2. QED
    BY <1>4, <2>1, JobOps, RunEndKeepsLocks DEF CompleteRun
<1>5. ASSUME NEW r \in Runs, RunFails(r) PROVE LockInv'
  <2>1. ~Idle(r) /\ runs[r].quote \in Quotes /\ jobs[runs[r].quote] \in Job
    BY <1>5 DEF RunFails, LockInv, TypeOK
  <2>2. CASE runs[r].lock
    <3>1. jobs[runs[r].quote].st = "active" /\ HasBudget(jobs[runs[r].quote])
      BY <2>1, <2>2 DEF LockInv
    <3>2. QED
      BY <1>5, <2>1, <3>1, JobFails, RunEndKeepsLocks DEF RunFails
  <2>3. CASE ~runs[r].lock
    BY <1>5, <2>1, <2>3, JobOps, RunEndKeepsLocks DEF RunFails
  <2>4. QED
    BY <2>2, <2>3
<1>6. ASSUME NEW r \in Runs, LoseLock(r) PROVE LockInv'
  <2>1. \A s \in Runs : /\ runs'[s].quote = runs[s].quote /\ runs'[s].pc = runs[s].pc
                        /\ runs'[s].lock => runs[s].lock
    BY <1>6 DEF LoseLock, TypeOK, Run
  <2>2. jobs' = jobs
    BY <1>6 DEF LoseLock
  <2>3. QED
    BY <2>1, <2>2 DEF LockInv, Idle
<1>7. ASSUME NEW r \in Runs, NEW q \in Quotes, Claim(r, q) PROVE LockInv'
  <2>1. runs'[r].pc = "read" /\ runs'[r].quote = q /\ runs'[r].lock
    BY <1>7 DEF Claim, TypeOK, FreshRun
  <2>2. \A s \in Runs \ {r} : runs'[s] = runs[s]
    BY <1>7 DEF Claim, TypeOK
  <2>3. \A s \in Runs : runs[s].lock => runs[s].quote # q
    BY <1>7 DEF Claim, LockInv
  <2>4. jobs'[q].st = "active" /\ HasBudget(jobs'[q])
    BY <1>7, JobOps DEF Claim, TypeOK, LockInv, Finished
  <2>5. \A p \in Quotes \ {q} : jobs'[p] = jobs[p]
    BY <1>7 DEF Claim, TypeOK
  <2>6. QED
    BY <2>1, <2>2, <2>3, <2>4, <2>5 DEF LockInv, Idle
<1>8. ASSUME NEW q \in Quotes, RecoverStalled(q) PROVE LockInv'
  <2>1. HasBudget(jobs'[q])
    BY <1>8, JobStalls DEF RecoverStalled, LockInv, TypeOK
  <2>2. \A p \in Quotes \ {q} : jobs'[p] = jobs[p]
    BY <1>8 DEF RecoverStalled, TypeOK
  <2>3. \A s \in Runs : runs[s].lock => runs[s].quote # q
    BY <1>8 DEF RecoverStalled, Locked
  <2>4. runs' = runs
    BY <1>8 DEF RecoverStalled
  <2>5. QED
    BY <2>1, <2>2, <2>3, <2>4 DEF LockInv, Idle
<1>9. CASE WorkerCrash
  <2>1. \A s \in Runs : runs'[s].pc = "idle" /\ runs'[s].quote = NoQuote /\ ~runs'[s].lock
    BY <1>9 DEF WorkerCrash, IdleRun
  <2>2. jobs' = jobs
    BY <1>9 DEF WorkerCrash
  <2>3. QED
    BY <2>1, <2>2 DEF LockInv, Idle
<1>10. QED
  BY <1>1, <1>2, <1>3, <1>4, <1>5, <1>6, <1>7, <1>8, <1>9
     DEF Next, vars, Environment, UpdatePrice, UpdateSettings, NextDay, Create,
         ResolveAndQuote, InsertQuote, ReplyCreated, CreateFails, Worker, Process,
         Buyer, PdfStatus, Download

\* Every reachable state is well typed; a job is locked by at most one run
\* and an unfinished job still has an attempt to spend.
THEOREM TypeCorrect == Spec => [](TypeOK /\ LockInv)
<1>1. Init => QueueInv
  BY QueueInit
<1>2. QueueInv /\ [Next]_vars => QueueInv'
  BY TypeStep, LockStep DEF QueueInv
<1>3. QED
  BY <1>1, <1>2, PTL DEF Spec, QueueInv

-----------------------------------------------------------------------------
(* The data: creation order, what is stored, what each run knows.          *)

DataInv == CreateInv /\ StoreInv /\ RunInv

\* What the queue steps of the worker (claim, end of a run, recovery) do to
\* jobs: none appears, none disappears.
LEMMA QueueMoves ==
    ASSUME TypeOK, LockInv, RunInv,
           \/ \E r \in Runs, q \in Quotes : Claim(r, q)
           \/ \E q \in Quotes : RecoverStalled(q)
           \/ \E r \in Runs : CompleteRun(r) \/ RunFails(r)
    PROVE  \A p \in Quotes : (jobs'[p].st = "absent") <=> (jobs[p].st = "absent")
<1>1. ASSUME NEW r \in Runs, NEW q \in Quotes, Claim(r, q)
      PROVE  jobs'[q].st # "absent" /\ jobs[q].st # "absent"
  BY <1>1, JobOps DEF Claim, TypeOK
<1>2. ASSUME NEW r \in Runs, NEW q \in Quotes, Claim(r, q) PROVE \A p \in Quotes \ {q} : jobs'[p] = jobs[p]
  BY <1>2 DEF Claim, TypeOK
<1>3. ASSUME NEW q \in Quotes, RecoverStalled(q)
      PROVE  jobs'[q].st # "absent" /\ jobs[q].st # "absent"
  BY <1>3, JobStalls DEF RecoverStalled, TypeOK, LockInv
<1>4. ASSUME NEW q \in Quotes, RecoverStalled(q) PROVE \A p \in Quotes \ {q} : jobs'[p] = jobs[p]
  BY <1>4 DEF RecoverStalled, TypeOK
<1>5. ASSUME NEW r \in Runs, CompleteRun(r) \/ RunFails(r)
      PROVE  \A p \in Quotes : (jobs'[p].st = "absent") <=> (jobs[p].st = "absent")
  <2> DEFINE q == runs[r].quote
  <2>1. q \in Quotes /\ jobs[q] \in Job /\ jobs[q].st # "absent"
    BY <1>5 DEF CompleteRun, RunFails, Idle, LockInv, RunInv, TypeOK
  <2>2. CASE ~runs[r].lock
    BY <1>5, <2>2 DEF CompleteRun, RunFails
  <2>3. CASE runs[r].lock /\ CompleteRun(r)
    <3>1. jobs' = [jobs EXCEPT ![q] = CompleteJob(@)]
      BY <2>3 DEF CompleteRun
    <3>2. CompleteJob(jobs[q]).st # "absent"
      BY <2>1, JobOps
    <3>3. QED
      BY <2>1, <3>1, <3>2 DEF TypeOK
  <2>4. CASE runs[r].lock /\ RunFails(r)
    <3>1. jobs' = [jobs EXCEPT ![q] = FailJob(@)]
      BY <2>4 DEF RunFails
    <3>2. FailJob(jobs[q]).st # "absent"
      BY <2>1, <2>4, JobFails DEF LockInv
    <3>3. QED
      BY <2>1, <3>1, <3>2 DEF TypeOK
  <2>5. QED
    BY <1>5, <2>2, <2>3, <2>4
<1>6. QED
  BY <1>1, <1>2, <1>3, <1>4, <1>5

LEMMA CreateStep ==
    ASSUME TypeOK, LockInv, DataInv, [Next]_vars
    PROVE  CreateInv'
<1> USE DEF DataInv
<1>1. ASSUME UNCHANGED req, \A q \in Quotes : quotes'[q].snapshot = quotes[q].snapshot,
             \A q \in Quotes : (jobs'[q].st = "absent") <=> (jobs[q].st = "absent")
      PROVE  CreateInv'
  BY <1>1 DEF CreateInv
<1>2. ASSUME NEW q \in Quotes, ResolveAndQuote(q) PROVE CreateInv'
  <2>1. /\ req'[q].pc = "resolved" /\ req'[q].total = precio
        /\ \A p \in Quotes \ {q} : req'[p] = req[p]
    BY <1>2 DEF ResolveAndQuote, TypeOK
  <2>2. quotes' = quotes /\ jobs' = jobs /\ precio # 0
    BY <1>2 DEF ResolveAndQuote, TypeOK
  <2>3. quotes[q].snapshot = 0
    BY <1>2 DEF ResolveAndQuote, CreateInv
  <2>4. QED
    BY <2>1, <2>2, <2>3 DEF CreateInv
<1>3. ASSUME NEW q \in Quotes, InsertQuote(q) PROVE CreateInv'
  <2>1. /\ req'[q].pc = "inserted" /\ req'[q].total = req[q].total
        /\ \A p \in Quotes \ {q} : req'[p] = req[p]
    BY <1>3 DEF InsertQuote, TypeOK
  <2>2. /\ quotes'[q].snapshot = req[q].total /\ jobs' = jobs
        /\ \A p \in Quotes \ {q} : quotes'[p] = quotes[p]
    BY <1>3 DEF InsertQuote, TypeOK, QuoteRow
  <2>3. req[q].total # 0
    BY <1>3 DEF InsertQuote, CreateInv
  <2>4. QED
    BY <2>1, <2>2, <2>3 DEF CreateInv
<1>4. ASSUME NEW q \in Quotes, EnqueuePdf(q) PROVE CreateInv'
  <2>1. /\ req'[q].pc = "enqueued" /\ req'[q].total = req[q].total
        /\ \A p \in Quotes \ {q} : req'[p] = req[p]
    BY <1>4 DEF EnqueuePdf, TypeOK
  <2>2. jobs'[q].st # "absent" /\ \A p \in Quotes \ {q} : jobs'[p] = jobs[p]
    BY <1>4, JobOps DEF EnqueuePdf, TypeOK
  <2>3. quotes' = quotes /\ quotes[q].snapshot # 0
    BY <1>4 DEF EnqueuePdf, CreateInv
  <2>4. QED
    BY <2>1, <2>2, <2>3 DEF CreateInv
<1>5. ASSUME NEW q \in Quotes, ReplyCreated(q) \/ CreateFails(q) PROVE CreateInv'
  <2>1. /\ req'[q].total = req[q].total /\ req'[q].pc \in {"replied", "error"}
        /\ req'[q].pc = "replied" => req[q].pc = "enqueued"
        /\ \A p \in Quotes \ {q} : req'[p] = req[p]
    BY <1>5 DEF ReplyCreated, CreateFails, TypeOK
  <2>2. quotes' = quotes /\ jobs' = jobs
    BY <1>5 DEF ReplyCreated, CreateFails
  <2>3. QED
    BY <2>1, <2>2 DEF CreateInv
<1>6. ASSUME \/ \E r \in Runs, q \in Quotes : Claim(r, q)
             \/ \E q \in Quotes : RecoverStalled(q)
             \/ \E r \in Runs : CompleteRun(r) \/ RunFails(r)
      PROVE  CreateInv'
  <2>1. UNCHANGED req /\ UNCHANGED quotes
    BY <1>6 DEF Claim, RecoverStalled, CompleteRun, RunFails
  <2>2. \A p \in Quotes : (jobs'[p].st = "absent") <=> (jobs[p].st = "absent")
    BY <1>6, QueueMoves
  <2>3. QED
    BY <1>1, <2>1, <2>2
<1>7. ASSUME NEW r \in Runs, WritePdfKey(r) PROVE CreateInv'
  <2>1. \A q \in Quotes : quotes'[q].snapshot = quotes[q].snapshot
    BY <1>7 DEF WritePdfKey, TypeOK, QuoteRow
  <2>2. UNCHANGED <<req, jobs>>
    BY <1>7 DEF WritePdfKey
  <2>3. QED
    BY <1>1, <2>1, <2>2
<1>8. ASSUME UNCHANGED <<req, quotes, jobs>> PROVE CreateInv'
  BY <1>1, <1>8
<1>9. QED
  BY <1>2, <1>3, <1>4, <1>5, <1>6, <1>7, <1>8
     DEF Next, vars, Environment, UpdatePrice, UpdateSettings, NextDay, Create, Worker,
         Process, ReadQuote, Render, PutPdf, LoseLock, WorkerCrash, Buyer, PdfStatus, Download

\* A step after which every stored thing is as it was, and no job became
\* completed.
LEMMA StoreFrame ==
    ASSUME StoreInv, UNCHANGED <<quotes, objects, buyer>>,
           \A q \in Quotes : jobs'[q].st = "completed" => jobs[q].st = "completed"
    PROVE  StoreInv'
  BY DEF StoreInv, buyer

LEMMA StoreStep ==
    ASSUME TypeOK, LockInv, DataInv, [Next]_vars
    PROVE  StoreInv'
<1> USE DEF DataInv
<1>1. ASSUME UNCHANGED <<quotes, objects, buyer, jobs>> PROVE StoreInv'
  BY <1>1, StoreFrame
<1>2. ASSUME NEW q \in Quotes, InsertQuote(q) PROVE StoreInv'
  <2>1. /\ quotes'[q].pdfKey = quotes[q].pdfKey
        /\ \A p \in Quotes \ {q} : quotes'[p] = quotes[p]
    BY <1>2 DEF InsertQuote, TypeOK, QuoteRow
  <2>2. quotes[q].snapshot = 0
    BY <1>2 DEF InsertQuote, CreateInv
  <2>3. UNCHANGED <<objects, jobs, listo, visto>>
    BY <1>2 DEF InsertQuote, buyer
  <2>4. objects[q] = NoObject /\ visto[q] = {}
    BY <2>2 DEF StoreInv, TypeOK
  <2>5. QED
    BY <2>1, <2>3, <2>4 DEF StoreInv
<1>3. ASSUME NEW q \in Quotes, EnqueuePdf(q) PROVE StoreInv'
  <2>1. UNCHANGED <<quotes, objects, buyer>>
    BY <1>3 DEF EnqueuePdf
  <2>2. \A p \in Quotes : jobs'[p].st = "completed" => jobs[p].st = "completed"
    BY <1>3, JobOps DEF EnqueuePdf, TypeOK
  <2>3. QED
    BY <2>1, <2>2, StoreFrame
<1>4. ASSUME NEW r \in Runs, NEW q \in Quotes, Claim(r, q) PROVE StoreInv'
  <2>1. UNCHANGED <<quotes, objects, buyer>>
    BY <1>4 DEF Claim
  <2>2. \A p \in Quotes : jobs'[p].st = "completed" => jobs[p].st = "completed"
    BY <1>4, JobOps DEF Claim, TypeOK
  <2>3. QED
    BY <2>1, <2>2, StoreFrame
<1>5. ASSUME NEW q \in Quotes, RecoverStalled(q) PROVE StoreInv'
  <2>1. UNCHANGED <<quotes, objects, buyer>>
    BY <1>5 DEF RecoverStalled
  <2>2. \A p \in Quotes : jobs'[p].st = "completed" => jobs[p].st = "completed"
    BY <1>5, JobStalls DEF RecoverStalled, TypeOK, LockInv
  <2>3. QED
    BY <2>1, <2>2, StoreFrame
<1>6. ASSUME NEW r \in Runs, RunFails(r) PROVE StoreInv'
  <2> DEFINE q == runs[r].quote
  <2>1. UNCHANGED <<quotes, objects, buyer>> /\ q \in Quotes /\ jobs[q] \in Job
    BY <1>6 DEF RunFails, LockInv, TypeOK
  <2>2. runs[r].lock => FailJob(jobs[q]).st # "completed"
    BY <2>1, JobFails DEF LockInv
  <2>3. \A p \in Quotes : jobs'[p].st = "completed" => jobs[p].st = "completed"
    BY <1>6, <2>1, <2>2 DEF RunFails, TypeOK
  <2>4. QED
    BY <2>1, <2>3, StoreFrame
<1>7. ASSUME NEW r \in Runs, CompleteRun(r) PROVE StoreInv'
  <2> DEFINE q == runs[r].quote
  <2>1. UNCHANGED <<quotes, objects, buyer>> /\ q \in Quotes /\ quotes[q].pdfKey
    BY <1>7 DEF CompleteRun, Idle, LockInv, RunInv
  <2>2. \A p \in Quotes \ {q} : jobs'[p] = jobs[p]
    BY <1>7 DEF CompleteRun, TypeOK
  <2>3. QED
    BY <2>1, <2>2 DEF StoreInv, buyer
<1>8. ASSUME NEW r \in Runs, PutPdf(r) PROVE StoreInv'
  <2> DEFINE q == runs[r].quote
  <2>1. q \in Quotes /\ jobs[q].st # "absent" /\ runs[r].total = quotes[q].snapshot
    BY <1>8 DEF PutPdf, Idle, LockInv, RunInv
  <2>2. quotes[q].snapshot # 0
    BY <2>1 DEF CreateInv
  <2>3. objects'[q] = Rendered(r) /\ \A p \in Quotes \ {q} : objects'[p] = objects[p]
    BY <1>8, <2>1 DEF PutPdf, TypeOK
  <2>4. Rendered(r) # NoObject /\ Rendered(r).total = quotes[q].snapshot
    <3>1. Rendered(r) \in Doc
      BY DEF TypeOK, Run, Rendered, Doc
    <3>2. QED
      BY <2>1, <3>1, QuoteAssumption DEF Rendered, Doc
  <2>5. UNCHANGED <<quotes, jobs, listo, visto>>
    BY <1>8 DEF PutPdf, buyer
  <2>6. QED
    BY <2>2, <2>3, <2>4, <2>5 DEF StoreInv
<1>9. ASSUME NEW r \in Runs, WritePdfKey(r) PROVE StoreInv'
  <2> DEFINE q == runs[r].quote
  <2>1. q \in Quotes /\ objects[q] # NoObject
    BY <1>9 DEF WritePdfKey, Idle, LockInv, RunInv
  <2>2. /\ quotes'[q].snapshot = quotes[q].snapshot /\ quotes'[q].pdfKey
        /\ \A p \in Quotes \ {q} : quotes'[p] = quotes[p]
    BY <1>9, <2>1 DEF WritePdfKey, TypeOK, QuoteRow
  <2>3. UNCHANGED <<objects, jobs, listo, visto>>
    BY <1>9 DEF WritePdfKey, buyer
  <2>4. QED
    BY <2>1, <2>2, <2>3 DEF StoreInv
<1>10. ASSUME NEW q \in Quotes, PdfStatus(q) PROVE StoreInv'
  <2>1. UNCHANGED <<quotes, objects, jobs, visto>> /\ listo' = listo \cup {q} /\ quotes[q].pdfKey
    BY <1>10 DEF PdfStatus
  <2>2. QED
    BY <2>1 DEF StoreInv
<1>11. ASSUME NEW q \in Quotes, Download(q) PROVE StoreInv'
  <2>1. UNCHANGED <<quotes, objects, jobs, listo>>
    BY <1>11 DEF Download
  <2>2. objects[q] # NoObject /\ quotes[q].snapshot # 0 /\ objects[q].total = quotes[q].snapshot
    BY <1>11 DEF Download, StoreInv
  <2>3. /\ visto'[q] = visto[q] \cup {objects[q]}
        /\ \A p \in Quotes \ {q} : visto'[p] = visto[p]
    BY <1>11 DEF Download, TypeOK
  <2>4. QED
    BY <2>1, <2>2, <2>3 DEF StoreInv
<1>12. QED
  BY <1>1, <1>2, <1>3, <1>4, <1>5, <1>6, <1>7, <1>8, <1>9, <1>10, <1>11
     DEF Next, vars, Environment, UpdatePrice, UpdateSettings, NextDay, Create,
         ResolveAndQuote, ReplyCreated, CreateFails, Worker, Process, ReadQuote, Render,
         LoseLock, WorkerCrash, Buyer, buyer

\* A step that keeps every fact a run relies on.
LEMMA RunFrame ==
    ASSUME LockInv, RunInv,
           \A r \in Runs : runs'[r].pc = "idle" \/ runs'[r] = runs[r]
                           \/ (runs'[r].pc = runs[r].pc /\ runs'[r].quote = runs[r].quote
                               /\ runs'[r].total = runs[r].total),
           \A q \in Quotes : jobs[q].st # "absent" =>
               /\ jobs'[q].st # "absent"
               /\ quotes'[q].snapshot = quotes[q].snapshot
               /\ quotes[q].pdfKey => quotes'[q].pdfKey
               /\ objects[q] # NoObject => objects'[q] # NoObject
    PROVE  RunInv'
<1> SUFFICES ASSUME NEW r \in Runs, runs'[r].pc # "idle"
             PROVE  LET q == runs'[r].quote IN
                    /\ jobs'[q].st # "absent"
                    /\ runs'[r].pc \in {"render", "put", "write"}
                         => runs'[r].total = quotes'[q].snapshot
                    /\ runs'[r].pc = "write" => objects'[q] # NoObject
                    /\ runs'[r].pc = "ack" => quotes'[q].pdfKey
  BY DEF RunInv, Idle
<1> DEFINE q == runs[r].quote
<1>1. runs'[r].pc = runs[r].pc /\ runs'[r].quote = q /\ runs'[r].total = runs[r].total
  OBVIOUS
<1>2. q \in Quotes /\ jobs[q].st # "absent"
  BY <1>1 DEF LockInv, RunInv, Idle
<1>3. /\ runs[r].pc \in {"render", "put", "write"} => runs[r].total = quotes[q].snapshot
      /\ runs[r].pc = "write" => objects[q] # NoObject
      /\ runs[r].pc = "ack" => quotes[q].pdfKey
  BY DEF RunInv
<1>4. QED
  BY <1>1, <1>2, <1>3

LEMMA RunStep ==
    ASSUME TypeOK, LockInv, DataInv, [Next]_vars
    PROVE  RunInv'
<1> USE DEF DataInv
<1>1. ASSUME UNCHANGED <<quotes, objects, jobs, runs>> PROVE RunInv'
  BY <1>1, RunFrame
<1>2. ASSUME NEW q \in Quotes, InsertQuote(q) PROVE RunInv'
  <2>1. jobs[q].st = "absent"
    BY <1>2 DEF InsertQuote, CreateInv
  <2>2. \A p \in Quotes \ {q} : quotes'[p] = quotes[p]
    BY <1>2 DEF InsertQuote, TypeOK
  <2>3. UNCHANGED <<objects, jobs, runs>>
    BY <1>2 DEF InsertQuote
  <2>4. QED
    BY <2>1, <2>2, <2>3, RunFrame
<1>3. ASSUME NEW q \in Quotes, EnqueuePdf(q) PROVE RunInv'
  <2>1. \A p \in Quotes : jobs[p].st # "absent" => jobs'[p] = jobs[p]
    BY <1>3, JobOps DEF EnqueuePdf, TypeOK
  <2>2. UNCHANGED <<quotes, objects, runs>>
    BY <1>3 DEF EnqueuePdf
  <2>3. QED
    BY <2>1, <2>2, RunFrame
<1>4. ASSUME NEW r \in Runs, CompleteRun(r) \/ RunFails(r) PROVE RunInv'
  <2>1. \A p \in Quotes : (jobs'[p].st = "absent") <=> (jobs[p].st = "absent")
    BY <1>4, QueueMoves
  <2>2. UNCHANGED <<quotes, objects>>
    BY <1>4 DEF CompleteRun, RunFails
  <2>3. \A s \in Runs : runs'[s].pc = "idle" \/ runs'[s] = runs[s]
    BY <1>4 DEF CompleteRun, RunFails, TypeOK, IdleRun
  <2>4. QED
    BY <2>1, <2>2, <2>3, RunFrame
<1>5. ASSUME NEW q \in Quotes, RecoverStalled(q) PROVE RunInv'
  <2>1. \A p \in Quotes : (jobs'[p].st = "absent") <=> (jobs[p].st = "absent")
    BY <1>5, QueueMoves
  <2>2. UNCHANGED <<quotes, objects, runs>>
    BY <1>5 DEF RecoverStalled
  <2>3. QED
    BY <2>1, <2>2, RunFrame
<1>6. ASSUME NEW r \in Runs, NEW q \in Quotes, Claim(r, q) PROVE RunInv'
  <2>1. \A p \in Quotes : (jobs'[p].st = "absent") <=> (jobs[p].st = "absent")
    BY <1>6, QueueMoves
  <2>2. UNCHANGED <<quotes, objects>> /\ jobs'[q].st = "active"
    BY <1>6, JobOps DEF Claim, TypeOK
  <2>3. runs'[r].pc = "read" /\ runs'[r].quote = q
    BY <1>6 DEF Claim, FreshRun, TypeOK
  <2>4. \A s \in Runs \ {r} : runs'[s] = runs[s]
    BY <1>6 DEF Claim, TypeOK
  <2>5. \A s \in Runs : ~Idle(s) => runs[s].quote \in Quotes
    BY DEF LockInv
  <2>6. QED
    BY <2>1, <2>2, <2>3, <2>4, <2>5 DEF RunInv, Idle
<1>7. ASSUME NEW r \in Runs, ReadQuote(r) \/ Render(r) \/ PutPdf(r) \/ WritePdfKey(r)
      PROVE  RunInv'
  <2> DEFINE q == runs[r].quote
  <2>1. /\ q \in Quotes /\ jobs[q].st # "absent" /\ UNCHANGED jobs
        /\ \A s \in Runs : ~Idle(s) => runs[s].quote \in Quotes
    BY <1>7 DEF ReadQuote, Render, PutPdf, WritePdfKey, Idle, LockInv, RunInv
  <2>2. \A s \in Runs \ {r} : runs'[s] = runs[s]
    BY <1>7 DEF ReadQuote, Render, PutPdf, WritePdfKey, TypeOK
  <2>3. runs'[r].quote = q
    BY <1>7 DEF ReadQuote, Render, PutPdf, WritePdfKey, TypeOK, Run
  <2>4. CASE ReadQuote(r)
    <3>1. /\ runs'[r].total = quotes[q].snapshot
          /\ runs'[r].pc = IF quotes[q].pdfKey THEN "ack" ELSE "render"
      BY <2>4 DEF ReadQuote, TypeOK, Run
    <3>2. UNCHANGED <<quotes, objects>>
      BY <2>4 DEF ReadQuote
    <3>3. QED
      BY <2>1, <2>2, <2>3, <3>1, <3>2 DEF RunInv, Idle
  <2>5. CASE Render(r)
    <3>1. runs'[r].total = runs[r].total /\ runs'[r].pc = "put" /\ UNCHANGED <<quotes, objects>>
      BY <2>5 DEF Render, TypeOK, Run
    <3>2. runs[r].total = quotes[q].snapshot
      BY <2>5 DEF Render, RunInv
    <3>3. QED
      BY <2>1, <2>2, <2>3, <3>1, <3>2 DEF RunInv, Idle
  <2>6. CASE PutPdf(r)
    <3>1. runs'[r].total = runs[r].total /\ runs'[r].pc = "write" /\ UNCHANGED quotes
      BY <2>6 DEF PutPdf, TypeOK, Run
    <3>2. runs[r].total = quotes[q].snapshot
      BY <2>6 DEF PutPdf, RunInv
    <3>3. Rendered(r) # NoObject
      BY QuoteAssumption DEF TypeOK, Run, Rendered, Doc
    <3>4. objects'[q] # NoObject /\ \A p \in Quotes \ {q} : objects'[p] = objects[p]
      BY <2>1, <2>6, <3>3 DEF PutPdf, TypeOK
    <3>5. QED
      BY <2>1, <2>2, <2>3, <3>1, <3>2, <3>4 DEF RunInv, Idle
  <2>7. CASE WritePdfKey(r)
    <3>1. runs'[r].pc = "ack" /\ UNCHANGED objects
      BY <2>7 DEF WritePdfKey, TypeOK, Run
    <3>2. /\ quotes'[q].pdfKey /\ quotes'[q].snapshot = quotes[q].snapshot
          /\ \A p \in Quotes \ {q} : quotes'[p] = quotes[p]
      BY <2>1, <2>7 DEF WritePdfKey, TypeOK, QuoteRow
    <3>3. QED
      BY <2>1, <2>2, <2>3, <3>1, <3>2 DEF RunInv, Idle
  <2>8. QED
    BY <1>7, <2>4, <2>5, <2>6, <2>7
<1>8. ASSUME NEW r \in Runs, LoseLock(r) PROVE RunInv'
  <2>1. \A s \in Runs : runs'[s].pc = runs[s].pc /\ runs'[s].quote = runs[s].quote
                        /\ runs'[s].total = runs[s].total
    BY <1>8 DEF LoseLock, TypeOK, Run
  <2>2. UNCHANGED <<quotes, objects, jobs>>
    BY <1>8 DEF LoseLock
  <2>3. QED
    BY <2>1, <2>2, RunFrame
<1>9. CASE WorkerCrash
  <2>1. \A s \in Runs : runs'[s].pc = "idle"
    BY <1>9 DEF WorkerCrash, IdleRun
  <2>2. QED
    BY <2>1 DEF RunInv, Idle
<1>10. QED
  BY <1>1, <1>2, <1>3, <1>4, <1>5, <1>6, <1>7, <1>8, <1>9
     DEF Next, vars, Environment, UpdatePrice, UpdateSettings, NextDay, Create,
         ResolveAndQuote, ReplyCreated, CreateFails, Worker, Process, Buyer, PdfStatus, Download

LEMMA SingleRunStep ==
    ASSUME TypeOK, LockInv, DataInv, SingleRunInv, [Next]_vars
    PROVE  SingleRunInv'
<1> SUFFICES ASSUME ~LockLoss
             PROVE  \A r \in Runs :
                      /\ ~Idle(r)' => runs'[r].lock
                      /\ runs'[r].pc \in {"render", "put", "write"}
                           => ~quotes'[runs'[r].quote].pdfKey
  BY DEF SingleRunInv, Idle
<1> DEFINE Good(r) == /\ ~Idle(r) => runs[r].lock
                      /\ runs[r].pc \in {"render", "put", "write"}
                           => ~quotes[runs[r].quote].pdfKey
<1>0. \A r \in Runs : Good(r)
  BY DEF SingleRunInv
<1> SUFFICES \A r \in Runs : Good(r)'
  BY DEF Idle
<1>1. ASSUME UNCHANGED runs, \A q \in Quotes : quotes'[q].pdfKey => quotes[q].pdfKey
      PROVE  \A r \in Runs : Good(r)'
  BY <1>0, <1>1 DEF LockInv, Idle
<1>2. ASSUME NEW q \in Quotes, InsertQuote(q) PROVE \A r \in Runs : Good(r)'
  BY <1>1, <1>2 DEF InsertQuote, TypeOK, QuoteRow
<1>3. ASSUME NEW r \in Runs, ReadQuote(r) \/ Render(r) \/ PutPdf(r) \/ CompleteRun(r) \/ RunFails(r)
      PROVE  \A s \in Runs : Good(s)'
  <2>1. \A s \in Runs \ {r} : runs'[s] = runs[s]
    BY <1>3 DEF ReadQuote, Render, PutPdf, CompleteRun, RunFails, TypeOK
  <2>2. UNCHANGED quotes
    BY <1>3 DEF ReadQuote, Render, PutPdf, CompleteRun, RunFails
  <2>3. CASE ReadQuote(r)
    <3>1. /\ runs'[r].quote = runs[r].quote /\ runs'[r].lock = runs[r].lock /\ ~Idle(r)
          /\ runs'[r].pc = IF quotes[runs[r].quote].pdfKey THEN "ack" ELSE "render"
      BY <2>3 DEF ReadQuote, TypeOK, Run, Idle
    <3>2. QED
      BY <1>0, <2>1, <2>2, <3>1 DEF Idle
  <2>4. CASE Render(r) \/ PutPdf(r)
    <3>1. /\ runs'[r].quote = runs[r].quote /\ runs'[r].lock = runs[r].lock
          /\ runs[r].pc \in {"render", "put"}
      BY <2>4 DEF Render, PutPdf, TypeOK, Run
    <3>2. QED
      BY <1>0, <2>1, <2>2, <3>1 DEF Idle
  <2>5. CASE CompleteRun(r) \/ RunFails(r)
    <3>1. runs'[r].pc = "idle"
      BY <2>5 DEF CompleteRun, RunFails, TypeOK, IdleRun
    <3>2. QED
      BY <1>0, <2>1, <2>2, <3>1 DEF Idle
  <2>6. QED
    BY <1>3, <2>3, <2>4, <2>5
<1>4. ASSUME NEW r \in Runs, WritePdfKey(r) PROVE \A s \in Runs : Good(s)'
  <2> DEFINE q == runs[r].quote
  <2>1. q \in Quotes /\ runs[r].lock
    BY <1>0, <1>4 DEF WritePdfKey, Idle, LockInv
  <2>2. \A s \in Runs \ {r} : runs'[s] = runs[s] /\ (~Idle(s) => runs[s].quote # q)
    BY <1>0, <1>4, <2>1 DEF WritePdfKey, TypeOK, LockInv
  <2>3. runs'[r].pc = "ack" /\ runs'[r].lock
    BY <1>4, <2>1 DEF WritePdfKey, TypeOK, Run
  <2>4. \A p \in Quotes \ {q} : quotes'[p] = quotes[p]
    BY <1>4 DEF WritePdfKey, TypeOK
  <2>5. QED
    BY <1>0, <2>2, <2>3, <2>4 DEF LockInv, Idle
<1>5. ASSUME NEW r \in Runs, NEW q \in Quotes, Claim(r, q) PROVE \A s \in Runs : Good(s)'
  <2>1. runs'[r].pc = "read" /\ runs'[r].lock /\ UNCHANGED quotes
    BY <1>5 DEF Claim, FreshRun, TypeOK
  <2>2. \A s \in Runs \ {r} : runs'[s] = runs[s]
    BY <1>5 DEF Claim, TypeOK
  <2>3. QED
    BY <1>0, <2>1, <2>2 DEF Idle
<1>6. CASE WorkerCrash
  BY <1>6 DEF WorkerCrash, IdleRun, Idle
<1>7. ASSUME UNCHANGED <<runs, quotes>> PROVE \A r \in Runs : Good(r)'
  BY <1>1, <1>7
<1>8. QED
  BY <1>2, <1>3, <1>4, <1>5, <1>6, <1>7
     DEF Next, vars, Environment, UpdatePrice, UpdateSettings, NextDay, Create,
         ResolveAndQuote, EnqueuePdf, ReplyCreated, CreateFails, Worker, Process,
         LoseLock, RecoverStalled, Buyer, PdfStatus, Download

\* The inductive invariant of the pipeline, with and without lost locks.
THEOREM PipelineCorrect == Spec => []PipelineInv
<1>1. Init => PipelineInv
  <2>1. Init => CreateInv
    BY QuoteAssumption DEF Init, CreateInv, NoJob
  <2>2. Init => StoreInv
    BY DEF Init, StoreInv, NoJob
  <2>3. Init => RunInv /\ SingleRunInv
    BY DEF Init, RunInv, SingleRunInv, Idle, IdleRun
  <2>4. QED
    BY <2>1, <2>2, <2>3, QueueInit DEF PipelineInv, QueueInv
<1>2. PipelineInv /\ [Next]_vars => PipelineInv'
  BY TypeStep, LockStep, CreateStep, StoreStep, RunStep, SingleRunStep DEF PipelineInv, DataInv
<1>3. QED
  BY <1>1, <1>2, PTL DEF Spec

\* No pdfKey without its document, whatever is lost, retried or overlaps.
THEOREM KeyHasObject == Spec => []PdfKeyImpliesObject
<1>1. PipelineInv => PdfKeyImpliesObject
  BY DEF PipelineInv, StoreInv, PdfKeyImpliesObject
<1>2. QED
  BY <1>1, PipelineCorrect, PTL

\* A downloaded document shows the total that create computed.
THEOREM TotalsAgree == Spec => []PdfShowsRepliedTotal
<1>1. PipelineInv => PdfShowsRepliedTotal
  BY DEF PipelineInv, CreateInv, StoreInv, PdfShowsRepliedTotal
<1>2. QED
  BY <1>1, PipelineCorrect, PTL

\* The job follows the row and the reply follows the job.
THEOREM CreateOrdered == Spec => []CreateOrder
<1>1. PipelineInv => CreateOrder
  BY DEF PipelineInv, CreateInv, CreateOrder
<1>2. QED
  BY <1>1, PipelineCorrect, PTL

\* A completed job has published its quote.
THEOREM CompletedPublished == Spec => []CompletedIsPublished
<1>1. PipelineInv => CompletedIsPublished
  BY DEF PipelineInv, StoreInv, CompletedIsPublished
<1>2. QED
  BY <1>1, PipelineCorrect, PTL

\* Unless a live run can lose its lock, a published document never changes.
THEOREM PublishedFrozen == ~LockLoss => (Spec => PublishedIsFrozen)
<1> SUFFICES ASSUME ~LockLoss PROVE Spec => PublishedIsFrozen
  OBVIOUS
<1>1. PipelineInv /\ [Next]_vars
        => [\A q \in Quotes : quotes[q].pdfKey => objects'[q] = objects[q]]_vars
  <2> SUFFICES ASSUME PipelineInv, Next, NEW q \in Quotes, quotes[q].pdfKey
               PROVE  objects'[q] = objects[q]
    OBVIOUS
  <2>1. ASSUME NEW r \in Runs, PutPdf(r) PROVE objects'[q] = objects[q]
    <3>1. runs[r].quote # q
      BY <2>1 DEF PutPdf, PipelineInv, SingleRunInv
    <3>2. QED
      BY <2>1, <3>1 DEF PutPdf, PipelineInv, TypeOK
  <2>2. QED
    BY <2>1 DEF Next, Environment, UpdatePrice, UpdateSettings, NextDay, Create,
         ResolveAndQuote, InsertQuote, EnqueuePdf, ReplyCreated, CreateFails, Worker, Process,
         ReadQuote, Render, WritePdfKey, CompleteRun, RunFails, LoseLock, Claim,
         RecoverStalled, WorkerCrash, Buyer, PdfStatus, Download
<1>2. QED
  BY <1>1, PipelineCorrect, PTL DEF Spec, PublishedIsFrozen

-----------------------------------------------------------------------------
(* Refinement of PdfDelivery.                                              *)

\* A step that touches no row, no document and no download is a stutter.
LEMMA RefinementStutter ==
    ASSUME UNCHANGED <<quotes, objects, visto>>
    PROVE  UNCHANGED Delivery!vars
  BY DEF Delivery!vars, pdfVisible

LEMMA RefinementStep ==
    ASSUME ~LockLoss, PipelineInv, [Next]_vars
    PROVE  [Delivery!Next]_Delivery!vars
<1> USE DEF PipelineInv
<1>1. ASSUME NEW q \in Quotes, InsertQuote(q) PROVE Delivery!Offer(q, req[q].total)
  <2>1. quotes[q].snapshot = 0
    BY <1>1 DEF InsertQuote, CreateInv
  <2>2. [p \in Quotes |-> quotes'[p].snapshot]
          = [[p \in Quotes |-> quotes[p].snapshot] EXCEPT ![q] = req[q].total]
    BY <1>1 DEF InsertQuote, TypeOK, QuoteRow
  <2>3. pdfVisible' = pdfVisible
    <3>1. \A p \in Quotes : quotes'[p].pdfKey <=> quotes[p].pdfKey
      BY <1>1 DEF InsertQuote, TypeOK, QuoteRow
    <3>2. objects' = objects
      BY <1>1 DEF InsertQuote
    <3>3. QED
      BY <3>1, <3>2 DEF pdfVisible
  <2>4. QED
    BY <1>1, <2>1, <2>2, <2>3 DEF Delivery!Offer, InsertQuote, buyer
<1>2. ASSUME NEW r \in Runs, WritePdfKey(r)
      PROVE  Delivery!Publish(runs[r].quote, objects[runs[r].quote].fecha)
  <2> DEFINE q == runs[r].quote
  <2>1. q \in Quotes /\ ~quotes[q].pdfKey /\ objects[q] # NoObject
    BY <1>2 DEF WritePdfKey, Idle, LockInv, RunInv, SingleRunInv
  <2>2. quotes[q].snapshot # 0 /\ objects[q].total = quotes[q].snapshot
    BY <2>1 DEF StoreInv
  <2>3. objects[q] = [total |-> quotes[q].snapshot, fecha |-> objects[q].fecha]
    <3>1. objects[q] \in Doc
      BY <2>1 DEF TypeOK
    <3>2. QED
      BY <2>2, <3>1 DEF Doc
  <2>4. /\ \A p \in Quotes : quotes'[p].snapshot = quotes[p].snapshot
        /\ quotes'[q].pdfKey
        /\ \A p \in Quotes \ {q} : quotes'[p] = quotes[p]
    BY <1>2, <2>1 DEF WritePdfKey, TypeOK, QuoteRow
  <2>5. objects' = objects /\ visto' = visto
    BY <1>2 DEF WritePdfKey, buyer
  <2>6. [p \in Quotes |-> quotes'[p].snapshot] = [p \in Quotes |-> quotes[p].snapshot]
    BY <2>4
  <2>7. pdfVisible[q] = NoObject
    BY <2>1 DEF pdfVisible
  <2>8. pdfVisible' = [pdfVisible EXCEPT ![q] = objects[q]]
    BY <2>1, <2>4, <2>5 DEF pdfVisible
  <2>9. QED
    BY <2>1, <2>2, <2>3, <2>5, <2>6, <2>7, <2>8 DEF Delivery!Publish
<1>3. ASSUME NEW q \in Quotes, Download(q) PROVE Delivery!Download(q)
  <2>1. quotes[q].pdfKey /\ objects[q] # NoObject
    BY <1>3 DEF Download, StoreInv
  <2>2. pdfVisible[q] = objects[q]
    BY <2>1 DEF pdfVisible
  <2>3. quotes' = quotes /\ objects' = objects
    BY <1>3 DEF Download
  <2>4. QED
    BY <1>3, <2>1, <2>2, <2>3 DEF Delivery!Download, Download, pdfVisible
<1>4. ASSUME NEW r \in Runs, PutPdf(r) PROVE UNCHANGED Delivery!vars
  <2> DEFINE q == runs[r].quote
  <2>1. ~quotes[q].pdfKey
    BY <1>4 DEF PutPdf, SingleRunInv
  <2>2. \A p \in Quotes : p # q => objects'[p] = objects[p]
    BY <1>4 DEF PutPdf, TypeOK
  <2>3. quotes' = quotes /\ visto' = visto
    BY <1>4 DEF PutPdf, buyer
  <2>4. pdfVisible' = pdfVisible
    BY <2>1, <2>2, <2>3 DEF pdfVisible
  <2>5. QED
    BY <2>3, <2>4 DEF Delivery!vars
<1>5. ASSUME UNCHANGED <<quotes, objects, visto>> PROVE UNCHANGED Delivery!vars
  BY <1>5, RefinementStutter
<1>6. CASE \E q \in Quotes : InsertQuote(q)
  <2>1. PICK q \in Quotes : InsertQuote(q)
    BY <1>6
  <2>2. req[q].total \in 1..MaxPrecio
    BY <2>1 DEF InsertQuote, CreateInv, TypeOK
  <2>3. Delivery!Offer(q, req[q].total)
    BY <1>1, <2>1
  <2>4. \E t \in 1..MaxPrecio : Delivery!Offer(q, t)
    BY <2>2, <2>3 DEF Delivery!Offer
  <2>5. QED
    BY <2>4 DEF Delivery!Next
<1>7. CASE \E r \in Runs : WritePdfKey(r)
  <2>1. PICK r \in Runs : WritePdfKey(r)
    BY <1>7
  <2>2. runs[r].quote \in Quotes /\ objects[runs[r].quote] \in Doc
    <3>1. runs[r].quote \in Quotes /\ objects[runs[r].quote] # NoObject
      BY <2>1 DEF WritePdfKey, Idle, LockInv, RunInv
    <3>2. QED
      BY <3>1 DEF TypeOK
  <2>3. objects[runs[r].quote].fecha \in 0..MaxDia
    BY <2>2 DEF Doc
  <2>4. QED
    BY <1>2, <2>1, <2>2, <2>3 DEF Delivery!Next
<1>8. QED
  BY <1>3, <1>4, <1>5, <1>6, <1>7
     DEF Next, vars, Environment, UpdatePrice, UpdateSettings, NextDay, Create,
         ResolveAndQuote, EnqueuePdf, ReplyCreated, CreateFails, Worker, Process,
         ReadQuote, Render, CompleteRun, RunFails, LoseLock, Claim, RecoverStalled,
         WorkerCrash, Buyer, PdfStatus, buyer, Delivery!Next

\* Unless a live run can lose its lock, the pipeline keeps the promise.
THEOREM PipelineRefinesDelivery == ~LockLoss => (Spec => ImplementsDelivery)
<1> SUFFICES ASSUME ~LockLoss PROVE Spec => Delivery!Spec
  BY DEF ImplementsDelivery
<1>1. Init => Delivery!Init
  BY DEF Init, Delivery!Init, pdfVisible
<1>2. PipelineInv /\ [Next]_vars => [Delivery!Next]_Delivery!vars
  BY RefinementStep
<1>3. QED
  BY <1>1, <1>2, PipelineCorrect, PTL DEF Spec, Delivery!Spec

=============================================================================
