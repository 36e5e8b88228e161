-------------------------- MODULE LeadEmailProofs --------------------------
(***************************************************************************)
(* Proofs about LeadEmail: emails follow commits, completed jobs did       *)
(* notify, and the number of duplicates is bounded, for any number of      *)
(* leads and of worker runs, attempts and recoveries.                      *)
(***************************************************************************)
EXTENDS LeadEmail, FiniteSetTheorems, TLAPS

-----------------------------------------------------------------------------
(* The job record.                                                         *)

LEMMA NoJobType == NoJob \in Job
  BY QueueAssumption, SMT DEF NoJob, Job, JobStates, QueueAssumption

LEMMA AddJobFacts ==
    ASSUME NEW j \in Job
    PROVE  /\ AddJob(j) \in Job /\ AddJob(j).st # "absent"
           /\ j.st # "absent" => AddJob(j) = j
           /\ j.st = "absent" => AddJob(j).st = "waiting"
           /\ Claims(AddJob(j)) = Claims(j)
           /\ ClaimBudget(j) => ClaimBudget(AddJob(j))
  BY QueueAssumption, SMT
  DEF AddJob, Job, JobStates, Claims, ClaimBudget, QueueAssumption

LEMMA ClaimJobFacts ==
    ASSUME NEW j \in Job, j.st = "waiting", ClaimBudget(j)
    PROVE  /\ ClaimJob(j) \in Job /\ ClaimJob(j).st = "active"
           /\ Claims(ClaimJob(j)) = Claims(j) + 1
           /\ ClaimBudget(ClaimJob(j))
  BY QueueAssumption, SMT
  DEF ClaimJob, Job, JobStates, Claims, ClaimBudget, QueueAssumption

LEMMA CompleteJobFacts ==
    ASSUME NEW j \in Job, j.st = "active", ClaimBudget(j)
    PROVE  /\ CompleteJob(j) \in Job /\ CompleteJob(j).st = "completed"
           /\ Claims(CompleteJob(j)) = Claims(j)
           /\ ClaimBudget(CompleteJob(j))
  BY QueueAssumption, SMT
  DEF CompleteJob, Job, JobStates, Claims, ClaimBudget, QueueAssumption

LEMMA FailJobFacts ==
    ASSUME NEW j \in Job, j.st = "active", ClaimBudget(j)
    PROVE  /\ FailJob(j) \in Job /\ FailJob(j).st \in {"waiting", "failed"}
           /\ Claims(FailJob(j)) = Claims(j)
           /\ ClaimBudget(FailJob(j))
  <1>1. /\ j.attempts \in Nat /\ j.stalls \in Nat
        /\ j.attempts < MaxAttempts /\ j.stalls <= MaxStalls
        /\ MaxAttempts \in Nat /\ MaxStalls \in Nat
    BY QueueAssumption, SMT DEF Job, ClaimBudget, QueueAssumption
  <1>2. /\ FailJob(j).attempts = j.attempts + 1 /\ FailJob(j).stalls = j.stalls
        /\ FailJob(j).st \in {"waiting", "failed"}
        /\ FailJob(j).st = "failed" <=> ~(j.attempts + 1 < MaxAttempts)
    BY SMT DEF FailJob, Job
  <1>3. FailJob(j).attempts \in 0..MaxAttempts /\ FailJob(j).stalls \in 0..(MaxStalls + 1)
    BY <1>1, <1>2
  <1>4. FailJob(j) \in Job
    BY <1>1, <1>3 DEF FailJob, Job, JobStates
  <1>5. Claims(j) = j.attempts + j.stalls + 1
    BY DEF Claims
  <1>6. Claims(FailJob(j)) = FailJob(j).attempts + FailJob(j).stalls + 0
    BY <1>2 DEF Claims
  <1>7. Claims(FailJob(j)) = Claims(j)
    BY <1>1, <1>2, <1>5, <1>6
  <1>8. ClaimBudget(FailJob(j))
    BY <1>1, <1>2, <1>5, <1>7 DEF ClaimBudget
  <1>9. QED
    BY <1>2, <1>4, <1>7, <1>8

LEMMA StallJobFacts ==
    ASSUME NEW j \in Job, j.st = "active", ClaimBudget(j)
    PROVE  /\ StallJob(j) \in Job /\ StallJob(j).st \in {"waiting", "failed"}
           /\ Claims(StallJob(j)) = Claims(j)
           /\ ClaimBudget(StallJob(j))
  <1>1. /\ j.attempts \in Nat /\ j.stalls \in Nat
        /\ j.attempts < MaxAttempts /\ j.stalls <= MaxStalls
        /\ MaxAttempts \in Nat /\ MaxStalls \in Nat
    BY QueueAssumption, SMT DEF Job, ClaimBudget, QueueAssumption
  <1>2. /\ StallJob(j).stalls = j.stalls + 1 /\ StallJob(j).attempts = j.attempts
        /\ StallJob(j).st \in {"waiting", "failed"}
        /\ StallJob(j).st = "failed" <=> j.stalls + 1 > MaxStalls
    BY SMT DEF StallJob, Job
  <1>3. StallJob(j).attempts \in 0..MaxAttempts /\ StallJob(j).stalls \in 0..(MaxStalls + 1)
    BY <1>1, <1>2
  <1>4. StallJob(j) \in Job
    BY <1>1, <1>3 DEF StallJob, Job, JobStates
  <1>5. Claims(j) = j.attempts + j.stalls + 1
    BY DEF Claims
  <1>6. Claims(StallJob(j)) = StallJob(j).attempts + StallJob(j).stalls + 0
    BY <1>2 DEF Claims
  <1>7. Claims(StallJob(j)) = Claims(j)
    BY <1>1, <1>2, <1>5, <1>6
  <1>8. ClaimBudget(StallJob(j))
    BY <1>1, <1>2, <1>5, <1>7 DEF ClaimBudget
  <1>9. QED
    BY <1>2, <1>4, <1>7, <1>8

LEMMA ClaimsNat == ASSUME NEW j \in Job PROVE Claims(j) \in Nat
  BY QueueAssumption, SMT DEF Claims, Job, QueueAssumption

-----------------------------------------------------------------------------
(* Counting the runs that may still send.                                  *)

LEMMA PendingFinite ==
    \A l : IsFiniteSet(Pending(l)) /\ Cardinality(Pending(l)) \in Nat
  <1> TAKE l
  <1>1. Pending(l) \in SUBSET Runs /\ IsFiniteSet(Runs)
    BY EmailAssumption DEF Pending, EmailAssumption
  <1>2. IsFiniteSet(Pending(l))
    BY <1>1, FS_Subset
  <1>3. QED
    BY <1>2, FS_CardinalityType

\* Steps that send nothing and claim nothing only shrink the pending runs.
LEMMA CountKept ==
    ASSUME TypeOK, CountInv, UNCHANGED enviados,
           \A l \in Leads : Pending(l)' \subseteq Pending(l),
           \A l \in Leads : Claims(jobs'[l]) = Claims(jobs[l]) /\ ClaimBudget(jobs'[l])
    PROVE  CountInv'
  <1> SUFFICES ASSUME NEW l \in Leads
               PROVE  enviados[l] + Cardinality(Pending(l)') <= Claims(jobs'[l])
    BY DEF CountInv
  <1>1. Pending(l)' \in SUBSET Pending(l)
    OBVIOUS
  <1>2. /\ Cardinality(Pending(l)') <= Cardinality(Pending(l))
        /\ Cardinality(Pending(l)') \in Nat
    BY <1>1, PendingFinite, FS_Subset, FS_CardinalityType
  <1>3. enviados[l] \in Nat /\ Claims(jobs[l]) \in Nat
    BY ClaimsNat DEF TypeOK
  <1>4. enviados[l] + Cardinality(Pending(l)) <= Claims(jobs[l])
    BY DEF CountInv
  <1>5. Cardinality(Pending(l)) \in Nat
    BY PendingFinite
  <1> HIDE DEF Pending
  <1>6. QED
    BY <1>2, <1>3, <1>4, <1>5

\* Runs that all end or stay in place keep RunInv, if the jobs they lock do.
LEMMA RunsKept ==
    ASSUME RunInv, UNCHANGED enviados,
           \A r \in Runs : runs'[r] \in {runs[r], IdleRun},
           \A l \in Leads : jobs[l].st # "absent" => jobs'[l].st # "absent",
           \A r \in Runs : runs'[r].lock =>
             runs'[r] = runs[r] /\ jobs'[runs[r].lead].st = "active"
    PROVE  RunInv'
  BY DEF RunInv, Idle, IdleRun

-----------------------------------------------------------------------------
(* The inductive invariant.                                                *)

LEMMA EmailInit == Init => EmailInv
  <1> SUFFICES ASSUME Init PROVE EmailInv
    OBVIOUS
  <1>1. TypeOK
    BY NoJobType, SMT DEF Init, TypeOK, ReqPc, Run, RunPc, IdleRun
  <1>2. CreateInv /\ RunInv
    BY DEF Init, CreateInv, RunInv, Idle, IdleRun, NoJob
  <1>3. CountInv
    <2>1. \A l \in Leads : Pending(l) = {}
      BY DEF Init, Pending, IdleRun
    <2>2. \A l \in Leads : Claims(jobs[l]) = 0 /\ ClaimBudget(jobs[l])
      BY QueueAssumption, SMT
      DEF Init, NoJob, Claims, ClaimBudget, QueueAssumption
    <2>3. \A l \in Leads : enviados[l] = 0
      BY DEF Init
    <2>4. QED
      BY <2>1, <2>2, <2>3, FS_EmptySet DEF CountInv
  <1>4. QED
    BY <1>1, <1>2, <1>3 DEF EmailInv

\* Steps of the create call and of the settings, outside the queue.
LEMMA RequestStep ==
    ASSUME EmailInv, UNCHANGED <<jobs, runs, enviados>>, leads \subseteq leads',
           leads' \in SUBSET Leads, destinatario' \in BOOLEAN,
           NEW l \in Leads, NEW pc \in ReqPc,
           req' = [req EXCEPT ![l] = pc] \/ UNCHANGED req,
           pc \in {"inserted", "enqueued", "replied"} => l \in leads',
           pc \in {"enqueued", "replied"} => jobs[l].st # "absent"
    PROVE  EmailInv'
  <1>1. TypeOK'
    BY DEF EmailInv, TypeOK
  <1>2. CreateInv'
    <2>1. ASSUME NEW k \in Leads, k # l PROVE req'[k] = req[k]
      BY <2>1 DEF EmailInv, TypeOK
    <2>2. req'[l] = pc \/ req'[l] = req[l]
      BY DEF EmailInv, TypeOK
    <2>3. QED
      BY <2>1, <2>2 DEF EmailInv, CreateInv
  <1>3. RunInv'
    BY DEF EmailInv, RunInv, Idle
  <1>4. CountInv'
    BY DEF EmailInv, CountInv, Pending
  <1>5. QED
    BY <1>1, <1>2, <1>3, <1>4 DEF EmailInv

LEMMA EnqueueStep ==
    ASSUME EmailInv, NEW l \in Leads, EnqueueLeadEmail(l)
    PROVE  EmailInv'
  <1>1. TypeOK /\ jobs[l] \in Job /\ l \in leads
    BY DEF EmailInv, TypeOK, EnqueueLeadEmail, CreateInv
  <1>2. /\ AddJob(jobs[l]) \in Job /\ AddJob(jobs[l]).st # "absent"
        /\ jobs[l].st # "absent" => AddJob(jobs[l]) = jobs[l]
        /\ jobs[l].st = "absent" => AddJob(jobs[l]).st = "waiting"
        /\ Claims(AddJob(jobs[l])) = Claims(jobs[l])
        /\ ClaimBudget(jobs[l]) => ClaimBudget(AddJob(jobs[l]))
    BY <1>1, AddJobFacts
  <1>3. /\ jobs'[l] = AddJob(jobs[l])
        /\ \A k \in Leads : k # l => jobs'[k] = jobs[k]
        /\ UNCHANGED <<destinatario, leads, runs, enviados>>
    BY <1>1 DEF EnqueueLeadEmail, TypeOK
  <1>4. /\ req'[l] = "enqueued"
        /\ \A k \in Leads : k # l => req'[k] = req[k]
    BY <1>1 DEF EnqueueLeadEmail, TypeOK
  <1>5. TypeOK'
    BY <1>1, <1>2 DEF EnqueueLeadEmail, TypeOK, ReqPc
  <1>6. CreateInv'
    BY <1>1, <1>2, <1>3, <1>4 DEF EmailInv, CreateInv
  <1>7. RunInv'
    BY <1>2, <1>3 DEF EmailInv, RunInv, Idle
  <1>8. CountInv'
    <2>1. \A k \in Leads : Pending(k)' = Pending(k)
      BY <1>3 DEF Pending
    <2>2. \A k \in Leads : Claims(jobs'[k]) = Claims(jobs[k]) /\ ClaimBudget(jobs'[k])
      BY <1>2, <1>3 DEF EmailInv, CountInv
    <2>3. QED
      BY <1>1, <1>3, <2>1, <2>2, CountKept DEF EmailInv
  <1>9. QED
    BY <1>5, <1>6, <1>7, <1>8 DEF EmailInv

LEMMA ClaimStep ==
    ASSUME EmailInv, NEW r \in Runs, NEW l \in Leads, Claim(r, l)
    PROVE  EmailInv'
  <1>1. TypeOK /\ jobs[l] \in Job /\ jobs[l].st = "waiting" /\ ClaimBudget(jobs[l])
    BY DEF EmailInv, TypeOK, Claim, CountInv
  <1>2. /\ ClaimJob(jobs[l]) \in Job /\ ClaimJob(jobs[l]).st = "active"
        /\ Claims(ClaimJob(jobs[l])) = Claims(jobs[l]) + 1
        /\ ClaimBudget(ClaimJob(jobs[l]))
    BY <1>1, ClaimJobFacts
  <1>3. /\ jobs'[l] = ClaimJob(jobs[l])
        /\ \A k \in Leads : k # l => jobs'[k] = jobs[k]
        /\ UNCHANGED <<destinatario, leads, req, enviados>>
    BY <1>1 DEF Claim, TypeOK
  <1>4. /\ runs'[r].pc = "read" /\ runs'[r].lead = l /\ runs'[r].lock
        /\ \A s \in Runs : s # r => runs'[s] = runs[s]
        /\ runs[r].pc = "idle"
    BY <1>1 DEF Claim, TypeOK, FreshRun, Idle
  <1>5. TypeOK'
    <2>1. FreshRun(l) \in Run
      BY DEF FreshRun, Run, RunPc
    <2>2. QED
      BY <1>1, <1>2, <2>1 DEF Claim, TypeOK
  <1>6. CreateInv'
    BY <1>1, <1>2, <1>3 DEF EmailInv, CreateInv
  <1>7. RunInv'
    <2>1. \A s \in Runs : runs[s].lock => runs[s].lead # l
      BY <1>1 DEF EmailInv, RunInv
    <2>2. QED
      BY <1>1, <1>2, <1>3, <1>4, <2>1 DEF EmailInv, RunInv, Idle
  <1>8. CountInv'
    <2>1. Pending(l)' = Pending(l) \cup {r} /\ r \notin Pending(l)
      BY <1>4 DEF Pending
    <2>2. Cardinality(Pending(l)') = Cardinality(Pending(l)) + 1
      BY <2>1, PendingFinite, FS_AddElement
    <2>3. enviados[l] + Cardinality(Pending(l)) <= Claims(jobs[l])
      BY DEF EmailInv, CountInv
    <2>4. enviados[l] \in Nat /\ Cardinality(Pending(l)) \in Nat /\ Claims(jobs[l]) \in Nat
      BY <1>1, PendingFinite, ClaimsNat DEF TypeOK
    <2>5. enviados[l] + Cardinality(Pending(l)') <= Claims(jobs'[l])
      BY <1>2, <1>3, <2>2, <2>3, <2>4
    <2>6. ASSUME NEW k \in Leads, k # l PROVE Pending(k)' = Pending(k)
      BY <1>4, <2>6 DEF Pending
    <2>7. QED
      BY <1>2, <1>3, <2>5, <2>6 DEF EmailInv, CountInv
  <1>9. QED
    BY <1>5, <1>6, <1>7, <1>8 DEF EmailInv

LEMMA ReadStep ==
    ASSUME EmailInv, NEW r \in Runs, ReadLead(r)
    PROVE  EmailInv'
  <1>1. TypeOK /\ runs[r] \in Run /\ runs[r].pc = "read"
    BY DEF EmailInv, TypeOK, ReadLead
  <1>2. /\ runs'[r].pc = "send" /\ runs'[r].lead = runs[r].lead
        /\ runs'[r].lock = runs[r].lock
        /\ \A s \in Runs : s # r => runs'[s] = runs[s]
        /\ UNCHANGED <<destinatario, leads, req, jobs, enviados>>
    BY <1>1 DEF ReadLead, TypeOK, Run
  <1>3. TypeOK'
    <2>1. [runs[r] EXCEPT !.pc = "send"] \in Run
      BY <1>1 DEF Run, RunPc
    <2>2. runs' \in [Runs -> Run]
      BY <1>1, <2>1 DEF ReadLead, TypeOK
    <2>3. QED
      BY <1>1, <1>2, <2>2 DEF TypeOK
  <1>4. CreateInv'
    BY <1>2 DEF EmailInv, CreateInv
  <1>5. RunInv'
    BY <1>1, <1>2 DEF EmailInv, RunInv, Idle
  <1>6. CountInv'
    <2>1. \A l \in Leads : Pending(l)' = Pending(l)
      BY <1>1, <1>2 DEF Pending
    <2>2. QED
      BY <1>2, <2>1 DEF EmailInv, CountInv
  <1>7. QED
    BY <1>3, <1>4, <1>5, <1>6 DEF EmailInv

LEMMA SendStep ==
    ASSUME EmailInv, NEW r \in Runs, SendLeadNotification(r)
    PROVE  EmailInv'
  <1> DEFINE l == runs[r].lead
  <1>1. /\ TypeOK /\ runs[r] \in Run /\ runs[r].pc = "send"
        /\ l \in Leads /\ jobs[l].st # "absent"
    BY DEF EmailInv, TypeOK, SendLeadNotification, RunInv, Idle
  <1>2. /\ runs'[r].pc = "ack" /\ runs'[r].lead = l /\ runs'[r].lock = runs[r].lock
        /\ \A s \in Runs : s # r => runs'[s] = runs[s]
        /\ UNCHANGED <<destinatario, leads, req, jobs>>
    BY <1>1 DEF SendLeadNotification, TypeOK, Run
  <1>3. /\ enviados'[l] = enviados[l] + 1 /\ enviados[l] \in Nat
        /\ \A k \in Leads : k # l => enviados'[k] = enviados[k]
    BY <1>1 DEF SendLeadNotification, TypeOK
  <1>4. TypeOK'
    <2>1. [runs[r] EXCEPT !.pc = "ack"] \in Run
      BY <1>1 DEF Run, RunPc
    <2>2. runs' \in [Runs -> Run]
      BY <1>1, <2>1 DEF SendLeadNotification, TypeOK
    <2>3. enviados' \in [Leads -> Nat]
      BY <1>1, <1>3 DEF SendLeadNotification, TypeOK
    <2>4. QED
      BY <1>1, <1>2, <2>2, <2>3 DEF TypeOK
  <1> HIDE DEF l
  <1>5. \A k \in Leads : enviados'[k] \in Nat /\ enviados[k] \in Nat
                         /\ (enviados[k] > 0 => enviados'[k] > 0)
    BY <1>1, <1>3 DEF TypeOK
  <1>6. CreateInv'
    BY <1>1, <1>2, <1>3, <1>5 DEF EmailInv, CreateInv
  <1>7. RunInv'
    BY <1>1, <1>2, <1>3, <1>5 DEF EmailInv, RunInv, Idle, l
  <1>8. CountInv'
    <2>1. Pending(l)' = Pending(l) \ {r} /\ r \in Pending(l)
      BY <1>1, <1>2 DEF Pending, l
    <2>2. Cardinality(Pending(l)') = Cardinality(Pending(l)) - 1
      BY <2>1, PendingFinite, FS_RemoveElement
    <2>3. enviados[l] + Cardinality(Pending(l)) <= Claims(jobs[l])
      BY <1>1 DEF EmailInv, CountInv
    <2>4. Cardinality(Pending(l)) \in Nat
      BY PendingFinite
    <2>5. jobs[l] \in Job /\ Claims(jobs[l]) \in Nat
      BY <1>1, ClaimsNat DEF TypeOK
    <2>6. enviados'[l] + Cardinality(Pending(l)') <= Claims(jobs[l])
      BY <1>3, <2>2, <2>3, <2>4, <2>5
    <2>7. ASSUME NEW k \in Leads, k # l PROVE Pending(k)' = Pending(k)
      BY <1>1, <1>2, <2>7 DEF Pending, l
    <2>8. ASSUME NEW k \in Leads
          PROVE  /\ enviados'[k] + Cardinality(Pending(k)') <= Claims(jobs[k])
                 /\ ClaimBudget(jobs[k])
      <3>1. ClaimBudget(jobs[k])
        BY DEF EmailInv, CountInv
      <3>2. CASE k = l
        <4>1. l' = l
          BY <1>2 DEF l
        <4>2. Pending(k)' = Pending(l)'
          BY <3>2, <4>1 DEF Pending
        <4>3. QED
          BY <2>6, <3>1, <3>2, <4>2
      <3>3. CASE k # l
        <4>1. enviados[k] + Cardinality(Pending(k)) <= Claims(jobs[k])
          BY DEF EmailInv, CountInv
        <4>2. enviados'[k] = enviados[k] /\ Pending(k)' = Pending(k)
          BY <1>3, <2>7, <3>3
        <4>3. QED
          BY <3>1, <4>1, <4>2
      <3>4. QED
        BY <3>2, <3>3
    <2>9. jobs' = jobs
      BY <1>2
    <2>10. \A k \in Leads : /\ enviados'[k] + Cardinality(Pending(k)') <= Claims(jobs'[k])
                            /\ ClaimBudget(jobs'[k])
      BY <2>8, <2>9
    <2>11. QED
      BY <2>10 DEF CountInv
  <1>9. QED
    BY <1>4, <1>6, <1>7, <1>8 DEF EmailInv

\* A run leaves: its job, if it still holds the lock, is finished with.
LEMMA LeaveStep ==
    ASSUME EmailInv, NEW r \in Runs, ~Idle(r), NEW j,
           runs[r].lock => /\ j \in Job /\ j.st \in {"waiting", "completed", "failed"}
                           /\ Claims(j) = Claims(jobs[runs[r].lead]) /\ ClaimBudget(j)
                           /\ j.st = "completed" => enviados[runs[r].lead] > 0,
           jobs' = IF runs[r].lock THEN [jobs EXCEPT ![runs[r].lead] = j] ELSE jobs,
           runs' = [runs EXCEPT ![r] = IdleRun],
           UNCHANGED <<destinatario, leads, req, enviados>>
    PROVE  EmailInv'
  <1> DEFINE l == runs[r].lead
  <1>1. TypeOK /\ l \in Leads
    BY DEF EmailInv, RunInv
  <1>2. /\ runs[r].lock => jobs'[l] = j
        /\ ~runs[r].lock => jobs'[l] = jobs[l]
        /\ \A k \in Leads : k # l => jobs'[k] = jobs[k]
    BY <1>1 DEF TypeOK
  <1>3. runs'[r] = IdleRun /\ \A s \in Runs : s # r => runs'[s] = runs[s]
    BY <1>1 DEF TypeOK
  <1>4. IdleRun \in Run
    BY DEF IdleRun, Run, RunPc
  <1>5. TypeOK'
    BY <1>1, <1>4 DEF TypeOK
  <1> HIDE DEF l
  <1>6. CreateInv'
    <2>1. jobs'[l].st = "absent" => jobs[l].st = "absent"
      BY <1>2 DEF l
    <2>2. jobs'[l].st = "completed" => enviados[l] > 0
      BY <1>1, <1>2 DEF EmailInv, CreateInv, l
    <2>3. jobs[l].st # "absent"
      BY DEF EmailInv, RunInv, l
    <2>4. QED
      BY <1>1, <1>2, <2>1, <2>2, <2>3 DEF EmailInv, CreateInv
  <1>7. RunInv'
    <2>1. \A s \in Runs : runs'[s].lock =>
             runs'[s] = runs[s] /\ jobs'[runs[s].lead].st = "active"
      <3>1. ASSUME NEW s \in Runs, runs'[s].lock PROVE s # r
        BY <1>3, <3>1 DEF IdleRun
      <3>2. ASSUME NEW s \in Runs, runs'[s].lock
            PROVE  runs'[s] = runs[s] /\ jobs'[runs[s].lead].st = "active"
        <4>1. s # r /\ runs'[s] = runs[s] /\ jobs[runs[s].lead].st = "active"
              /\ runs[s].lead \in Leads
          BY <1>3, <3>1, <3>2 DEF EmailInv, RunInv
        <4>2. runs[s].lead = l => ~runs[r].lock
          BY <3>2, <4>1 DEF EmailInv, RunInv, l
        <4>3. QED
          BY <1>2, <4>1, <4>2
      <3>3. QED
        BY <3>2
    <2>2. \A k \in Leads : jobs[k].st # "absent" => jobs'[k].st # "absent"
      BY <1>2 DEF l
    <2>3. \A s \in Runs : runs'[s] \in {runs[s], IdleRun}
      BY <1>3
    <2>4. QED
      BY <2>1, <2>2, <2>3, RunsKept DEF EmailInv
  <1>8. CountInv'
    <2>1. \A k \in Leads : Pending(k)' \subseteq Pending(k)
      BY <1>3 DEF Pending, IdleRun
    <2>2. \A k \in Leads : Claims(jobs'[k]) = Claims(jobs[k]) /\ ClaimBudget(jobs'[k])
      BY <1>2 DEF EmailInv, CountInv, l
    <2>3. QED
      BY <1>1, <2>1, <2>2, CountKept DEF EmailInv
  <1>9. QED
    BY <1>5, <1>6, <1>7, <1>8 DEF EmailInv

\* The job a run holds the lock of is active and has budget.
LEMMA LockedJob ==
    ASSUME EmailInv, NEW r \in Runs, runs[r].lock
    PROVE  /\ jobs[runs[r].lead] \in Job /\ jobs[runs[r].lead].st = "active"
           /\ ClaimBudget(jobs[runs[r].lead])
  BY DEF EmailInv, RunInv, CountInv, TypeOK

LEMMA CompleteStep ==
    ASSUME EmailInv, NEW r \in Runs, CompleteRun(r)
    PROVE  EmailInv'
  <1> DEFINE j == CompleteJob(jobs[runs[r].lead])
  <1>1. ~Idle(r) /\ enviados[runs[r].lead] > 0
    BY DEF CompleteRun, Idle, EmailInv, RunInv
  <1>2. runs[r].lock => /\ j \in Job /\ j.st = "completed"
                        /\ Claims(j) = Claims(jobs[runs[r].lead]) /\ ClaimBudget(j)
    BY LockedJob, CompleteJobFacts
  <1>3. /\ jobs' = IF runs[r].lock THEN [jobs EXCEPT ![runs[r].lead] = j] ELSE jobs
        /\ runs' = [runs EXCEPT ![r] = IdleRun]
        /\ UNCHANGED <<destinatario, leads, req, enviados>>
    BY DEF CompleteRun
  <1> HIDE DEF j
  <1>4. QED
    BY <1>1, <1>2, <1>3, LeaveStep

LEMMA FailStep ==
    ASSUME EmailInv, NEW r \in Runs, RunFails(r)
    PROVE  EmailInv'
  <1> DEFINE j == FailJob(jobs[runs[r].lead])
  <1>1. ~Idle(r)
    BY DEF RunFails
  <1>2. runs[r].lock => /\ j \in Job /\ j.st \in {"waiting", "failed"}
                        /\ Claims(j) = Claims(jobs[runs[r].lead]) /\ ClaimBudget(j)
    BY LockedJob, FailJobFacts
  <1>3. /\ jobs' = IF runs[r].lock THEN [jobs EXCEPT ![runs[r].lead] = j] ELSE jobs
        /\ runs' = [runs EXCEPT ![r] = IdleRun]
        /\ UNCHANGED <<destinatario, leads, req, enviados>>
    BY DEF RunFails
  <1> HIDE DEF j
  <1>4. QED
    BY <1>1, <1>2, <1>3, LeaveStep

LEMMA CrashStep ==
    ASSUME EmailInv, WorkerCrash
    PROVE  EmailInv'
  <1>1. /\ TypeOK /\ UNCHANGED <<destinatario, leads, req, jobs, enviados>>
        /\ \A r \in Runs : runs'[r] = IdleRun
    BY DEF EmailInv, WorkerCrash
  <1>2. TypeOK'
    BY <1>1 DEF WorkerCrash, TypeOK, IdleRun, Run, RunPc
  <1>3. CreateInv'
    BY <1>1 DEF EmailInv, CreateInv
  <1>4. RunInv'
    BY <1>1, RunsKept DEF EmailInv, IdleRun
  <1>5. CountInv'
    <2>1. \A l \in Leads : Pending(l)' \subseteq Pending(l)
      BY <1>1 DEF Pending, IdleRun
    <2>2. QED
      BY <1>1, <2>1, CountKept DEF EmailInv, CountInv
  <1>6. QED
    BY <1>2, <1>3, <1>4, <1>5 DEF EmailInv

LEMMA LoseLockStep ==
    ASSUME EmailInv, NEW r \in Runs, LoseLock(r)
    PROVE  EmailInv'
  <1>1. TypeOK /\ runs[r] \in Run
    BY DEF EmailInv, TypeOK
  <1>2. /\ runs'[r].pc = runs[r].pc /\ runs'[r].lead = runs[r].lead
        /\ ~runs'[r].lock
        /\ \A s \in Runs : s # r => runs'[s] = runs[s]
        /\ UNCHANGED <<destinatario, leads, req, jobs, enviados>>
    BY <1>1 DEF LoseLock, TypeOK, Run
  <1>3. TypeOK'
    <2>1. [runs[r] EXCEPT !.lock = FALSE] \in Run
      BY <1>1 DEF Run
    <2>2. runs' \in [Runs -> Run]
      BY <1>1, <2>1 DEF LoseLock, TypeOK
    <2>3. QED
      BY <1>1, <1>2, <2>2 DEF TypeOK
  <1>4. CreateInv'
    BY <1>2 DEF EmailInv, CreateInv
  <1>5. RunInv'
    BY <1>2 DEF EmailInv, RunInv, Idle
  <1>6. CountInv'
    <2>1. \A l \in Leads : Pending(l)' = Pending(l)
      BY <1>2 DEF Pending
    <2>2. QED
      BY <1>2, <2>1 DEF EmailInv, CountInv
  <1>7. QED
    BY <1>3, <1>4, <1>5, <1>6 DEF EmailInv

LEMMA StallStep ==
    ASSUME EmailInv, NEW l \in Leads, RecoverStalled(l)
    PROVE  EmailInv'
  <1>1. /\ TypeOK /\ jobs[l] \in Job /\ jobs[l].st = "active" /\ ClaimBudget(jobs[l])
        /\ \A r \in Runs : runs[r].lock => runs[r].lead # l
    BY DEF EmailInv, TypeOK, CountInv, RecoverStalled, Locked
  <1>2. /\ StallJob(jobs[l]) \in Job /\ StallJob(jobs[l]).st \in {"waiting", "failed"}
        /\ Claims(StallJob(jobs[l])) = Claims(jobs[l])
        /\ ClaimBudget(StallJob(jobs[l]))
    BY <1>1, StallJobFacts
  <1>3. /\ jobs'[l] = StallJob(jobs[l])
        /\ \A k \in Leads : k # l => jobs'[k] = jobs[k]
        /\ UNCHANGED <<destinatario, leads, req, runs, enviados>>
    BY <1>1 DEF RecoverStalled, TypeOK
  <1>4. TypeOK'
    BY <1>1, <1>2 DEF RecoverStalled, TypeOK
  <1>5. CreateInv'
    BY <1>1, <1>2, <1>3 DEF EmailInv, CreateInv
  <1>6. RunInv'
    BY <1>1, <1>2, <1>3 DEF EmailInv, RunInv, Idle
  <1>7. CountInv'
    <2>1. \A k \in Leads : Pending(k)' = Pending(k)
      BY <1>3 DEF Pending
    <2>2. \A k \in Leads : Claims(jobs'[k]) = Claims(jobs[k]) /\ ClaimBudget(jobs'[k])
      BY <1>2, <1>3 DEF EmailInv, CountInv
    <2>3. QED
      BY <1>1, <1>3, <2>1, <2>2, CountKept DEF EmailInv
  <1>8. QED
    BY <1>4, <1>5, <1>6, <1>7 DEF EmailInv

LEMMA EmailStep == EmailInv /\ [Next]_vars => EmailInv'
  <1> SUFFICES ASSUME EmailInv, [Next]_vars PROVE EmailInv'
    OBVIOUS
  <1>1. CASE UpdateSettings
    <2>1. /\ UNCHANGED <<leads, req, jobs, runs, enviados>> /\ destinatario' \in BOOLEAN
      BY <1>1 DEF UpdateSettings
    <2>2. TypeOK'
      BY <2>1 DEF EmailInv, TypeOK
    <2>3. CreateInv' /\ RunInv' /\ CountInv'
      BY <2>1 DEF EmailInv, CreateInv, RunInv, CountInv, Idle, Pending
    <2>4. QED
      BY <2>2, <2>3 DEF EmailInv
  <1>2. ASSUME NEW l \in Leads, InsertLead(l) PROVE EmailInv'
    BY <1>2, RequestStep DEF InsertLead, EmailInv, TypeOK, ReqPc
  <1>3. ASSUME NEW l \in Leads, EnqueueLeadEmail(l) PROVE EmailInv'
    BY <1>3, EnqueueStep
  <1>4. ASSUME NEW l \in Leads, ReplyCreated(l) PROVE EmailInv'
    BY <1>4, RequestStep DEF ReplyCreated, EmailInv, CreateInv, TypeOK, ReqPc
  <1>5. ASSUME NEW l \in Leads, CreateFails(l) PROVE EmailInv'
    BY <1>5, RequestStep DEF CreateFails, EmailInv, TypeOK, ReqPc
  <1>6. ASSUME NEW l \in Leads, RecoverStalled(l) PROVE EmailInv'
    BY <1>6, StallStep
  <1>7. ASSUME NEW r \in Runs, Process(r) PROVE EmailInv'
    BY <1>7, ReadStep, SendStep, CompleteStep, FailStep DEF Process, NoRecipient
  <1>8. ASSUME NEW r \in Runs, RunFails(r) PROVE EmailInv'
    BY <1>8, FailStep
  <1>9. ASSUME NEW r \in Runs, LoseLock(r) PROVE EmailInv'
    BY <1>9, LoseLockStep
  <1>10. ASSUME NEW r \in Runs, NEW l \in Leads, Claim(r, l) PROVE EmailInv'
    BY <1>10, ClaimStep
  <1>11. CASE WorkerCrash
    BY <1>11, CrashStep
  <1>12. CASE UNCHANGED vars
    <2>1. UNCHANGED <<destinatario, leads, req, jobs, runs, enviados>>
      BY <1>12 DEF vars
    <2>2. QED
      BY <2>1 DEF EmailInv, TypeOK, CreateInv, RunInv, CountInv, Idle, Pending
  <1>13. QED
    BY <1>1, <1>2, <1>3, <1>4, <1>5, <1>6, <1>7, <1>8, <1>9, <1>10, <1>11, <1>12
    DEF Next, Create

\* Types, and the inductive invariant the other theorems rest on.
THEOREM EmailInvariant == Spec => []EmailInv
  BY EmailInit, EmailStep, PTL DEF Spec

\* Emails and jobs only exist for committed leads; a reply implies a job.
THEOREM EmailsFollowCommits == Spec => []EmailFollowsCommit
  <1>1. EmailInv => EmailFollowsCommit
    BY DEF EmailInv, CreateInv, EmailFollowsCommit
  <1>2. QED
    BY <1>1, EmailInvariant, PTL

\* A completed lead-email job did send an email.
THEOREM CompletedNotified == Spec => []CompletedIsNotified
  <1>1. EmailInv => CompletedIsNotified
    BY DEF EmailInv, CreateInv, CompletedIsNotified
  <1>2. QED
    BY <1>1, EmailInvariant, PTL

\* At most one email per claim of the job: never more than the attempts and
\* the recoveries together, with any number of runs and of lost locks.
THEOREM DuplicatesBounded == Spec => []SendsBounded
  <1>1. EmailInv => SendsBounded
    <2> SUFFICES ASSUME EmailInv, NEW l \in Leads
                 PROVE  enviados[l] <= MaxAttempts + MaxStalls
      BY DEF SendsBounded
    <2>1. /\ enviados[l] + Cardinality(Pending(l)) <= Claims(jobs[l])
          /\ Claims(jobs[l]) <= MaxAttempts + MaxStalls
      BY DEF EmailInv, CountInv, ClaimBudget
    <2>2. enviados[l] \in Nat /\ Cardinality(Pending(l)) \in Nat
          /\ Claims(jobs[l]) \in Nat
      BY PendingFinite, ClaimsNat DEF EmailInv, TypeOK
    <2>3. MaxAttempts \in Nat /\ MaxStalls \in Nat
      BY QueueAssumption DEF QueueAssumption
    <2>4. QED
      BY <2>1, <2>2, <2>3
  <1>2. QED
    BY <1>1, EmailInvariant, PTL

=============================================================================
