--------------------------- MODULE JobQueueProofs ---------------------------
(***************************************************************************)
(* Lemmas about the record of a BullMQ job, for every limit of attempts    *)
(* and of recoveries.                                                      *)
(***************************************************************************)
EXTENDS JobQueue, TLAPS

\* What the BullMQ transitions do to the record of a job.
LEMMA JobOps ==
    ASSUME NEW j \in Job
    PROVE  /\ AddJob(j) \in Job /\ AddJob(j).st # "absent"
           /\ j.st # "absent" => AddJob(j) = j
           /\ HasBudget(j) => HasBudget(AddJob(j))
           /\ AddJob(j).st = "completed" => j.st = "completed"
           /\ ClaimJob(j) \in Job /\ ClaimJob(j).st = "active"
           /\ HasBudget(j) /\ ~Finished(j) => HasBudget(ClaimJob(j))
           /\ CompleteJob(j) \in Job /\ CompleteJob(j).st = "completed"
           /\ HasBudget(CompleteJob(j))
  BY QueueAssumption DEF Job, JobStates, AddJob, ClaimJob, CompleteJob, HasBudget, Finished

\* A failure of an active job that has budget leaves a record with budget.
LEMMA JobFails ==
    ASSUME NEW j \in Job, HasBudget(j), j.st = "active"
    PROVE  /\ FailJob(j) \in Job /\ HasBudget(FailJob(j))
           /\ FailJob(j).st \in {"waiting", "failed"}
<1>1. j.attempts \in Nat /\ j.stalls \in Nat /\ j.attempts + 1 \in 0..MaxAttempts
  BY QueueAssumption DEF Job, HasBudget, Finished
<1>2. FailJob(j) \in Job
  BY <1>1, QueueAssumption DEF Job, JobStates, FailJob
<1>3. /\ FailJob(j).attempts = j.attempts + 1 /\ FailJob(j).stalls = j.stalls
      /\ FailJob(j).st = IF j.attempts + 1 < MaxAttempts THEN "waiting" ELSE "failed"
  BY <1>1 DEF Job, FailJob
<1>4. QED
  BY <1>1, <1>2, <1>3, QueueAssumption DEF HasBudget, Finished

\* So does the recovery of a stalled one.
LEMMA JobStalls ==
    ASSUME NEW j \in Job, HasBudget(j), j.st = "active"
    PROVE  /\ StallJob(j) \in Job /\ HasBudget(StallJob(j))
           /\ StallJob(j).st \in {"waiting", "failed"}
<1>1. j.attempts \in Nat /\ j.stalls \in Nat /\ j.stalls + 1 \in 0..(MaxStalls + 1)
  BY QueueAssumption DEF Job, HasBudget, Finished
<1>2. StallJob(j) \in Job
  BY <1>1, QueueAssumption DEF Job, JobStates, StallJob
<1>3. /\ StallJob(j).attempts = j.attempts /\ StallJob(j).stalls = j.stalls + 1
      /\ StallJob(j).st = IF j.stalls + 1 > MaxStalls THEN "failed" ELSE "waiting"
  BY <1>1 DEF Job, StallJob
<1>4. QED
  BY <1>1, <1>2, <1>3, QueueAssumption DEF HasBudget, Finished

=============================================================================
