------------------------------ MODULE JobQueue ------------------------------
(***************************************************************************)
(* One BullMQ job, as the three event-driven pipelines of the worker use   *)
(* it.  BullMQ is not part of the repository: these operators are the      *)
(* behaviour that packages/storage/src/{queue,quote-pdf,lead-email}.ts ask *)
(* for (a deterministic jobId, 5 attempts with backoff) and that           *)
(* apps/worker/src/index.ts gets from a default Worker (a lock per active  *)
(* job, one recovery of a stalled job).  Nothing in the repository removes *)
(* a finished job, so an id stays taken for ever.                          *)
(***************************************************************************)
EXTENDS Naturals

CONSTANTS
    MaxAttempts,   \* attempts of the job options (5 in the code)
    MaxStalls      \* BullMQ's maxStalledCount (its default, 1)

ASSUME QueueAssumption == MaxAttempts \in Nat \ {0} /\ MaxStalls \in Nat

\* "waiting" also stands for a job delayed by its backoff.
JobStates == {"absent", "waiting", "active", "completed", "failed"}

Job == [st: JobStates, attempts: 0..MaxAttempts, stalls: 0..(MaxStalls + 1)]

NoJob == [st |-> "absent", attempts |-> 0, stalls |-> 0]

Finished(j) == j.st \in {"completed", "failed"}

\* A job still owed a run has an attempt and a recovery left.
HasBudget(j) == Finished(j) \/ (j.attempts < MaxAttempts /\ j.stalls <= MaxStalls)

\* Queue.add with a jobId: a second add of a known id, even of a finished
\* one, is ignored without an error.
AddJob(j) == IF j.st = "absent" THEN [j EXCEPT !.st = "waiting"] ELSE j

ClaimJob(j) == [j EXCEPT !.st = "active"]

CompleteJob(j) == [j EXCEPT !.st = "completed"]

\* Mutant of FailJob: one attempt too many.
FailJob_OneMore(j) ==
    [j EXCEPT !.attempts = @ + 1,
              !.st = IF j.attempts < MaxAttempts THEN "waiting" ELSE "failed"]

\* Mutant of FailJob: no limit of attempts.
FailJob_Unlimited(j) == [j EXCEPT !.st = "waiting"]

\* The processor threw: another attempt after the backoff, or the end.
FailJob(j) ==
    [j EXCEPT !.attempts = @ + 1,
              !.st = IF j.attempts + 1 < MaxAttempts THEN "waiting" ELSE "failed"]

\* The stalled-jobs checker found an active job whose lock expired.
StallJob(j) ==
    [j EXCEPT !.stalls = @ + 1,
              !.st = IF j.stalls + 1 > MaxStalls THEN "failed" ELSE "waiting"]

=============================================================================
