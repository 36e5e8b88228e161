----------------------------- MODULE LeadEmail -----------------------------
(***************************************************************************)
(* The notification of a new lead: leads.create inserts the row, then      *)
(* enqueues one lead-email job; the worker reads the lead, resolves the    *)
(* recipients and has Resend send one email.                               *)
(*                                                                         *)
(* Data: the recipients are resolved or not (the configured address, else  *)
(* the owners of the organization); an email is counted when Resend        *)
(* accepts it, which may happen without the worker learning of it.         *)
(***************************************************************************)
EXTENDS JobQueue, FiniteSets

CONSTANTS
    Leads,       \* one create call for each
    Runs,        \* concurrent processor runs of the worker (concurrency 2)
    NoLead,      \* the lead of an idle run
    LockLoss     \* may a live run lose its BullMQ lock?

ASSUME EmailAssumption ==
    NoLead \notin Leads /\ LockLoss \in BOOLEAN /\ IsFiniteSet(Runs)

VARIABLES
    destinatario,  \* does the project resolve a recipient?
    leads,         \* the committed leads
    req,           \* the create calls
    jobs,          \* the lead-email queue, by lead
    runs,          \* the worker's processor runs
    enviados       \* emails Resend accepted, by lead

vars == <<destinatario, leads, req, jobs, runs, enviados>>

ReqPc == {"new", "inserted", "enqueued", "replied", "error"}
RunPc == {"idle", "read", "send", "ack"}
Run == [pc: RunPc, lead: Leads \cup {NoLead}, lock: BOOLEAN]
IdleRun == [pc |-> "idle", lead |-> NoLead, lock |-> FALSE]
FreshRun(l) == [pc |-> "read", lead |-> l, lock |-> TRUE]

TypeOK ==
    /\ destinatario \in BOOLEAN
    /\ leads \in SUBSET Leads
    /\ req \in [Leads -> ReqPc]
    /\ jobs \in [Leads -> Job]
    /\ runs \in [Runs -> Run]
    /\ enviados \in [Leads -> Nat]

Init ==
    /\ destinatario \in BOOLEAN
    /\ leads = {}
    /\ req = [l \in Leads |-> "new"]
    /\ jobs = [l \in Leads |-> NoJob]
    /\ runs = [r \in Runs |-> IdleRun]
    /\ enviados = [l \in Leads |-> 0]

-----------------------------------------------------------------------------
\* projects.updateSettings sets or clears leadsNotifyEmail, members come and go.
UpdateSettings ==
    /\ destinatario' = ~destinatario
    /\ UNCHANGED <<leads, req, jobs, runs, enviados>>

(* leads.create: the transaction, the push to Redis, the reply.            *)

InsertLead(l) ==
    /\ req[l] = "new"
    /\ leads' = leads \cup {l}
    /\ req' = [req EXCEPT ![l] = "inserted"]
    /\ UNCHANGED <<destinatario, jobs, runs, enviados>>

\* Mutant of EnqueueLeadEmail: the push is nested inside the transaction.
EnqueueLeadEmail_InsideTx(l) ==
    /\ req[l] = "new"
    /\ jobs' = [jobs EXCEPT ![l] = AddJob(@)]
    /\ UNCHANGED <<destinatario, leads, req, runs, enviados>>

EnqueueLeadEmail(l) ==
    /\ req[l] = "inserted"
    /\ jobs' = [jobs EXCEPT ![l] = AddJob(@)]
    /\ req' = [req EXCEPT ![l] = "enqueued"]
    /\ UNCHANGED <<destinatario, leads, runs, enviados>>

ReplyCreated(l) ==
    /\ req[l] = "enqueued"
    /\ req' = [req EXCEPT ![l] = "replied"]
    /\ UNCHANGED <<destinatario, leads, jobs, runs, enviados>>

\* The INSERT is rolled back, Redis is down, the panel dies, the reply is lost.
CreateFails(l) ==
    /\ req[l] \in {"new", "inserted", "enqueued"}
    /\ req' = [req EXCEPT ![l] = "error"]
    /\ UNCHANGED <<destinatario, leads, jobs, runs, enviados>>

-----------------------------------------------------------------------------
(* The worker: processLeadEmail, one run per claimed job.                  *)

Idle(r) == runs[r].pc = "idle"
Locked(l) == \E r \in Runs : runs[r].lead = l /\ runs[r].lock

Claim(r, l) ==
    /\ Idle(r) /\ jobs[l].st = "waiting"
    /\ jobs' = [jobs EXCEPT ![l] = ClaimJob(@)]
    /\ runs' = [runs EXCEPT ![r] = FreshRun(l)]
    /\ UNCHANGED <<destinatario, leads, req, enviados>>

\* Mutant of ReadLead: no recipient is a reason to return, not to throw.
ReadLead_SkipWithoutRecipient(r) ==
    /\ runs[r].pc = "read" /\ runs[r].lead \in leads
    /\ runs' = [runs EXCEPT ![r].pc = IF destinatario THEN "send" ELSE "ack"]
    /\ UNCHANGED <<destinatario, leads, req, jobs, enviados>>

\* readLeadForEmail and the recipients.  A missing row throws: RunFails.
ReadLead(r) ==
    /\ runs[r].pc = "read" /\ runs[r].lead \in leads /\ destinatario
    /\ runs' = [runs EXCEPT ![r].pc = "send"]
    /\ UNCHANGED <<destinatario, leads, req, jobs, enviados>>

\* sendLeadNotification, accepted by Resend.  It has no idempotency key.
\* RESEND_API_KEY is set: without it (development, tests) the function logs
\* the lead and returns.
SendLeadNotification(r) ==
    /\ runs[r].pc = "send"
    /\ enviados' = [enviados EXCEPT ![runs[r].lead] = @ + 1]
    /\ runs' = [runs EXCEPT ![r].pc = "ack"]
    /\ UNCHANGED <<destinatario, leads, req, jobs>>

\* The processor returned.  Without the lock BullMQ refuses the result.
CompleteRun(r) == LET l == runs[r].lead IN
    /\ runs[r].pc = "ack"
    /\ jobs' = IF runs[r].lock THEN [jobs EXCEPT ![l] = CompleteJob(@)] ELSE jobs
    /\ runs' = [runs EXCEPT ![r] = IdleRun]
    /\ UNCHANGED <<destinatario, leads, req, enviados>>

\* An await throws, also when Resend accepted the email and its answer was
\* lost.
RunFails(r) == LET l == runs[r].lead IN
    /\ ~Idle(r)
    /\ jobs' = IF runs[r].lock THEN [jobs EXCEPT ![l] = FailJob(@)] ELSE jobs
    /\ runs' = [runs EXCEPT ![r] = IdleRun]
    /\ UNCHANGED <<destinatario, leads, req, enviados>>

\* The processor throws because nobody would get the email.
NoRecipient(r) ==
    /\ runs[r].pc = "read" /\ ~destinatario
    /\ RunFails(r)

WorkerCrash ==
    /\ \E r \in Runs : ~Idle(r)
    /\ runs' = [r \in Runs |-> IdleRun]
    /\ UNCHANGED <<destinatario, leads, req, jobs, enviados>>

LoseLock(r) ==
    /\ LockLoss /\ runs[r].lock
    /\ runs' = [runs EXCEPT ![r].lock = FALSE]
    /\ UNCHANGED <<destinatario, leads, req, jobs, enviados>>

RecoverStalled(l) ==
    /\ jobs[l].st = "active" /\ ~Locked(l)
    /\ jobs' = [jobs EXCEPT ![l] = StallJob(@)]
    /\ UNCHANGED <<destinatario, leads, req, runs, enviados>>

-----------------------------------------------------------------------------
Create(l) ==
    InsertLead(l) \/ EnqueueLeadEmail(l) \/ ReplyCreated(l) \/ CreateFails(l)

\* What a run does when no await fails.
Process(r) ==
    ReadLead(r) \/ NoRecipient(r) \/ SendLeadNotification(r) \/ CompleteRun(r)

Next ==
    \/ UpdateSettings
    \/ \E l \in Leads : Create(l) \/ RecoverStalled(l)
    \/ \E r \in Runs : Process(r) \/ RunFails(r) \/ LoseLock(r)
    \/ \E r \in Runs, l \in Leads : Claim(r, l)
    \/ WorkerCrash

Spec == Init /\ [][Next]_vars

\* The container restarts the worker, which keeps consuming.
WorkerFairness ==
    /\ \A r \in Runs : WF_vars(Process(r))
    /\ \A l \in Leads : WF_vars(\E r \in Runs : Claim(r, l))
    /\ \A l \in Leads : WF_vars(RecoverStalled(l))

FairSpec == Spec /\ WorkerFairness

-----------------------------------------------------------------------------
(* Properties.                                                             *)

\* No email ever announces a lead that is not committed, whatever create
\* call fails or is undone, and a developer who was told the lead exists has
\* a notification queued for it (leads.ts:29-33).
EmailFollowsCommit ==
    \A l \in Leads : /\ jobs[l].st # "absent" \/ enviados[l] > 0 => l \in leads
                     /\ req[l] = "replied" => jobs[l].st # "absent"

\* A job that BullMQ counts as completed did notify someone: having nobody
\* to write to is never a success (lead-email.ts:181-187).
CompletedIsNotified ==
    \A l \in Leads : jobs[l].st = "completed" => enviados[l] > 0

\* Duplicates are possible but bounded by the claims of the job, however the
\* retries, the crashes and the stalled runs that are still alive mix.
SendsBounded == \A l \in Leads : enviados[l] <= MaxAttempts + MaxStalls

\* A lead that was created is announced or its job ends up failed, where the
\* failed handler reported it: it is never left waiting.
NotifiedOrFailed ==
    \A l \in Leads : req[l] = "enqueued" ~> enviados[l] > 0 \/ jobs[l].st = "failed"

-----------------------------------------------------------------------------
(* The inductive invariant behind the safety properties.                   *)

\* Row, job and email of a lead appear in that order.
CreateInv == \A l \in Leads :
    /\ req[l] \in {"inserted", "enqueued", "replied"} => l \in leads
    /\ req[l] \in {"enqueued", "replied"} => jobs[l].st # "absent"
    /\ jobs[l].st # "absent" => l \in leads
    /\ enviados[l] > 0 => jobs[l].st # "absent"
    /\ jobs[l].st = "completed" => enviados[l] > 0

\* A lock is held by one run, of an active job; a run past the send did send.
RunInv == \A r \in Runs : LET l == runs[r].lead IN
    /\ Idle(r) => ~runs[r].lock
    /\ ~Idle(r) => l \in Leads /\ jobs[l].st # "absent"
    /\ runs[r].lock => jobs[l].st = "active"
    /\ runs[r].lock => \A s \in Runs : runs[s].lock /\ runs[s].lead = l => s = r
    /\ runs[r].pc = "ack" => enviados[l] > 0

\* How often a job was claimed, and how often it can be.
Claims(j) == j.attempts + j.stalls + (IF j.st \in {"active", "completed"} THEN 1 ELSE 0)
ClaimBudget(j) ==
    /\ j.st # "failed" => j.attempts < MaxAttempts /\ j.stalls <= MaxStalls
    /\ Claims(j) <= MaxAttempts + MaxStalls

\* The runs of a lead that may still send.
Pending(l) == {r \in Runs : runs[r].lead = l /\ runs[r].pc \in {"read", "send"}}

\* Every email sent or still to be sent has a claim of its own.
CountInv == \A l \in Leads :
    /\ enviados[l] + Cardinality(Pending(l)) <= Claims(jobs[l])
    /\ ClaimBudget(jobs[l])

EmailInv == TypeOK /\ CreateInv /\ RunInv /\ CountInv

=============================================================================
