--------------------------- MODULE BackgroundJobs ---------------------------
(***************************************************************************)
(* Background jobs of the ticketing service: a job and its outbox row are  *)
(* committed together, a dispatcher publishes outbox rows to the Celery    *)
(* broker, and workers claim a job under a row lock and a lease, run it    *)
(* (an email notification or a ticket export) and record the outcome.      *)
(*                                                                         *)
(* Every action is one database transaction, one broker operation or one   *)
(* call of the mail server, so two workers, or a crash, can come between   *)
(* any two of them.  Time is kept as remaining or elapsed seconds: Tick    *)
(* ages the leases, the countdowns and the running workers together.       *)
(***************************************************************************)
EXTENDS Integers, FiniteSets

CONSTANTS
  EmailJobs, ExportJobs,   \* the jobs, by BackgroundJobKind
  NoJob,                   \* what an idle worker works on
  Workers, Dispatchers,
  MaxAttempts,             \* background_job_max_attempts
  LeaseSeconds,            \* background_job_lease_seconds
  SoftLimit, HardLimit,    \* background_job_{soft,hard}_time_limit_seconds
  RetryBase, RetryMax,     \* background_job_retry_{base,max}_seconds
  BatchSize,               \* outbox_batch_size
  MaxCrashes,              \* bound: lost worker and dispatcher processes
  MaxTimeouts,             \* bound: runs ended by a time limit
  MaxErrors,               \* bound: runs ended by a database or broker error
  MaxOutages,              \* bound: publications that raise
  MaxCopies                \* bound: messages delivered or published twice

Jobs == EmailJobs \cup ExportJobs

ASSUME JobsAssumption == NoJob \notin Jobs
ASSUME KindAssumption == EmailJobs \cap ExportJobs = {}
ASSUME WorkersAssumption == IsFiniteSet(Workers)
\* The ranges and the two validators of core/config.py.
ASSUME SettingsAssumption ==
  /\ MaxAttempts \in Nat \ {0}
  /\ LeaseSeconds \in Nat \ {0}
  /\ SoftLimit \in Nat \ {0}
  /\ HardLimit \in Nat /\ HardLimit > SoftLimit
  /\ RetryBase \in Nat \ {0}
  /\ RetryMax \in Nat /\ RetryMax >= RetryBase
  /\ BatchSize \in Nat \ {0}
ASSUME BudgetAssumption ==
  /\ MaxCrashes \in Nat
  /\ MaxTimeouts \in Nat
  /\ MaxErrors \in Nat
  /\ MaxOutages \in Nat
  /\ MaxCopies \in Nat

VARIABLES
  job,         \* background_jobs rows
  delivery,    \* notification_deliveries rows
  outbox,      \* outbox_messages rows
  queue,       \* unacknowledged broker messages no worker holds, by countdown
  worker,      \* Celery worker processes
  dispatcher,  \* running dispatch_outbox tasks
  delivered,   \* mails accepted by the server whose sender saw no error
  file,        \* exports whose file is in place
  budget       \* faults still to come

vars == <<job, delivery, outbox, queue, worker, dispatcher, delivered, file, budget>>
-----------------------------------------------------------------------------
(* Rows, processes and delays *)

JobStatus == {"absent", "pending", "running", "retrying", "succeeded", "failed"}
Terminal == {"succeeded", "failed"}
DeliveryStatus == {"absent", "sending", "sent", "retryable", "ambiguous"}
OutboxStatus == {"absent", "pending", "published"}

\* The lease of a row that has none: as long run out as a worker can notice.
NoLease == -HardLimit

Lower(a, b) == IF a < b THEN a ELSE b
Higher(a, b) == IF a > b THEN a ELSE b

\* Exponential backoff, base * 2^(n-1) capped at the maximum.  After RetryMax
\* doublings the cap holds whatever the base, so more make no difference.
Doublings(n) == Lower(RetryMax, Higher(0, n - 1))
RetryDelay(n) == Lower(RetryBase * 2 ^ Doublings(n), RetryMax)

\* The provers know nothing of ^.
ASSUME PowerAssumption == \A e \in 0 .. RetryMax : RetryBase * 2 ^ e \in Nat

\* The longest countdown of a message: a backoff, or what is left of a lease as
\* a worker that started before the lease was granted sees it, plus one.
MaxDelay == Higher(RetryMax, LeaseSeconds + HardLimit + 1)

Idle == [pc |-> "idle", job |-> NoJob, ran |-> 0, attempt |-> 0, delay |-> 0]
Resting == [todo |-> {}, sent |-> {}, failed |-> {}]

\* Where a worker is: about to claim; then, with the claim committed, reading
\* the delivery row, inserting it, sending, recording what the send did,
\* exporting, recording a failure; then republishing its message.
Executing == {"email", "insert", "sending", "sent", "raised",
              "export", "written", "failing", "refused"}
Phases == {"idle", "claim", "defer"} \cup Executing

Runs(w, j) == worker[w].job = j /\ worker[w].pc \in Executing
\* Mutant of Locked: rows are selected without row locks.
NothingLocked == {}
Locked == UNION {dispatcher[d].todo \cup dispatcher[d].sent \cup dispatcher[d].failed :
                   d \in Dispatchers}

JobRow == [status : JobStatus, attempts : 0 .. MaxAttempts, lease : NoLease .. LeaseSeconds]
DeliveryRow == [status : DeliveryStatus, attempts : Nat]
OutboxRow == [status : OutboxStatus, tries : Nat, wait : 0 .. RetryMax]
Process == [pc : Phases, job : Jobs \cup {NoJob}, ran : 0 .. HardLimit,
            attempt : 0 .. MaxAttempts, delay : 0 .. MaxDelay]
Batch == [todo : SUBSET Jobs, sent : SUBSET Jobs, failed : SUBSET Jobs]
Faults == {"crash", "timeout", "error", "outage", "copy"}

TypeOK ==
  /\ job \in [Jobs -> JobRow]
  /\ delivery \in [Jobs -> DeliveryRow]
  /\ outbox \in [Jobs -> OutboxRow]
  /\ queue \in [Jobs \X (0 .. MaxDelay) -> Nat]
  /\ worker \in [Workers -> Process]
  /\ dispatcher \in [Dispatchers -> Batch]
  /\ delivered \in [Jobs -> Nat]
  /\ file \in [Jobs -> BOOLEAN]
  /\ budget \in [Faults -> Nat]

Init ==
  /\ job = [j \in Jobs |-> [status |-> "absent", attempts |-> 0, lease |-> NoLease]]
  /\ delivery = [j \in Jobs |-> [status |-> "absent", attempts |-> 0]]
  /\ outbox = [j \in Jobs |-> [status |-> "absent", tries |-> 0, wait |-> 0]]
  /\ queue = [m \in Jobs \X (0 .. MaxDelay) |-> 0]
  /\ worker = [w \in Workers |-> Idle]
  /\ dispatcher = [d \in Dispatchers |-> Resting]
  /\ delivered = [j \in Jobs |-> 0]
  /\ file = [j \in Jobs |-> FALSE]
  /\ budget = [fault \in Faults |-> CASE fault = "crash" -> MaxCrashes
                                      [] fault = "timeout" -> MaxTimeouts
                                      [] fault = "error" -> MaxErrors
                                      [] fault = "outage" -> MaxOutages
                                      [] fault = "copy" -> MaxCopies]

\* One more fault of this kind, as long as the bound allows it.
Fault(fault) == budget[fault] > 0 /\ budget' = [budget EXCEPT ![fault] = @ - 1]
-----------------------------------------------------------------------------
(* Submission and the outbox dispatcher *)

\* The job and its publication intent are one transaction.
Submit(j) ==
  /\ job[j].status = "absent"
  /\ job' = [job EXCEPT ![j].status = "pending"]
  /\ outbox' = [outbox EXCEPT ![j].status = "pending"]
  /\ UNCHANGED <<delivery, queue, worker, dispatcher, delivered, file, budget>>

Due == {j \in Jobs : outbox[j].status = "pending" /\ outbox[j].wait = 0}

\* FOR UPDATE SKIP LOCKED LIMIT BatchSize.  Which due rows come first
\* (created_at, id) is left open.
SelectBatch(d) ==
  /\ dispatcher[d] = Resting
  /\ \E batch \in SUBSET (Due \ Locked) :
       /\ batch # {}
       /\ Cardinality(batch) = Lower(BatchSize, Cardinality(Due \ Locked))
       /\ dispatcher' = [dispatcher EXCEPT ![d].todo = batch]
  /\ UNCHANGED <<job, delivery, outbox, queue, worker, delivered, file, budget>>

Publish(d, j) ==
  /\ j \in dispatcher[d].todo
  /\ queue' = [queue EXCEPT ![<<j, 0>>] = @ + 1]
  /\ dispatcher' = [dispatcher EXCEPT ![d].todo = @ \ {j}, ![d].sent = @ \cup {j}]
  /\ UNCHANGED <<job, delivery, outbox, worker, delivered, file, budget>>

\* The publication raises.  If only the broker's reply was lost, the message is
\* there all the same, and the row that stays pending is published once more.
PublishFails(d, j) ==
  /\ j \in dispatcher[d].todo
  /\ dispatcher' = [dispatcher EXCEPT ![d].todo = @ \ {j}, ![d].failed = @ \cup {j}]
  /\ UNCHANGED queue \/ queue' = [queue EXCEPT ![<<j, 0>>] = @ + 1]
  /\ Fault("outage")
  /\ UNCHANGED <<job, delivery, outbox, worker, delivered, file>>

\* Mutant of Postponed: a failed publication counts as published.
WrittenOff(row, passed) ==
  [status |-> "published", tries |-> row.tries + 1, wait |-> row.wait]

\* The row of a failed publication: its delay counts from when the batch was
\* selected, so some of it may have passed.
Postponed(row, passed) ==
  [status |-> row.status, tries |-> row.tries + 1,
   wait |-> Higher(0, RetryDelay(row.tries + 1) - passed)]
Published(row) == [status |-> "published", tries |-> row.tries + 1, wait |-> row.wait]

\* One commit for the whole batch, after the last publication.
CommitBatch(d) ==
  /\ dispatcher[d] # Resting
  /\ dispatcher[d].todo = {}
  /\ \E passed \in 0 .. RetryMax :
       outbox' = [j \in Jobs |->
                    IF j \in dispatcher[d].sent THEN Published(outbox[j])
                    ELSE IF j \in dispatcher[d].failed THEN Postponed(outbox[j], passed)
                    ELSE outbox[j]]
  /\ dispatcher' = [dispatcher EXCEPT ![d] = Resting]
  /\ UNCHANGED <<job, delivery, queue, worker, delivered, file, budget>>

\* The dispatcher dies before its commit, or its commit raises: the row locks go, and
\* what it had published stays published on the broker and pending in the outbox.
LoseDispatcher(d) ==
  /\ dispatcher[d] # Resting
  /\ dispatcher' = [dispatcher EXCEPT ![d] = Resting]
  /\ Fault("crash")
  /\ UNCHANGED <<job, delivery, outbox, queue, worker, delivered, file>>
-----------------------------------------------------------------------------
(* Taking a message and claiming its job *)

\* The worker starts the task, and its clock reading `now` is of this moment.
Receive(w, j) ==
  /\ worker[w].pc = "idle"
  /\ queue[<<j, 0>>] > 0
  /\ queue' = [queue EXCEPT ![<<j, 0>>] = @ - 1]
  /\ worker' = [worker EXCEPT ![w] =
                  [pc |-> "claim", job |-> j, ran |-> 0, attempt |-> 0, delay |-> 0]]
  /\ UNCHANGED <<job, delivery, outbox, dispatcher, delivered, file, budget>>

\* What is left of the job's lease at the worker's `now`, read `ran` ago.
LeaseLeft(w) == job[worker[w].job].lease + worker[w].ran
\* Mutant of Leased: a lease in its last second no longer counts.
LeasedButLastSecond(w) == job[worker[w].job].status = "running" /\ LeaseLeft(w) > 1
Leased(w) == job[worker[w].job].status = "running" /\ LeaseLeft(w) > 0
\* Mutant of Settled: a failed job may be claimed again.
Succeeded(w) == job[worker[w].job].status = "succeeded"
Settled(w) == job[worker[w].job].status \in Terminal
\* Mutant of Exhausted: one attempt too many.
Overrun(w) == job[worker[w].job].attempts > MaxAttempts
Exhausted(w) == job[worker[w].job].attempts >= MaxAttempts

\* The task ends and its message is acknowledged.
Finish(w) == worker' = [worker EXCEPT ![w] = Idle]
Goto(w, pc) == worker' = [worker EXCEPT ![w].pc = pc]
Defer(w, delay) == worker' = [worker EXCEPT ![w].pc = "defer", ![w].delay = delay]

\* The outcome is written over whatever the row is by now: it is not read again.
Record(w, status) ==
  job' = [job EXCEPT ![worker[w].job].status = status, ![worker[w].job].lease = NoLease]

ClaimSettled(w) ==
  /\ worker[w].pc = "claim" /\ Settled(w)
  /\ Finish(w)
  /\ UNCHANGED <<job, delivery, outbox, queue, dispatcher, delivered, file, budget>>

\* JobLeaseActiveError: come back one second after the lease runs out.
ClaimLeased(w) ==
  /\ worker[w].pc = "claim" /\ Leased(w)
  /\ Defer(w, Higher(1, LeaseLeft(w) + 1))
  /\ UNCHANGED <<job, delivery, outbox, queue, dispatcher, delivered, file, budget>>

ClaimExhausted(w) ==
  /\ worker[w].pc = "claim" /\ ~Settled(w) /\ ~Leased(w) /\ Exhausted(w)
  /\ Record(w, "failed")
  /\ Finish(w)
  /\ UNCHANGED <<delivery, outbox, queue, dispatcher, delivered, file, budget>>

\* Mutant of ClaimGranted: recovering a running job counts no attempt.
ClaimUncounted(w) ==
  LET j == worker[w].job
      n == job[j].attempts + (IF job[j].status = "running" THEN 0 ELSE 1) IN
  /\ worker[w].pc = "claim" /\ ~Settled(w) /\ ~Leased(w) /\ ~Exhausted(w)
  /\ job' = [job EXCEPT ![j] = [status |-> "running", attempts |-> n,
                                lease |-> LeaseSeconds - worker[w].ran]]
  /\ worker' = [worker EXCEPT ![w] =
                  [pc |-> IF j \in EmailJobs THEN "email" ELSE "export", job |-> j,
                   ran |-> @.ran, attempt |-> n, delay |-> 0]]
  /\ UNCHANGED <<delivery, outbox, queue, dispatcher, delivered, file, budget>>

\* The claim is committed; the worker keeps its own copy of the attempt count.
ClaimGranted(w) ==
  LET j == worker[w].job IN
  /\ worker[w].pc = "claim" /\ ~Settled(w) /\ ~Leased(w) /\ ~Exhausted(w)
  /\ job' = [job EXCEPT ![j] = [status |-> "running", attempts |-> @.attempts + 1,
                                lease |-> LeaseSeconds - worker[w].ran]]
  /\ worker' = [worker EXCEPT ![w] =
                  [pc |-> IF j \in EmailJobs THEN "email" ELSE "export", job |-> j,
                   ran |-> @.ran, attempt |-> job[j].attempts + 1, delay |-> 0]]
  /\ UNCHANGED <<delivery, outbox, queue, dispatcher, delivered, file, budget>>
-----------------------------------------------------------------------------
(* Recording a failure *)

\* _mark_failed, after a PermanentJobError.
MarkFailed(w) ==
  /\ worker[w].pc = "refused"
  /\ Record(w, "failed")
  /\ Finish(w)
  /\ UNCHANGED <<delivery, outbox, queue, dispatcher, delivered, file, budget>>

\* _mark_retryable_failure: the last attempt fails the job.
MarkExhausted(w) ==
  /\ worker[w].pc = "failing" /\ worker[w].attempt >= MaxAttempts
  /\ Record(w, "failed")
  /\ Finish(w)
  /\ UNCHANGED <<delivery, outbox, queue, dispatcher, delivered, file, budget>>

MarkRetrying(w) ==
  /\ worker[w].pc = "failing" /\ worker[w].attempt < MaxAttempts
  /\ Record(w, "retrying")
  /\ Defer(w, RetryDelay(worker[w].attempt))
  /\ UNCHANGED <<delivery, outbox, queue, dispatcher, delivered, file, budget>>

\* self.retry: a new message with a countdown, then the old one is acknowledged.
Republish(w) ==
  /\ worker[w].pc = "defer"
  /\ queue' = [queue EXCEPT ![<<worker[w].job, worker[w].delay>>] = @ + 1]
  /\ Finish(w)
  /\ UNCHANGED <<job, delivery, outbox, dispatcher, delivered, file, budget>>
-----------------------------------------------------------------------------
(* An email notification *)

Found(w, statuses) == worker[w].pc = "email" /\ delivery[worker[w].job].status \in statuses
Unknown == {"sending", "ambiguous"}
\* Mutant of Resendable: an unknown outcome is sent again.
NotSettled == {"retryable", "ambiguous"}
Resendable == {"retryable"}

\* A row already SENT: only the job is left to be recorded.
FindSent(w) ==
  /\ Found(w, {"sent"})
  /\ Record(w, "succeeded")
  /\ Finish(w)
  /\ UNCHANGED <<delivery, outbox, queue, dispatcher, delivered, file, budget>>

\* An earlier worker started to send and never said how it ended.
FindUnknown(w) ==
  /\ Found(w, Unknown)
  /\ delivery' = [delivery EXCEPT ![worker[w].job].status = "ambiguous"]
  /\ Goto(w, "refused")
  /\ UNCHANGED <<job, outbox, queue, dispatcher, delivered, file, budget>>

\* No row, hence no row lock: the insert is a step of its own.
FindNone(w) ==
  /\ Found(w, {"absent"})
  /\ Goto(w, "insert")
  /\ UNCHANGED <<job, delivery, outbox, queue, dispatcher, delivered, file, budget>>

FindRetryable(w) ==
  /\ Found(w, Resendable)
  /\ delivery' = [delivery EXCEPT ![worker[w].job] =
                    [status |-> "sending", attempts |-> @.attempts + 1]]
  /\ Goto(w, "sending")
  /\ UNCHANGED <<job, outbox, queue, dispatcher, delivered, file, budget>>

\* Mutant of InsertDelivery: job_id is not unique.
InsertAnyway(w) ==
  /\ worker[w].pc = "insert"
  /\ delivery' = [delivery EXCEPT ![worker[w].job] = [status |-> "sending", attempts |-> 1]]
  /\ Goto(w, "sending")
  /\ UNCHANGED <<job, outbox, queue, dispatcher, delivered, file, budget>>

InsertDelivery(w) ==
  /\ worker[w].pc = "insert" /\ delivery[worker[w].job].status = "absent"
  /\ delivery' = [delivery EXCEPT ![worker[w].job] = [status |-> "sending", attempts |-> 1]]
  /\ Goto(w, "sending")
  /\ UNCHANGED <<job, outbox, queue, dispatcher, delivered, file, budget>>

\* The unique job_id refuses a second row.  The failed flush leaves the session
\* unusable, so recording the failure raises as well and the task just ends.
InsertRefused(w) ==
  /\ worker[w].pc = "insert" /\ delivery[worker[w].job].status # "absent"
  /\ Finish(w)
  /\ UNCHANGED <<job, delivery, outbox, queue, dispatcher, delivered, file, budget>>

SendReturns(w) ==
  /\ worker[w].pc = "sending"
  /\ delivered' = [delivered EXCEPT ![worker[w].job] = @ + 1]
  /\ Goto(w, "sent")
  /\ UNCHANGED <<job, delivery, outbox, queue, dispatcher, file, budget>>

SendRaises(w) ==
  /\ worker[w].pc = "sending"
  /\ Goto(w, "raised")
  /\ UNCHANGED <<job, delivery, outbox, queue, dispatcher, delivered, file, budget>>

\* SENT and the job's success are one commit.
RecordSent(w) ==
  /\ worker[w].pc = "sent"
  /\ delivery' = [delivery EXCEPT ![worker[w].job].status = "sent"]
  /\ Record(w, "succeeded")
  /\ Finish(w)
  /\ UNCHANGED <<outbox, queue, dispatcher, delivered, file, budget>>

RecordRaised(w) ==
  /\ worker[w].pc = "raised"
  /\ delivery' = [delivery EXCEPT ![worker[w].job].status = "retryable"]
  /\ Goto(w, "failing")
  /\ UNCHANGED <<job, outbox, queue, dispatcher, delivered, file, budget>>
-----------------------------------------------------------------------------
(* A ticket export *)

\* Mutant of WriteExport: the temporary file is never moved into place.
WriteTemporary(w) ==
  /\ worker[w].pc = "export"
  /\ Goto(w, "written")
  /\ UNCHANGED <<job, delivery, outbox, queue, dispatcher, delivered, file, budget>>

\* The rows fit, and the finished file is moved into place.
WriteExport(w) ==
  /\ worker[w].pc = "export"
  /\ file' = [file EXCEPT ![worker[w].job] = TRUE]
  /\ Goto(w, "written")
  /\ UNCHANGED <<job, delivery, outbox, queue, dispatcher, delivered, budget>>

\* More rows than export_max_rows, or a filter that cannot be read.
ExportRefused(w) ==
  /\ worker[w].pc = "export"
  /\ Goto(w, "refused")
  /\ UNCHANGED <<job, delivery, outbox, queue, dispatcher, delivered, file, budget>>

ExportRaises(w) ==
  /\ worker[w].pc = "export"
  /\ Goto(w, "failing")
  /\ UNCHANGED <<job, delivery, outbox, queue, dispatcher, delivered, file, budget>>

RecordExport(w) ==
  /\ worker[w].pc = "written"
  /\ Record(w, "succeeded")
  /\ Finish(w)
  /\ UNCHANGED <<delivery, outbox, queue, dispatcher, delivered, file, budget>>
-----------------------------------------------------------------------------
(* Faults and time *)

\* A send that is cut short may still have reached the mail server.
CutShort(w) ==
  \/ UNCHANGED delivered
  \/ /\ worker[w].pc = "sending"
     /\ delivered' = [delivered EXCEPT ![worker[w].job] = @ + 1]

\* Mutant of Crash: the message was acknowledged when it was received.
CrashAcknowledged(w) ==
  /\ worker[w].pc # "idle"
  /\ CutShort(w)
  /\ Finish(w)
  /\ Fault("crash")
  /\ UNCHANGED <<job, delivery, outbox, queue, dispatcher, file>>

\* The worker process is lost: acks_late and reject_on_worker_lost put its
\* message back.
Crash(w) ==
  /\ worker[w].pc # "idle"
  /\ CutShort(w)
  /\ queue' = [queue EXCEPT ![<<worker[w].job, 0>>] = @ + 1]
  /\ Finish(w)
  /\ Fault("crash")
  /\ UNCHANGED <<job, delivery, outbox, dispatcher, file>>

\* A time limit ends the task outside execute()'s handlers: nothing is recorded,
\* and Celery acknowledges the message of a task that timed out.
TimeLimit(w) ==
  /\ worker[w].pc # "idle"
  /\ worker[w].ran >= SoftLimit
  /\ CutShort(w)
  /\ Finish(w)
  /\ Fault("timeout")
  /\ UNCHANGED <<job, delivery, outbox, queue, dispatcher, file>>

\* An error inside execute()'s try leaves the session usable (no connection could
\* be had, a soft time limit struck the coroutine itself): a failure to record.
Interrupt(w) ==
  /\ worker[w].pc \in {"email", "insert", "raised", "sent", "export", "written"}
  /\ Goto(w, "failing")
  /\ Fault("error")
  /\ UNCHANGED <<job, delivery, outbox, queue, dispatcher, delivered, file>>

\* A database or broker call fails and the session is unusable for recording a
\* failure: the exception leaves execute() and the message is acknowledged.
Abort(w) ==
  /\ worker[w].pc \notin {"idle", "sending"}
  /\ Finish(w)
  /\ Fault("error")
  /\ UNCHANGED <<job, delivery, outbox, queue, dispatcher, delivered, file>>

\* A message is there once more: the broker delivers it again, because its visibility
\* timeout ran out or its acknowledgement was lost, or Celery's client sends it again
\* within one publication, because the reply to the first try was lost.
Duplicate(j) ==
  /\ \/ \E delay \in 0 .. MaxDelay : queue[<<j, delay>>] > 0
     \/ \E w \in Workers : worker[w].job = j
  /\ queue' = [queue EXCEPT ![<<j, 0>>] = @ + 1]
  /\ Fault("copy")
  /\ UNCHANGED <<job, delivery, outbox, worker, dispatcher, delivered, file>>

\* A second passes.  No run outlives the hard time limit.
Tick ==
  /\ \A w \in Workers : worker[w].ran < HardLimit
  /\ worker' = [w \in Workers |->
                  IF worker[w].pc = "idle" THEN worker[w]
                  ELSE [worker[w] EXCEPT !.ran = @ + 1]]
  /\ job' = [j \in Jobs |-> [job[j] EXCEPT !.lease = Higher(NoLease, @ - 1)]]
  /\ outbox' = [j \in Jobs |-> [outbox[j] EXCEPT !.wait = Higher(0, @ - 1)]]
  /\ queue' = [m \in Jobs \X (0 .. MaxDelay) |->
                 (IF m[2] < MaxDelay THEN queue[<<m[1], m[2] + 1>>] ELSE 0)
                   + (IF m[2] = 0 THEN queue[m] ELSE 0)]
  /\ UNCHANGED <<delivery, dispatcher, delivered, file, budget>>
-----------------------------------------------------------------------------
Dispatch(d) ==
  \/ SelectBatch(d)
  \/ \E j \in Jobs : Publish(d, j) \/ PublishFails(d, j)
  \/ CommitBatch(d)

Claim(w) == ClaimSettled(w) \/ ClaimLeased(w) \/ ClaimExhausted(w) \/ ClaimGranted(w)
Email(w) ==
  \/ FindSent(w) \/ FindUnknown(w) \/ FindNone(w) \/ FindRetryable(w)
  \/ InsertDelivery(w) \/ InsertRefused(w)
  \/ SendReturns(w) \/ SendRaises(w) \/ RecordSent(w) \/ RecordRaised(w)
Export(w) == WriteExport(w) \/ ExportRefused(w) \/ ExportRaises(w) \/ RecordExport(w)
Mark(w) == MarkFailed(w) \/ MarkExhausted(w) \/ MarkRetrying(w) \/ Republish(w)
Execute(w) == Claim(w) \/ Email(w) \/ Export(w) \/ Mark(w)

Next ==
  \/ \E j \in Jobs : Submit(j) \/ Duplicate(j)
  \/ \E d \in Dispatchers : Dispatch(d) \/ LoseDispatcher(d)
  \/ \E w \in Workers : \E j \in Jobs : Receive(w, j)
  \/ \E w \in Workers : Execute(w) \/ Crash(w) \/ TimeLimit(w) \/ Interrupt(w) \/ Abort(w)
  \/ Tick

Spec == Init /\ [][Next]_vars

\* Beat starts a dispatcher every outbox_poll_seconds, the broker's lists are
\* first in first out, a running task goes on (a send has a 15 s timeout), and
\* time passes.  Faults and submissions are never obliged to happen.
Fairness ==
  /\ \A d \in Dispatchers : WF_vars(Dispatch(d))
  /\ \A j \in Jobs : SF_vars(\E w \in Workers : Receive(w, j))
  /\ \A w \in Workers : WF_vars(Execute(w))
  /\ WF_vars(Tick)

FairSpec == Spec /\ Fairness
-----------------------------------------------------------------------------
(* Correctness *)

\* At most one mail of a job is accepted by a sender that was not told of an
\* error: after a lost worker, a message delivered twice or an expired lease nobody
\* sends again what may have been sent.  A send that raised is sent again, even if
\* the server had taken it: that one is not counted here (_execute_email).
SingleDelivery == \A j \in EmailJobs : delivered[j] <= 1

\* Every send is paid for by a claim, however often messages are repeated: the
\* delivery row counts no more attempts than the job row, which stops at the
\* maximum (_claim and _execute_email keep the two counters separately).
SendsWithinAttempts ==
  \A j \in Jobs : delivery[j].attempts <= job[j].attempts /\ job[j].attempts <= MaxAttempts

\* SUCCEEDED is never reported before the fact: the mail is accepted and its row
\* SENT, or the export's file is in place for export_result_path.
SucceededIsDone ==
  \A j \in Jobs : job[j].status = "succeeded" =>
    IF j \in EmailJobs THEN delivery[j].status = "sent" /\ delivered[j] = 1 ELSE file[j]

\* No two workers execute a job at once, and the one that does is inside its
\* lease.  It needs a lease longer than the hard time limit.
LeaseExclusive ==
  \A j \in Jobs, w \in Workers : Runs(w, j) =>
    /\ job[j].status = "running" /\ job[j].lease > 0
    /\ \A v \in Workers : Runs(v, j) => v = w

\* A job that is SUCCEEDED or FAILED stays what it is: whoever still holds it,
\* or receives it again, writes nothing.
TerminalIsFinal ==
  [][\A j \in Jobs : job[j].status \in Terminal => job'[j].status = job[j].status]_vars

\* A delivery that is SENT or AMBIGUOUS is never taken back into a state from
\* which a retry would send.
DeliveryIsFinal ==
  [][\A j \in Jobs : delivery[j].status \in {"sent", "ambiguous"}
                       => delivery'[j].status = delivery[j].status]_vars

\* A job that is not finished can still be driven: its publication is pending,
\* a message for it is on the broker, or a worker holds one.
NotLost ==
  \A j \in Jobs : job[j].status \notin Terminal \cup {"absent"} =>
    \/ outbox[j].status = "pending"
    \/ \E delay \in 0 .. MaxDelay : queue[<<j, delay>>] > 0
    \/ \E w \in Workers : worker[w].job = j

\* Every submitted job ends, SUCCEEDED or FAILED, however workers, dispatchers
\* and the broker fail in between.
EventuallySettled ==
  \A j \in Jobs : job[j].status = "pending" ~> job[j].status \in Terminal

\* A message is not multiplied by the service itself: a job has at most the one
\* its outbox row put on the broker, plus one for each publication that raised, each
\* process that died and each message delivered or published twice (dispatch_once,
\* the lease and the retries of execute()).
Copies(j) == UNION {{delay} \X (1 .. queue[<<j, delay>>]) : delay \in 0 .. MaxDelay}
Holders(j) == {w \in Workers : worker[w].job = j}
Messages(j) == Cardinality(Copies(j)) + Cardinality(Holders(j))
MessagesAccounted ==
  \A j \in Jobs :
    Messages(j) <= 1 + (MaxOutages - budget["outage"]) + (MaxCrashes - budget["crash"])
                     + (MaxCopies - budget["copy"])

\* What the client sees is the contract of a job.
Contract == INSTANCE JobContract WITH
  status <- [j \in Jobs |-> job[j].status],
  attempts <- [j \in Jobs |-> job[j].attempts],
  performed <- [j \in Jobs |-> delivered[j] > 0 \/ file[j]]
ContractHolds == Contract!Spec
=============================================================================
