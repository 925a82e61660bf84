---------------------- MODULE BackgroundMessagesProofs ----------------------
(***************************************************************************)
(* Proofs about the messages of BackgroundJobs: a job that is not finished *)
(* has one, and it has no more of them than repetitions account for.       *)
(***************************************************************************)
EXTENDS BackgroundJobsProofs

-----------------------------------------------------------------------------
(* Idle workers and faults *)

\* A worker between two tasks holds no message.
IdleInv == \A w \in Workers : worker[w].pc = "idle" => worker[w].job = NoJob

LEMMA IdleInit == Init => IdleInv
BY DEF Init, IdleInv, Idle

LEMMA IdleStep == TypeInv /\ IdleInv /\ [Next]_vars => IdleInv'
<1> SUFFICES ASSUME TypeInv, IdleInv, [Next]_vars, NEW v \in Workers, worker'[v].pc = "idle"
             PROVE  worker'[v].job = NoJob
  BY DEF IdleInv
<1> USE DEF TypeInv, TypeOK
<1>1. CASE worker'[v] = worker[v]
  BY <1>1 DEF IdleInv
<1>2. ASSUME NEW w \in Workers, Finish(w) PROVE worker'[v].job = NoJob
  BY <1>1, <1>2, FinishEffect
<1>3. ASSUME NEW w \in Workers, NEW pc \in Phases \ {"idle"}, Goto(w, pc)
      PROVE  worker'[v].job = NoJob
  BY <1>1, <1>3, GotoEffect
<1>4. ASSUME NEW w \in Workers, NEW delay, Defer(w, delay) PROVE worker'[v].job = NoJob
  BY <1>1, <1>4, DeferEffect
<1>5. ASSUME NEW w \in Workers, NEW i \in Jobs, ClaimGranted(w) \/ Receive(w, i)
      PROVE  worker'[v].job = NoJob
  BY <1>1, <1>5 DEF ClaimGranted, Receive
<1>6. ASSUME NEW w \in Workers, ClaimGranted(w) PROVE worker'[v].job = NoJob
  BY <1>1, <1>6 DEF ClaimGranted
<1>7. CASE Tick
  BY <1>7 DEF Tick, IdleInv, Process
<1>8. CASE UNCHANGED worker
  BY <1>1, <1>8
<1> QED
  BY <1>2, <1>3, <1>4, <1>5, <1>6, <1>7, <1>8, WorkersStep

\* No more faults are left than there were to begin with.
BudgetInv ==
  /\ budget["crash"] <= MaxCrashes /\ budget["timeout"] <= MaxTimeouts
  /\ budget["error"] <= MaxErrors /\ budget["copy"] <= MaxCopies
  /\ budget["outage"] <= MaxOutages

LEMMA BudgetInit == Init => BudgetInv
BY BudgetAssumption DEF Init, BudgetInv, Faults

\* Which steps are faults, and of which kind.
LEMMA FaultSteps ==
  ASSUME [Next]_vars
  PROVE  \/ UNCHANGED budget \/ Fault("outage")
         \/ Fault("copy") /\ \E i \in Jobs : Duplicate(i)
         \/ Fault("crash") /\ ((\E d \in Dispatchers : LoseDispatcher(d)) \/ (\E w \in Workers : Crash(w)))
         \/ Fault("timeout") /\ \E w \in Workers : TimeLimit(w)
         \/ Fault("error") /\ \E w \in Workers : Interrupt(w) \/ Abort(w)
<1>1. ASSUME NEW j \in Jobs, Submit(j) PROVE UNCHANGED budget
  BY <1>1 DEF Submit
<1>2. ASSUME NEW d \in Dispatchers, Dispatch(d) PROVE UNCHANGED budget \/ Fault("outage")
  BY <1>2 DEF Dispatch, SelectBatch, CommitBatch, Publish, PublishFails
<1>3. ASSUME NEW w \in Workers, NEW j \in Jobs, Receive(w, j) PROVE UNCHANGED budget
  BY <1>3 DEF Receive
<1>4. ASSUME NEW w \in Workers, Execute(w) PROVE UNCHANGED budget
  BY <1>4 DEF Execute, Claim, Email, Export, Mark, ClaimSettled, ClaimLeased, ClaimExhausted,
     ClaimGranted, FindSent, FindUnknown, FindNone, FindRetryable, InsertDelivery,
     InsertRefused, SendReturns, SendRaises, RecordSent, RecordRaised, WriteExport,
     ExportRefused, ExportRaises, RecordExport, MarkFailed, MarkExhausted, MarkRetrying,
     Republish
<1>5. CASE Tick \/ UNCHANGED vars
  BY <1>5 DEF Tick, vars
<1>6. ASSUME NEW j \in Jobs, Duplicate(j) PROVE Fault("copy")
  BY <1>6 DEF Duplicate
<1>7. ASSUME NEW d \in Dispatchers, LoseDispatcher(d) PROVE Fault("crash")
  BY <1>7 DEF LoseDispatcher
<1>8. ASSUME NEW w \in Workers
      PROVE  /\ Crash(w) => Fault("crash")
             /\ TimeLimit(w) => Fault("timeout")
             /\ Interrupt(w) \/ Abort(w) => Fault("error")
  BY DEF Crash, TimeLimit, Interrupt, Abort
<1> QED
  BY <1>1, <1>2, <1>3, <1>4, <1>5, <1>6, <1>7, <1>8 DEF Next

\* A fault uses one up, and nothing gives one back.
LEMMA BudgetLess ==
  ASSUME TypeInv, [Next]_vars
  PROVE  \A fault \in Faults : budget[fault] \in Nat /\ budget'[fault] <= budget[fault]
BY FaultSteps DEF TypeInv, TypeOK, Fault, Faults

LEMMA BudgetStep == TypeInv /\ BudgetInv /\ TypeInv' /\ [Next]_vars => BudgetInv'
<1> SUFFICES ASSUME TypeInv, BudgetInv, TypeInv', [Next]_vars PROVE BudgetInv'
  OBVIOUS
<1>1. \A fault \in Faults : /\ budget[fault] \in Nat /\ budget'[fault] \in Nat
                            /\ budget'[fault] <= budget[fault]
  BY BudgetLess DEF TypeInv, TypeOK
<1> QED
  BY <1>1, BudgetAssumption DEF BudgetInv, Faults

-----------------------------------------------------------------------------
(* Jobs are not lost *)

\* So far every failure was recorded, retried or a crash: no time limit has struck and
\* no call has failed so that execute() itself raised.
NoSilentEnd == budget["timeout"] = MaxTimeouts /\ budget["error"] = MaxErrors

\* A message for the job exists: on the broker, or held by a worker.
Held(j) == \/ \E delay \in 0 .. MaxDelay : queue[<<j, delay>>] > 0
           \/ \E w \in Workers : worker[w].job = j

DriveInv ==
  /\ \A w \in Workers : worker[w].pc = "insert" => delivery[worker[w].job].status = "absent"
  /\ \A j \in Jobs : Known(j) => outbox[j].status # "absent"
  /\ NoSilentEnd =>
       \A j \in Jobs :
         outbox[j].status = "published" \/ (\E d \in Dispatchers : j \in dispatcher[d].sent)
           => Held(j) \/ job[j].status \in Terminal

LEMMA DriveInit == Init => DriveInv
BY DEF Init, DriveInv, Idle, Resting, Known

\* Nothing that ended a task unrecorded is undone later, and only a fault ends one so.
LEMMA SilentEnds ==
  ASSUME TypeInv, TypeInv', BudgetInv, NoSilentEnd', [Next]_vars
  PROVE  NoSilentEnd /\ \A w \in Workers : ~TimeLimit(w) /\ ~Interrupt(w) /\ ~Abort(w)
<1>1. \A fault \in Faults : /\ budget[fault] \in Nat /\ budget'[fault] \in Nat
                            /\ budget'[fault] <= budget[fault]
  BY BudgetLess DEF TypeInv, TypeOK
<1>2. NoSilentEnd
  BY <1>1, BudgetAssumption DEF BudgetInv, NoSilentEnd, Faults
<1>3. budget'["timeout"] = budget["timeout"] /\ budget'["error"] = budget["error"]
  BY <1>2 DEF NoSilentEnd
<1>4. ~Fault("timeout") /\ ~Fault("error")
  BY <1>1, <1>3 DEF Fault, Faults, TypeInv, TypeOK
<1> QED
  BY <1>2, <1>4 DEF TimeLimit, Interrupt, Abort

\* A message is given up only for another one, or once the job is finished.
LEMMA HeldStays ==
  ASSUME TypeInv, TypeInv', IdleInv, BudgetInv, DriveInv, NoSilentEnd', [Next]_vars,
         NEW j \in Jobs, Held(j), job[j].status \notin Terminal
  PROVE  Held(j)' \/ job'[j].status \in Terminal
<1> USE DEF TypeInv, TypeOK
<1>1. ASSUME UNCHANGED queue, \A v \in Workers : worker'[v].job = worker[v].job PROVE Held(j)'
  BY <1>1 DEF Held
<1>2. ASSUME NEW i \in Jobs, NEW delay \in 0 .. MaxDelay,
             queue' = [queue EXCEPT ![<<i, delay>>] = @ + 1],
             \A v \in Workers : worker'[v].job = worker[v].job \/ worker[v].job = i
      PROVE  Held(j)'
  <2>1. \A e \in 0 .. MaxDelay : queue[<<j, e>>] > 0 => queue'[<<j, e>>] > 0
    BY <1>2
  <2>2. CASE i = j
    <3>1. queue'[<<j, delay>>] > 0
      BY <1>2, <2>2
    <3> QED
      BY <3>1 DEF Held
  <2>3. CASE i # j
    BY <1>2, <2>1, <2>3 DEF Held
  <2> QED
    BY <2>2, <2>3
<1>3. ASSUME NEW w \in Workers, Finish(w), UNCHANGED queue,
             worker[w].job = j => job'[j].status \in Terminal
      PROVE  Held(j)' \/ job'[j].status \in Terminal
  BY <1>3, FinishEffect DEF Held
<1>4. ASSUME NEW i \in Jobs, Submit(i) \/ Duplicate(i) PROVE Held(j)'
  BY <1>1, <1>2, <1>4, ZeroDelay DEF Submit, Duplicate
<1>5. ASSUME NEW d \in Dispatchers, Dispatch(d) \/ LoseDispatcher(d) PROVE Held(j)'
  <2>1. \/ UNCHANGED <<queue, worker>>
        \/ \E i \in Jobs : queue' = [queue EXCEPT ![<<i, 0>>] = @ + 1] /\ UNCHANGED worker
    BY <1>5 DEF Dispatch, LoseDispatcher, SelectBatch, CommitBatch, Publish, PublishFails
  <2> QED
    BY <1>1, <1>2, <2>1, ZeroDelay
<1>6. ASSUME NEW w \in Workers, NEW i \in Jobs, Receive(w, i) PROVE Held(j)'
  <2>1. /\ worker[w].job = NoJob /\ worker'[w].job = i
        /\ \A v \in Workers \ {w} : worker'[v] = worker[v]
    BY <1>6 DEF Receive, IdleInv
  <2>2. CASE i = j
    BY <2>1, <2>2 DEF Held
  <2>3. CASE i # j
    <3>1. \A e \in 0 .. MaxDelay : queue'[<<j, e>>] = queue[<<j, e>>]
      BY <1>6, <2>3 DEF Receive
    <3> QED
      BY <2>1, <3>1, JobsAssumption DEF Held
  <2> QED
    BY <2>2, <2>3
<1>7. ASSUME NEW w \in Workers, Republish(w) \/ Crash(w) PROVE Held(j)'
  <2>1. Finish(w) /\ worker[w].job \in Jobs
    BY <1>7 DEF Republish, Crash, Busy
  <2>2. \A v \in Workers : worker'[v].job = worker[v].job \/ worker[v].job = worker[w].job
    BY <2>1, FinishEffect
  <2>3. PICK delay \in 0 .. MaxDelay : queue' = [queue EXCEPT ![<<worker[w].job, delay>>] = @ + 1]
    BY <1>7, ZeroDelay DEF Republish, Crash, Process
  <2> QED
    BY <1>2, <2>1, <2>2, <2>3
<1>8. ASSUME NEW w \in Workers, ClaimSettled(w) PROVE Held(j)' \/ job'[j].status \in Terminal
  <2>1. worker[w].job # j
    BY <1>8 DEF ClaimSettled, Settled
  <2> QED
    BY <1>3, <1>8, <2>1 DEF ClaimSettled
<1>9. ASSUME NEW w \in Workers, InsertRefused(w) PROVE FALSE
  BY <1>9 DEF InsertRefused, DriveInv
<1>10. ASSUME NEW w \in Workers,
              ClaimExhausted(w) \/ FindSent(w) \/ RecordSent(w) \/ RecordExport(w)
                \/ MarkFailed(w) \/ MarkExhausted(w)
       PROVE  Held(j)' \/ job'[j].status \in Terminal
  <2>1. Finish(w) /\ UNCHANGED queue /\ (Record(w, "succeeded") \/ Record(w, "failed"))
    BY <1>10 DEF ClaimExhausted, FindSent, RecordSent, RecordExport, MarkFailed, MarkExhausted
  <2>2. worker[w].job = j => job'[j].status \in Terminal
    BY <2>1 DEF Record, JobRow, Terminal
  <2> QED
    BY <1>3, <2>1, <2>2
<1>11. ASSUME NEW w \in Workers, UNCHANGED queue,
              \/ \E pc \in Phases : Goto(w, pc)
              \/ \E delay : Defer(w, delay)
       PROVE  Held(j)'
  BY <1>1, <1>11, GotoEffect, DeferEffect
<1>12. ASSUME NEW w \in Workers, ClaimGranted(w) PROVE Held(j)'
  BY <1>1, <1>12 DEF ClaimGranted
<1>13. ASSUME NEW w \in Workers,
              ClaimLeased(w) \/ MarkRetrying(w) \/ FindUnknown(w) \/ FindNone(w)
                \/ FindRetryable(w) \/ InsertDelivery(w) \/ SendReturns(w) \/ SendRaises(w)
                \/ RecordRaised(w) \/ WriteExport(w) \/ ExportRefused(w) \/ ExportRaises(w)
       PROVE  Held(j)'
  <2>1. /\ UNCHANGED queue
        /\ \/ \E pc \in Phases : Goto(w, pc)
           \/ \E delay : Defer(w, delay)
    BY <1>13 DEF ClaimLeased, MarkRetrying, FindUnknown, FindNone, FindRetryable,
       InsertDelivery, SendReturns, SendRaises, RecordRaised, WriteExport, ExportRefused,
       ExportRaises, Phases, Executing
  <2> QED
    BY <1>11, <2>1
<1>14. CASE Tick
  <2>1. \A v \in Workers : worker'[v].job = worker[v].job
    BY <1>14 DEF Tick, Process
  <2>2. CASE \E w \in Workers : worker[w].job = j
    BY <2>1, <2>2 DEF Held
  <2>3. ASSUME NEW delay \in 0 .. MaxDelay, queue[<<j, delay>>] > 0 PROVE Held(j)'
    <3> DEFINE e == IF delay = 0 THEN 0 ELSE delay - 1
    <3>1. e \in 0 .. MaxDelay
      BY ZeroDelay
    <3>2. queue'[<<j, e>>] = (IF e < MaxDelay THEN queue[<<j, e + 1>>] ELSE 0)
                               + (IF e = 0 THEN queue[<<j, e>>] ELSE 0)
      BY <1>14, <3>1 DEF Tick
    <3>3. /\ e < MaxDelay => queue[<<j, e + 1>>] \in Nat
          /\ queue[<<j, e>>] \in Nat
      BY <3>1, ZeroDelay
    <3>4. (e < MaxDelay /\ e + 1 = delay) \/ (e = 0 /\ e = delay)
      BY ZeroDelay
    <3> HIDE DEF e
    <3>5. queue'[<<j, e>>] > 0
      <4>1. CASE e < MaxDelay /\ e + 1 = delay
        <5>1. queue[<<j, e + 1>>] \in Nat /\ queue[<<j, e + 1>>] > 0
          BY <2>3, <3>3, <4>1
        <5>2. queue'[<<j, e>>] = queue[<<j, e + 1>>] + (IF e = 0 THEN queue[<<j, e>>] ELSE 0)
          BY <3>2, <4>1
        <5> DEFINE here == IF e = 0 THEN queue[<<j, e>>] ELSE 0
        <5>3. here \in Nat
          BY <3>3
        <5>4. queue'[<<j, e>>] = queue[<<j, e + 1>>] + here
          BY <5>2
        <5> HIDE DEF here
        <5> QED
          BY ONLY <5>1, <5>3, <5>4
      <4>2. CASE e = 0 /\ e = delay
        <5> DEFINE more == IF e < MaxDelay THEN queue[<<j, e + 1>>] ELSE 0
        <5>1. queue'[<<j, e>>] = more + queue[<<j, e>>]
          BY <3>2, <4>2
        <5>2. more \in Nat
          BY <3>3
        <5>3. queue[<<j, e>>] \in Nat /\ queue[<<j, e>>] > 0
          BY <2>3, <3>3, <4>2
        <5> HIDE DEF more
        <5> QED
          BY ONLY <5>1, <5>2, <5>3
      <4> QED
        BY <3>4, <4>1, <4>2
    <3> QED
      BY <3>1, <3>5 DEF Held
  <2> QED
    BY <2>2, <2>3 DEF Held
<1>15. CASE UNCHANGED vars
  BY <1>1, <1>15 DEF vars
<1> QED
  BY <1>4, <1>5, <1>6, <1>7, <1>8, <1>9, <1>10, <1>12, <1>13, <1>14, <1>15, SilentEnds
  DEF Next, Execute, Claim, Email, Export, Mark

\* Only its submission makes a job known.
LEMMA Unknowns ==
  ASSUME TypeInv, KnownInv, [Next]_vars, NEW j \in Jobs, ~Known(j), Known(j)'
  PROVE  Submit(j)
<1> USE DEF TypeInv, TypeOK, Known
<1>1. CASE UNCHANGED job \/ Tick
  BY <1>1 DEF Tick, JobRow
<1>2. ASSUME NEW i \in Jobs, Submit(i) PROVE i = j
  BY <1>2 DEF Submit
<1>3. ASSUME NEW w \in Workers, ClaimGranted(w) PROVE FALSE
  <2>1. worker[w].job # j
    BY DEF KnownInv
  <2> QED
    BY <1>3, <2>1 DEF ClaimGranted
<1>4. ASSUME NEW w \in Workers, NEW status, Record(w, status) PROVE FALSE
  <2>1. worker[w].job # j
    BY DEF KnownInv
  <2> QED
    BY <1>4, <2>1 DEF Record
<1>5. ASSUME NEW w \in Workers,
             ClaimExhausted(w) \/ FindSent(w) \/ RecordSent(w) \/ RecordExport(w)
               \/ MarkFailed(w) \/ MarkExhausted(w) \/ MarkRetrying(w)
      PROVE  FALSE
  BY <1>4, <1>5 DEF ClaimExhausted, FindSent, RecordSent, RecordExport, MarkFailed,
     MarkExhausted, MarkRetrying
<1> QED
  BY <1>1, <1>2, <1>3, <1>5, RowSteps

\* A message is on record as sent only by its publication.
LEMMA SentBefore ==
  ASSUME TypeInv, [Next]_vars, NEW j \in Jobs, NEW d \in Dispatchers, j \in dispatcher'[d].sent
  PROVE  j \in dispatcher[d].sent \/ Publish(d, j)
<1> USE DEF TypeInv, TypeOK
<1>1. ASSUME NEW e \in Dispatchers, SelectBatch(e) \/ CommitBatch(e) \/ LoseDispatcher(e)
      PROVE  j \in dispatcher[d].sent
  <2>1. CASE SelectBatch(e)
    <3>1. PICK batch : dispatcher' = [dispatcher EXCEPT ![e].todo = batch]
      BY <2>1 DEF SelectBatch
    <3> QED
      BY <3>1 DEF Batch
  <2>2. CASE CommitBatch(e) \/ LoseDispatcher(e)
    <3>1. dispatcher' = [dispatcher EXCEPT ![e] = Resting]
      BY <2>2 DEF CommitBatch, LoseDispatcher
    <3> QED
      BY <3>1 DEF Resting
  <2> QED
    BY <1>1, <2>1, <2>2
<1>2. ASSUME NEW e \in Dispatchers, NEW i \in Jobs, Publish(e, i)
      PROVE  j \in dispatcher[d].sent \/ (e = d /\ i = j)
  <2>1. dispatcher' = [dispatcher EXCEPT ![e].todo = @ \ {i}, ![e].sent = @ \cup {i}]
    BY <1>2 DEF Publish
  <2> QED
    BY <2>1 DEF Batch
<1>3. ASSUME NEW e \in Dispatchers, NEW i \in Jobs, PublishFails(e, i)
      PROVE  j \in dispatcher[d].sent
  <2>1. dispatcher' = [dispatcher EXCEPT ![e].todo = @ \ {i}, ![e].failed = @ \cup {i}]
    BY <1>3 DEF PublishFails
  <2> QED
    BY <2>1 DEF Batch
<1>4. CASE UNCHANGED dispatcher
  BY <1>4
<1> QED
  BY <1>1, <1>2, <1>3, <1>4, DispatcherSteps DEF Dispatch

\* A row becomes published only with the commit of the batch its message was sent in.
LEMMA PublishedBefore ==
  ASSUME TypeInv, [Next]_vars, NEW j \in Jobs, outbox'[j].status = "published"
  PROVE  outbox[j].status = "published" \/ \E d \in Dispatchers : j \in dispatcher[d].sent
<1> USE DEF TypeInv, TypeOK
<1>1. CASE UNCHANGED outbox
  BY <1>1
<1>2. ASSUME NEW i \in Jobs, Submit(i) PROVE outbox[j].status = "published"
  BY <1>2 DEF Submit, OutboxRow
<1>3. ASSUME NEW d \in Dispatchers, CommitBatch(d)
      PROVE  outbox[j].status = "published" \/ j \in dispatcher[d].sent
  BY <1>3 DEF CommitBatch, Postponed
<1>4. CASE Tick
  BY <1>4 DEF Tick, OutboxRow
<1> QED
  BY <1>1, <1>2, <1>3, <1>4, OutboxSteps

LEMMA DriveStep ==
  TypeInv /\ HoldInv /\ KnownInv /\ IdleInv /\ BudgetInv /\ DriveInv /\ TypeInv' /\ [Next]_vars
    => DriveInv'
<1> SUFFICES ASSUME TypeInv, HoldInv, KnownInv, IdleInv, BudgetInv, DriveInv, TypeInv', [Next]_vars
             PROVE  DriveInv'
  OBVIOUS
<1> USE DEF TypeInv, TypeOK
<1>1. ASSUME NEW v \in Workers, worker'[v].pc = "insert"
      PROVE  delivery'[worker'[v].job].status = "absent"
  <2>1. CASE worker[v].pc # "insert"
    <3>1. FindNone(v)
      BY <1>1, <2>1, WorkerArrives
    <3>2. worker'[v].job = worker[v].job
      BY <3>1, GotoEffect DEF FindNone, Phases, Executing
    <3> QED
      BY <3>1, <3>2 DEF FindNone, Found
  <2>2. CASE worker[v].pc = "insert"
    <3>1. worker[v].job \in Jobs /\ delivery[worker[v].job].status = "absent"
      BY <2>2 DEF DriveInv, Busy
    <3>2. worker'[v].job = worker[v].job
      <4>1. CASE Quiet
        BY <1>1, <4>1 DEF Quiet, Moves, Executing
      <4>2. ASSUME NEW w \in Workers, ClaimGranted(w) PROVE worker'[v].job = worker[v].job
        BY <2>2, <4>2 DEF ClaimGranted
      <4> QED
        BY <4>1, <4>2, QuietOrClaim
    <3>3. ASSUME delivery'[worker[v].job] # delivery[worker[v].job] PROVE FALSE
      <4>1. PICK w \in Workers :
              /\ worker[w].job = worker[v].job /\ worker[w].pc \in Executing
              /\ \/ FindUnknown(w) \/ FindRetryable(w) \/ InsertDelivery(w)
                 \/ RecordSent(w) \/ RecordRaised(w)
        BY <3>1, <3>3, OtherDeliveries
      <4>2. w = v
        BY <2>2, <4>1 DEF HoldInv, Executing
      <4>3. InsertDelivery(v)
        BY <2>2, <4>1, <4>2 DEF FindUnknown, FindRetryable, RecordSent, RecordRaised, Found
      <4> QED
        BY <1>1, <4>3, GotoEffect DEF InsertDelivery, Phases, Executing
    <3> QED
      BY <3>1, <3>2, <3>3
  <2> QED
    BY <2>1, <2>2
<1>2. ASSUME NEW j \in Jobs, Known(j)' PROVE outbox'[j].status # "absent"
  <2>1. CASE outbox[j].status # "absent"
    <3>1. CASE UNCHANGED outbox
      BY <2>1, <3>1
    <3>2. ASSUME NEW i \in Jobs, Submit(i) PROVE outbox'[j].status # "absent"
      BY <2>1, <3>2 DEF Submit, OutboxRow
    <3>3. ASSUME NEW d \in Dispatchers, CommitBatch(d) PROVE outbox'[j].status # "absent"
      BY <2>1, <3>3 DEF CommitBatch, Published, Postponed
    <3>4. CASE Tick
      BY <2>1, <3>4 DEF Tick, OutboxRow
    <3> QED
      BY <3>1, <3>2, <3>3, <3>4, OutboxSteps
  <2>2. CASE outbox[j].status = "absent"
    <3>1. ~Known(j)
      BY <2>2 DEF DriveInv
    <3>2. Submit(j)
      BY <1>2, <3>1, Unknowns
    <3> QED
      BY <3>2 DEF Submit, OutboxRow
  <2> QED
    BY <2>1, <2>2
<1>3. ASSUME NoSilentEnd', NEW j \in Jobs,
             \/ outbox'[j].status = "published"
             \/ \E d \in Dispatchers : j \in dispatcher'[d].sent
      PROVE  Held(j)' \/ job'[j].status \in Terminal
  <2>1. Held(j) \/ job[j].status \in Terminal => Held(j)' \/ job'[j].status \in Terminal
    BY <1>3, HeldStays, TerminalStep DEF Untouched
  <2>2. CASE outbox[j].status = "published" \/ \E d \in Dispatchers : j \in dispatcher[d].sent
    BY <1>3, <2>1, <2>2, SilentEnds DEF DriveInv
  <2>3. ASSUME NEW d \in Dispatchers, Publish(d, j) PROVE Held(j)'
    <3>1. queue[<<j, 0>>] \in Nat /\ queue'[<<j, 0>>] = queue[<<j, 0>>] + 1
      BY <2>3, ZeroDelay DEF Publish
    <3>2. queue'[<<j, 0>>] > 0
      BY <3>1
    <3> QED
      BY <3>2, ZeroDelay DEF Held
  <2> QED
    BY <1>3, <2>2, <2>3, SentBefore, PublishedBefore
<1> QED
  BY <1>1, <1>2, <1>3 DEF DriveInv

DriveSafe ==
  TypeInv /\ HoldInv /\ KnownInv /\ IdleInv /\ BudgetInv /\ DriveInv

\* With a lease longer than the hard time limit, a job that is not finished has a message
\* or an outbox row to be published, whatever processes die and whatever calls fail, until
\* a time limit strikes or a failure ends a task unrecorded: nothing else loses a job.
THEOREM NothingElseLosesJobs ==
  ASSUME LeaseSeconds > HardLimit
  PROVE  Spec => [](NoSilentEnd => NotLost)
<1>1. Init => DriveSafe
  BY TypeInit, HoldInit, KnownInit, IdleInit, BudgetInit, DriveInit DEF DriveSafe
<1>2. DriveSafe /\ [Next]_vars => DriveSafe'
  BY TypeStep, HoldStep, KnownStep, IdleStep, BudgetStep, DriveStep DEF DriveSafe, LeaseOutlastsRun
<1>3. DriveSafe => (NoSilentEnd => NotLost)
  <2> SUFFICES ASSUME DriveSafe, NoSilentEnd, NEW j \in Jobs,
                      job[j].status \notin Terminal \cup {"absent"}
               PROVE  \/ outbox[j].status = "pending"
                      \/ \E delay \in 0 .. MaxDelay : queue[<<j, delay>>] > 0
                      \/ \E w \in Workers : worker[w].job = j
    BY DEF NotLost
  <2>1. outbox[j].status \in {"pending", "published"}
    BY DEF DriveSafe, DriveInv, Known, TypeInv, TypeOK, OutboxRow, OutboxStatus
  <2> QED
    BY <2>1 DEF DriveSafe, DriveInv, Held
<1> QED
  BY <1>1, <1>2, <1>3, PTL DEF Spec

\* So where there are no such ends, no job is lost at all.
THEOREM JobsAreNotLost ==
  ASSUME LeaseSeconds > HardLimit, MaxTimeouts = 0, MaxErrors = 0
  PROVE  Spec => []NotLost
<1>1. TypeInv /\ BudgetInv => NoSilentEnd
  BY DEF TypeInv, TypeOK, BudgetInv, NoSilentEnd, Faults
<1>2. Init => TypeInv /\ BudgetInv
  BY TypeInit, BudgetInit
<1>3. TypeInv /\ BudgetInv /\ [Next]_vars => (TypeInv /\ BudgetInv)'
  BY TypeStep, BudgetStep
<1> QED
  BY <1>1, <1>2, <1>3, NothingElseLosesJobs, PTL DEF Spec

-----------------------------------------------------------------------------
(* Messages are accounted for *)

\* The rows a dispatcher has locked are pending, its own, and either waiting for their
\* publication or tried in one way.
Taken(d) == dispatcher[d].todo \cup dispatcher[d].sent \cup dispatcher[d].failed
BatchInv ==
  /\ \A d \in Dispatchers : \A j \in Taken(d) : outbox[j].status = "pending"
  /\ \A d \in Dispatchers : /\ dispatcher[d].todo \cap dispatcher[d].sent = {}
                            /\ dispatcher[d].todo \cap dispatcher[d].failed = {}
                            /\ dispatcher[d].sent \cap dispatcher[d].failed = {}
  /\ \A d, e \in Dispatchers : d # e => Taken(d) \cap Taken(e) = {}

\* A publication still to come: the job's row is not published, and no dispatcher that
\* lives has put its message on the broker.
Unpublished(j) == outbox[j].status # "published" /\ \A d \in Dispatchers : j \notin dispatcher[d].sent
Owed(j) == IF Unpublished(j) THEN 1 ELSE 0
Excess == (MaxOutages - budget["outage"]) + (MaxCrashes - budget["crash"])
            + (MaxCopies - budget["copy"])
AccountInv == \A j \in Jobs : Messages(j) + Owed(j) <= 1 + Excess

\* What waits on a broker q for a job is a set of pairs of a delay and a number.
Queues == [Jobs \X (0 .. MaxDelay) -> Nat]
CopiesIn(q, j) == UNION {{delay} \X (1 .. q[<<j, delay>>]) : delay \in 0 .. MaxDelay}

LEMMA CopiesAre ==
  \A j \in Jobs : Copies(j) = CopiesIn(queue, j) /\ Copies(j)' = CopiesIn(queue', j)
  BY DEF Copies, CopiesIn

LEMMA CopyElement ==
  ASSUME NEW q, NEW j, NEW c
  PROVE  c \in CopiesIn(q, j) <=>
           c = <<c[1], c[2]>> /\ c[1] \in 0 .. MaxDelay /\ c[2] \in 1 .. q[<<j, c[1]>>]
<1>1. c \in CopiesIn(q, j) <=>
        \E delay \in 0 .. MaxDelay : c \in {delay} \X (1 .. q[<<j, delay>>])
  BY DEF CopiesIn
<1>2. ASSUME NEW delay, NEW S
      PROVE  c \in {delay} \X S <=> c = <<c[1], c[2]>> /\ c[1] = delay /\ c[2] \in S
  OBVIOUS
<1>3. \A delay \in 0 .. MaxDelay : c \in {delay} \X (1 .. q[<<j, delay>>])
        <=> c = <<c[1], c[2]>> /\ c[1] = delay /\ c[2] \in 1 .. q[<<j, delay>>]
  BY <1>2
<1> QED
  BY <1>1, <1>3

LEMMA PairElement ==
  ASSUME NEW q, NEW j, NEW delay, NEW n
  PROVE  <<delay, n>> \in CopiesIn(q, j)
           <=> delay \in 0 .. MaxDelay /\ n \in 1 .. q[<<j, delay>>]
<1> DEFINE c == <<delay, n>>
<1>1. c[1] = delay /\ c[2] = n
  OBVIOUS
<1>2. c \in CopiesIn(q, j) <=>
        c = <<c[1], c[2]>> /\ c[1] \in 0 .. MaxDelay /\ c[2] \in 1 .. q[<<j, c[1]>>]
  BY CopyElement
<1> QED
  BY <1>1, <1>2

\* They can be counted.
LEMMA CopiesFinite ==
  ASSUME NEW q \in Queues, NEW j \in Jobs
  PROVE  IsFiniteSet(CopiesIn(q, j)) /\ Cardinality(CopiesIn(q, j)) \in Nat
<1> DEFINE D == 0 .. MaxDelay
           f == [delay \in D |-> {delay} \X (1 .. q[<<j, delay>>])]
           T == {{delay} \X (1 .. q[<<j, delay>>]) : delay \in D}
<1>1. IsFiniteSet(D)
  BY ZeroDelay, FS_Interval
<1>2. f \in Surjection(D, T)
  BY DEF Surjection
<1>3. IsFiniteSet(T)
  <2> HIDE DEF D, f, T
  <2> QED
    BY <1>1, <1>2, FS_Surjection
<1>4. ASSUME NEW delay \in D PROVE IsFiniteSet({delay} \X (1 .. q[<<j, delay>>]))
  <2> DEFINE n == q[<<j, delay>>]
  <2>1. n \in Nat
    BY DEF Queues
  <2> HIDE DEF n
  <2>2. IsFiniteSet({delay})
    BY FS_Singleton
  <2>3. IsFiniteSet(1 .. n)
    BY <2>1, FS_Interval
  <2>4. IsFiniteSet({delay} \X (1 .. n))
    BY <2>2, <2>3, FS_Product
  <2> QED
    BY <2>4 DEF n
<1>5. \A S \in T : IsFiniteSet(S)
  BY <1>4
<1>6. CopiesIn(q, j) = UNION T
  BY DEF CopiesIn
<1>7. IsFiniteSet(UNION T)
  <2> HIDE DEF T
  <2> QED
    BY <1>3, <1>5, FS_UNION
<1> QED
  BY <1>6, <1>7, FS_CardinalityType

\* So can the workers that hold one.
LEMMA HoldersFinite ==
  ASSUME NEW j \in Jobs
  PROVE  IsFiniteSet(Holders(j)) /\ Cardinality(Holders(j)) \in Nat
<1>1. Holders(j) \in SUBSET Workers
  BY DEF Holders
<1> QED
  BY <1>1, WorkersAssumption, FS_Subset, FS_CardinalityType

\* Queues that agree on a job hold as many copies of its message.
LEMMA CopiesSame ==
  ASSUME NEW q, NEW p, NEW j,
         \A delay \in 0 .. MaxDelay : p[<<j, delay>>] = q[<<j, delay>>]
  PROVE  CopiesIn(p, j) = CopiesIn(q, j)
<1>1. ASSUME NEW c PROVE c \in CopiesIn(p, j) <=> c \in CopiesIn(q, j)
  <2>1. c \in CopiesIn(p, j) <=>
          c = <<c[1], c[2]>> /\ c[1] \in 0 .. MaxDelay /\ c[2] \in 1 .. p[<<j, c[1]>>]
    BY CopyElement
  <2>2. c \in CopiesIn(q, j) <=>
          c = <<c[1], c[2]>> /\ c[1] \in 0 .. MaxDelay /\ c[2] \in 1 .. q[<<j, c[1]>>]
    BY CopyElement
  <2> QED
    BY <2>1, <2>2
<1> QED
  BY <1>1

\* A message more is one copy more.
LEMMA CopyAdded ==
  ASSUME NEW q \in Queues, NEW p \in Queues, NEW j \in Jobs, NEW delay \in 0 .. MaxDelay,
         p[<<j, delay>>] = q[<<j, delay>>] + 1,
         \A e \in 0 .. MaxDelay : e # delay => p[<<j, e>>] = q[<<j, e>>]
  PROVE  Cardinality(CopiesIn(p, j)) = Cardinality(CopiesIn(q, j)) + 1
<1> DEFINE n == q[<<j, delay>>]
<1>1. n \in Nat
  BY DEF Queues
<1>2. <<delay, n + 1>> \notin CopiesIn(q, j)
  BY <1>1, PairElement
<1>3. \A e, m : <<e, m>> \in CopiesIn(p, j)
        <=> <<e, m>> \in CopiesIn(q, j) \/ (e = delay /\ m = n + 1)
  <2>1. \A m : m \in 1 .. (n + 1) <=> m \in 1 .. n \/ m = n + 1
    BY <1>1
  <2>2. ASSUME NEW e, NEW m, e = delay
        PROVE  <<e, m>> \in CopiesIn(p, j) <=> <<e, m>> \in CopiesIn(q, j) \/ m = n + 1
    BY <2>1, <2>2, PairElement
  <2>3. ASSUME NEW e, NEW m, e # delay
        PROVE  <<e, m>> \in CopiesIn(p, j) <=> <<e, m>> \in CopiesIn(q, j)
    BY <2>3, PairElement
  <2> QED
    BY <2>2, <2>3
<1>4. \A c : c \in CopiesIn(p, j) \/ c \in CopiesIn(q, j) => c = <<c[1], c[2]>>
  <2>1. \A c \in CopiesIn(p, j) :
          c = <<c[1], c[2]>> /\ c[1] \in 0 .. MaxDelay /\ c[2] \in 1 .. p[<<j, c[1]>>]
    BY CopyElement
  <2>2. \A c \in CopiesIn(q, j) :
          c = <<c[1], c[2]>> /\ c[1] \in 0 .. MaxDelay /\ c[2] \in 1 .. q[<<j, c[1]>>]
    BY CopyElement
  <2> QED
    BY <2>1, <2>2
<1>5. CopiesIn(p, j) = CopiesIn(q, j) \cup {<<delay, n + 1>>}
  BY <1>3, <1>4
<1> QED
  BY <1>2, <1>5, CopiesFinite, FS_AddElement

LEMMA CopyMore ==
  ASSUME NEW q \in Queues, NEW i \in Jobs, NEW delay \in 0 .. MaxDelay, NEW j \in Jobs
  PROVE  Cardinality(CopiesIn([q EXCEPT ![<<i, delay>>] = @ + 1], j))
           = Cardinality(CopiesIn(q, j)) + (IF i = j THEN 1 ELSE 0)
<1> DEFINE p == [q EXCEPT ![<<i, delay>>] = @ + 1]
<1>1. /\ p \in Queues /\ p[<<i, delay>>] = q[<<i, delay>>] + 1
      /\ \A e \in 0 .. MaxDelay : i # j \/ e # delay => p[<<j, e>>] = q[<<j, e>>]
  BY DEF Queues
<1> HIDE DEF p
<1>2. Cardinality(CopiesIn(p, j)) = Cardinality(CopiesIn(q, j)) + (IF i = j THEN 1 ELSE 0)
  <2>1. CASE i = j
    BY <1>1, <2>1, CopyAdded
  <2>2. CASE i # j
    BY <1>1, <2>2, CopiesSame, CopiesFinite
  <2> QED
    BY <2>1, <2>2
<1> QED
  BY <1>2 DEF p

\* A message less is one copy less: the queue before had one more.
LEMMA CopyLess ==
  ASSUME NEW q \in Queues, NEW i \in Jobs, NEW delay \in 0 .. MaxDelay, NEW j \in Jobs,
         q[<<i, delay>>] > 0
  PROVE  Cardinality(CopiesIn([q EXCEPT ![<<i, delay>>] = @ - 1], j))
           = Cardinality(CopiesIn(q, j)) - (IF i = j THEN 1 ELSE 0)
<1> DEFINE p == [q EXCEPT ![<<i, delay>>] = @ - 1]
<1>1. /\ p \in Queues /\ q[<<i, delay>>] = p[<<i, delay>>] + 1
      /\ \A e \in 0 .. MaxDelay : i # j \/ e # delay => q[<<j, e>>] = p[<<j, e>>]
  BY DEF Queues
<1> HIDE DEF p
<1>2. Cardinality(CopiesIn(p, j)) = Cardinality(CopiesIn(q, j)) - (IF i = j THEN 1 ELSE 0)
  <2>1. CASE i = j
    <3>1. Cardinality(CopiesIn(q, j)) = Cardinality(CopiesIn(p, j)) + 1
      BY <1>1, <2>1, CopyAdded
    <3> QED
      BY <1>1, <2>1, <3>1, CopiesFinite
  <2>2. CASE i # j
    BY <1>1, <2>2, CopiesSame, CopiesFinite
  <2> QED
    BY <2>1, <2>2
<1> QED
  BY <1>2 DEF p

\* As time passes, the messages that wait only wait less: every copy was one before.
LEMMA CopiesTick ==
  ASSUME TypeInv, queue' \in Queues, Tick, NEW j \in Jobs
  PROVE  Cardinality(CopiesIn(queue', j)) <= Cardinality(CopiesIn(queue, j))
<1> DEFINE n == queue[<<j, 0>>]
           Before(c) == IF c[1] = 0 /\ c[2] <= n THEN <<0, c[2]>>
                        ELSE IF c[1] = 0 THEN <<1, c[2] - n>>
                        ELSE <<c[1] + 1, c[2]>>
           f == [c \in CopiesIn(queue', j) |-> Before(c)]
<1>1. \A delay \in 0 .. MaxDelay : queue[<<j, delay>>] \in Nat /\ queue'[<<j, delay>>] \in Nat
  BY DEF TypeInv, TypeOK, Queues
<1>2. n \in Nat /\ MaxDelay \in Nat
  BY <1>1, ZeroDelay
<1>3. /\ \A delay \in 0 .. MaxDelay : delay # 0 =>
           queue'[<<j, delay>>] = IF delay < MaxDelay THEN queue[<<j, delay + 1>>] ELSE 0
      /\ queue'[<<j, 0>>] = (IF 0 < MaxDelay THEN queue[<<j, 1>>] ELSE 0) + n
  <2>1. \A delay \in 0 .. MaxDelay :
          queue'[<<j, delay>>] = (IF delay < MaxDelay THEN queue[<<j, delay + 1>>] ELSE 0)
                                   + (IF delay = 0 THEN queue[<<j, delay>>] ELSE 0)
    BY DEF Tick
  <2>2. \A delay \in 0 .. MaxDelay : delay < MaxDelay => queue[<<j, delay + 1>>] \in Nat
    BY <1>1, <1>2
  <2> QED
    BY <1>2, <2>1, <2>2
<1>4. \A c \in CopiesIn(queue', j) :
        c = <<c[1], c[2]>> /\ c[1] \in 0 .. MaxDelay /\ c[2] \in 1 .. queue'[<<j, c[1]>>]
  BY CopyElement
<1>5. ASSUME NEW c \in CopiesIn(queue', j) PROVE c[1] \in Nat /\ c[2] \in Nat \ {0}
  <2>1. c[1] \in 0 .. MaxDelay /\ c[2] \in 1 .. queue'[<<j, c[1]>>]
    BY <1>4
  <2>2. queue'[<<j, c[1]>>] \in Nat
    BY <1>1, <2>1
  <2> QED
    BY <1>2, <2>1, <2>2
<1> HIDE DEF n
<1>6. ASSUME NEW c \in CopiesIn(queue', j) PROVE Before(c) \in CopiesIn(queue, j)
  <2>1. CASE c[1] = 0 /\ c[2] <= n
    <3>1. c[2] \in 1 .. queue[<<j, 0>>]
      BY <1>2, <1>5, <2>1 DEF n
    <3> QED
      BY <2>1, <3>1, PairElement, ZeroDelay
  <2>2. CASE c[1] = 0 /\ ~(c[2] <= n)
    <3>1. c[2] \in 1 .. queue'[<<j, 0>>]
      BY <1>4, <2>2
    <3>2. 0 < MaxDelay
      BY <1>1, <1>2, <1>3, <2>2, <3>1
    <3>3. queue[<<j, 1>>] \in Nat /\ queue'[<<j, 0>>] = queue[<<j, 1>>] + n
      BY <1>1, <1>2, <1>3, <3>2
    <3>4. c[2] - n \in 1 .. queue[<<j, 1>>] /\ 1 \in 0 .. MaxDelay
      BY <1>2, <1>5, <2>2, <3>1, <3>2, <3>3
    <3> QED
      BY <2>2, <3>4, PairElement
  <2>3. CASE c[1] # 0
    <3>1. c[1] \in 0 .. MaxDelay /\ c[2] \in 1 .. queue'[<<j, c[1]>>]
      BY <1>4
    <3>2. queue'[<<j, c[1]>>] = IF c[1] < MaxDelay THEN queue[<<j, c[1] + 1>>] ELSE 0
      BY <1>3, <2>3, <3>1
    <3>3. c[1] < MaxDelay
      BY <1>5, <3>1, <3>2
    <3>4. c[2] \in 1 .. queue[<<j, c[1] + 1>>] /\ c[1] + 1 \in 0 .. MaxDelay
      BY <1>2, <3>1, <3>2, <3>3
    <3> QED
      BY <2>3, <3>4, PairElement
  <2> QED
    BY <2>1, <2>2, <2>3
<1>7. ASSUME NEW c \in CopiesIn(queue', j), NEW d \in CopiesIn(queue', j), Before(c) = Before(d)
      PROVE  c = d
  <2>1. c = <<c[1], c[2]>> /\ d = <<d[1], d[2]>>
    BY <1>4
  <2>2. c[1] \in Nat /\ d[1] \in Nat /\ c[2] \in Nat \ {0} /\ d[2] \in Nat \ {0}
    BY <1>5
  <2>3. c[1] = d[1] /\ c[2] = d[2]
    BY <1>2, <1>7, <2>2
  <2> QED
    BY <2>1, <2>3
<1>8. f \in Injection(CopiesIn(queue', j), CopiesIn(queue, j))
  <2> HIDE DEF Before
  <2> QED
    BY <1>6, <1>7 DEF Injection, IsInjective
<1>9. queue \in Queues
  BY DEF TypeInv, TypeOK, Queues
<1> QED
  <2> HIDE DEF f
  <2> QED
    BY <1>8, <1>9, CopiesFinite, FS_Injection

\* A worker that takes a message is one holder more, one that ends one less.
LEMMA HolderMore ==
  ASSUME NEW w \in Workers, NEW i \in Jobs, worker[w].job \notin Jobs, worker'[w].job = i,
         \A v \in Workers \ {w} : worker'[v] = worker[v], NEW j \in Jobs
  PROVE  Cardinality(Holders(j)') = Cardinality(Holders(j)) + (IF i = j THEN 1 ELSE 0)
<1>1. w \notin Holders(j)
  BY DEF Holders
<1>2. Holders(j)' = IF i = j THEN Holders(j) \cup {w} ELSE Holders(j)
  BY DEF Holders
<1>3. Cardinality(Holders(j) \cup {w}) = Cardinality(Holders(j)) + 1
  BY <1>1, HoldersFinite, FS_AddElement
<1> QED
  BY <1>2, <1>3, HoldersFinite

LEMMA HolderLess ==
  ASSUME TypeInv, NEW w \in Workers, Finish(w), NEW j \in Jobs
  PROVE  Cardinality(Holders(j)') =
           Cardinality(Holders(j)) - (IF worker[w].job = j THEN 1 ELSE 0)
<1>1. worker'[w].job # j
  BY FinishEffect, JobsAssumption
<1>2. Holders(j)' = Holders(j) \ {w}
  BY <1>1, FinishEffect DEF Holders
<1>3. w \in Holders(j) <=> worker[w].job = j
  BY DEF Holders
<1>4. Cardinality(Holders(j) \ {w}) =
        IF w \in Holders(j) THEN Cardinality(Holders(j)) - 1 ELSE Cardinality(Holders(j))
  BY HoldersFinite, FS_RemoveElement
<1> QED
  BY <1>2, <1>3, <1>4, HoldersFinite
\* Every step keeps the number of messages for a job or lowers it, but for a publication
\* and a delivery twice: a retry republishes the message it holds, and a crash returns it.
LEMMA MessagesStep ==
  ASSUME TypeInv, TypeInv', IdleInv, [Next]_vars, NEW j \in Jobs
  PROVE  \/ Messages(j)' <= Messages(j)
         \/ /\ Messages(j)' = Messages(j) + 1
            /\ Duplicate(j) \/ \E d \in Dispatchers : Publish(d, j) \/ PublishFails(d, j)
<1> DEFINE C == Cardinality(CopiesIn(queue, j))
           CC == Cardinality(CopiesIn(queue', j))
           H == Cardinality(Holders(j))
           HH == Cardinality(Holders(j)')
<1>1. queue \in Queues /\ queue' \in Queues
  BY DEF TypeInv, TypeOK, Queues
<1>2. C \in Nat /\ CC \in Nat
  BY <1>1, CopiesFinite
<1>3. H \in Nat /\ HH \in Nat
  <2>1. IsFiniteSet(Holders(j)') /\ HH \in Nat
    <3>1. Holders(j)' \in SUBSET Workers
      BY DEF Holders
    <3> QED
      BY <3>1, WorkersAssumption, FS_Subset, FS_CardinalityType
  <2> QED
    BY <2>1, HoldersFinite
<1>4. Messages(j) = C + H /\ Messages(j)' = CC + HH
  BY CopiesAre DEF Messages
<1>5. ASSUME NEW i \in Jobs, NEW delay \in 0 .. MaxDelay,
             queue' = [queue EXCEPT ![<<i, delay>>] = @ + 1]
      PROVE  CC = C + (IF i = j THEN 1 ELSE 0)
  BY <1>1, <1>5, CopyMore
<1>6. ASSUME \A v \in Workers : worker'[v].job = worker[v].job PROVE HH = H
  <2>1. Holders(j)' = Holders(j)
    BY <1>6 DEF Holders
  <2> QED
    BY <2>1
<1>7. ASSUME NEW w \in Workers, Finish(w)
      PROVE  HH = H - (IF worker[w].job = j THEN 1 ELSE 0)
  BY <1>7, HolderLess
<1>8. UNCHANGED queue => CC = C
  OBVIOUS
<1> HIDE DEF C, CC, H, HH
<1>9. ASSUME UNCHANGED <<queue, worker>> PROVE Messages(j)' <= Messages(j)
  BY <1>2, <1>3, <1>4, <1>6, <1>8, <1>9
<1>10. ASSUME NEW i \in Jobs, Duplicate(i) \/ \E d \in Dispatchers : Publish(d, i)
       PROVE  Messages(j)' = Messages(j) + (IF i = j THEN 1 ELSE 0)
  <2>1. queue' = [queue EXCEPT ![<<i, 0>>] = @ + 1] /\ UNCHANGED worker
    BY <1>10 DEF Duplicate, Publish
  <2>2. CC = C + (IF i = j THEN 1 ELSE 0)
    BY <1>5, <2>1, ZeroDelay
  <2>3. HH = H
    BY <1>6, <2>1
  <2> QED
    BY <1>2, <1>3, <1>4, <2>2, <2>3
<1>11. ASSUME NEW w \in Workers, NEW i \in Jobs, Receive(w, i)
       PROVE  Messages(j)' <= Messages(j)
  <2>1. CC = C - (IF i = j THEN 1 ELSE 0)
    BY <1>1, <1>11, CopyLess, ZeroDelay DEF Receive, C, CC
  <2>2. /\ worker[w].job = NoJob /\ worker'[w].job = i
        /\ \A v \in Workers \ {w} : worker'[v] = worker[v]
    BY <1>11 DEF Receive, IdleInv, TypeInv, TypeOK, Process
  <2>3. HH = H + (IF i = j THEN 1 ELSE 0)
    BY <2>2, HolderMore, JobsAssumption DEF H, HH
  <2> QED
    BY <1>2, <1>3, <1>4, <2>1, <2>3
<1>12. ASSUME NEW w \in Workers, Finish(w), UNCHANGED queue PROVE Messages(j)' <= Messages(j)
  BY <1>2, <1>3, <1>4, <1>7, <1>8, <1>12
<1>13. ASSUME NEW w \in Workers, Republish(w) \/ Crash(w) PROVE Messages(j)' <= Messages(j)
  <2>1. Finish(w) /\ worker[w].job \in Jobs
    BY <1>13 DEF Republish, Crash, TypeInv, Busy
  <2>2. PICK delay \in 0 .. MaxDelay : queue' = [queue EXCEPT ![<<worker[w].job, delay>>] = @ + 1]
    BY <1>13, ZeroDelay DEF Republish, Crash, TypeInv, TypeOK, Process
  <2>3. CC = C + (IF worker[w].job = j THEN 1 ELSE 0)
    BY <1>5, <2>1, <2>2
  <2> QED
    BY <1>2, <1>3, <1>4, <1>7, <2>1, <2>3
<1>14. ASSUME NEW w \in Workers, UNCHANGED queue,
              \/ \E pc \in Phases : Goto(w, pc)
              \/ \E delay : Defer(w, delay)
              \/ ClaimGranted(w)
       PROVE  Messages(j)' <= Messages(j)
  <2>1. \A v \in Workers : worker'[v].job = worker[v].job
    <3>1. CASE ClaimGranted(w)
      BY <3>1 DEF ClaimGranted, TypeInv, TypeOK
    <3> QED
      BY <1>14, <3>1, GotoEffect, DeferEffect
  <2> QED
    BY <1>2, <1>3, <1>4, <1>6, <1>8, <1>14, <2>1
<1>15. ASSUME NEW w \in Workers,
              \/ Claim(w) \/ Email(w) \/ Export(w) \/ MarkFailed(w) \/ MarkExhausted(w)
              \/ MarkRetrying(w) \/ TimeLimit(w) \/ Interrupt(w) \/ Abort(w)
       PROVE  Messages(j)' <= Messages(j)
  <2>1. /\ UNCHANGED queue
        /\ \/ Finish(w) \/ (\E pc \in Phases : Goto(w, pc))
           \/ (\E delay : Defer(w, delay)) \/ ClaimGranted(w)
    BY <1>15 DEF Claim, Email, Export, ClaimSettled, ClaimLeased, ClaimExhausted, ClaimGranted,
       FindSent, FindUnknown, FindNone, FindRetryable, InsertDelivery, InsertRefused,
       SendReturns, SendRaises, RecordSent, RecordRaised, WriteExport, ExportRefused,
       ExportRaises, RecordExport, MarkFailed, MarkExhausted, MarkRetrying, TimeLimit,
       Interrupt, Abort, Phases, Executing
  <2> QED
    BY <1>12, <1>14, <2>1
<1>16. CASE Tick
  <2>1. \A v \in Workers : worker'[v].job = worker[v].job
    BY <1>16 DEF Tick, TypeInv, TypeOK, Process
  <2>2. CC <= C
    BY <1>1, <1>16, CopiesTick DEF C, CC
  <2> QED
    BY <1>2, <1>3, <1>4, <1>6, <2>1, <2>2
<1>17. ASSUME NEW i \in Jobs, Submit(i) PROVE Messages(j)' <= Messages(j)
  BY <1>9, <1>17 DEF Submit
<1>18. ASSUME NEW d \in Dispatchers,
              SelectBatch(d) \/ CommitBatch(d) \/ LoseDispatcher(d)
       PROVE  Messages(j)' <= Messages(j)
  BY <1>9, <1>18 DEF SelectBatch, CommitBatch, LoseDispatcher
<1>19. CASE UNCHANGED vars
  BY <1>9, <1>19 DEF vars
<1>20. ASSUME NEW i \in Jobs, Duplicate(i) \/ \E d \in Dispatchers : Publish(d, i)
       PROVE  \/ Messages(j)' <= Messages(j)
              \/ /\ Messages(j)' = Messages(j) + 1
                 /\ Duplicate(j) \/ \E d \in Dispatchers : Publish(d, j)
  <2>1. Messages(j) \in Nat
    BY <1>2, <1>3, <1>4
  <2> QED
    BY <1>10, <1>20, <2>1
<1>21. ASSUME NEW d \in Dispatchers, NEW i \in Jobs, PublishFails(d, i)
       PROVE  \/ Messages(j)' <= Messages(j)
              \/ Messages(j)' = Messages(j) + 1 /\ PublishFails(d, j)
  <2>1. UNCHANGED worker
    BY <1>21 DEF PublishFails
  <2>2. CASE UNCHANGED queue
    BY <1>9, <2>1, <2>2
  <2>3. CASE queue' = [queue EXCEPT ![<<i, 0>>] = @ + 1]
    <3>1. CC = C + (IF i = j THEN 1 ELSE 0)
      BY <1>5, <2>3, ZeroDelay
    <3>2. HH = H
      BY <1>6, <2>1
    <3> QED
      BY <1>2, <1>3, <1>4, <1>21, <3>1, <3>2
  <2> QED
    BY <1>21, <2>2, <2>3 DEF PublishFails
<1> QED
  BY <1>11, <1>13, <1>15, <1>16, <1>17, <1>18, <1>19, <1>20, <1>21 DEF Next, Dispatch, Execute, Mark
LEMMA BatchInit == Init => BatchInv
BY DEF Init, BatchInv, Taken, Resting

\* A batch is taken from rows that no dispatcher has, and only shrinks in the others.
LEMMA TakenStep ==
  ASSUME TypeInv, [Next]_vars
  PROVE  \/ \A d \in Dispatchers : Taken(d)' \subseteq Taken(d)
         \/ \E d \in Dispatchers :
              /\ SelectBatch(d) /\ Taken(d)' \subseteq Due \ Locked
              /\ \A e \in Dispatchers \ {d} : Taken(e)' = Taken(e)
<1> USE DEF TypeInv, TypeOK, Taken, Batch
<1>1. ASSUME NEW d \in Dispatchers, SelectBatch(d)
      PROVE  /\ Taken(d)' \subseteq Due \ Locked
             /\ \A e \in Dispatchers \ {d} : Taken(e)' = Taken(e)
  <2>1. PICK batch \in SUBSET (Due \ Locked) : dispatcher' = [dispatcher EXCEPT ![d].todo = batch]
    BY <1>1 DEF SelectBatch
  <2>2. dispatcher[d].sent = {} /\ dispatcher[d].failed = {}
    BY <1>1 DEF SelectBatch, Resting
  <2> QED
    BY <2>1, <2>2
<1>2. ASSUME NEW e \in Dispatchers, CommitBatch(e) \/ LoseDispatcher(e)
      PROVE  \A d \in Dispatchers : Taken(d)' \subseteq Taken(d)
  <2>1. dispatcher' = [dispatcher EXCEPT ![e] = Resting]
    BY <1>2 DEF CommitBatch, LoseDispatcher
  <2> QED
    BY <2>1 DEF Resting
<1>3. ASSUME NEW e \in Dispatchers, NEW i \in Jobs, Publish(e, i)
      PROVE  \A d \in Dispatchers : Taken(d)' \subseteq Taken(d)
  <2>1. dispatcher' = [dispatcher EXCEPT ![e].todo = @ \ {i}, ![e].sent = @ \cup {i}]
        /\ i \in dispatcher[e].todo
    BY <1>3 DEF Publish
  <2> QED
    BY <2>1
<1>4. ASSUME NEW e \in Dispatchers, NEW i \in Jobs, PublishFails(e, i)
      PROVE  \A d \in Dispatchers : Taken(d)' \subseteq Taken(d)
  <2>1. dispatcher' = [dispatcher EXCEPT ![e].todo = @ \ {i}, ![e].failed = @ \cup {i}]
        /\ i \in dispatcher[e].todo
    BY <1>4 DEF PublishFails
  <2> QED
    BY <2>1
<1>5. CASE UNCHANGED dispatcher
  BY <1>5
<1> QED
  BY <1>1, <1>2, <1>3, <1>4, <1>5, DispatcherSteps DEF Dispatch

LEMMA BatchStep == TypeInv /\ KnownInv /\ BatchInv /\ [Next]_vars => BatchInv'
<1> SUFFICES ASSUME TypeInv, KnownInv, BatchInv, [Next]_vars PROVE BatchInv'
  OBVIOUS
<1> USE DEF TypeInv, TypeOK
<1>1. ASSUME NEW d \in Dispatchers, NEW j \in Taken(d)' PROVE outbox'[j].status = "pending"
  <2>1. CASE j \in Taken(d)
    <3>1. outbox[j].status = "pending" /\ j \in Jobs
      BY <2>1 DEF BatchInv, Taken, Batch
    <3>2. CASE UNCHANGED outbox
      BY <3>1, <3>2
    <3>3. ASSUME NEW i \in Jobs, Submit(i) PROVE outbox'[j].status = "pending"
      BY <3>1, <3>3 DEF Submit, OutboxRow
    <3>4. ASSUME NEW e \in Dispatchers, CommitBatch(e) PROVE outbox'[j].status = "pending"
      <4>1. d # e
        <5>1. dispatcher'[e] = Resting
          BY <3>4 DEF CommitBatch
        <5> QED
          BY <5>1 DEF Taken, Resting
      <4>2. j \notin dispatcher[e].sent /\ j \notin dispatcher[e].failed
        BY <2>1, <4>1 DEF BatchInv, Taken
      <4> QED
        BY <3>1, <3>4, <4>2 DEF CommitBatch
    <3>5. CASE Tick
      BY <3>1, <3>5 DEF Tick, OutboxRow
    <3> QED
      BY <3>2, <3>3, <3>4, <3>5, OutboxSteps
  <2>2. CASE j \notin Taken(d)
    <3>1. SelectBatch(d) /\ j \in Due
      BY <2>2, TakenStep
    <3> QED
      BY <3>1 DEF SelectBatch, Due
  <2> QED
    BY <2>1, <2>2
<1>2. ASSUME NEW d \in Dispatchers
      PROVE  /\ dispatcher'[d].todo \cap dispatcher'[d].sent = {}
             /\ dispatcher'[d].todo \cap dispatcher'[d].failed = {}
             /\ dispatcher'[d].sent \cap dispatcher'[d].failed = {}
  <2> USE DEF Batch
  <2>1. /\ dispatcher[d].todo \cap dispatcher[d].sent = {}
        /\ dispatcher[d].todo \cap dispatcher[d].failed = {}
        /\ dispatcher[d].sent \cap dispatcher[d].failed = {}
    BY DEF BatchInv
  <2>2. ASSUME NEW e \in Dispatchers, SelectBatch(e)
        PROVE  \/ dispatcher'[d] = dispatcher[d]
               \/ dispatcher'[d].sent = {} /\ dispatcher'[d].failed = {}
    <3>1. dispatcher[e].sent = {} /\ dispatcher[e].failed = {}
      BY <2>2 DEF SelectBatch, Resting
    <3>2. PICK batch : dispatcher' = [dispatcher EXCEPT ![e].todo = batch]
      BY <2>2 DEF SelectBatch
    <3>3. CASE e = d
      BY <3>1, <3>2, <3>3
    <3>4. CASE e # d
      <4>1. dispatcher'[d] = dispatcher[d]
        BY <3>2, <3>4
      <4> QED
        BY <4>1
    <3> QED
      BY <3>3, <3>4
  <2>3. ASSUME NEW e \in Dispatchers, CommitBatch(e) \/ LoseDispatcher(e)
        PROVE  dispatcher'[d] = dispatcher[d] \/ dispatcher'[d] = Resting
    <3>1. dispatcher' = [dispatcher EXCEPT ![e] = Resting]
      BY <2>3 DEF CommitBatch, LoseDispatcher
    <3> QED
      BY <3>1
  <2>4. ASSUME NEW e \in Dispatchers, NEW i \in Jobs, Publish(e, i)
        PROVE  \/ dispatcher'[d] = dispatcher[d]
               \/ /\ i \in dispatcher[d].todo
                  /\ dispatcher'[d].todo = dispatcher[d].todo \ {i}
                  /\ dispatcher'[d].sent = dispatcher[d].sent \cup {i}
                  /\ dispatcher'[d].failed = dispatcher[d].failed
    BY <2>4 DEF Publish
  <2>5. ASSUME NEW e \in Dispatchers, NEW i \in Jobs, PublishFails(e, i)
        PROVE  \/ dispatcher'[d] = dispatcher[d]
               \/ /\ i \in dispatcher[d].todo
                  /\ dispatcher'[d].todo = dispatcher[d].todo \ {i}
                  /\ dispatcher'[d].failed = dispatcher[d].failed \cup {i}
                  /\ dispatcher'[d].sent = dispatcher[d].sent
    BY <2>5 DEF PublishFails
  <2>6. CASE dispatcher'[d] = dispatcher[d] \/ dispatcher'[d] = Resting
    BY <2>1, <2>6 DEF Resting
  <2>7. ASSUME NEW e \in Dispatchers, Dispatch(e) \/ LoseDispatcher(e)
        PROVE  /\ dispatcher'[d].todo \cap dispatcher'[d].sent = {}
               /\ dispatcher'[d].todo \cap dispatcher'[d].failed = {}
               /\ dispatcher'[d].sent \cap dispatcher'[d].failed = {}
    <3>1. CASE SelectBatch(e)
      BY <2>2, <2>6, <3>1
    <3>2. CASE CommitBatch(e) \/ LoseDispatcher(e)
      BY <2>3, <2>6, <3>2
    <3>3. ASSUME NEW i \in Jobs, Publish(e, i)
          PROVE  /\ dispatcher'[d].todo \cap dispatcher'[d].sent = {}
                 /\ dispatcher'[d].todo \cap dispatcher'[d].failed = {}
                 /\ dispatcher'[d].sent \cap dispatcher'[d].failed = {}
      BY <2>1, <2>4, <2>6, <3>3
    <3>4. ASSUME NEW i \in Jobs, PublishFails(e, i)
          PROVE  /\ dispatcher'[d].todo \cap dispatcher'[d].sent = {}
                 /\ dispatcher'[d].todo \cap dispatcher'[d].failed = {}
                 /\ dispatcher'[d].sent \cap dispatcher'[d].failed = {}
      BY <2>1, <2>5, <2>6, <3>4
    <3> QED
      BY <2>7, <3>1, <3>2, <3>3, <3>4 DEF Dispatch
  <2> QED
    BY <2>6, <2>7, DispatcherSteps
<1>3. ASSUME NEW d \in Dispatchers, NEW e \in Dispatchers, d # e PROVE Taken(d)' \cap Taken(e)' = {}
  <2>1. Taken(d) \cap Taken(e) = {}
    BY <1>3 DEF BatchInv
  <2>2. Taken(d) \subseteq Locked /\ Taken(e) \subseteq Locked
    BY DEF Taken, Locked
  <2> QED
    BY <1>3, <2>1, <2>2, TakenStep
<1>4. \A d \in Dispatchers : \A j \in Taken(d)' : outbox'[j].status = "pending"
  BY <1>1
<1> QED
  BY <1>2, <1>3, <1>4 DEF BatchInv

\* The faults of a kind that adds messages are never taken back; the loss of a
\* dispatcher, a failed publication and a message repeated are among them.
LEMMA ExcessStep ==
  ASSUME TypeInv, BudgetInv, TypeInv', [Next]_vars
  PROVE  /\ Excess \in Nat /\ Excess' \in Nat /\ Excess' >= Excess
         /\ \A d \in Dispatchers : LoseDispatcher(d) => Excess' = Excess + 1
         /\ \A d \in Dispatchers, i \in Jobs : PublishFails(d, i) => Excess' = Excess + 1
         /\ \A i \in Jobs : Duplicate(i) => Excess' = Excess + 1
<1>1. \A fault \in {"outage", "crash", "copy"} :
        /\ budget[fault] \in Nat /\ budget'[fault] \in Nat /\ budget'[fault] <= budget[fault]
  BY BudgetLess DEF TypeInv, TypeOK, Faults
<1>2. ASSUME NEW fault \in {"outage", "crash", "copy"}, Fault(fault)
      PROVE  Excess' = Excess + 1
  <2>1. \A other \in {"outage", "crash", "copy"} :
          budget'[other] = IF other = fault THEN budget[other] - 1 ELSE budget[other]
    BY <1>2 DEF Fault, TypeInv, TypeOK, Faults
  <2> QED
    BY <1>1, <2>1, BudgetAssumption DEF Excess
<1>3. /\ \A d \in Dispatchers : LoseDispatcher(d) => Fault("crash")
      /\ \A d \in Dispatchers, i \in Jobs : PublishFails(d, i) => Fault("outage")
      /\ \A i \in Jobs : Duplicate(i) => Fault("copy")
  BY DEF LoseDispatcher, PublishFails, Duplicate
<1>4. Excess \in Nat /\ Excess' \in Nat /\ Excess' >= Excess
  BY <1>1, BudgetAssumption DEF Excess, BudgetInv
<1> QED
  BY <1>2, <1>3, <1>4

\* Only the loss of a dispatcher makes a publication due again that was made already.
LEMMA OwedAgain ==
  ASSUME TypeInv, KnownInv, [Next]_vars, NEW j \in Jobs, ~Unpublished(j), Unpublished(j)'
  PROVE  \E d \in Dispatchers : LoseDispatcher(d)
<1> USE DEF TypeInv, TypeOK
<1>1. CASE outbox[j].status = "published"
  <2>1. ASSUME NEW i \in Jobs, Submit(i) PROVE outbox'[j].status = "published"
    <3>1. i # j
      BY <1>1, <2>1 DEF Submit, KnownInv, Known
    <3> QED
      BY <1>1, <2>1, <3>1 DEF Submit, OutboxRow
  <2>2. ASSUME NEW d \in Dispatchers, CommitBatch(d) PROVE outbox'[j].status = "published"
    BY <1>1, <2>2 DEF CommitBatch, Published, Postponed
  <2>3. CASE Tick
    <3>1. outbox'[j] = [outbox[j] EXCEPT !.wait = Higher(0, @ - 1)]
      BY <2>3 DEF Tick
    <3>2. outbox[j] \in OutboxRow
      OBVIOUS
    <3>3. outbox'[j].status = outbox[j].status
      BY <3>1, <3>2 DEF OutboxRow
    <3> QED
      BY <1>1, <3>3 DEF Unpublished
  <2> QED
    BY <1>1, <2>1, <2>2, <2>3, OutboxSteps DEF Unpublished
<1>2. ASSUME NEW d \in Dispatchers, j \in dispatcher[d].sent
      PROVE  \E e \in Dispatchers : LoseDispatcher(e)
  <2>1. j \notin dispatcher'[d].sent /\ outbox'[j].status # "published"
    BY DEF Unpublished
  <2>2. ASSUME NEW e \in Dispatchers, SelectBatch(e) PROVE FALSE
    <3>1. dispatcher[e] = Resting /\ \E batch : dispatcher' = [dispatcher EXCEPT ![e].todo = batch]
      BY <2>2 DEF SelectBatch
    <3> QED
      BY <1>2, <2>1, <3>1 DEF Batch, Resting
  <2>3. ASSUME NEW e \in Dispatchers, NEW i \in Jobs, Publish(e, i) \/ PublishFails(e, i)
        PROVE  FALSE
    <3>1. CASE Publish(e, i)
      <4>1. dispatcher' = [dispatcher EXCEPT ![e].todo = @ \ {i}, ![e].sent = @ \cup {i}]
        BY <3>1 DEF Publish
      <4> QED
        BY <1>2, <2>1, <4>1 DEF Batch
    <3>2. CASE PublishFails(e, i)
      <4>1. dispatcher' = [dispatcher EXCEPT ![e].todo = @ \ {i}, ![e].failed = @ \cup {i}]
        BY <3>2 DEF PublishFails
      <4> QED
        BY <1>2, <2>1, <4>1 DEF Batch
    <3> QED
      BY <2>3, <3>1, <3>2
  <2>4. ASSUME NEW e \in Dispatchers, CommitBatch(e) PROVE FALSE
    <3>1. CASE e = d
      BY <1>2, <2>1, <2>4, <3>1 DEF CommitBatch, Published
    <3>2. CASE e # d
      <4>1. dispatcher'[d] = dispatcher[d]
        BY <2>4, <3>2 DEF CommitBatch
      <4> QED
        BY <1>2, <2>1, <4>1
    <3> QED
      BY <3>1, <3>2
  <2>5. ~UNCHANGED dispatcher
    BY <1>2, <2>1
  <2> QED
    BY <2>2, <2>3, <2>4, <2>5, DispatcherSteps DEF Dispatch
<1> QED
  BY <1>1, <1>2 DEF Unpublished

LEMMA AccountInit == TypeInv /\ BudgetInv /\ Init => AccountInv
<1> SUFFICES ASSUME TypeInv, BudgetInv, Init, NEW j \in Jobs PROVE Messages(j) + Owed(j) <= 1 + Excess
  BY DEF AccountInv
<1>1. Copies(j) = {}
  <2>1. \A delay \in 0 .. MaxDelay : queue[<<j, delay>>] = 0
    BY DEF Init
  <2>2. \A c \in CopiesIn(queue, j) :
          c = <<c[1], c[2]>> /\ c[1] \in 0 .. MaxDelay /\ c[2] \in 1 .. queue[<<j, c[1]>>]
    BY CopyElement
  <2>3. ASSUME NEW c \in CopiesIn(queue, j) PROVE FALSE
    <3>1. c[1] \in 0 .. MaxDelay /\ c[2] \in 1 .. queue[<<j, c[1]>>]
      BY <2>2
    <3>2. c[2] \in 1 .. 0
      BY <2>1, <3>1
    <3> QED
      BY <3>2
  <2> QED
    BY <2>3, CopiesAre
<1>2. Holders(j) = {}
  BY JobsAssumption DEF Init, Holders, Idle
<1>3. Messages(j) = 0
  BY <1>1, <1>2, FS_EmptySet DEF Messages
<1>4. Excess = 0
  BY BudgetAssumption DEF Init, Excess, Faults
<1> QED
  BY <1>3, <1>4 DEF Owed

LEMMA AccountStep ==
  ASSUME TypeInv, KnownInv, IdleInv, BudgetInv, BatchInv, AccountInv, TypeInv', [Next]_vars
  PROVE  AccountInv'
<1> SUFFICES ASSUME NEW j \in Jobs PROVE Messages(j)' + Owed(j)' <= 1 + Excess'
  BY DEF AccountInv
<1>1. Messages(j) \in Nat /\ Messages(j)' \in Nat
  <2>1. queue \in Queues /\ queue' \in Queues
    BY DEF TypeInv, TypeOK, Queues
  <2>2. Holders(j)' \in SUBSET Workers
    BY DEF Holders
  <2>3. Cardinality(Holders(j)') \in Nat
    BY <2>2, WorkersAssumption, FS_Subset, FS_CardinalityType
  <2> QED
    BY <2>1, <2>3, CopiesAre, CopiesFinite, HoldersFinite DEF Messages
<1>2. Owed(j) \in 0 .. 1 /\ Owed(j)' \in 0 .. 1
  BY DEF Owed
<1>3. Messages(j) + Owed(j) <= 1 + Excess
  BY DEF AccountInv
<1>4. Owed(j)' - Owed(j) <= Excess' - Excess
  <2>1. CASE ~Unpublished(j) /\ Unpublished(j)'
    <3>1. PICK d \in Dispatchers : LoseDispatcher(d)
      BY <2>1, OwedAgain
    <3> QED
      BY <1>2, <3>1, ExcessStep
  <2>2. CASE ~(~Unpublished(j) /\ Unpublished(j)')
    <3>1. Owed(j)' <= Owed(j)
      BY <2>2 DEF Owed
    <3> QED
      BY <1>2, <3>1, ExcessStep
  <2> QED
    BY <2>1, <2>2
<1>5. CASE Messages(j)' <= Messages(j)
  BY <1>1, <1>2, <1>3, <1>4, <1>5, ExcessStep
<1>6. ASSUME Messages(j)' = Messages(j) + 1, Duplicate(j)
      PROVE  Messages(j)' + Owed(j)' <= 1 + Excess'
  <2>1. Owed(j)' = Owed(j)
    BY <1>6 DEF Duplicate, Owed, Unpublished
  <2> QED
    BY <1>1, <1>2, <1>3, <1>6, <2>1, ExcessStep
<1>7. ASSUME Messages(j)' = Messages(j) + 1, NEW d \in Dispatchers, Publish(d, j)
      PROVE  Messages(j)' + Owed(j)' <= 1 + Excess'
  <2>1. j \in Taken(d) /\ j \notin dispatcher[d].sent
    BY <1>7 DEF Publish, Taken, BatchInv
  <2>2. \A e \in Dispatchers : j \notin dispatcher[e].sent
    BY <2>1 DEF BatchInv, Taken
  <2>3. Unpublished(j)
    BY <2>1, <2>2 DEF BatchInv, Unpublished
  <2>4. j \in dispatcher'[d].sent
    BY <1>7 DEF Publish, TypeInv, TypeOK, Batch
  <2>5. Owed(j) = 1 /\ Owed(j)' = 0
    BY <2>3, <2>4 DEF Owed, Unpublished
  <2> QED
    BY <1>1, <1>3, <1>7, <2>5, ExcessStep
<1>8. ASSUME Messages(j)' = Messages(j) + 1, NEW d \in Dispatchers, PublishFails(d, j)
      PROVE  Messages(j)' + Owed(j)' <= 1 + Excess'
  <2>1. \A e \in Dispatchers : dispatcher'[e].sent = dispatcher[e].sent
    BY <1>8 DEF PublishFails, TypeInv, TypeOK, Batch
  <2>2. Owed(j)' = Owed(j)
    BY <1>8, <2>1 DEF PublishFails, Owed, Unpublished
  <2> QED
    BY <1>1, <1>2, <1>3, <1>8, <2>2, ExcessStep
<1> QED
  BY <1>5, <1>6, <1>7, <1>8, MessagesStep

AccountSafe ==
  TypeInv /\ KnownInv /\ IdleInv /\ BudgetInv /\ BatchInv /\ AccountInv

\* The service does not multiply a message (dispatch_once, the retries of execute()): there
\* are never more of them for a job than the one its row is published with, one for each
\* publication that raised, one for each process that died, and one for each message that
\* was delivered or published twice.
THEOREM MessagesAreAccounted == Spec => []MessagesAccounted
<1>1. Init => AccountSafe
  BY TypeInit, KnownInit, IdleInit, BudgetInit, BatchInit, AccountInit DEF AccountSafe
<1>2. AccountSafe /\ [Next]_vars => AccountSafe'
  BY TypeStep, KnownStep, IdleStep, BudgetStep, BatchStep, AccountStep DEF AccountSafe
<1>3. AccountSafe => MessagesAccounted
  <2> SUFFICES ASSUME AccountSafe, NEW j \in Jobs
               PROVE  Messages(j) <= 1 + (MaxOutages - budget["outage"])
                                       + (MaxCrashes - budget["crash"])
                                       + (MaxCopies - budget["copy"])
    BY DEF MessagesAccounted
  <2>1. Messages(j) \in Nat
    <3>1. queue \in Queues
      BY DEF AccountSafe, TypeInv, TypeOK, Queues
    <3> QED
      BY <3>1, CopiesAre, CopiesFinite, HoldersFinite DEF Messages
  <2>2. Owed(j) \in 0 .. 1
    BY DEF Owed
  <2>3. budget["outage"] \in Nat /\ budget["crash"] \in Nat /\ budget["copy"] \in Nat
    BY DEF AccountSafe, TypeInv, TypeOK, Faults
  <2>4. Messages(j) + Owed(j) <= 1 + Excess
    BY DEF AccountSafe, AccountInv
  <2> QED
    BY <2>1, <2>2, <2>3, <2>4, BudgetAssumption DEF Excess
<1> QED
  BY <1>1, <1>2, <1>3, PTL DEF Spec
=============================================================================
