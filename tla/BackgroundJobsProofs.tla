------------------------ MODULE BackgroundJobsProofs ------------------------
(***************************************************************************)
(* Proofs about BackgroundJobs, for every number of jobs, workers,         *)
(* dispatchers, attempts and faults and every length of lease and limit.   *)
(***************************************************************************)
EXTENDS BackgroundJobs, FiniteSetTheorems, TLAPS

-----------------------------------------------------------------------------
(* Types *)

\* A delay is a number of seconds between 0 and RetryMax, however many attempts
\* it follows (_retry_delay of the executor and of the dispatcher).
LEMMA RetryDelayBound ==
  ASSUME NEW n \in Nat
  PROVE  RetryDelay(n) \in 0 .. RetryMax
<1>1. Doublings(n) \in 0 .. RetryMax
  BY SettingsAssumption DEF Doublings, Lower, Higher
<1>2. RetryBase * 2 ^ Doublings(n) \in Nat
  BY <1>1, PowerAssumption
<1> QED
  BY <1>2, SettingsAssumption DEF RetryDelay, Lower

\* A worker that is not idle works on a job.
Busy == \A w \in Workers : worker[w].pc # "idle" => worker[w].job \in Jobs
WorkersOK == worker \in [Workers -> Process] /\ Busy
TypeInv == TypeOK /\ Busy

\* A worker that moves on stays well formed.
LEMMA GotoTyped ==
  ASSUME WorkersOK, NEW w \in Workers, worker[w].pc # "idle", NEW pc \in Phases, Goto(w, pc)
  PROVE  WorkersOK'
  BY DEF WorkersOK, Busy, Goto, Process

\* So does one whose task ends.
LEMMA FinishTyped ==
  ASSUME WorkersOK, NEW w \in Workers, Finish(w)
  PROVE  WorkersOK'
  BY SettingsAssumption DEF WorkersOK, Busy, Finish, Process, Idle, Phases, MaxDelay, Higher

\* So does one that is about to republish its message.
LEMMA DeferTyped ==
  ASSUME WorkersOK, NEW w \in Workers, worker[w].pc # "idle",
         NEW d \in 0 .. MaxDelay, Defer(w, d)
  PROVE  WorkersOK'
  BY DEF WorkersOK, Busy, Defer, Process, Phases

\* Recording an outcome leaves the row well formed.
LEMMA RecordTyped ==
  ASSUME job \in [Jobs -> JobRow], NEW w \in Workers, worker[w].job \in Jobs,
         NEW status \in JobStatus, Record(w, status)
  PROVE  (job \in [Jobs -> JobRow])'
<1>1. NoLease \in NoLease .. LeaseSeconds
  BY SettingsAssumption DEF NoLease
<1> QED
  BY <1>1 DEF Record, JobRow

\* A fault uses up its budget and no more.
LEMMA FaultTyped ==
  ASSUME budget \in [Faults -> Nat], NEW fault \in Faults, Fault(fault)
  PROVE  (budget \in [Faults -> Nat])'
  BY DEF Fault

\* The broker takes messages without a countdown.
LEMMA ZeroDelay == MaxDelay \in Nat /\ 0 \in 0 .. MaxDelay
  BY SettingsAssumption DEF MaxDelay, Higher

\* A message more leaves the broker well formed.
LEMMA EnqueueTyped ==
  ASSUME queue \in [Jobs \X (0 .. MaxDelay) -> Nat],
         NEW i \in Jobs, NEW d \in 0 .. MaxDelay, queue' = [queue EXCEPT ![<<i, d>>] = @ + 1]
  PROVE  (queue \in [Jobs \X (0 .. MaxDelay) -> Nat])'
<1>1. <<i, d>> \in Jobs \X (0 .. MaxDelay)
  OBVIOUS
<1> QED
  BY <1>1

\* The initial state is well formed.
LEMMA TypeInit == Init => TypeInv
<1> SUFFICES ASSUME Init PROVE TypeInv
  OBVIOUS
<1> USE DEF Init
<1>1. job \in [Jobs -> JobRow]
  BY SettingsAssumption DEF JobRow, JobStatus, NoLease
<1>2. delivery \in [Jobs -> DeliveryRow] /\ outbox \in [Jobs -> OutboxRow]
  BY SettingsAssumption DEF DeliveryRow, DeliveryStatus, OutboxRow, OutboxStatus
<1>3. WorkersOK
  BY SettingsAssumption DEF WorkersOK, Busy, Idle, Process, Phases, MaxDelay, Higher
<1>4. dispatcher \in [Dispatchers -> Batch]
  BY DEF Resting, Batch
<1>5. budget \in [Faults -> Nat]
  BY BudgetAssumption DEF Faults
<1> QED
  BY <1>1, <1>2, <1>3, <1>4, <1>5 DEF TypeInv, TypeOK, WorkersOK

\* Every step keeps the state well formed.
LEMMA TypeStep == TypeInv /\ [Next]_vars => TypeInv'
<1> SUFFICES ASSUME TypeInv, [Next]_vars PROVE TypeInv'
  OBVIOUS
<1> USE DEF TypeInv, TypeOK, WorkersOK
<1>1. ASSUME NEW j \in Jobs, Submit(j) PROVE TypeInv'
  <2>1. (job \in [Jobs -> JobRow])'
    BY <1>1 DEF Submit, JobRow, JobStatus
  <2>2. (outbox \in [Jobs -> OutboxRow])'
    BY <1>1 DEF Submit, OutboxRow, OutboxStatus
  <2> QED
    BY <1>1, <2>1, <2>2 DEF Submit, Busy
<1>2. ASSUME NEW j \in Jobs, Duplicate(j) PROVE TypeInv'
  <2>1. (budget \in [Faults -> Nat])'
    BY <1>2, FaultTyped DEF Duplicate, Faults
  <2>2. (queue \in [Jobs \X (0 .. MaxDelay) -> Nat])'
    BY <1>2, EnqueueTyped, ZeroDelay DEF Duplicate, Busy, Process
  <2> QED
    BY <1>2, <2>1, <2>2 DEF Duplicate, Busy
<1>3. ASSUME NEW d \in Dispatchers, SelectBatch(d) PROVE TypeInv'
  <2>1. PICK batch \in SUBSET Jobs : dispatcher' = [dispatcher EXCEPT ![d].todo = batch]
    BY <1>3 DEF SelectBatch, Due
  <2>2. (dispatcher \in [Dispatchers -> Batch])'
    BY <2>1 DEF Batch
  <2> QED
    BY <1>3, <2>2 DEF SelectBatch, Busy
<1>4. ASSUME NEW d \in Dispatchers, CommitBatch(d) PROVE TypeInv'
  <2>1. (dispatcher \in [Dispatchers -> Batch])'
    BY <1>4 DEF CommitBatch, Batch, Resting
  <2>2. ASSUME NEW i \in Jobs, NEW passed \in 0 .. RetryMax
        PROVE  Postponed(outbox[i], passed) \in OutboxRow
    <3>1. outbox[i].tries + 1 \in Nat
      BY DEF OutboxRow
    <3>2. Higher(0, RetryDelay(outbox[i].tries + 1) - passed) \in 0 .. RetryMax
      BY <3>1, RetryDelayBound, SettingsAssumption DEF Higher
    <3> QED
      BY <3>1, <3>2 DEF Postponed, OutboxRow
  <2>3. ASSUME NEW i \in Jobs
        PROVE  Published(outbox[i]) \in OutboxRow
    BY DEF Published, OutboxRow, OutboxStatus
  <2> QED
    BY <1>4, <2>1, <2>2, <2>3 DEF CommitBatch, Busy
<1>5. ASSUME NEW d \in Dispatchers, LoseDispatcher(d) PROVE TypeInv'
  <2>1. (dispatcher \in [Dispatchers -> Batch])'
    BY <1>5 DEF LoseDispatcher, Batch, Resting
  <2>2. (budget \in [Faults -> Nat])'
    BY <1>5, FaultTyped DEF LoseDispatcher, Faults
  <2> QED
    BY <1>5, <2>1, <2>2 DEF LoseDispatcher, Busy
<1>6. ASSUME NEW d \in Dispatchers, NEW j \in Jobs, Publish(d, j) PROVE TypeInv'
  <2>1. (dispatcher \in [Dispatchers -> Batch])'
    BY <1>6 DEF Publish, Batch
  <2>2. (queue \in [Jobs \X (0 .. MaxDelay) -> Nat])'
    BY <1>6, EnqueueTyped, ZeroDelay DEF Publish, Busy, Process
  <2> QED
    BY <1>6, <2>1, <2>2 DEF Publish, Busy
<1>7. ASSUME NEW d \in Dispatchers, NEW j \in Jobs, PublishFails(d, j) PROVE TypeInv'
  <2>1. (dispatcher \in [Dispatchers -> Batch])'
    <3>1. dispatcher' = [dispatcher EXCEPT ![d].todo = @ \ {j}, ![d].failed = @ \cup {j}]
      BY <1>7 DEF PublishFails
    <3> QED
      BY <3>1 DEF Batch
  <2>2. (budget \in [Faults -> Nat])'
    BY <1>7, FaultTyped DEF PublishFails, Faults
  <2>3. (queue \in [Jobs \X (0 .. MaxDelay) -> Nat])'
    BY <1>7, EnqueueTyped, ZeroDelay DEF PublishFails, Busy, Process
  <2> QED
    BY <1>7, <2>1, <2>2, <2>3 DEF PublishFails, Busy
<1>8. ASSUME NEW w \in Workers, NEW j \in Jobs, Receive(w, j) PROVE TypeInv'
  <2>1. worker'[w] \in Process /\ worker'[w].job = j
    BY <1>8, ZeroDelay, SettingsAssumption DEF Receive, Process, Phases
  <2>2. WorkersOK'
    BY <1>8, <2>1 DEF Receive, WorkersOK, Busy
  <2>3. <<j, 0>> \in Jobs \X (0 .. MaxDelay)
    BY ZeroDelay
  <2>4. queue[<<j, 0>>] - 1 \in Nat
    BY <1>8, <2>3 DEF Receive
  <2>5. (queue \in [Jobs \X (0 .. MaxDelay) -> Nat])'
    BY <1>8, <2>3, <2>4 DEF Receive
  <2> QED
    BY <1>8, <2>2, <2>5 DEF Receive
<1>9. ASSUME NEW w \in Workers, ClaimSettled(w) PROVE TypeInv'
  BY <1>9, FinishTyped DEF ClaimSettled
<1>10. ASSUME NEW w \in Workers, ClaimLeased(w) PROVE TypeInv'
  <2>1. LeaseLeft(w) \in Int /\ LeaseLeft(w) <= LeaseSeconds + HardLimit
    BY <1>10, SettingsAssumption DEF ClaimLeased, LeaseLeft, Busy, Process, JobRow, NoLease
  <2>2. Higher(1, LeaseLeft(w) + 1) \in 0 .. MaxDelay
    BY <2>1, SettingsAssumption DEF MaxDelay, Higher
  <2> QED
    BY <1>10, <2>2, DeferTyped DEF ClaimLeased
<1>11. ASSUME NEW w \in Workers, ClaimExhausted(w) PROVE TypeInv'
  BY <1>11, FinishTyped, RecordTyped DEF ClaimExhausted, Busy, JobStatus
<1>12. ASSUME NEW w \in Workers, ClaimGranted(w) PROVE TypeInv'
  <2>1. worker[w].job \in Jobs /\ worker[w].ran \in 0 .. HardLimit
    BY <1>12 DEF ClaimGranted, Busy, Process
  <2>2. job[worker[w].job].attempts + 1 \in 0 .. MaxAttempts
    BY <1>12, <2>1, SettingsAssumption DEF ClaimGranted, Exhausted, JobRow
  <2>3. LeaseSeconds - worker[w].ran \in NoLease .. LeaseSeconds
    BY <2>1, SettingsAssumption DEF NoLease
  <2>4. (job \in [Jobs -> JobRow])'
    BY <1>12, <2>2, <2>3 DEF ClaimGranted, JobRow, JobStatus
  <2>5. WorkersOK'
    <3>1. worker'[w] \in Process /\ worker'[w].job \in Jobs
      BY <1>12, <2>1, <2>2, ZeroDelay DEF ClaimGranted, Process, Phases, Executing
    <3> QED
      BY <1>12, <3>1 DEF ClaimGranted, WorkersOK, Busy
  <2> QED
    BY <1>12, <2>4, <2>5 DEF ClaimGranted
<1>13. ASSUME NEW w \in Workers, FindSent(w) PROVE TypeInv'
  BY <1>13, FinishTyped, RecordTyped DEF FindSent, Found, Busy, JobStatus
<1>14. ASSUME NEW w \in Workers, FindUnknown(w) PROVE TypeInv'
  <2>1. (delivery \in [Jobs -> DeliveryRow])'
    BY <1>14 DEF FindUnknown, Found, Unknown, Busy, DeliveryRow, DeliveryStatus
  <2> QED
    BY <1>14, <2>1, GotoTyped DEF FindUnknown, Found, Unknown, Phases, Executing
<1>15. ASSUME NEW w \in Workers, FindNone(w) PROVE TypeInv'
  BY <1>15, GotoTyped DEF FindNone, Found, Phases, Executing
<1>16. ASSUME NEW w \in Workers, FindRetryable(w) PROVE TypeInv'
  <2>1. (delivery \in [Jobs -> DeliveryRow])'
    BY <1>16 DEF FindRetryable, Found, Resendable, Busy, DeliveryRow, DeliveryStatus
  <2> QED
    BY <1>16, <2>1, GotoTyped DEF FindRetryable, Found, Resendable, Phases, Executing
<1>17. ASSUME NEW w \in Workers, InsertDelivery(w) PROVE TypeInv'
  <2>1. (delivery \in [Jobs -> DeliveryRow])'
    BY <1>17 DEF InsertDelivery, Busy, DeliveryRow, DeliveryStatus
  <2> QED
    BY <1>17, <2>1, GotoTyped DEF InsertDelivery, Phases, Executing
<1>18. ASSUME NEW w \in Workers, InsertRefused(w) PROVE TypeInv'
  BY <1>18, FinishTyped DEF InsertRefused
<1>19. ASSUME NEW w \in Workers, SendReturns(w) PROVE TypeInv'
  <2>1. (delivered \in [Jobs -> Nat])'
    BY <1>19 DEF SendReturns, Busy
  <2> QED
    BY <1>19, <2>1, GotoTyped DEF SendReturns, Phases, Executing
<1>20. ASSUME NEW w \in Workers, SendRaises(w) PROVE TypeInv'
  BY <1>20, GotoTyped DEF SendRaises, Phases, Executing
<1>21. ASSUME NEW w \in Workers, RecordSent(w) PROVE TypeInv'
  BY <1>21, FinishTyped, RecordTyped DEF RecordSent, DeliveryRow, DeliveryStatus, Busy, JobStatus
<1>22. ASSUME NEW w \in Workers, RecordRaised(w) PROVE TypeInv'
  <2>1. (delivery \in [Jobs -> DeliveryRow])'
    BY <1>22 DEF RecordRaised, Busy, DeliveryRow, DeliveryStatus
  <2> QED
    BY <1>22, <2>1, GotoTyped DEF RecordRaised, Phases, Executing
<1>23. ASSUME NEW w \in Workers, WriteExport(w) PROVE TypeInv'
  BY <1>23, GotoTyped DEF WriteExport, Phases, Executing
<1>24. ASSUME NEW w \in Workers, ExportRefused(w) PROVE TypeInv'
  BY <1>24, GotoTyped DEF ExportRefused, Phases, Executing
<1>25. ASSUME NEW w \in Workers, ExportRaises(w) PROVE TypeInv'
  BY <1>25, GotoTyped DEF ExportRaises, Phases, Executing
<1>26. ASSUME NEW w \in Workers, RecordExport(w) PROVE TypeInv'
  BY <1>26, FinishTyped, RecordTyped DEF RecordExport, Busy, JobStatus
<1>27. ASSUME NEW w \in Workers, MarkFailed(w) PROVE TypeInv'
  BY <1>27, FinishTyped, RecordTyped DEF MarkFailed, Busy, JobStatus
<1>28. ASSUME NEW w \in Workers, MarkExhausted(w) PROVE TypeInv'
  BY <1>28, FinishTyped, RecordTyped DEF MarkExhausted, Busy, JobStatus
<1>29. ASSUME NEW w \in Workers, MarkRetrying(w) PROVE TypeInv'
  <2>1. worker[w].attempt \in Nat
    BY SettingsAssumption DEF Process
  <2>2. RetryDelay(worker[w].attempt) \in 0 .. MaxDelay
    BY <2>1, RetryDelayBound, SettingsAssumption DEF MaxDelay, Higher
  <2> QED
    BY <1>29, <2>2, DeferTyped, RecordTyped DEF MarkRetrying, Busy, JobStatus
<1>30. ASSUME NEW w \in Workers, Republish(w) PROVE TypeInv'
  <2>1. (queue \in [Jobs \X (0 .. MaxDelay) -> Nat])'
    BY <1>30, EnqueueTyped, ZeroDelay DEF Republish, Busy, Process
  <2> QED
    BY <1>30, <2>1, FinishTyped DEF Republish
<1>31. ASSUME NEW w \in Workers, Crash(w) PROVE TypeInv'
  <2>1. (budget \in [Faults -> Nat])'
    BY <1>31, FaultTyped DEF Crash, Faults
  <2>2. (delivered \in [Jobs -> Nat])'
    BY <1>31 DEF Crash, CutShort
  <2>3. (queue \in [Jobs \X (0 .. MaxDelay) -> Nat])'
    BY <1>31, EnqueueTyped, ZeroDelay DEF Crash, Busy
  <2> QED
    BY <1>31, <2>1, <2>2, <2>3, FinishTyped DEF Crash
<1>32. ASSUME NEW w \in Workers, TimeLimit(w) PROVE TypeInv'
  <2>1. (budget \in [Faults -> Nat])'
    BY <1>32, FaultTyped DEF TimeLimit, Faults
  <2>2. (delivered \in [Jobs -> Nat])'
    BY <1>32 DEF TimeLimit, CutShort
  <2>3. (queue \in [Jobs \X (0 .. MaxDelay) -> Nat])'
    BY <1>32, EnqueueTyped, ZeroDelay DEF TimeLimit, Busy
  <2> QED
    BY <1>32, <2>1, <2>2, <2>3, FinishTyped DEF TimeLimit
<1>33. ASSUME NEW w \in Workers, Abort(w) PROVE TypeInv'
  <2>1. (budget \in [Faults -> Nat])'
    BY <1>33, FaultTyped DEF Abort, Faults
  <2> QED
    BY <1>33, <2>1, FinishTyped DEF Abort
<1>34. ASSUME NEW w \in Workers, Interrupt(w) PROVE TypeInv'
  <2>1. (budget \in [Faults -> Nat])'
    BY <1>34, FaultTyped DEF Interrupt, Faults
  <2> QED
    BY <1>34, <2>1, GotoTyped DEF Interrupt, Phases, Executing
<1>35. CASE Tick
  <2>1. WorkersOK'
    <3>1. ASSUME NEW w \in Workers
          PROVE  [worker[w] EXCEPT !.ran = @ + 1] \in Process
      <4>1. worker[w].ran + 1 \in 0 .. HardLimit
        BY <1>35, SettingsAssumption DEF Tick, Process
      <4> QED
        BY <4>1 DEF Process
    <3>2. (worker \in [Workers -> Process])'
      BY <1>35, <3>1 DEF Tick
    <3>3. ASSUME NEW w \in Workers
          PROVE  worker'[w].pc = worker[w].pc /\ worker'[w].job = worker[w].job
      BY <1>35 DEF Tick, Process
    <3> QED
      BY <3>2, <3>3 DEF WorkersOK, Busy
  <2>2. (job \in [Jobs -> JobRow])'
    <3>1. ASSUME NEW i \in Jobs
          PROVE  [job[i] EXCEPT !.lease = Higher(NoLease, @ - 1)] \in JobRow
      BY SettingsAssumption DEF JobRow, Higher, NoLease
    <3> QED
      BY <1>35, <3>1 DEF Tick
  <2>3. (outbox \in [Jobs -> OutboxRow])'
    <3>1. ASSUME NEW i \in Jobs
          PROVE  [outbox[i] EXCEPT !.wait = Higher(0, @ - 1)] \in OutboxRow
      BY SettingsAssumption DEF OutboxRow, Higher
    <3> QED
      BY <1>35, <3>1 DEF Tick
  <2>4. (queue \in [Jobs \X (0 .. MaxDelay) -> Nat])'
    <3>1. MaxDelay \in Nat
      BY SettingsAssumption DEF MaxDelay, Higher
    <3>2. ASSUME NEW m \in Jobs \X (0 .. MaxDelay)
          PROVE  /\ queue[m] \in Nat
                 /\ m[2] < MaxDelay => queue[<<m[1], m[2] + 1>>] \in Nat
      <4>1. m[1] \in Jobs /\ m[2] \in 0 .. MaxDelay
        OBVIOUS
      <4>2. m[2] < MaxDelay => <<m[1], m[2] + 1>> \in Jobs \X (0 .. MaxDelay)
        BY <3>1, <4>1
      <4> QED
        BY <4>2
    <3> QED
      BY <1>35, <3>2 DEF Tick
  <2> QED
    BY <1>35, <2>1, <2>2, <2>3, <2>4 DEF Tick
<1>36. CASE UNCHANGED vars
  BY <1>36 DEF vars, Busy
<1> QED
  BY <1>1, <1>2, <1>3, <1>4, <1>5, <1>6, <1>7, <1>8, <1>9, <1>10, <1>11, <1>12, <1>13, <1>14,
     <1>15, <1>16, <1>17, <1>18, <1>19, <1>20, <1>21, <1>22, <1>23, <1>24, <1>25, <1>26, <1>27,
     <1>28, <1>29, <1>30, <1>31, <1>32, <1>33, <1>34, <1>35, <1>36
  DEF Next, Dispatch, Execute, Claim, Email, Export, Mark

\* The state always has the type TypeOK gives it: rows hold only the values of
\* their enums, attempt_count stops at max_attempts, leases and countdowns stay
\* in their ranges.
THEOREM TypeCorrect == Spec => []TypeOK
<1>1. Init => TypeInv
  BY TypeInit
<1>2. TypeInv /\ [Next]_vars => TypeInv'
  BY TypeStep
<1>3. TypeInv => TypeOK
  BY DEF TypeInv
<1> QED
  BY <1>1, <1>2, <1>3, PTL DEF Spec

-----------------------------------------------------------------------------
(* At most one mail *)

\* What a worker's move, end and deferral do to the workers.
LEMMA GotoEffect ==
  ASSUME TypeInv, NEW w \in Workers, NEW pc \in Phases, Goto(w, pc)
  PROVE  /\ worker'[w].pc = pc /\ worker'[w].job = worker[w].job
         /\ worker'[w].ran = worker[w].ran /\ worker'[w].attempt = worker[w].attempt
         /\ \A v \in Workers \ {w} : worker'[v] = worker[v]
  BY DEF Goto, TypeInv, TypeOK, Process

\* Ending a task makes this worker idle and touches no other.
LEMMA FinishEffect ==
  ASSUME TypeInv, NEW w \in Workers, Finish(w)
  PROVE  /\ worker'[w].pc = "idle" /\ worker'[w].job = NoJob
         /\ \A v \in Workers \ {w} : worker'[v] = worker[v]
  BY DEF Finish, Idle, TypeInv, TypeOK, Process

\* Putting a message off only moves this worker to "defer".
LEMMA DeferEffect ==
  ASSUME TypeInv, NEW w \in Workers, NEW delay, Defer(w, delay)
  PROVE  /\ worker'[w].pc = "defer" /\ worker'[w].job = worker[w].job
         /\ \A v \in Workers \ {w} : worker'[v] = worker[v]
  BY DEF Defer, TypeInv, TypeOK, Process

\* A worker from the commit of SENDING to the record of what the send did.
Sender == {"sending", "sent", "raised"}

\* Why a second send never starts: whoever sends has left SENDING in the row, or
\* found it turned AMBIGUOUS, so no other worker sends; and a row from which a
\* send may start belongs to a job none of whose sends was accepted.
SendInv ==
  /\ \A w \in Workers : worker[w].pc \in Sender => delivery[worker[w].job].status \in Unknown
  /\ \A w, v \in Workers :
       /\ worker[w].pc \in Sender /\ worker[v].pc \in Sender
       /\ worker[w].job = worker[v].job
       => w = v
  /\ \A w \in Workers : worker[w].pc \in {"sending", "raised"} => delivered[worker[w].job] = 0
  /\ \A j \in Jobs : delivery[j].status \in {"absent", "retryable"} => delivered[j] = 0
  /\ \A j \in Jobs : delivered[j] <= 1

\* A step in which no worker starts to send, and neither the delivery rows nor
\* the accepted mails change, keeps SendInv.
LEMMA QuietStep ==
  ASSUME SendInv, UNCHANGED <<delivery, delivered>>,
         \A w \in Workers : worker'[w].pc \in Sender =>
           /\ worker[w].pc \in Sender /\ worker'[w].job = worker[w].job
           /\ worker'[w].pc \in {"sending", "raised"} => worker[w].pc \in {"sending", "raised"}
  PROVE  SendInv'
<1>1. \A w, v \in Workers :
        /\ worker'[w].pc \in Sender /\ worker'[v].pc \in Sender
        /\ worker'[w].job = worker'[v].job
        => w = v
  BY DEF SendInv
<1>2. \A w \in Workers : worker'[w].pc \in Sender => delivery'[worker'[w].job].status \in Unknown
  BY DEF SendInv
<1>3. \A w \in Workers : worker'[w].pc \in {"sending", "raised"} => delivered'[worker'[w].job] = 0
  BY DEF SendInv, Sender
<1> QED
  BY <1>1, <1>2, <1>3 DEF SendInv

\* A send that starts from a row that allows it keeps SendInv.
LEMMA SendStarts ==
  ASSUME SendInv, NEW w \in Workers, worker[w].job \in Jobs,
         delivery[worker[w].job].status \in {"absent", "retryable"}, UNCHANGED delivered,
         \A i \in Jobs : IF i = worker[w].job THEN delivery'[i].status = "sending"
                                             ELSE delivery'[i] = delivery[i],
         worker'[w].pc = "sending", worker'[w].job = worker[w].job,
         \A v \in Workers \ {w} : worker'[v] = worker[v], Busy
  PROVE  SendInv'
<1>1. \A v \in Workers : worker[v].pc \in Sender => worker[v].job # worker[w].job
  BY DEF SendInv, Unknown
<1>2. delivered[worker[w].job] = 0
  BY DEF SendInv
<1>3. \A v \in Workers : worker'[v].pc \in Sender =>
        v = w \/ (worker[v].pc \in Sender /\ worker[v].job \in Jobs /\ worker'[v] = worker[v])
  BY DEF Busy, Sender
<1>4. \A v \in Workers : worker'[v].pc \in Sender => delivery'[worker'[v].job].status \in Unknown
  BY <1>1, <1>3 DEF SendInv, Unknown
<1>5. \A u, v \in Workers :
        /\ worker'[u].pc \in Sender /\ worker'[v].pc \in Sender
        /\ worker'[u].job = worker'[v].job
        => u = v
  BY <1>1, <1>3 DEF SendInv
<1>6. \A v \in Workers : worker'[v].pc \in {"sending", "raised"} => delivered'[worker'[v].job] = 0
  BY <1>2, <1>3 DEF SendInv, Sender
<1>7. \A i \in Jobs : delivery'[i].status \in {"absent", "retryable"} => delivered'[i] = 0
  BY DEF SendInv
<1> QED
  BY <1>4, <1>5, <1>6, <1>7 DEF SendInv

\* So does a mail the server accepts, whether or not its sender lives on.
LEMMA MailAccepted ==
  ASSUME TypeInv, SendInv, NEW w \in Workers, worker[w].pc = "sending", UNCHANGED delivery,
         delivered' = [delivered EXCEPT ![worker[w].job] = @ + 1],
         worker'[w].pc \notin {"sending", "raised"},
         worker'[w].pc \in Sender => worker'[w].job = worker[w].job,
         \A v \in Workers \ {w} : worker'[v] = worker[v]
  PROVE  SendInv'
<1>1. worker[w].job \in Jobs /\ worker[w].pc \in Sender /\ delivered[worker[w].job] = 0
  BY DEF SendInv, TypeInv, Busy, Sender
<1>2. \A i \in Jobs : delivered'[i] = IF i = worker[w].job THEN 1 ELSE delivered[i]
  BY <1>1 DEF TypeInv, TypeOK
<1>3. delivery[worker[w].job].status \in Unknown
  BY <1>1 DEF SendInv
<1>4. \A v \in Workers : worker'[v].pc \in Sender =>
        worker[v].pc \in Sender /\ worker'[v].job = worker[v].job
  BY <1>1
<1>5. \A v \in Workers \ {w} : worker[v].pc \in Sender => worker[v].job # worker[w].job
  BY <1>1 DEF SendInv
<1>6. \A v \in Workers : worker'[v].pc \in Sender => delivery'[worker'[v].job].status \in Unknown
  BY <1>4 DEF SendInv
<1>7. \A u, v \in Workers :
        /\ worker'[u].pc \in Sender /\ worker'[v].pc \in Sender
        /\ worker'[u].job = worker'[v].job
        => u = v
  BY <1>4 DEF SendInv
<1>8. \A v \in Workers : worker'[v].pc \in {"sending", "raised"} => delivered'[worker'[v].job] = 0
  BY <1>2, <1>4, <1>5 DEF SendInv, Sender, TypeInv, Busy
<1>9. \A i \in Jobs : delivery'[i].status \in {"absent", "retryable"} => delivered'[i] = 0
  BY <1>2, <1>3 DEF SendInv, Unknown
<1>10. \A i \in Jobs : delivered'[i] <= 1
  BY <1>2 DEF SendInv
<1> QED
  BY <1>6, <1>7, <1>8, <1>9, <1>10 DEF SendInv

\* Nobody sends in the initial state.
LEMMA SendInit == Init => SendInv
  BY DEF Init, SendInv, Idle, Sender

\* Every step, faults included, keeps SendInv.
LEMMA SendStep == TypeInv /\ SendInv /\ [Next]_vars => SendInv'
<1> SUFFICES ASSUME TypeInv, SendInv, [Next]_vars PROVE SendInv'
  OBVIOUS
<1> USE DEF TypeInv, TypeOK
<1>1. ASSUME NEW j \in Jobs, Submit(j) PROVE SendInv'
  BY <1>1, QuietStep DEF Submit
<1>2. ASSUME NEW j \in Jobs, Duplicate(j) PROVE SendInv'
  BY <1>2, QuietStep DEF Duplicate
<1>3. ASSUME NEW d \in Dispatchers, SelectBatch(d) PROVE SendInv'
  BY <1>3, QuietStep DEF SelectBatch
<1>4. ASSUME NEW d \in Dispatchers, CommitBatch(d) PROVE SendInv'
  BY <1>4, QuietStep DEF CommitBatch
<1>5. ASSUME NEW d \in Dispatchers, LoseDispatcher(d) PROVE SendInv'
  BY <1>5, QuietStep DEF LoseDispatcher
<1>6. ASSUME NEW d \in Dispatchers, NEW j \in Jobs, Publish(d, j) PROVE SendInv'
  BY <1>6, QuietStep DEF Publish
<1>7. ASSUME NEW d \in Dispatchers, NEW j \in Jobs, PublishFails(d, j) PROVE SendInv'
  BY <1>7, QuietStep DEF PublishFails
<1>8. ASSUME NEW w \in Workers, NEW j \in Jobs, Receive(w, j) PROVE SendInv'
  <2>1. \A v \in Workers : worker'[v] = worker[v] \/ worker'[v].pc = "claim"
    BY <1>8 DEF Receive
  <2> QED
    BY <1>8, <2>1, QuietStep DEF Receive, Sender
<1>9. ASSUME NEW w \in Workers, ClaimSettled(w) PROVE SendInv'
  BY <1>9, FinishEffect, QuietStep DEF ClaimSettled, Sender
<1>10. ASSUME NEW w \in Workers, ClaimLeased(w) PROVE SendInv'
  BY <1>10, DeferEffect, QuietStep DEF ClaimLeased, Sender
<1>11. ASSUME NEW w \in Workers, ClaimExhausted(w) PROVE SendInv'
  BY <1>11, FinishEffect, QuietStep DEF ClaimExhausted, Sender
<1>12. ASSUME NEW w \in Workers, ClaimGranted(w) PROVE SendInv'
  <2>1. \A v \in Workers : worker'[v] = worker[v] \/ worker'[v].pc \in {"email", "export"}
    BY <1>12 DEF ClaimGranted
  <2> QED
    BY <1>12, <2>1, QuietStep DEF ClaimGranted, Sender
<1>13. ASSUME NEW w \in Workers, FindSent(w) PROVE SendInv'
  BY <1>13, FinishEffect, QuietStep DEF FindSent, Sender
<1>14. ASSUME NEW w \in Workers, FindUnknown(w) PROVE SendInv'
  <2>1. worker[w].job \in Jobs /\ delivery[worker[w].job].status \in Unknown
    BY <1>14 DEF FindUnknown, Found, Busy
  <2>2. \A i \in Jobs : IF i = worker[w].job THEN delivery'[i].status = "ambiguous"
                                          ELSE delivery'[i] = delivery[i]
    BY <1>14 DEF FindUnknown, DeliveryRow
  <2>3. /\ worker'[w].pc = "refused"
        /\ \A v \in Workers \ {w} : worker'[v] = worker[v]
    BY <1>14, GotoEffect DEF FindUnknown, Phases, Executing
  <2> QED
    BY <1>14, <2>1, <2>2, <2>3 DEF FindUnknown, SendInv, Sender, Unknown, Busy
<1>15. ASSUME NEW w \in Workers, FindNone(w) PROVE SendInv'
  BY <1>15, GotoEffect, QuietStep DEF FindNone, Found, Sender, Phases, Executing
<1>16. ASSUME NEW w \in Workers, FindRetryable(w) PROVE SendInv'
  <2>1. worker[w].job \in Jobs /\ delivery[worker[w].job].status = "retryable"
    BY <1>16 DEF FindRetryable, Found, Resendable, Busy
  <2>2. \A i \in Jobs : IF i = worker[w].job THEN delivery'[i].status = "sending"
                                          ELSE delivery'[i] = delivery[i]
    BY <1>16 DEF FindRetryable, Found, Resendable, DeliveryRow
  <2>3. /\ worker'[w].pc = "sending" /\ worker'[w].job = worker[w].job
        /\ \A v \in Workers \ {w} : worker'[v] = worker[v]
    BY <1>16, GotoEffect DEF FindRetryable, Found, Resendable, Phases, Executing
  <2> QED
    BY <1>16, <2>1, <2>2, <2>3, SendStarts DEF FindRetryable
<1>17. ASSUME NEW w \in Workers, InsertDelivery(w) PROVE SendInv'
  <2>1. worker[w].job \in Jobs /\ delivery[worker[w].job].status = "absent"
    BY <1>17 DEF InsertDelivery, Busy
  <2>2. \A i \in Jobs : IF i = worker[w].job THEN delivery'[i].status = "sending"
                                          ELSE delivery'[i] = delivery[i]
    BY <1>17 DEF InsertDelivery, DeliveryRow
  <2>3. /\ worker'[w].pc = "sending" /\ worker'[w].job = worker[w].job
        /\ \A v \in Workers \ {w} : worker'[v] = worker[v]
    BY <1>17, GotoEffect DEF InsertDelivery, Phases, Executing
  <2> QED
    BY <1>17, <2>1, <2>2, <2>3, SendStarts DEF InsertDelivery
<1>18. ASSUME NEW w \in Workers, InsertRefused(w) PROVE SendInv'
  BY <1>18, FinishEffect, QuietStep DEF InsertRefused, Sender
<1>19. ASSUME NEW w \in Workers, SendReturns(w) PROVE SendInv'
  <2>1. /\ worker'[w].pc = "sent" /\ worker'[w].job = worker[w].job
        /\ \A v \in Workers \ {w} : worker'[v] = worker[v]
    BY <1>19, GotoEffect DEF SendReturns, Phases, Executing
  <2> QED
    BY <1>19, <2>1, MailAccepted DEF SendReturns
<1>20. ASSUME NEW w \in Workers, SendRaises(w) PROVE SendInv'
  BY <1>20, GotoEffect, QuietStep DEF SendRaises, Sender, Phases, Executing
<1>21. ASSUME NEW w \in Workers, RecordSent(w) PROVE SendInv'
  <2>1. worker[w].job \in Jobs /\ worker[w].pc \in Sender
    BY <1>21 DEF RecordSent, Busy, Sender
  <2>2. \A i \in Jobs : IF i = worker[w].job THEN delivery'[i].status = "sent"
                                          ELSE delivery'[i] = delivery[i]
    BY <1>21 DEF RecordSent, DeliveryRow
  <2>3. /\ worker'[w].pc \notin Sender
        /\ \A v \in Workers \ {w} : worker'[v] = worker[v]
    BY <1>21, FinishEffect DEF RecordSent, Sender, Phases, Executing
  <2>4. \A v \in Workers \ {w} : worker[v].pc \in Sender => worker[v].job # worker[w].job
    BY <2>1 DEF SendInv
  <2> QED
    BY <1>21, <2>1, <2>2, <2>3, <2>4 DEF RecordSent, SendInv, Sender, Unknown, Busy
<1>22. ASSUME NEW w \in Workers, RecordRaised(w) PROVE SendInv'
  <2>1. worker[w].job \in Jobs /\ worker[w].pc \in Sender
    BY <1>22 DEF RecordRaised, Busy, Sender
  <2>2. \A i \in Jobs : IF i = worker[w].job THEN delivery'[i].status = "retryable"
                                          ELSE delivery'[i] = delivery[i]
    BY <1>22 DEF RecordRaised, DeliveryRow
  <2>3. /\ worker'[w].pc \notin Sender
        /\ \A v \in Workers \ {w} : worker'[v] = worker[v]
    BY <1>22, GotoEffect DEF RecordRaised, Sender, Phases, Executing
  <2>4. \A v \in Workers \ {w} : worker[v].pc \in Sender => worker[v].job # worker[w].job
    BY <2>1 DEF SendInv
  <2>5. delivered[worker[w].job] = 0
    BY <1>22 DEF RecordRaised, SendInv
  <2> QED
    BY <1>22, <2>1, <2>2, <2>3, <2>4, <2>5 DEF RecordRaised, SendInv, Sender, Unknown, Busy
<1>23. ASSUME NEW w \in Workers, WriteExport(w) PROVE SendInv'
  BY <1>23, GotoEffect, QuietStep DEF WriteExport, Sender, Phases, Executing
<1>24. ASSUME NEW w \in Workers, ExportRefused(w) PROVE SendInv'
  BY <1>24, GotoEffect, QuietStep DEF ExportRefused, Sender, Phases, Executing
<1>25. ASSUME NEW w \in Workers, ExportRaises(w) PROVE SendInv'
  BY <1>25, GotoEffect, QuietStep DEF ExportRaises, Sender, Phases, Executing
<1>26. ASSUME NEW w \in Workers, RecordExport(w) PROVE SendInv'
  BY <1>26, FinishEffect, QuietStep DEF RecordExport, Sender
<1>27. ASSUME NEW w \in Workers, MarkFailed(w) PROVE SendInv'
  BY <1>27, FinishEffect, QuietStep DEF MarkFailed, Sender
<1>28. ASSUME NEW w \in Workers, MarkExhausted(w) PROVE SendInv'
  BY <1>28, FinishEffect, QuietStep DEF MarkExhausted, Sender
<1>29. ASSUME NEW w \in Workers, MarkRetrying(w) PROVE SendInv'
  BY <1>29, DeferEffect, QuietStep DEF MarkRetrying, Sender
<1>30. ASSUME NEW w \in Workers, Republish(w) PROVE SendInv'
  BY <1>30, FinishEffect, QuietStep DEF Republish, Sender
<1>31. ASSUME NEW w \in Workers, Crash(w) PROVE SendInv'
  <2>1. /\ worker'[w].pc = "idle"
        /\ \A v \in Workers \ {w} : worker'[v] = worker[v]
    BY <1>31, FinishEffect DEF Crash
  <2>2. CASE UNCHANGED delivered
    BY <1>31, <2>1, <2>2, QuietStep DEF Crash, Sender
  <2>3. CASE worker[w].pc = "sending" /\ ~ UNCHANGED delivered
    BY <1>31, <2>1, <2>3, MailAccepted DEF Crash, CutShort, Sender
  <2> QED
    BY <1>31, <2>2, <2>3 DEF Crash, CutShort
<1>32. ASSUME NEW w \in Workers, TimeLimit(w) PROVE SendInv'
  <2>1. /\ worker'[w].pc = "idle"
        /\ \A v \in Workers \ {w} : worker'[v] = worker[v]
    BY <1>32, FinishEffect DEF TimeLimit
  <2>2. CASE UNCHANGED delivered
    BY <1>32, <2>1, <2>2, QuietStep DEF TimeLimit, Sender
  <2>3. CASE worker[w].pc = "sending" /\ ~ UNCHANGED delivered
    BY <1>32, <2>1, <2>3, MailAccepted DEF TimeLimit, CutShort, Sender
  <2> QED
    BY <1>32, <2>2, <2>3 DEF TimeLimit, CutShort
<1>33. ASSUME NEW w \in Workers, Abort(w) PROVE SendInv'
  BY <1>33, FinishEffect, QuietStep DEF Abort, Sender
<1>34. ASSUME NEW w \in Workers, Interrupt(w) PROVE SendInv'
  BY <1>34, GotoEffect, QuietStep DEF Interrupt, Sender, Phases, Executing
<1>35. CASE Tick
  <2>1. \A v \in Workers : worker'[v].pc = worker[v].pc /\ worker'[v].job = worker[v].job
    BY <1>35 DEF Tick, Process
  <2> QED
    BY <1>35, <2>1, QuietStep DEF Tick
<1>36. CASE UNCHANGED vars
  BY <1>36, QuietStep DEF vars
<1> QED
  BY <1>1, <1>2, <1>3, <1>4, <1>5, <1>6, <1>7, <1>8, <1>9, <1>10, <1>11, <1>12, <1>13, <1>14,
     <1>15, <1>16, <1>17, <1>18, <1>19, <1>20, <1>21, <1>22, <1>23, <1>24, <1>25, <1>26, <1>27,
     <1>28, <1>29, <1>30, <1>31, <1>32, <1>33, <1>34, <1>35, <1>36
  DEF Next, Dispatch, Execute, Claim, Email, Export, Mark

\* However messages are repeated, workers are lost, leases run out and tasks are
\* cut off, at most one mail per job is accepted by a sender that was not told of
\* an error (_execute_email).  No assumption relates the lease to the time limits.
THEOREM AtMostOneMail == Spec => []SingleDelivery
<1>1. Init => TypeInv /\ SendInv
  BY TypeInit, SendInit
<1>2. TypeInv /\ SendInv /\ [Next]_vars => (TypeInv /\ SendInv)'
  BY TypeStep, SendStep
<1>3. SendInv => SingleDelivery
  BY DEF SendInv, SingleDelivery, Jobs
<1> QED
  BY <1>1, <1>2, <1>3, PTL DEF Spec

-----------------------------------------------------------------------------
(* One worker at a time *)

\* The default settings and any others that keep the lease longer than the hard
\* time limit; the validators of core/config.py do not ask for it.
LeaseOutlastsRun == LeaseSeconds > HardLimit

\* A worker that executes a job started it `ran` seconds ago, when the lease was
\* granted, and nobody else has touched the row or the lease since.
HoldInv ==
  /\ \A w \in Workers : worker[w].pc \in Executing =>
       /\ job[worker[w].job].status = "running"
       /\ job[worker[w].job].lease = LeaseSeconds - worker[w].ran
  /\ \A w, v \in Workers :
       /\ worker[w].pc \in Executing /\ worker[v].pc \in Executing
       /\ worker[w].job = worker[v].job
       => w = v

\* A step that changes no row and lets no worker in keeps HoldInv.
LEMMA QuietHold ==
  ASSUME HoldInv, UNCHANGED job,
         \A w \in Workers : worker'[w].pc \in Executing =>
           /\ worker[w].pc \in Executing /\ worker'[w].job = worker[w].job
           /\ worker'[w].ran = worker[w].ran
  PROVE  HoldInv'
<1>1. \A w, v \in Workers :
        /\ worker'[w].pc \in Executing /\ worker'[v].pc \in Executing
        /\ worker'[w].job = worker'[v].job
        => w = v
  BY DEF HoldInv
<1> QED
  BY <1>1 DEF HoldInv

\* A job that a worker may claim is not being executed: the claimant's clock was
\* read `ran` seconds ago, and the lease it saw run out is the executor's.
LEMMA NotHeld ==
  ASSUME LeaseOutlastsRun, TypeInv, HoldInv, NEW w \in Workers, worker[w].pc = "claim",
         ~Settled(w), ~Leased(w)
  PROVE  \A v \in Workers : worker[v].pc \in Executing => worker[v].job # worker[w].job
<1> SUFFICES ASSUME NEW v \in Workers, worker[v].pc \in Executing,
                    worker[v].job = worker[w].job
             PROVE  FALSE
  OBVIOUS
<1>1. /\ job[worker[w].job].status = "running"
      /\ job[worker[w].job].lease = LeaseSeconds - worker[v].ran
  BY DEF HoldInv
<1>2. worker[v].ran \in 0 .. HardLimit /\ worker[w].ran \in 0 .. HardLimit
  BY DEF TypeInv, TypeOK, Process
<1> QED
  BY <1>1, <1>2, SettingsAssumption DEF Leased, LeaseLeft, LeaseOutlastsRun

\* Recording an outcome is safe for whoever holds the job, and for a job nobody
\* else executes.
LEMMA RecordHold ==
  ASSUME TypeInv, HoldInv, NEW w \in Workers, worker[w].pc # "idle",
         NEW status, Record(w, status),
         \/ worker[w].pc \in Executing
         \/ \A v \in Workers : worker[v].pc \in Executing => worker[v].job # worker[w].job,
         worker'[w].pc \notin Executing,
         \A v \in Workers \ {w} : worker'[v] = worker[v]
  PROVE  HoldInv'
<1>1. worker[w].job \in Jobs
  BY DEF TypeInv, Busy
<1>2. \A v \in Workers \ {w} : worker[v].pc \in Executing => worker[v].job # worker[w].job
  BY DEF HoldInv
<1>3. \A i \in Jobs \ {worker[w].job} : job'[i] = job[i]
  BY DEF Record, TypeInv, TypeOK
<1>4. \A v \in Workers : worker'[v].pc \in Executing =>
        v # w /\ worker[v].pc \in Executing /\ worker[v].job \in Jobs
  BY DEF TypeInv, Busy, Executing
<1>5. \A u, v \in Workers :
        /\ worker'[u].pc \in Executing /\ worker'[v].pc \in Executing
        /\ worker'[u].job = worker'[v].job
        => u = v
  BY <1>4 DEF HoldInv
<1> QED
  BY <1>2, <1>3, <1>4, <1>5 DEF HoldInv

\* Nobody executes in the initial state.
LEMMA HoldInit == Init => HoldInv
  BY DEF Init, HoldInv, Idle, Executing

\* Every step keeps HoldInv: only an expired lease lets a second worker in.
LEMMA HoldStep ==
  ASSUME LeaseOutlastsRun
  PROVE  TypeInv /\ HoldInv /\ [Next]_vars => HoldInv'
<1> SUFFICES ASSUME TypeInv, HoldInv, [Next]_vars PROVE HoldInv'
  OBVIOUS
<1> USE LeaseOutlastsRun DEF TypeInv, TypeOK
<1>1. ASSUME NEW j \in Jobs, Submit(j) PROVE HoldInv'
  <2>1. \A v \in Workers : worker[v].pc \in Executing => worker[v].job # j
    BY <1>1 DEF Submit, HoldInv
  <2>2. \A i \in Jobs \ {j} : job'[i] = job[i]
    BY <1>1 DEF Submit
  <2> QED
    BY <1>1, <2>1, <2>2 DEF Submit, HoldInv, Busy, Executing
<1>2. ASSUME NEW j \in Jobs, Duplicate(j) PROVE HoldInv'
  BY <1>2, QuietHold DEF Duplicate
<1>3. ASSUME NEW d \in Dispatchers, SelectBatch(d) PROVE HoldInv'
  BY <1>3, QuietHold DEF SelectBatch
<1>4. ASSUME NEW d \in Dispatchers, CommitBatch(d) PROVE HoldInv'
  BY <1>4, QuietHold DEF CommitBatch
<1>5. ASSUME NEW d \in Dispatchers, LoseDispatcher(d) PROVE HoldInv'
  BY <1>5, QuietHold DEF LoseDispatcher
<1>6. ASSUME NEW d \in Dispatchers, NEW j \in Jobs, Publish(d, j) PROVE HoldInv'
  BY <1>6, QuietHold DEF Publish
<1>7. ASSUME NEW d \in Dispatchers, NEW j \in Jobs, PublishFails(d, j) PROVE HoldInv'
  BY <1>7, QuietHold DEF PublishFails
<1>8. ASSUME NEW w \in Workers, NEW j \in Jobs, Receive(w, j) PROVE HoldInv'
  <2>1. \A v \in Workers : worker'[v] = worker[v] \/ worker'[v].pc = "claim"
    BY <1>8 DEF Receive
  <2> QED
    BY <1>8, <2>1, QuietHold DEF Receive, Executing
<1>9. ASSUME NEW w \in Workers, ClaimSettled(w) PROVE HoldInv'
  BY <1>9, FinishEffect, QuietHold DEF ClaimSettled, Executing
<1>10. ASSUME NEW w \in Workers, ClaimLeased(w) PROVE HoldInv'
  BY <1>10, DeferEffect, QuietHold DEF ClaimLeased, Executing
<1>11. ASSUME NEW w \in Workers, ClaimExhausted(w) PROVE HoldInv'
  <2>1. \A v \in Workers : worker[v].pc \in Executing => worker[v].job # worker[w].job
    BY <1>11, NotHeld DEF ClaimExhausted
  <2> QED
    BY <1>11, <2>1, FinishEffect, RecordHold DEF ClaimExhausted, Executing
<1>12. ASSUME NEW w \in Workers, ClaimGranted(w) PROVE HoldInv'
  <2>1. worker[w].job \in Jobs
    BY <1>12 DEF ClaimGranted, Busy
  <2>2. \A v \in Workers : worker[v].pc \in Executing => worker[v].job # worker[w].job
    BY <1>12, NotHeld DEF ClaimGranted
  <2>3. /\ \A i \in Jobs \ {worker[w].job} : job'[i] = job[i]
        /\ job'[worker[w].job].status = "running"
        /\ job'[worker[w].job].lease = LeaseSeconds - worker[w].ran
    BY <1>12, <2>1 DEF ClaimGranted
  <2>4. /\ worker'[w].job = worker[w].job /\ worker'[w].ran = worker[w].ran
        /\ \A v \in Workers \ {w} : worker'[v] = worker[v]
    BY <1>12 DEF ClaimGranted, Process
  <2>5. \A v \in Workers \ {w} : worker'[v].pc \in Executing => worker[v].job \in Jobs
    BY <2>4 DEF Busy, Executing
  <2> QED
    BY <2>1, <2>2, <2>3, <2>4, <2>5 DEF HoldInv
<1>13. ASSUME NEW w \in Workers, FindSent(w) PROVE HoldInv'
  <2>1. worker[w].pc \in Executing
    BY <1>13 DEF FindSent, Found, Executing
  <2> QED
    BY <1>13, <2>1, FinishEffect, RecordHold DEF FindSent, Executing
<1>14. ASSUME NEW w \in Workers, FindUnknown(w) PROVE HoldInv'
  BY <1>14, GotoEffect, QuietHold DEF FindUnknown, Found, Phases, Executing
<1>15. ASSUME NEW w \in Workers, FindNone(w) PROVE HoldInv'
  BY <1>15, GotoEffect, QuietHold DEF FindNone, Found, Phases, Executing
<1>16. ASSUME NEW w \in Workers, FindRetryable(w) PROVE HoldInv'
  BY <1>16, GotoEffect, QuietHold DEF FindRetryable, Found, Phases, Executing
<1>17. ASSUME NEW w \in Workers, InsertDelivery(w) PROVE HoldInv'
  BY <1>17, GotoEffect, QuietHold DEF InsertDelivery, Phases, Executing
<1>18. ASSUME NEW w \in Workers, InsertRefused(w) PROVE HoldInv'
  BY <1>18, FinishEffect, QuietHold DEF InsertRefused, Executing
<1>19. ASSUME NEW w \in Workers, SendReturns(w) PROVE HoldInv'
  BY <1>19, GotoEffect, QuietHold DEF SendReturns, Phases, Executing
<1>20. ASSUME NEW w \in Workers, SendRaises(w) PROVE HoldInv'
  BY <1>20, GotoEffect, QuietHold DEF SendRaises, Phases, Executing
<1>21. ASSUME NEW w \in Workers, RecordSent(w) PROVE HoldInv'
  <2>1. worker[w].pc \in Executing
    BY <1>21 DEF RecordSent, Found, Executing
  <2> QED
    BY <1>21, <2>1, FinishEffect, RecordHold DEF RecordSent, Executing
<1>22. ASSUME NEW w \in Workers, RecordRaised(w) PROVE HoldInv'
  BY <1>22, GotoEffect, QuietHold DEF RecordRaised, Phases, Executing
<1>23. ASSUME NEW w \in Workers, WriteExport(w) PROVE HoldInv'
  BY <1>23, GotoEffect, QuietHold DEF WriteExport, Phases, Executing
<1>24. ASSUME NEW w \in Workers, ExportRefused(w) PROVE HoldInv'
  BY <1>24, GotoEffect, QuietHold DEF ExportRefused, Phases, Executing
<1>25. ASSUME NEW w \in Workers, ExportRaises(w) PROVE HoldInv'
  BY <1>25, GotoEffect, QuietHold DEF ExportRaises, Phases, Executing
<1>26. ASSUME NEW w \in Workers, RecordExport(w) PROVE HoldInv'
  <2>1. worker[w].pc \in Executing
    BY <1>26 DEF RecordExport, Found, Executing
  <2> QED
    BY <1>26, <2>1, FinishEffect, RecordHold DEF RecordExport, Executing
<1>27. ASSUME NEW w \in Workers, MarkFailed(w) PROVE HoldInv'
  <2>1. worker[w].pc \in Executing
    BY <1>27 DEF MarkFailed, Found, Executing
  <2> QED
    BY <1>27, <2>1, FinishEffect, RecordHold DEF MarkFailed, Executing
<1>28. ASSUME NEW w \in Workers, MarkExhausted(w) PROVE HoldInv'
  <2>1. worker[w].pc \in Executing
    BY <1>28 DEF MarkExhausted, Found, Executing
  <2> QED
    BY <1>28, <2>1, FinishEffect, RecordHold DEF MarkExhausted, Executing
<1>29. ASSUME NEW w \in Workers, MarkRetrying(w) PROVE HoldInv'
  <2>1. worker[w].pc \in Executing
    BY <1>29 DEF MarkRetrying, Found, Executing
  <2> QED
    BY <1>29, <2>1, DeferEffect, RecordHold DEF MarkRetrying, Executing
<1>30. ASSUME NEW w \in Workers, Republish(w) PROVE HoldInv'
  BY <1>30, FinishEffect, QuietHold DEF Republish, Executing
<1>31. ASSUME NEW w \in Workers, Crash(w) PROVE HoldInv'
  BY <1>31, FinishEffect, QuietHold DEF Crash, Executing
<1>32. ASSUME NEW w \in Workers, TimeLimit(w) PROVE HoldInv'
  BY <1>32, FinishEffect, QuietHold DEF TimeLimit, Executing
<1>33. ASSUME NEW w \in Workers, Abort(w) PROVE HoldInv'
  BY <1>33, FinishEffect, QuietHold DEF Abort, Executing
<1>34. ASSUME NEW w \in Workers, Interrupt(w) PROVE HoldInv'
  BY <1>34, GotoEffect, QuietHold DEF Interrupt, Phases, Executing
<1>35. CASE Tick
  <2>1. \A v \in Workers :
          /\ worker'[v].pc = worker[v].pc /\ worker'[v].job = worker[v].job
          /\ worker[v].pc # "idle" => worker'[v].ran = worker[v].ran + 1
    BY <1>35 DEF Tick, Process
  <2>2. \A i \in Jobs :
          /\ job'[i].status = job[i].status
          /\ job'[i].lease = Higher(NoLease, job[i].lease - 1)
    BY <1>35 DEF Tick, JobRow
  <2>3. ASSUME NEW v \in Workers, worker[v].pc \in Executing
        PROVE  job'[worker'[v].job].lease = LeaseSeconds - worker'[v].ran
    <3>1. worker[v].job \in Jobs /\ worker[v].pc # "idle"
      BY <2>3 DEF Busy, Executing
    <3>2. worker[v].ran \in Int /\ worker[v].ran < HardLimit
      BY <1>35 DEF Tick, Process
    <3>3. job[worker[v].job].lease = LeaseSeconds - worker[v].ran
      BY <2>3 DEF HoldInv
    <3>4. worker'[v].job = worker[v].job /\ worker'[v].ran = worker[v].ran + 1
      BY <2>1, <3>1
    <3>5. job'[worker[v].job].lease = Higher(-HardLimit, LeaseSeconds - worker[v].ran - 1)
      BY <2>2, <3>1, <3>3 DEF NoLease
    <3>6. LeaseSeconds \in Nat /\ HardLimit \in Nat
      BY SettingsAssumption
    <3>7. Higher(-HardLimit, LeaseSeconds - worker[v].ran - 1) = LeaseSeconds - (worker[v].ran + 1)
      <4> DEFINE r == worker[v].ran
      <4>1. r \in Int /\ r < HardLimit
        BY <3>2
      <4> HIDE DEF r
      <4>2. Higher(-HardLimit, LeaseSeconds - r - 1) = LeaseSeconds - (r + 1)
        BY <3>6, <4>1 DEF Higher
      <4> QED
        BY <4>2 DEF r
    <3> QED
      BY <3>4, <3>5, <3>7
  <2>4. \A v \in Workers : worker[v].pc \in Executing => worker[v].job \in Jobs
    BY DEF Busy, Executing
  <2>5. ASSUME NEW v \in Workers, worker'[v].pc \in Executing
        PROVE  job'[worker'[v].job].status = "running"
    <3>1. worker[v].pc \in Executing /\ worker'[v].job = worker[v].job
      BY <2>1, <2>5
    <3>2. job[worker[v].job].status = "running" /\ worker[v].job \in Jobs
      BY <3>1, <2>4 DEF HoldInv
    <3> QED
      BY <2>2, <3>1, <3>2
  <2>6. \A u, v \in Workers :
          /\ worker'[u].pc \in Executing /\ worker'[v].pc \in Executing
          /\ worker'[u].job = worker'[v].job
          => u = v
    BY <2>1 DEF HoldInv
  <2>7. \A v \in Workers : worker'[v].pc \in Executing => worker[v].pc \in Executing
    BY <2>1
  <2> QED
    BY <2>3, <2>5, <2>6, <2>7 DEF HoldInv
<1>36. CASE UNCHANGED vars
  BY <1>36, QuietHold DEF vars
<1> QED
  BY <1>1, <1>2, <1>3, <1>4, <1>5, <1>6, <1>7, <1>8, <1>9, <1>10, <1>11, <1>12, <1>13, <1>14,
     <1>15, <1>16, <1>17, <1>18, <1>19, <1>20, <1>21, <1>22, <1>23, <1>24, <1>25, <1>26, <1>27,
     <1>28, <1>29, <1>30, <1>31, <1>32, <1>33, <1>34, <1>35, <1>36
  DEF Next, Dispatch, Execute, Claim, Email, Export, Mark

\* With a lease longer than the hard time limit, two workers never execute a job
\* at once and the one that does is inside its lease (_claim).
THEOREM LeaseIsExclusive ==
  ASSUME LeaseSeconds > HardLimit
  PROVE  Spec => []LeaseExclusive
<1>1. Init => TypeInv /\ HoldInv
  BY TypeInit, HoldInit
<1>2. TypeInv /\ HoldInv /\ [Next]_vars => (TypeInv /\ HoldInv)'
  BY TypeStep, HoldStep DEF LeaseOutlastsRun
<1>3. TypeInv /\ HoldInv => LeaseExclusive
  <2> SUFFICES ASSUME TypeInv, HoldInv, NEW j \in Jobs, NEW w \in Workers, Runs(w, j)
               PROVE  /\ job[j].status = "running" /\ job[j].lease > 0
                      /\ \A v \in Workers : Runs(v, j) => v = w
    BY DEF LeaseExclusive
  <2>1. worker[w].ran \in 0 .. HardLimit
    BY DEF TypeInv, TypeOK, Process
  <2>2. job[j].status = "running" /\ job[j].lease = LeaseSeconds - worker[w].ran
    BY DEF HoldInv, Runs
  <2>3. \A v \in Workers : Runs(v, j) => v = w
    BY DEF HoldInv, Runs
  <2> QED
    BY <2>1, <2>2, <2>3, SettingsAssumption
<1> QED
  BY <1>1, <1>2, <1>3, PTL DEF Spec

\* What one step does to the jobs that are SUCCEEDED or FAILED: nothing.
Untouched == \A j \in Jobs : job[j].status \in Terminal => job'[j].status = job[j].status

\* No step of a state where HoldInv holds takes a job out of SUCCEEDED or FAILED.
LEMMA TerminalStep == TypeInv /\ HoldInv /\ [Next]_vars => Untouched
<1> SUFFICES ASSUME TypeInv, HoldInv, [Next]_vars PROVE Untouched
  OBVIOUS
<1> USE DEF TypeInv, TypeOK, Untouched
<1>1. ASSUME NEW j \in Jobs, Submit(j) PROVE Untouched
  BY <1>1 DEF Submit, Terminal, JobRow
<1>2. ASSUME NEW j \in Jobs, Duplicate(j) PROVE Untouched
  BY <1>2 DEF Duplicate
<1>3. ASSUME NEW d \in Dispatchers, SelectBatch(d) PROVE Untouched
  BY <1>3 DEF SelectBatch
<1>4. ASSUME NEW d \in Dispatchers, CommitBatch(d) PROVE Untouched
  BY <1>4 DEF CommitBatch
<1>5. ASSUME NEW d \in Dispatchers, LoseDispatcher(d) PROVE Untouched
  BY <1>5 DEF LoseDispatcher
<1>6. ASSUME NEW d \in Dispatchers, NEW j \in Jobs, Publish(d, j) PROVE Untouched
  BY <1>6 DEF Publish
<1>7. ASSUME NEW d \in Dispatchers, NEW j \in Jobs, PublishFails(d, j) PROVE Untouched
  BY <1>7 DEF PublishFails
<1>8. ASSUME NEW w \in Workers, NEW j \in Jobs, Receive(w, j) PROVE Untouched
  BY <1>8 DEF Receive
<1>9. ASSUME NEW w \in Workers, ClaimSettled(w) PROVE Untouched
  BY <1>9 DEF ClaimSettled
<1>10. ASSUME NEW w \in Workers, ClaimLeased(w) PROVE Untouched
  BY <1>10 DEF ClaimLeased
<1>11. ASSUME NEW w \in Workers, ClaimExhausted(w) PROVE Untouched
  <2>1. job[worker[w].job].status \notin Terminal
    BY <1>11 DEF ClaimExhausted, Settled
  <2> QED
    BY <1>11, <2>1 DEF ClaimExhausted, Record, JobRow
<1>12. ASSUME NEW w \in Workers, ClaimGranted(w) PROVE Untouched
  <2>1. job[worker[w].job].status \notin Terminal
    BY <1>12 DEF ClaimGranted, Settled
  <2> QED
    BY <1>12, <2>1 DEF ClaimGranted, JobRow
<1>13. ASSUME NEW w \in Workers, FindSent(w) PROVE Untouched
  <2>1. job[worker[w].job].status \notin Terminal
    BY <1>13 DEF FindSent, Found, Executing, HoldInv, Terminal
  <2> QED
    BY <1>13, <2>1 DEF FindSent, Record, JobRow
<1>14. ASSUME NEW w \in Workers, FindUnknown(w) PROVE Untouched
  BY <1>14 DEF FindUnknown
<1>15. ASSUME NEW w \in Workers, FindNone(w) PROVE Untouched
  BY <1>15 DEF FindNone
<1>16. ASSUME NEW w \in Workers, FindRetryable(w) PROVE Untouched
  BY <1>16 DEF FindRetryable
<1>17. ASSUME NEW w \in Workers, InsertDelivery(w) PROVE Untouched
  BY <1>17 DEF InsertDelivery
<1>18. ASSUME NEW w \in Workers, InsertRefused(w) PROVE Untouched
  BY <1>18 DEF InsertRefused
<1>19. ASSUME NEW w \in Workers, SendReturns(w) PROVE Untouched
  BY <1>19 DEF SendReturns
<1>20. ASSUME NEW w \in Workers, SendRaises(w) PROVE Untouched
  BY <1>20 DEF SendRaises
<1>21. ASSUME NEW w \in Workers, RecordSent(w) PROVE Untouched
  <2>1. job[worker[w].job].status \notin Terminal
    BY <1>21 DEF RecordSent, Found, Executing, HoldInv, Terminal
  <2> QED
    BY <1>21, <2>1 DEF RecordSent, Record, JobRow
<1>22. ASSUME NEW w \in Workers, RecordRaised(w) PROVE Untouched
  BY <1>22 DEF RecordRaised
<1>23. ASSUME NEW w \in Workers, WriteExport(w) PROVE Untouched
  BY <1>23 DEF WriteExport
<1>24. ASSUME NEW w \in Workers, ExportRefused(w) PROVE Untouched
  BY <1>24 DEF ExportRefused
<1>25. ASSUME NEW w \in Workers, ExportRaises(w) PROVE Untouched
  BY <1>25 DEF ExportRaises
<1>26. ASSUME NEW w \in Workers, RecordExport(w) PROVE Untouched
  <2>1. job[worker[w].job].status \notin Terminal
    BY <1>26 DEF RecordExport, Found, Executing, HoldInv, Terminal
  <2> QED
    BY <1>26, <2>1 DEF RecordExport, Record, JobRow
<1>27. ASSUME NEW w \in Workers, MarkFailed(w) PROVE Untouched
  <2>1. job[worker[w].job].status \notin Terminal
    BY <1>27 DEF MarkFailed, Found, Executing, HoldInv, Terminal
  <2> QED
    BY <1>27, <2>1 DEF MarkFailed, Record, JobRow
<1>28. ASSUME NEW w \in Workers, MarkExhausted(w) PROVE Untouched
  <2>1. job[worker[w].job].status \notin Terminal
    BY <1>28 DEF MarkExhausted, Found, Executing, HoldInv, Terminal
  <2> QED
    BY <1>28, <2>1 DEF MarkExhausted, Record, JobRow
<1>29. ASSUME NEW w \in Workers, MarkRetrying(w) PROVE Untouched
  <2>1. job[worker[w].job].status \notin Terminal
    BY <1>29 DEF MarkRetrying, Found, Executing, HoldInv, Terminal
  <2> QED
    BY <1>29, <2>1 DEF MarkRetrying, Record, JobRow
<1>30. ASSUME NEW w \in Workers, Republish(w) PROVE Untouched
  BY <1>30 DEF Republish
<1>31. ASSUME NEW w \in Workers, Crash(w) PROVE Untouched
  BY <1>31 DEF Crash
<1>32. ASSUME NEW w \in Workers, TimeLimit(w) PROVE Untouched
  BY <1>32 DEF TimeLimit
<1>33. ASSUME NEW w \in Workers, Abort(w) PROVE Untouched
  BY <1>33 DEF Abort
<1>34. ASSUME NEW w \in Workers, Interrupt(w) PROVE Untouched
  BY <1>34 DEF Interrupt
<1>35. CASE Tick
  BY <1>35 DEF Tick, JobRow
<1>36. CASE UNCHANGED vars
  BY <1>36 DEF vars
<1> QED
  BY <1>1, <1>2, <1>3, <1>4, <1>5, <1>6, <1>7, <1>8, <1>9, <1>10, <1>11, <1>12, <1>13, <1>14,
     <1>15, <1>16, <1>17, <1>18, <1>19, <1>20, <1>21, <1>22, <1>23, <1>24, <1>25, <1>26, <1>27,
     <1>28, <1>29, <1>30, <1>31, <1>32, <1>33, <1>34, <1>35, <1>36
  DEF Next, Dispatch, Execute, Claim, Email, Export, Mark

\* With a lease longer than the hard time limit, a job that is SUCCEEDED or FAILED
\* stays so: a late outcome never overwrites it (_mark_succeeded, _mark_failed and
\* _mark_retryable_failure do not read the row again).
THEOREM TerminalStays ==
  ASSUME LeaseSeconds > HardLimit
  PROVE  Spec => TerminalIsFinal
<1>1. Init => TypeInv /\ HoldInv
  BY TypeInit, HoldInit
<1>2. TypeInv /\ HoldInv /\ [Next]_vars => (TypeInv /\ HoldInv)'
  BY TypeStep, HoldStep DEF LeaseOutlastsRun
<1>3. TypeInv /\ HoldInv /\ [Next]_vars =>
        [\A j \in Jobs : job[j].status \in Terminal => job'[j].status = job[j].status]_vars
  BY TerminalStep DEF Untouched
<1> QED
  BY <1>1, <1>2, <1>3, PTL DEF Spec, TerminalIsFinal

-----------------------------------------------------------------------------
(* How executions go on *)

\* What a worker that executes at p may be at after its next step.
Follows(p, q) ==
  \/ q = p \/ q \in {"failing", "refused"}
  \/ p = "email" /\ q = "insert"
  \/ p \in {"email", "insert"} /\ q = "sending"
  \/ p = "sending" /\ q \in {"sent", "raised"}
  \/ p = "export" /\ q = "written"

\* Nobody begins to execute: who executes did so before, for the same attempt at the
\* same job.
Moves == \A v \in Workers : worker'[v].pc \in Executing =>
  /\ worker[v].pc \in Executing /\ Follows(worker[v].pc, worker'[v].pc)
  /\ worker'[v].job = worker[v].job /\ worker'[v].attempt = worker[v].attempt

\* A step that counts no attempt and lets nobody begin.
Quiet == Moves /\ \A j \in Jobs : job'[j].attempts = job[j].attempts

LEMMA FinishMoves ==
  ASSUME TypeInv, NEW w \in Workers, Finish(w)
  PROVE  Moves
<1>1. "idle" \notin Executing
  BY DEF Executing
<1> QED
  BY <1>1, FinishEffect DEF Moves, Follows

LEMMA DeferMoves ==
  ASSUME TypeInv, NEW w \in Workers, NEW delay, Defer(w, delay)
  PROVE  Moves
<1>1. "defer" \notin Executing
  BY DEF Executing
<1> QED
  BY <1>1, DeferEffect DEF Moves, Follows

LEMMA GotoMoves ==
  ASSUME TypeInv, NEW w \in Workers, NEW pc \in Executing, worker[w].pc \in Executing,
         Follows(worker[w].pc, pc), Goto(w, pc)
  PROVE  Moves
<1>1. pc \in Phases
  BY DEF Phases
<1> QED
  BY <1>1, GotoEffect DEF Moves, Follows

LEMMA RecordCounts ==
  ASSUME TypeInv, NEW w \in Workers, NEW status, Record(w, status)
  PROVE  \A j \in Jobs : job'[j].attempts = job[j].attempts
BY DEF Record, TypeInv, TypeOK, JobRow

\* Every step is quiet or grants a claim.
LEMMA QuietOrClaim ==
  TypeInv /\ [Next]_vars => Quiet \/ \E w \in Workers : ClaimGranted(w)
<1> SUFFICES ASSUME TypeInv, [Next]_vars, \A w \in Workers : ~ClaimGranted(w)
             PROVE  Quiet
  OBVIOUS
<1>1. ASSUME UNCHANGED worker PROVE Moves
  BY <1>1 DEF Moves, Follows
<1>2. ASSUME NEW j \in Jobs, Submit(j) PROVE Quiet
  BY <1>1, <1>2 DEF Quiet, Submit, TypeInv, TypeOK, JobRow
<1>3. ASSUME NEW j \in Jobs, Duplicate(j) PROVE Quiet
  BY <1>1, <1>3 DEF Quiet, Duplicate
<1>4. ASSUME NEW d \in Dispatchers, Dispatch(d) \/ LoseDispatcher(d) PROVE Quiet
  BY <1>1, <1>4 DEF Quiet, Dispatch, LoseDispatcher, SelectBatch, CommitBatch, Publish, PublishFails
<1>5. ASSUME NEW w \in Workers, NEW j \in Jobs, Receive(w, j) PROVE Quiet
  <2>1. \A v \in Workers : worker'[v] = worker[v] \/ worker'[v].pc = "claim"
    BY <1>5 DEF Receive, TypeInv, TypeOK
  <2> QED
    BY <1>5, <2>1 DEF Quiet, Moves, Follows, Receive, Executing
<1>6. ASSUME NEW w \in Workers,
             ClaimSettled(w) \/ InsertRefused(w) \/ Republish(w) \/ Crash(w) \/ TimeLimit(w)
               \/ Abort(w)
      PROVE  Quiet
  <2>1. Finish(w) /\ UNCHANGED job
    BY <1>6 DEF ClaimSettled, InsertRefused, Republish, Crash, TimeLimit, Abort
  <2> QED
    BY <2>1, FinishMoves DEF Quiet
<1>7. ASSUME NEW w \in Workers,
             ClaimExhausted(w) \/ FindSent(w) \/ RecordSent(w) \/ RecordExport(w)
               \/ MarkFailed(w) \/ MarkExhausted(w)
      PROVE  Quiet
  <2>1. Finish(w) /\ \E status \in JobStatus : Record(w, status)
    BY <1>7 DEF ClaimExhausted, FindSent, RecordSent, RecordExport, MarkFailed, MarkExhausted,
       JobStatus
  <2> QED
    BY <2>1, FinishMoves, RecordCounts DEF Quiet
<1>8. ASSUME NEW w \in Workers, ClaimLeased(w) PROVE Quiet
  BY <1>8, DeferMoves DEF ClaimLeased, Quiet
<1>9. ASSUME NEW w \in Workers, MarkRetrying(w) PROVE Quiet
  BY <1>9, DeferMoves, RecordCounts DEF MarkRetrying, Quiet
<1>10. ASSUME NEW w \in Workers,
              FindUnknown(w) \/ FindNone(w) \/ FindRetryable(w) \/ InsertDelivery(w)
                \/ SendReturns(w) \/ SendRaises(w) \/ RecordRaised(w)
                \/ WriteExport(w) \/ ExportRefused(w) \/ ExportRaises(w) \/ Interrupt(w)
       PROVE  Quiet
  <2>1. worker[w].pc \in Executing /\ UNCHANGED job
    BY <1>10 DEF FindUnknown, FindNone, FindRetryable, InsertDelivery, SendReturns, SendRaises,
       RecordRaised, WriteExport, ExportRefused, ExportRaises, Interrupt, Found, Executing
  <2>2. PICK pc \in Executing : Goto(w, pc) /\ Follows(worker[w].pc, pc)
    BY <1>10 DEF FindUnknown, FindNone, FindRetryable, InsertDelivery, SendReturns, SendRaises,
       RecordRaised, WriteExport, ExportRefused, ExportRaises, Interrupt, Found, Executing,
       Follows
  <2> QED
    BY <2>1, <2>2, GotoMoves DEF Quiet
<1>11. CASE Tick
  <2>1. \A v \in Workers : /\ worker'[v].pc = worker[v].pc /\ worker'[v].job = worker[v].job
                           /\ worker'[v].attempt = worker[v].attempt
    BY <1>11 DEF Tick, TypeInv, TypeOK, Process
  <2>2. \A j \in Jobs : job'[j].attempts = job[j].attempts
    BY <1>11 DEF Tick, TypeInv, TypeOK, JobRow
  <2> QED
    BY <2>1, <2>2 DEF Quiet, Moves, Follows
<1>12. CASE UNCHANGED vars
  BY <1>1, <1>12 DEF Quiet, vars
<1> QED
  BY <1>2, <1>3, <1>4, <1>5, <1>6, <1>7, <1>8, <1>9, <1>10, <1>11, <1>12
  DEF Next, Execute, Claim, Email, Export, Mark

-----------------------------------------------------------------------------
(* Sends are paid for by claims *)

\* The workers that have claimed a job and have not begun to send.
Entitled(j) == {w \in Workers : worker[w].job = j /\ worker[w].pc \in {"email", "insert"}}
\* Every attempt that the delivery row counts, and every one it may yet count, was
\* counted by the job row: each worker about to send has a claim of its own.
PaidInv == \A j \in Jobs : delivery[j].attempts + Cardinality(Entitled(j)) <= job[j].attempts

LEMMA EntitledFinite ==
  \A j \in Jobs : IsFiniteSet(Entitled(j)) /\ Cardinality(Entitled(j)) \in Nat
<1>1. \A j \in Jobs : Entitled(j) \subseteq Workers
  BY DEF Entitled
<1> QED
  BY <1>1, WorkersAssumption, FS_Subset, FS_CardinalityType

LEMMA PaidInit == TypeInv /\ Init => PaidInv
<1> SUFFICES ASSUME Init, NEW j \in Jobs
             PROVE  delivery[j].attempts + Cardinality(Entitled(j)) <= job[j].attempts
  BY DEF PaidInv
<1>1. Entitled(j) = {}
  BY DEF Init, Entitled, Idle
<1> QED
  BY <1>1, FS_EmptySet DEF Init

LEMMA PaidStep == TypeInv /\ PaidInv /\ TypeInv' /\ [Next]_vars => PaidInv'
<1> SUFFICES ASSUME TypeInv, PaidInv, TypeInv', [Next]_vars PROVE PaidInv'
  OBVIOUS
<1>1. \A j \in Jobs : /\ delivery[j].attempts \in Nat /\ job[j].attempts \in Nat
                      /\ delivery'[j].attempts \in Nat /\ job'[j].attempts \in Nat
  BY DEF TypeInv, TypeOK, DeliveryRow, JobRow
<1>2. \A j \in Jobs : /\ IsFiniteSet(Entitled(j)) /\ Cardinality(Entitled(j)) \in Nat
                      /\ IsFiniteSet(Entitled(j)') /\ Cardinality(Entitled(j)') \in Nat
  <2>1. \A j \in Jobs : Entitled(j) \subseteq Workers /\ Entitled(j)' \subseteq Workers
    BY DEF Entitled
  <2> QED
    BY <2>1, WorkersAssumption, FS_Subset, FS_CardinalityType
<1>3. ASSUME NEW w \in Workers, ClaimGranted(w) PROVE PaidInv'
  <2>1. worker[w].job \in Jobs /\ worker[w].pc = "claim" /\ UNCHANGED delivery
    BY <1>3 DEF ClaimGranted, TypeInv, Busy
  <2>2. /\ \A v \in Workers \ {w} : worker'[v] = worker[v]
        /\ worker'[w].job = worker[w].job
    BY <1>3 DEF ClaimGranted, TypeInv, TypeOK
  <2>3. ASSUME NEW j \in Jobs
        PROVE  delivery'[j].attempts + Cardinality(Entitled(j)') <= job'[j].attempts
    <3>1. CASE j = worker[w].job
      <4>1. Entitled(j)' \subseteq Entitled(j) \cup {w}
        BY <2>2 DEF Entitled
      <4>2. w \notin Entitled(j)
        BY <2>1 DEF Entitled
      <4>3. /\ IsFiniteSet(Entitled(j) \cup {w})
            /\ Cardinality(Entitled(j) \cup {w}) = Cardinality(Entitled(j)) + 1
        BY <1>2, <4>2, FS_AddElement
      <4>4. Cardinality(Entitled(j)') <= Cardinality(Entitled(j)) + 1
        BY <4>1, <4>3, FS_Subset
      <4>5. job'[j].attempts = job[j].attempts + 1
        BY <1>3, <3>1 DEF ClaimGranted, TypeInv, TypeOK
      <4> QED
        BY <1>1, <1>2, <2>1, <4>4, <4>5 DEF PaidInv
    <3>2. CASE j # worker[w].job
      <4>1. Entitled(j)' = Entitled(j)
        BY <2>2, <3>2 DEF Entitled
      <4>2. job'[j] = job[j]
        BY <1>3, <3>2 DEF ClaimGranted, TypeInv, TypeOK
      <4> QED
        BY <2>1, <4>1, <4>2 DEF PaidInv
    <3> QED
      BY <3>1, <3>2
  <2> QED
    BY <2>3 DEF PaidInv
<1>4. ASSUME Quiet PROVE \A j \in Jobs : Entitled(j)' \subseteq Entitled(j)
  <2> SUFFICES ASSUME NEW j \in Jobs, NEW v \in Workers,
                      worker'[v].job = j, worker'[v].pc \in {"email", "insert"}
               PROVE  worker[v].job = j /\ worker[v].pc \in {"email", "insert"}
    BY DEF Entitled
  <2>1. worker'[v].pc \in Executing
    BY DEF Executing
  <2> QED
    BY <1>4, <2>1 DEF Quiet, Moves, Follows
<1>5. ASSUME Quiet, NEW w \in Workers, FindRetryable(w) \/ InsertDelivery(w) PROVE PaidInv'
  <2>1. /\ worker[w].job \in Jobs /\ w \in Entitled(worker[w].job)
        /\ worker'[w].pc = "sending"
    BY <1>5, GotoEffect DEF FindRetryable, InsertDelivery, Found, Entitled, TypeInv, Busy, Phases,
       Executing
  <2>2. /\ delivery'[worker[w].job].attempts <= delivery[worker[w].job].attempts + 1
        /\ \A j \in Jobs : j # worker[w].job => delivery'[j] = delivery[j]
    BY <1>1, <1>5, <2>1 DEF FindRetryable, InsertDelivery, TypeInv, TypeOK
  <2>3. ASSUME NEW j \in Jobs
        PROVE  delivery'[j].attempts + Cardinality(Entitled(j)') <= job'[j].attempts
    <3>1. CASE j = worker[w].job
      <4>1. Entitled(j)' \subseteq Entitled(j) \ {w}
        BY <1>4, <1>5, <2>1 DEF Entitled
      <4>2. /\ IsFiniteSet(Entitled(j) \ {w})
            /\ Cardinality(Entitled(j) \ {w}) = Cardinality(Entitled(j)) - 1
        BY <1>2, <2>1, <3>1, FS_RemoveElement
      <4>3. Cardinality(Entitled(j)') <= Cardinality(Entitled(j)) - 1
        BY <4>1, <4>2, FS_Subset
      <4> QED
        BY <1>1, <1>2, <1>5, <2>2, <3>1, <4>3 DEF PaidInv, Quiet
    <3>2. CASE j # worker[w].job
      <4>1. Cardinality(Entitled(j)') <= Cardinality(Entitled(j))
        BY <1>2, <1>4, <1>5, FS_Subset
      <4> QED
        BY <1>1, <1>2, <1>5, <2>2, <3>2, <4>1 DEF PaidInv, Quiet
    <3> QED
      BY <3>1, <3>2
  <2> QED
    BY <2>3 DEF PaidInv
<1>6. ASSUME Quiet, \A w \in Workers : ~FindRetryable(w) /\ ~InsertDelivery(w) PROVE PaidInv'
  <2>1. \A j \in Jobs : delivery'[j].attempts = delivery[j].attempts
    <3>1. ASSUME NEW w \in Workers, FindUnknown(w) \/ RecordSent(w) \/ RecordRaised(w)
          PROVE  \A j \in Jobs : delivery'[j].attempts = delivery[j].attempts
      <4>1. PICK status \in DeliveryStatus :
              delivery' = [delivery EXCEPT ![worker[w].job].status = status]
        BY <3>1 DEF FindUnknown, RecordSent, RecordRaised, DeliveryStatus
      <4> QED
        BY <4>1 DEF TypeInv, TypeOK, DeliveryRow
    <3>2. \/ UNCHANGED delivery
          \/ \E w \in Workers : ClaimGranted(w) \/ FindUnknown(w) \/ RecordSent(w) \/ RecordRaised(w)
      BY <1>6 DEF Next, vars, Submit, Duplicate, Dispatch, LoseDispatcher, SelectBatch,
         CommitBatch, Publish, PublishFails, Receive, Execute, Claim, Email, Export, Mark,
         ClaimSettled, ClaimLeased, ClaimExhausted, FindSent, FindNone, InsertRefused,
         SendReturns, SendRaises, WriteExport, ExportRefused, ExportRaises, RecordExport,
         MarkFailed, MarkExhausted, MarkRetrying, Republish, Crash, TimeLimit, Interrupt,
         Abort, Tick
    <3> QED
      BY <3>1, <3>2 DEF ClaimGranted
  <2>2. \A j \in Jobs : Cardinality(Entitled(j)') <= Cardinality(Entitled(j))
    BY <1>2, <1>4, <1>6, FS_Subset
  <2>3. ASSUME NEW j \in Jobs
        PROVE  delivery'[j].attempts + Cardinality(Entitled(j)') <= job'[j].attempts
    BY <1>1, <1>2, <1>6, <2>1, <2>2 DEF PaidInv, Quiet
  <2> QED
    BY <2>3 DEF PaidInv
<1> QED
  BY <1>3, <1>5, <1>6, QuietOrClaim

\* Every send is paid for by a claim: the delivery row never counts more attempts than
\* the job row, and the job row stops at the maximum, even where leases run out under
\* live workers (_claim, _execute_email).
THEOREM SendsArePaidFor == Spec => []SendsWithinAttempts
<1>1. Init => TypeInv /\ PaidInv
  BY TypeInit, PaidInit
<1>2. TypeInv /\ PaidInv /\ [Next]_vars => (TypeInv /\ PaidInv)'
  BY TypeStep, PaidStep
<1>3. TypeInv /\ PaidInv => SendsWithinAttempts
  <2> SUFFICES ASSUME TypeInv, PaidInv, NEW j \in Jobs
               PROVE  delivery[j].attempts <= job[j].attempts /\ job[j].attempts <= MaxAttempts
    BY DEF SendsWithinAttempts
  <2>1. delivery[j].attempts \in Nat /\ job[j].attempts \in 0 .. MaxAttempts
    BY DEF TypeInv, TypeOK, DeliveryRow, JobRow
  <2> QED
    BY <2>1, EntitledFinite, SettingsAssumption DEF PaidInv
<1> QED
  BY <1>1, <1>2, <1>3, PTL DEF Spec

-----------------------------------------------------------------------------
(* Success follows the effect *)

\* What an executing worker knows of its job, and what a SENT row says.
DoneInv ==
  /\ \A w \in Workers :
       /\ worker[w].pc \in {"email", "insert"} \cup Sender => worker[w].job \in EmailJobs
       /\ worker[w].pc \in {"export", "written"} => worker[w].job \in ExportJobs
       /\ worker[w].pc = "sent" => delivered[worker[w].job] # 0
       /\ worker[w].pc = "written" => file[worker[w].job]
  /\ \A j \in Jobs : delivery[j].status = "sent" => delivered[j] # 0
Done(j) == IF j \in EmailJobs THEN delivery[j].status = "sent" /\ delivered[j] # 0 ELSE file[j]
SuccessInv == DoneInv /\ \A j \in Jobs : job[j].status = "succeeded" => Done(j)

\* A mail is not unsent, a file not removed, and a SENT row stays so: only a worker
\* that sends may write another status, and it has left SENDING in the row.
Kept(j) ==
  /\ delivery[j].status = "sent" => delivery'[j].status = "sent"
  /\ delivered[j] # 0 => delivered'[j] # 0
  /\ file[j] => file'[j]

LEMMA EffectsKept == TypeInv /\ SendInv /\ [Next]_vars => \A j \in Jobs : Kept(j)
<1> SUFFICES ASSUME TypeInv, SendInv, [Next]_vars, NEW j \in Jobs PROVE Kept(j)
  OBVIOUS
<1> USE DEF Kept, TypeInv, TypeOK
<1>1. ASSUME UNCHANGED <<delivery, delivered, file>> PROVE Kept(j)
  BY <1>1
<1>2. ASSUME NEW w \in Workers,
             FindUnknown(w) \/ FindRetryable(w) \/ InsertDelivery(w) \/ RecordRaised(w)
      PROVE  Kept(j)
  <2>1. delivery[worker[w].job].status # "sent" /\ UNCHANGED <<delivered, file>>
    BY <1>2 DEF FindUnknown, FindRetryable, InsertDelivery, RecordRaised, Found, Unknown,
       Resendable, SendInv, Sender
  <2>2. \A i \in Jobs : i # worker[w].job => delivery'[i] = delivery[i]
    BY <1>2 DEF FindUnknown, FindRetryable, InsertDelivery, RecordRaised
  <2> QED
    BY <2>1, <2>2
<1>3. ASSUME NEW w \in Workers, RecordSent(w) PROVE Kept(j)
  BY <1>3 DEF RecordSent, DeliveryRow
<1>4. ASSUME NEW w \in Workers, SendReturns(w) \/ Crash(w) \/ TimeLimit(w) PROVE Kept(j)
  <2>1. UNCHANGED <<delivery, file>>
    BY <1>4 DEF SendReturns, Crash, TimeLimit
  <2>2. \/ UNCHANGED delivered
        \/ delivered' = [delivered EXCEPT ![worker[w].job] = @ + 1]
    BY <1>4 DEF SendReturns, Crash, TimeLimit, CutShort
  <2> QED
    BY <2>1, <2>2
<1>5. ASSUME NEW w \in Workers, WriteExport(w) PROVE Kept(j)
  BY <1>5 DEF WriteExport
<1>6. \/ UNCHANGED <<delivery, delivered, file>>
      \/ \E w \in Workers : \/ FindUnknown(w) \/ FindRetryable(w) \/ InsertDelivery(w)
                            \/ RecordRaised(w) \/ RecordSent(w) \/ SendReturns(w) \/ Crash(w)
                            \/ TimeLimit(w) \/ WriteExport(w)
  BY DEF Next, vars, Submit, Duplicate, Dispatch, LoseDispatcher, SelectBatch,
     CommitBatch, Publish, PublishFails, Receive, Execute, Claim, Email, Export, Mark,
     ClaimSettled, ClaimLeased, ClaimExhausted, ClaimGranted, FindSent, FindNone,
     InsertRefused, SendRaises, ExportRefused, ExportRaises, RecordExport,
     MarkFailed, MarkExhausted, MarkRetrying, Republish, Interrupt, Abort, Tick
<1> QED
  BY <1>1, <1>2, <1>3, <1>4, <1>5, <1>6

\* The only ways to "insert", "sending", "sent" and "written".
LEMMA WorkerArrives ==
  ASSUME TypeInv, [Next]_vars, NEW v \in Workers, worker'[v].pc # worker[v].pc
  PROVE  /\ worker'[v].pc = "insert" => FindNone(v)
         /\ worker'[v].pc = "sending" => FindRetryable(v) \/ InsertDelivery(v)
         /\ worker'[v].pc = "sent" => SendReturns(v)
         /\ worker'[v].pc = "written" => WriteExport(v)
<1> DEFINE Arrives == /\ worker'[v].pc = "insert" => FindNone(v)
                      /\ worker'[v].pc = "sending" => FindRetryable(v) \/ InsertDelivery(v)
                      /\ worker'[v].pc = "sent" => SendReturns(v)
                      /\ worker'[v].pc = "written" => WriteExport(v)
<1>1. ASSUME UNCHANGED worker PROVE Arrives
  BY <1>1
<1>2. ASSUME NEW w \in Workers, Finish(w) PROVE Arrives
  BY <1>2, FinishEffect
<1>3. ASSUME NEW w \in Workers, NEW delay, Defer(w, delay) PROVE Arrives
  BY <1>3, DeferEffect
<1>4. ASSUME NEW w \in Workers, NEW pc \in Phases \ {"insert", "sending", "sent", "written"}, Goto(w, pc)
      PROVE  Arrives
  BY <1>4, GotoEffect
<1>5. ASSUME NEW w \in Workers, SendReturns(w) \/ WriteExport(w) \/ FindRetryable(w) \/ InsertDelivery(w)
               \/ FindNone(w)
      PROVE  Arrives
  <2>1. CASE SendReturns(w)
    BY <2>1, GotoEffect DEF SendReturns, Phases, Executing
  <2>2. CASE WriteExport(w)
    BY <2>2, GotoEffect DEF WriteExport, Phases, Executing
  <2>3. CASE FindRetryable(w) \/ InsertDelivery(w)
    <3>1. Goto(w, "sending")
      BY <2>3 DEF FindRetryable, InsertDelivery
    <3> QED
      BY <2>3, <3>1, GotoEffect DEF Phases, Executing
  <2>4. CASE FindNone(w)
    BY <2>4, GotoEffect DEF FindNone, Phases, Executing
  <2> QED
    BY <1>5, <2>1, <2>2, <2>3, <2>4
<1>6. ASSUME NEW w \in Workers, NEW j \in Jobs, Receive(w, j) PROVE Arrives
  BY <1>6 DEF Receive, TypeInv, TypeOK
<1>7. CASE Tick
  BY <1>7 DEF Tick, TypeInv, TypeOK, Process
<1>8. ASSUME NEW w \in Workers, ClaimGranted(w) PROVE Arrives
  BY <1>8 DEF ClaimGranted, TypeInv, TypeOK
<1>9. ASSUME NEW w \in Workers,
             FindUnknown(w) \/ SendRaises(w) \/ RecordRaised(w) \/ ExportRefused(w)
               \/ ExportRaises(w) \/ Interrupt(w)
      PROVE  Arrives
  <2>1. \E pc \in Phases \ {"insert", "sending", "sent", "written"} : Goto(w, pc)
    BY <1>9 DEF FindUnknown, SendRaises, RecordRaised, ExportRefused, ExportRaises, Interrupt, Phases, Executing
  <2> QED
    BY <1>4, <2>1
<1>10. ASSUME NEW w \in Workers,
              ClaimSettled(w) \/ InsertRefused(w) \/ Republish(w) \/ Crash(w) \/ TimeLimit(w)
                \/ Abort(w) \/ ClaimExhausted(w) \/ FindSent(w) \/ RecordSent(w)
                \/ RecordExport(w) \/ MarkFailed(w) \/ MarkExhausted(w)
       PROVE  Arrives
  BY <1>2, <1>10 DEF ClaimSettled, InsertRefused, Republish, Crash, TimeLimit, Abort,
     ClaimExhausted, FindSent, RecordSent, RecordExport, MarkFailed, MarkExhausted
<1>11. ASSUME NEW w \in Workers, ClaimLeased(w) \/ MarkRetrying(w) PROVE Arrives
  BY <1>3, <1>11 DEF ClaimLeased, MarkRetrying
<1>12. \/ UNCHANGED worker \/ Tick
       \/ \E w \in Workers : Execute(w) \/ Crash(w) \/ TimeLimit(w) \/ Interrupt(w) \/ Abort(w)
                             \/ \E j \in Jobs : Receive(w, j)
  BY DEF Next, vars, Submit, Duplicate, Dispatch, LoseDispatcher, SelectBatch, CommitBatch,
     Publish, PublishFails
<1> QED
  BY <1>1, <1>5, <1>6, <1>7, <1>8, <1>9, <1>10, <1>11, <1>12
  DEF Execute, Claim, Email, Export, Mark

LEMMA DoneInit == Init => SuccessInv
  BY DEF Init, SuccessInv, DoneInv, Idle, Sender

LEMMA DoneStep == TypeInv /\ SendInv /\ DoneInv /\ [Next]_vars => DoneInv'
<1> SUFFICES ASSUME TypeInv, SendInv, DoneInv, [Next]_vars PROVE DoneInv'
  OBVIOUS
<1>1. \A j \in Jobs : Kept(j)
  BY EffectsKept
<1>2. \A j \in Jobs : delivery'[j].status = "sent" => delivered'[j] # 0
  <2>1. ASSUME NEW w \in Workers, NEW status,
               delivery' = [delivery EXCEPT ![worker[w].job].status = status],
               status = "sent" => worker[w].pc = "sent"
        PROVE  \A j \in Jobs : delivery'[j].status = "sent" => delivered'[j] # 0
    BY <1>1, <2>1 DEF DoneInv, Kept, TypeInv, TypeOK, DeliveryRow
  <2>2. ASSUME NEW w \in Workers, FindUnknown(w) \/ RecordSent(w) \/ RecordRaised(w)
        PROVE  \A j \in Jobs : delivery'[j].status = "sent" => delivered'[j] # 0
    BY <2>1, <2>2 DEF FindUnknown, RecordSent, RecordRaised
  <2>3. ASSUME NEW w \in Workers, FindRetryable(w) \/ InsertDelivery(w)
        PROVE  \A j \in Jobs : delivery'[j].status = "sent" => delivered'[j] # 0
    BY <1>1, <2>3 DEF FindRetryable, InsertDelivery, DoneInv, Kept, TypeInv, TypeOK
  <2>4. ASSUME UNCHANGED delivery
        PROVE  \A j \in Jobs : delivery'[j].status = "sent" => delivered'[j] # 0
    BY <1>1, <2>4 DEF DoneInv, Kept
  <2>5. \/ UNCHANGED delivery
        \/ \E w \in Workers : \/ FindUnknown(w) \/ FindRetryable(w) \/ InsertDelivery(w)
                              \/ RecordRaised(w) \/ RecordSent(w)
    BY DEF Next, vars, Submit, Duplicate, Dispatch, LoseDispatcher, SelectBatch,
       CommitBatch, Publish, PublishFails, Receive, Execute, Claim, Email, Export, Mark,
       ClaimSettled, ClaimLeased, ClaimExhausted, ClaimGranted, FindSent, FindNone,
       InsertRefused, SendReturns, SendRaises, WriteExport, ExportRefused, ExportRaises,
       RecordExport, MarkFailed, MarkExhausted, MarkRetrying, Republish, Crash, TimeLimit,
       Interrupt, Abort, Tick
  <2> QED
    BY <2>2, <2>3, <2>4, <2>5
<1>3. CASE \E w \in Workers : ClaimGranted(w)
  <2>1. PICK w \in Workers : ClaimGranted(w)
    BY <1>3
  <2>2. /\ worker[w].job \in Jobs
        /\ worker'[w].job = worker[w].job
        /\ worker'[w].pc = IF worker[w].job \in EmailJobs THEN "email" ELSE "export"
        /\ \A v \in Workers \ {w} : worker'[v] = worker[v]
        /\ UNCHANGED <<delivered, file>>
    BY <2>1 DEF ClaimGranted, TypeInv, TypeOK, Busy
  <2>3. worker[w].job \in EmailJobs \/ worker[w].job \in ExportJobs
    BY <2>2 DEF Jobs
  <2> QED
    BY <1>2, <2>2, <2>3 DEF DoneInv, Sender
<1>4. CASE Quiet
  <2> SUFFICES ASSUME NEW v \in Workers
               PROVE  (/\ worker[v].pc \in {"email", "insert"} \cup Sender =>
                            worker[v].job \in EmailJobs
                       /\ worker[v].pc \in {"export", "written"} => worker[v].job \in ExportJobs
                       /\ worker[v].pc = "sent" => delivered[worker[v].job] # 0
                       /\ worker[v].pc = "written" => file[worker[v].job])'
    BY <1>2 DEF DoneInv
  <2>1. CASE worker'[v].pc \notin Executing
    BY <2>1 DEF Executing, Sender
  <2>2. CASE worker'[v].pc \in Executing
    <3>1. /\ worker[v].pc \in Executing /\ Follows(worker[v].pc, worker'[v].pc)
          /\ worker'[v].job = worker[v].job /\ worker[v].job \in Jobs
      BY <1>4, <2>2 DEF Quiet, Moves, TypeInv, Busy, Executing
    <3>2. worker'[v].pc \in {"email", "insert"} \cup Sender => worker[v].job \in EmailJobs
      BY <3>1 DEF DoneInv, Follows, Sender
    <3>3. worker'[v].pc \in {"export", "written"} => worker[v].job \in ExportJobs
      BY <3>1 DEF DoneInv, Follows
    <3>4. ASSUME worker'[v].pc = "sent" PROVE delivered'[worker[v].job] # 0
      <4>1. CASE worker[v].pc = "sent"
        BY <1>1, <3>1, <4>1 DEF DoneInv, Kept
      <4>2. CASE worker[v].pc # "sent"
        <5>1. SendReturns(v)
          BY <3>4, <4>2, WorkerArrives
        <5> QED
          BY <3>1, <5>1 DEF SendReturns, TypeInv, TypeOK
      <4> QED
        BY <4>1, <4>2
    <3>5. ASSUME worker'[v].pc = "written" PROVE file'[worker[v].job]
      <4>1. CASE worker[v].pc = "written"
        BY <1>1, <3>1, <4>1 DEF DoneInv, Kept
      <4>2. CASE worker[v].pc # "written"
        <5>1. WriteExport(v)
          BY <3>5, <4>2, WorkerArrives
        <5> QED
          BY <3>1, <5>1 DEF WriteExport, TypeInv, TypeOK
      <4> QED
        BY <4>1, <4>2
    <3> QED
      BY <3>1, <3>2, <3>3, <3>4, <3>5
  <2> QED
    BY <2>1, <2>2
<1> QED
  BY <1>3, <1>4, QuietOrClaim

LEMMA SuccessStep == TypeInv /\ SendInv /\ SuccessInv /\ [Next]_vars => SuccessInv'
<1> SUFFICES ASSUME TypeInv, SendInv, SuccessInv, [Next]_vars PROVE SuccessInv'
  OBVIOUS
<1>1. DoneInv'
  BY DoneStep DEF SuccessInv
<1>2. \A j \in Jobs : Done(j) => Done(j)'
  BY EffectsKept DEF Done, Kept
<1>3. ASSUME NEW w \in Workers, NEW j \in Jobs, worker[w].job = j, NEW status,
             Record(w, status), status = "succeeded" => Done(j)'
      PROVE  SuccessInv'
  <2>1. \A i \in Jobs : job'[i].status = "succeeded" => Done(i)'
    BY <1>2, <1>3 DEF SuccessInv, Record, TypeInv, TypeOK, JobRow
  <2> QED
    BY <1>1, <2>1 DEF SuccessInv
<1>4. ASSUME NEW w \in Workers, FindSent(w) PROVE SuccessInv'
  <2>1. PICK j \in Jobs : worker[w].job = j
    BY <1>4 DEF FindSent, Found, TypeInv, Busy
  <2>2. Done(j)
    BY <1>4, <2>1 DEF FindSent, Found, SuccessInv, DoneInv, Done
  <2> QED
    BY <1>2, <1>3, <1>4, <2>1, <2>2 DEF FindSent
<1>5. ASSUME NEW w \in Workers, RecordSent(w) PROVE SuccessInv'
  <2>1. PICK j \in Jobs : worker[w].job = j /\ j \in EmailJobs
    BY <1>5 DEF RecordSent, SuccessInv, DoneInv, Sender, TypeInv, Busy
  <2>2. delivery'[j].status = "sent" /\ delivered'[j] # 0
    BY <1>5, <2>1 DEF RecordSent, SuccessInv, DoneInv, TypeInv, TypeOK, DeliveryRow
  <2>3. Done(j)'
    BY <2>1, <2>2 DEF Done
  <2> QED
    BY <1>3, <1>5, <2>1, <2>3 DEF RecordSent
<1>6. ASSUME NEW w \in Workers, RecordExport(w) PROVE SuccessInv'
  <2>1. PICK j \in Jobs : worker[w].job = j /\ j \in ExportJobs
    BY <1>6 DEF RecordExport, SuccessInv, DoneInv, TypeInv, Busy
  <2>2. j \notin EmailJobs
    BY <2>1, KindAssumption
  <2>3. Done(j)
    BY <1>6, <2>1, <2>2 DEF RecordExport, SuccessInv, DoneInv, Done
  <2> QED
    BY <1>2, <1>3, <1>6, <2>1, <2>3 DEF RecordExport
<1>7. ASSUME NEW w \in Workers,
             ClaimExhausted(w) \/ MarkFailed(w) \/ MarkExhausted(w) \/ MarkRetrying(w)
      PROVE  SuccessInv'
  <2>1. worker[w].job \in Jobs
    BY <1>7 DEF ClaimExhausted, MarkFailed, MarkExhausted, MarkRetrying, TypeInv, Busy
  <2>2. Record(w, "failed") \/ Record(w, "retrying")
    BY <1>7 DEF ClaimExhausted, MarkFailed, MarkExhausted, MarkRetrying
  <2> QED
    BY <1>3, <2>1, <2>2
<1>8. ASSUME \A j \in Jobs : job'[j].status = "succeeded" => job[j].status = "succeeded"
      PROVE  SuccessInv'
  BY <1>1, <1>2, <1>8 DEF SuccessInv
<1>9. ASSUME NEW w \in Workers, ClaimGranted(w) PROVE SuccessInv'
  BY <1>8, <1>9 DEF ClaimGranted, TypeInv, TypeOK
<1>10. ASSUME NEW j \in Jobs, Submit(j) PROVE SuccessInv'
  BY <1>8, <1>10 DEF Submit, TypeInv, TypeOK, JobRow
<1>11. CASE Tick
  BY <1>8, <1>11 DEF Tick, TypeInv, TypeOK, JobRow
<1>12. CASE UNCHANGED job
  BY <1>8, <1>12
<1>13. \/ UNCHANGED job \/ Tick \/ \E j \in Jobs : Submit(j)
       \/ \E w \in Workers : \/ ClaimGranted(w) \/ ClaimExhausted(w) \/ FindSent(w)
                             \/ RecordSent(w) \/ RecordExport(w) \/ MarkFailed(w)
                             \/ MarkExhausted(w) \/ MarkRetrying(w)
  BY DEF Next, vars, Duplicate, Dispatch, LoseDispatcher, SelectBatch,
     CommitBatch, Publish, PublishFails, Receive, Execute, Claim, Email, Export, Mark,
     ClaimSettled, ClaimLeased, FindUnknown, FindNone, FindRetryable, InsertDelivery,
     InsertRefused, SendReturns, SendRaises, RecordRaised, WriteExport, ExportRefused,
     ExportRaises, Republish, Crash, TimeLimit, Interrupt, Abort
<1> QED
  BY <1>4, <1>5, <1>6, <1>7, <1>9, <1>10, <1>11, <1>12, <1>13

\* SUCCEEDED is reported only once the mail is accepted and its row SENT, or the file
\* in place, even where leases run out under live workers (_mark_succeeded).
THEOREM SuccessIsTrue == Spec => []SucceededIsDone
<1>1. Init => TypeInv /\ SendInv /\ SuccessInv
  BY TypeInit, SendInit, DoneInit
<1>2. TypeInv /\ SendInv /\ SuccessInv /\ [Next]_vars => (TypeInv /\ SendInv /\ SuccessInv)'
  BY TypeStep, SendStep, SuccessStep
<1>3. TypeInv /\ SendInv /\ SuccessInv => SucceededIsDone
  <2> SUFFICES ASSUME TypeInv, SendInv, SuccessInv, NEW j \in Jobs, job[j].status = "succeeded"
               PROVE  IF j \in EmailJobs THEN delivery[j].status = "sent" /\ delivered[j] = 1
                                         ELSE file[j]
    BY DEF SucceededIsDone
  <2>1. delivered[j] \in Nat /\ delivered[j] <= 1
    BY DEF TypeInv, TypeOK, SendInv
  <2> QED
    BY <2>1 DEF SuccessInv, Done
<1> QED
  BY <1>1, <1>2, <1>3, PTL DEF Spec

-----------------------------------------------------------------------------
(* A settled delivery stays settled *)

\* Under one worker at a time, who sends finds the row as it left it.
SendingInv ==
  \A w \in Workers : worker[w].pc \in Sender => delivery[worker[w].job].status = "sending"

\* Only a worker that executes the job writes its delivery row.
LEMMA OtherDeliveries ==
  ASSUME TypeInv, [Next]_vars, NEW j \in Jobs, delivery'[j] # delivery[j]
  PROVE  \E w \in Workers :
           /\ worker[w].job = j /\ worker[w].pc \in Executing
           /\ \/ FindUnknown(w) \/ FindRetryable(w) \/ InsertDelivery(w)
              \/ RecordSent(w) \/ RecordRaised(w)
<1>1. PICK w \in Workers : \/ FindUnknown(w) \/ FindRetryable(w) \/ InsertDelivery(w)
                           \/ RecordSent(w) \/ RecordRaised(w)
  BY DEF Next, vars, Submit, Duplicate, Dispatch, LoseDispatcher, SelectBatch,
     CommitBatch, Publish, PublishFails, Receive, Execute, Claim, Email, Export, Mark,
     ClaimSettled, ClaimLeased, ClaimExhausted, ClaimGranted, FindSent, FindNone,
     InsertRefused, SendReturns, SendRaises, WriteExport, ExportRefused, ExportRaises,
     RecordExport, MarkFailed, MarkExhausted, MarkRetrying, Republish, Crash, TimeLimit,
     Interrupt, Abort, Tick
<1>2. worker[w].pc \in Executing
  BY <1>1 DEF FindUnknown, FindRetryable, InsertDelivery, RecordSent, RecordRaised, Found,
     Executing
<1>3. worker[w].job = j
  BY <1>1 DEF FindUnknown, FindRetryable, InsertDelivery, RecordSent, RecordRaised, TypeInv,
     TypeOK
<1> QED
  BY <1>1, <1>2, <1>3

LEMMA SendingStep ==
  TypeInv /\ HoldInv /\ SendingInv /\ [Next]_vars => SendingInv'
<1> SUFFICES ASSUME TypeInv, HoldInv, SendingInv, [Next]_vars,
                    NEW v \in Workers, worker'[v].pc \in Sender
             PROVE  delivery'[worker'[v].job].status = "sending"
  BY DEF SendingInv
<1>1. /\ worker[v].pc \in Executing /\ Follows(worker[v].pc, worker'[v].pc)
      /\ worker'[v].job = worker[v].job /\ worker[v].job \in Jobs
  <2>1. CASE Quiet
    BY <2>1 DEF Quiet, Moves, TypeInv, Busy, Executing, Sender
  <2>2. CASE \E w \in Workers : ClaimGranted(w)
    <3>1. PICK w \in Workers : ClaimGranted(w)
      BY <2>2
    <3>2. worker'[v] = worker[v]
      BY <3>1 DEF ClaimGranted, Sender, TypeInv, TypeOK
    <3> QED
      BY <3>2 DEF Sender, Executing, Follows, TypeInv, Busy
  <2> QED
    BY <2>1, <2>2, QuietOrClaim
<1>2. CASE worker[v].pc \in Sender
  <2>1. delivery[worker[v].job].status = "sending"
    BY <1>2 DEF SendingInv
  <2>2. ASSUME delivery'[worker[v].job] # delivery[worker[v].job] PROVE FALSE
    <3>1. PICK w \in Workers :
            /\ worker[w].job = worker[v].job /\ worker[w].pc \in Executing
            /\ \/ FindUnknown(w) \/ FindRetryable(w) \/ InsertDelivery(w)
               \/ RecordSent(w) \/ RecordRaised(w)
      BY <1>1, <2>2, OtherDeliveries
    <3>2. w = v
      BY <1>1, <3>1 DEF HoldInv
    <3>3. RecordSent(v) \/ RecordRaised(v)
      BY <1>2, <3>1, <3>2 DEF FindUnknown, FindRetryable, InsertDelivery, Found, Sender
    <3>4. worker'[v].pc \in {"idle", "failing"}
      BY <3>3, FinishEffect, GotoEffect DEF RecordSent, RecordRaised, Phases, Executing
    <3> QED
      BY <3>4 DEF Sender
  <2> QED
    BY <1>1, <2>1, <2>2
<1>3. CASE worker[v].pc \notin Sender
  <2>1. worker'[v].pc = "sending"
    BY <1>1, <1>3 DEF Follows, Sender
  <2>2. FindRetryable(v) \/ InsertDelivery(v)
    BY <1>3, <2>1, WorkerArrives DEF Sender
  <2> QED
    BY <1>1, <2>2 DEF FindRetryable, InsertDelivery, TypeInv, TypeOK
<1> QED
  BY <1>2, <1>3

LEMMA SendingInit == Init => SendingInv
  BY DEF Init, SendingInv, Idle, Sender

\* With a lease longer than the hard time limit, a delivery whose outcome is SENT or
\* was given up as AMBIGUOUS never changes again, so no retry sends it (_execute_email).
THEOREM DeliveriesStay ==
  ASSUME LeaseSeconds > HardLimit
  PROVE  Spec => DeliveryIsFinal
<1>1. Init => TypeInv /\ SendInv /\ HoldInv /\ SendingInv
  BY TypeInit, SendInit, HoldInit, SendingInit
<1>2. TypeInv /\ SendInv /\ HoldInv /\ SendingInv /\ [Next]_vars
        => (TypeInv /\ SendInv /\ HoldInv /\ SendingInv)'
  BY TypeStep, SendStep, HoldStep, SendingStep DEF LeaseOutlastsRun
<1>3. TypeInv /\ SendInv /\ HoldInv /\ SendingInv /\ [Next]_vars =>
        [\A j \in Jobs : delivery[j].status \in {"sent", "ambiguous"}
                           => delivery'[j].status = delivery[j].status]_vars
  <2> SUFFICES ASSUME TypeInv, SendInv, HoldInv, SendingInv, [Next]_vars, NEW j \in Jobs,
                      delivery[j].status \in {"sent", "ambiguous"}
               PROVE  delivery'[j].status = delivery[j].status
    OBVIOUS
  <2>1. CASE delivery[j].status = "sent"
    BY <2>1, EffectsKept DEF Kept
  <2>2. CASE delivery[j].status = "ambiguous" /\ delivery'[j] # delivery[j]
    <3>1. PICK w \in Workers :
            /\ worker[w].job = j /\ worker[w].pc \in Executing
            /\ \/ FindUnknown(w) \/ FindRetryable(w) \/ InsertDelivery(w)
               \/ RecordSent(w) \/ RecordRaised(w)
      BY <2>2, OtherDeliveries
    <3>2. FindUnknown(w)
      BY <2>2, <3>1 DEF FindRetryable, InsertDelivery, RecordSent, RecordRaised, Found, Resendable,
         SendingInv, Sender
    <3> QED
      BY <2>2, <3>1, <3>2 DEF FindUnknown, TypeInv, TypeOK, DeliveryRow
  <2> QED
    BY <2>1, <2>2
<1> QED
  BY <1>1, <1>2, <1>3, PTL DEF Spec, DeliveryIsFinal

-----------------------------------------------------------------------------
(* Nothing refers to a job that was not submitted *)

Known(j) == job[j].status # "absent"
KnownInv ==
  /\ \A j \in Jobs : outbox[j].status # "absent" => Known(j)
  /\ \A j \in Jobs, delay \in 0 .. MaxDelay : queue[<<j, delay>>] # 0 => Known(j)
  /\ \A w \in Workers, j \in Jobs : worker[w].job = j => Known(j)
  /\ \A d \in Dispatchers :
       \A j \in dispatcher[d].todo \cup dispatcher[d].sent \cup dispatcher[d].failed : Known(j)

\* The rows that a step may change, and how.
LEMMA RowSteps ==
  ASSUME [Next]_vars
  PROVE  \/ UNCHANGED job \/ Tick \/ \E j \in Jobs : Submit(j)
         \/ \E w \in Workers : \/ ClaimGranted(w) \/ ClaimExhausted(w) \/ FindSent(w)
                               \/ RecordSent(w) \/ RecordExport(w) \/ MarkFailed(w)
                               \/ MarkExhausted(w) \/ MarkRetrying(w)
  BY DEF Next, vars, Duplicate, Dispatch, LoseDispatcher, SelectBatch,
     CommitBatch, Publish, PublishFails, Receive, Execute, Claim, Email, Export, Mark,
     ClaimSettled, ClaimLeased, FindUnknown, FindNone, FindRetryable, InsertDelivery,
     InsertRefused, SendReturns, SendRaises, RecordRaised, WriteExport, ExportRefused,
     ExportRaises, Republish, Crash, TimeLimit, Interrupt, Abort

\* A submitted job stays so.
LEMMA KnownStays == TypeInv /\ [Next]_vars => \A j \in Jobs : Known(j) => Known(j)'
<1> SUFFICES ASSUME TypeInv, [Next]_vars, NEW j \in Jobs, Known(j) PROVE Known(j)'
  OBVIOUS
<1> USE DEF TypeInv, TypeOK, Known, JobRow
<1>1. CASE UNCHANGED job
  BY <1>1
<1>2. CASE Tick
  BY <1>2 DEF Tick
<1>3. ASSUME NEW i \in Jobs, Submit(i) PROVE Known(j)'
  BY <1>3 DEF Submit
<1>4. ASSUME NEW w \in Workers, ClaimGranted(w) PROVE Known(j)'
  BY <1>4 DEF ClaimGranted
<1>5. ASSUME NEW w \in Workers, NEW status, status # "absent", Record(w, status) PROVE Known(j)'
  BY <1>5 DEF Record
<1>6. ASSUME NEW w \in Workers,
             ClaimExhausted(w) \/ FindSent(w) \/ RecordSent(w) \/ RecordExport(w)
               \/ MarkFailed(w) \/ MarkExhausted(w) \/ MarkRetrying(w)
      PROVE  Known(j)'
  BY <1>5, <1>6 DEF ClaimExhausted, FindSent, RecordSent, RecordExport, MarkFailed,
     MarkExhausted, MarkRetrying
<1> QED
  BY <1>1, <1>2, <1>3, <1>4, <1>6, RowSteps

\* What a step may do to the outbox and to the dispatchers.
LEMMA OutboxSteps ==
  ASSUME [Next]_vars
  PROVE  \/ UNCHANGED outbox \/ Tick \/ \E i \in Jobs : Submit(i)
         \/ \E d \in Dispatchers : CommitBatch(d)
  BY DEF Next, vars, Duplicate, Dispatch, LoseDispatcher, SelectBatch, Publish, PublishFails,
     Receive, Execute, Claim, Email, Export, Mark, ClaimSettled, ClaimLeased,
     ClaimExhausted, ClaimGranted, FindSent, FindUnknown, FindNone, FindRetryable,
     InsertDelivery, InsertRefused, SendReturns, SendRaises, RecordSent, RecordRaised,
     WriteExport, ExportRefused, ExportRaises, RecordExport, MarkFailed, MarkExhausted,
     MarkRetrying, Republish, Crash, TimeLimit, Interrupt, Abort

LEMMA DispatcherSteps ==
  ASSUME [Next]_vars
  PROVE  \/ UNCHANGED dispatcher
         \/ \E e \in Dispatchers : Dispatch(e) \/ LoseDispatcher(e)
  BY DEF Next, vars, Submit, Duplicate, Receive, Execute, Claim, Email, Export, Mark,
     ClaimSettled, ClaimLeased, ClaimExhausted, ClaimGranted, FindSent, FindUnknown,
     FindNone, FindRetryable, InsertDelivery, InsertRefused, SendReturns, SendRaises,
     RecordSent, RecordRaised, WriteExport, ExportRefused, ExportRaises, RecordExport,
     MarkFailed, MarkExhausted, MarkRetrying, Republish, Crash, TimeLimit, Interrupt,
     Abort, Tick

\* What a step may do to the workers.
LEMMA WorkersStep ==
  ASSUME [Next]_vars
  PROVE  \/ UNCHANGED worker \/ Tick
         \/ \E w \in Workers : \/ ClaimGranted(w) \/ \E i \in Jobs : Receive(w, i)
                               \/ Finish(w) \/ \E pc \in Phases \ {"idle"} : Goto(w, pc)
                               \/ \E delay : Defer(w, delay)
<1>1. ASSUME NEW w \in Workers, Execute(w) \/ Interrupt(w)
      PROVE  \/ ClaimGranted(w) \/ Finish(w) \/ \E pc \in Phases \ {"idle"} : Goto(w, pc)
             \/ \E delay : Defer(w, delay)
  BY <1>1 DEF Execute, Claim, Email, Export, Mark, ClaimSettled, ClaimLeased, ClaimExhausted,
     FindSent, FindUnknown, FindNone, FindRetryable, InsertDelivery, InsertRefused,
     SendReturns, SendRaises, RecordSent, RecordRaised, WriteExport, ExportRefused,
     ExportRaises, RecordExport, MarkFailed, MarkExhausted, MarkRetrying, Republish,
     Interrupt, Phases, Executing
<1> QED
  BY <1>1 DEF Next, vars, Submit, Duplicate, Dispatch, LoseDispatcher, SelectBatch, CommitBatch,
     Publish, PublishFails, Crash, TimeLimit, Abort

LEMMA KnownInit == Init => KnownInv
  BY JobsAssumption DEF Init, KnownInv, Idle, Resting

LEMMA KnownStep == TypeInv /\ KnownInv /\ [Next]_vars => KnownInv'
<1> SUFFICES ASSUME TypeInv, KnownInv, [Next]_vars PROVE KnownInv'
  OBVIOUS
<1> USE DEF TypeInv, TypeOK
<1>1. \A j \in Jobs : Known(j) => Known(j)'
  BY KnownStays
<1>2. ASSUME NEW j \in Jobs, outbox'[j].status # "absent" PROVE Known(j)'
  <2>1. CASE Submit(j)
    BY <2>1 DEF Submit, Known, JobRow
  <2>2. CASE outbox[j].status # "absent"
    BY <1>1, <2>2 DEF KnownInv
  <2>3. ASSUME NEW d \in Dispatchers, CommitBatch(d) PROVE Known(j)'
    <3>1. outbox[j].status # "absent" \/ j \in dispatcher[d].sent
      BY <1>2, <2>3 DEF CommitBatch, Postponed
    <3> QED
      BY <1>1, <3>1 DEF KnownInv
  <2>4. CASE Tick
    BY <1>1, <1>2, <2>4 DEF Tick, KnownInv, OutboxRow
  <2>5. CASE \E i \in Jobs : Submit(i) /\ i # j
    BY <1>1, <1>2, <2>5 DEF Submit, KnownInv
  <2>6. CASE UNCHANGED outbox
    BY <1>2, <2>2, <2>6
  <2> QED
    BY <2>1, <2>3, <2>4, <2>5, <2>6, OutboxSteps
<1>3. ASSUME NEW j \in Jobs, NEW delay \in 0 .. MaxDelay, queue'[<<j, delay>>] # 0 PROVE Known(j)'
  <2>1. CASE \E i \in 0 .. MaxDelay : queue[<<j, i>>] # 0
    BY <1>1, <2>1 DEF KnownInv
  <2>2. ASSUME NEW w \in Workers, worker[w].job = j PROVE Known(j)'
    BY <1>1, <2>2 DEF KnownInv
  <2>3. ASSUME NEW w \in Workers, Republish(w) \/ Crash(w) PROVE Known(j)'
    <3>1. worker[w].job = j \/ queue'[<<j, delay>>] = queue[<<j, delay>>]
      BY <2>3 DEF Republish, Crash
    <3> QED
      BY <1>3, <2>1, <2>2, <3>1
  <2>4. ASSUME NEW d \in Dispatchers, NEW i \in Jobs, Publish(d, i) \/ PublishFails(d, i)
        PROVE  Known(j)'
    <3>1. i = j \/ queue'[<<j, delay>>] = queue[<<j, delay>>]
      BY <2>4 DEF Publish, PublishFails
    <3>2. CASE i = j
      BY <1>1, <2>4, <3>2 DEF Publish, PublishFails, KnownInv
    <3> QED
      BY <1>3, <2>1, <3>1, <3>2
  <2>5. ASSUME NEW i \in Jobs, Duplicate(i) PROVE Known(j)'
    <3>1. i = j \/ queue'[<<j, delay>>] = queue[<<j, delay>>]
      BY <2>5 DEF Duplicate
    <3>2. CASE i = j /\ \E e \in 0 .. MaxDelay : queue[<<i, e>>] > 0
      <4>1. \A e \in 0 .. MaxDelay : queue[<<i, e>>] > 0 => queue[<<i, e>>] # 0
        OBVIOUS
      <4> QED
        BY <2>1, <3>2, <4>1
    <3>3. CASE i = j /\ \E w \in Workers : worker[w].job = i
      BY <2>2, <3>3
    <3> QED
      BY <1>3, <2>1, <2>5, <3>1, <3>2, <3>3 DEF Duplicate
  <2>6. ASSUME NEW w \in Workers, NEW i \in Jobs, Receive(w, i) PROVE Known(j)'
    <3>1. i = j \/ queue'[<<j, delay>>] = queue[<<j, delay>>]
      BY <2>6 DEF Receive
    <3>2. queue[<<i, 0>>] # 0
      BY <2>6 DEF Receive
    <3>3. CASE i = j
      BY <2>1, <3>2, <3>3, ZeroDelay
    <3> QED
      BY <1>3, <2>1, <3>1, <3>3
  <2>7. CASE Tick
    <3>1. queue'[<<j, delay>>] =
            (IF delay < MaxDelay THEN queue[<<j, delay + 1>>] ELSE 0)
              + (IF delay = 0 THEN queue[<<j, delay>>] ELSE 0)
      BY <2>7 DEF Tick
    <3>2. delay < MaxDelay => delay + 1 \in 0 .. MaxDelay
      BY ZeroDelay
    <3>3. (delay < MaxDelay /\ queue[<<j, delay + 1>>] # 0) \/ queue[<<j, delay>>] # 0
      BY <1>3, <3>1
    <3> QED
      BY <2>1, <3>2, <3>3
  <2>8. CASE UNCHANGED queue
    BY <1>3, <2>1, <2>8
  <2>9. \/ UNCHANGED queue \/ Tick \/ \E i \in Jobs : Duplicate(i)
        \/ \E d \in Dispatchers, i \in Jobs : Publish(d, i) \/ PublishFails(d, i)
        \/ \E w \in Workers : Republish(w) \/ Crash(w) \/ \E i \in Jobs : Receive(w, i)
    BY DEF Next, vars, Submit, Dispatch, LoseDispatcher, SelectBatch, CommitBatch,
       Execute, Claim, Email, Export, Mark, ClaimSettled, ClaimLeased,
       ClaimExhausted, ClaimGranted, FindSent, FindUnknown, FindNone, FindRetryable,
       InsertDelivery, InsertRefused, SendReturns, SendRaises, RecordSent, RecordRaised,
       WriteExport, ExportRefused, ExportRaises, RecordExport, MarkFailed, MarkExhausted,
       MarkRetrying, TimeLimit, Interrupt, Abort
  <2> QED
    BY <2>3, <2>4, <2>5, <2>6, <2>7, <2>8, <2>9
<1>4. ASSUME NEW v \in Workers, NEW j \in Jobs, worker'[v].job = j PROVE Known(j)'
  <2>1. CASE worker[v].job = j
    BY <1>1, <2>1 DEF KnownInv
  <2>2. ASSUME NEW w \in Workers, Finish(w) PROVE Known(j)'
    BY <1>4, <2>1, <2>2, FinishEffect, JobsAssumption
  <2>3. ASSUME NEW w \in Workers, NEW pc \in Phases, Goto(w, pc) PROVE Known(j)'
    BY <1>4, <2>1, <2>3, GotoEffect
  <2>4. ASSUME NEW w \in Workers, NEW delay, Defer(w, delay) PROVE Known(j)'
    BY <1>4, <2>1, <2>4, DeferEffect
  <2>5. ASSUME NEW w \in Workers, ClaimGranted(w) PROVE Known(j)'
    BY <1>4, <2>1, <2>5 DEF ClaimGranted
  <2>6. ASSUME NEW w \in Workers, NEW i \in Jobs, Receive(w, i) PROVE Known(j)'
    <3>1. worker'[v] = worker[v] \/ i = j
      BY <1>4, <2>6 DEF Receive
    <3>2. queue[<<i, 0>>] # 0
      BY <2>6 DEF Receive
    <3> QED
      BY <1>1, <1>4, <2>1, <3>1, <3>2, ZeroDelay DEF KnownInv
  <2>7. CASE Tick
    BY <1>4, <2>1, <2>7 DEF Tick, Process
  <2>8. CASE UNCHANGED worker
    BY <1>4, <2>1, <2>8
  <2>9. \/ UNCHANGED worker \/ Tick
        \/ \E w \in Workers : \/ ClaimGranted(w) \/ \E i \in Jobs : Receive(w, i)
                              \/ Finish(w) \/ \E pc \in Phases : Goto(w, pc)
                              \/ \E delay : Defer(w, delay)
    BY WorkersStep
  <2> QED
    BY <2>2, <2>3, <2>4, <2>5, <2>6, <2>7, <2>8, <2>9
<1>5. ASSUME NEW d \in Dispatchers,
             NEW j \in dispatcher'[d].todo \cup dispatcher'[d].sent \cup dispatcher'[d].failed
      PROVE  Known(j)'
  <2>1. CASE j \in dispatcher[d].todo \cup dispatcher[d].sent \cup dispatcher[d].failed
    <3>1. j \in Jobs
      BY <2>1 DEF Batch
    <3> QED
      BY <1>1, <2>1, <3>1 DEF KnownInv
  <2>2. ASSUME NEW e \in Dispatchers, SelectBatch(e) PROVE Known(j)'
    <3>1. j \in Due \/ j \in dispatcher[d].todo \cup dispatcher[d].sent \cup dispatcher[d].failed
      BY <1>5, <2>2 DEF SelectBatch, Batch
    <3>2. CASE j \in Due
      BY <1>1, <3>2 DEF Due, KnownInv
    <3> QED
      BY <2>1, <3>1, <3>2
  <2>3. ASSUME NEW e \in Dispatchers, NEW i \in Jobs, Publish(e, i) \/ PublishFails(e, i)
        PROVE  Known(j)'
    <3>1. j \in dispatcher[d].todo \cup dispatcher[d].sent \cup dispatcher[d].failed
      <4>1. i \in dispatcher[e].todo
        BY <2>3 DEF Publish, PublishFails
      <4>2. CASE Publish(e, i)
        <5>1. dispatcher' = [dispatcher EXCEPT ![e].todo = @ \ {i}, ![e].sent = @ \cup {i}]
          BY <4>2 DEF Publish
        <5>2. /\ dispatcher'[d].todo \subseteq dispatcher[d].todo
              /\ dispatcher'[d].failed = dispatcher[d].failed
              /\ dispatcher'[d].sent \subseteq dispatcher[d].sent \cup dispatcher[d].todo
          BY <4>1, <5>1 DEF Batch
        <5> QED
          BY <1>5, <5>2
      <4>3. CASE PublishFails(e, i)
        <5>1. dispatcher' = [dispatcher EXCEPT ![e].todo = @ \ {i}, ![e].failed = @ \cup {i}]
          BY <4>3 DEF PublishFails
        <5>2. /\ dispatcher'[d].todo \subseteq dispatcher[d].todo
              /\ dispatcher'[d].sent = dispatcher[d].sent
              /\ dispatcher'[d].failed \subseteq dispatcher[d].failed \cup dispatcher[d].todo
          BY <4>1, <5>1 DEF Batch
        <5> QED
          BY <1>5, <5>2
      <4> QED
        BY <2>3, <4>2, <4>3
    <3> QED
      BY <2>1, <3>1
  <2>4. ASSUME NEW e \in Dispatchers, CommitBatch(e) \/ LoseDispatcher(e) PROVE Known(j)'
    <3>1. j \in dispatcher[d].todo \cup dispatcher[d].sent \cup dispatcher[d].failed
      BY <1>5, <2>4 DEF CommitBatch, LoseDispatcher, Resting, Batch
    <3> QED
      BY <2>1, <3>1
  <2>5. CASE UNCHANGED dispatcher
    BY <1>5, <2>1, <2>5
  <2> QED
    BY <2>2, <2>3, <2>4, <2>5, DispatcherSteps DEF Dispatch
<1> QED
  BY <1>2, <1>3, <1>4, <1>5 DEF KnownInv

-----------------------------------------------------------------------------
(* The refinement of JobContract *)

\* A job that may start again has attempts left, and an executing worker's own count
\* is the row's.
CountInv ==
  /\ \A j \in Jobs : job[j].status \in {"absent", "pending"} => job[j].attempts = 0
  /\ \A j \in Jobs : job[j].status = "retrying" => job[j].attempts < MaxAttempts
  /\ \A w \in Workers : worker[w].pc \in Executing =>
       worker[w].attempt = job[worker[w].job].attempts

LEMMA CountInit == Init => CountInv
  BY DEF Init, CountInv, Idle, Executing

LEMMA CountStep ==
  ASSUME LeaseOutlastsRun
  PROVE  TypeInv /\ HoldInv /\ CountInv /\ [Next]_vars => CountInv'
<1> SUFFICES ASSUME TypeInv, HoldInv, CountInv, [Next]_vars PROVE CountInv'
  OBVIOUS
<1>1. ASSUME NEW w \in Workers, ClaimGranted(w) PROVE CountInv'
  <2>1. worker[w].job \in Jobs
    BY <1>1 DEF ClaimGranted, TypeInv, Busy
  <2>2. \A v \in Workers : worker[v].pc \in Executing => worker[v].job # worker[w].job
    BY <1>1, NotHeld, LeaseOutlastsRun DEF ClaimGranted
  <2>3. /\ \A i \in Jobs \ {worker[w].job} : job'[i] = job[i]
        /\ job'[worker[w].job].status = "running"
        /\ job'[worker[w].job].attempts = job[worker[w].job].attempts + 1
    BY <1>1, <2>1 DEF ClaimGranted, TypeInv, TypeOK
  <2>4. /\ worker'[w].job = worker[w].job
        /\ worker'[w].attempt = job[worker[w].job].attempts + 1
        /\ \A v \in Workers \ {w} : worker'[v] = worker[v]
    BY <1>1 DEF ClaimGranted, TypeInv, TypeOK, Process
  <2>5. \A v \in Workers : worker[v].pc \in Executing => worker[v].job \in Jobs
    BY DEF TypeInv, Busy, Executing
  <2> QED
    BY <2>1, <2>2, <2>3, <2>4, <2>5 DEF CountInv
<1>2. ASSUME Quiet
      PROVE  \A v \in Workers : worker'[v].pc \in Executing =>
               worker'[v].attempt = job'[worker'[v].job].attempts
  BY <1>2 DEF Quiet, Moves, CountInv, TypeInv, Busy, Executing
<1>3. ASSUME Quiet,
             \A j \in Jobs : \/ job'[j].status = job[j].status
                             \/ job'[j].status \in {"running", "succeeded", "failed"}
                             \/ job'[j].status = "retrying" /\ job[j].attempts < MaxAttempts
      PROVE  CountInv'
  BY <1>2, <1>3 DEF Quiet, CountInv
<1>4. ASSUME Quiet, NEW j \in Jobs, Submit(j) PROVE CountInv'
  <2>1. \A i \in Jobs \ {j} : job'[i] = job[i]
    BY <1>4 DEF Submit
  <2>2. job[j].status = "absent" /\ job'[j].status = "pending"
    BY <1>4 DEF Submit, TypeInv, TypeOK, JobRow
  <2> QED
    BY <1>2, <1>4, <2>1, <2>2 DEF CountInv, Quiet
<1>5. ASSUME Quiet, NEW w \in Workers,
             ClaimExhausted(w) \/ FindSent(w) \/ RecordSent(w) \/ RecordExport(w)
               \/ MarkFailed(w) \/ MarkExhausted(w)
      PROVE  CountInv'
  <2>1. PICK status \in {"succeeded", "failed"} : Record(w, status)
    BY <1>5 DEF ClaimExhausted, FindSent, RecordSent, RecordExport, MarkFailed, MarkExhausted
  <2>2. \A j \in Jobs : job'[j].status = IF j = worker[w].job THEN status ELSE job[j].status
    BY <2>1 DEF Record, TypeInv, TypeOK, JobRow
  <2> QED
    BY <1>3, <1>5, <2>2
<1>6. ASSUME Quiet, NEW w \in Workers, MarkRetrying(w) PROVE CountInv'
  <2>1. worker[w].pc \in Executing /\ worker[w].attempt < MaxAttempts
    BY <1>6 DEF MarkRetrying, Executing
  <2>2. job[worker[w].job].attempts < MaxAttempts
    BY <2>1 DEF CountInv
  <2>3. \A j \in Jobs : \/ job'[j].status = job[j].status
                        \/ job'[j].status = "retrying" /\ job[j].attempts < MaxAttempts
    BY <1>6, <2>2 DEF MarkRetrying, Record, TypeInv, TypeOK, JobRow
  <2> QED
    BY <1>3, <1>6, <2>3
<1>7. ASSUME Quiet, UNCHANGED job \/ Tick PROVE CountInv'
  <2>1. \A j \in Jobs : job'[j].status = job[j].status
    BY <1>7 DEF Tick, TypeInv, TypeOK, JobRow
  <2> QED
    BY <1>3, <1>7, <2>1
<1> QED
  BY <1>1, <1>4, <1>5, <1>6, <1>7, RowSteps, QuietOrClaim

\* What the steps below may rely on.
ContractInv == TypeInv /\ SendInv /\ HoldInv /\ SuccessInv /\ KnownInv /\ CountInv

Status == [j \in Jobs |-> job[j].status]
Attempts == [j \in Jobs |-> job[j].attempts]
Performed == [j \in Jobs |-> delivered[j] > 0 \/ file[j]]

\* A step that leaves the rows' statuses and counts and the effects alone is none of
\* the contract's.
LEMMA Unseen ==
  ASSUME \A j \in Jobs : job'[j].status = job[j].status /\ job'[j].attempts = job[j].attempts,
         UNCHANGED <<delivered, file>>
  PROVE  UNCHANGED Contract!cvars
BY DEF Contract!cvars

\* The contract's view of an outcome written to a row.
LEMMA RecordSeen ==
  ASSUME TypeInv, NEW w \in Workers, NEW j \in Jobs, worker[w].job = j, NEW status,
         Record(w, status), UNCHANGED <<delivered, file>>
  PROVE  /\ Status' = [Status EXCEPT ![j] = status]
         /\ UNCHANGED Attempts /\ UNCHANGED Performed
<1>1. \A i \in Jobs : /\ job'[i].attempts = job[i].attempts
                      /\ job'[i].status = IF i = j THEN status ELSE job[i].status
  BY DEF Record, TypeInv, TypeOK, JobRow
<1> QED
  BY <1>1 DEF Status, Attempts, Performed

\* A failure may be recorded while the job runs.
LEMMA FailureSeen ==
  ASSUME TypeInv, NEW w \in Workers, NEW j \in Jobs, worker[w].job = j,
         Record(w, "failed"), job[j].status = "running", UNCHANGED <<delivered, file>>
  PROVE  Contract!Next
<1>1. Contract!Fail(j)
  BY RecordSeen DEF Contract!Fail, Status, Attempts, Performed
<1> QED
  BY <1>1 DEF Contract!Next

LEMMA SuccessSeen ==
  ASSUME ContractInv, NEW w \in Workers, NEW j \in Jobs, worker[w].job = j,
         worker[w].pc \in Executing, Record(w, "succeeded"), delivered[j] # 0 \/ file[j],
         UNCHANGED <<delivered, file>>
  PROVE  Contract!Next
<1>1. job[j].status = "running"
  BY DEF ContractInv, HoldInv
<1>2. Performed[j]
  <2>1. delivered[j] \in Nat
    BY DEF ContractInv, TypeInv, TypeOK
  <2>2. delivered[j] > 0 \/ file[j]
    BY <2>1
  <2> QED
    BY <2>2 DEF Performed
<1>3. Contract!Succeed(j)
  BY <1>1, <1>2, RecordSeen DEF Contract!Succeed, Status, Attempts, Performed, ContractInv
<1> QED
  BY <1>1, <1>3 DEF Contract!Next

\* An effect happens only while the job runs.
LEMMA EffectSeen ==
  ASSUME ContractInv, NEW w \in Workers, NEW j \in Jobs, worker[w].job = j,
         worker[w].pc \in Executing, UNCHANGED job,
         \/ /\ delivered' = [delivered EXCEPT ![j] = @ + 1]
            /\ UNCHANGED file
         \/ /\ file' = [file EXCEPT ![j] = TRUE]
            /\ UNCHANGED delivered
  PROVE  Contract!Next
<1>1. job[j].status = "running"
  BY DEF ContractInv, HoldInv
<1>2. \A i \in Jobs : delivered[i] \in Nat /\ file[i] \in BOOLEAN
  BY DEF ContractInv, TypeInv, TypeOK
<1>3. \A i \in Jobs : Performed'[i] = IF i = j THEN TRUE ELSE Performed[i]
  <2>1. \A i \in Jobs : i # j => delivered'[i] = delivered[i] /\ file'[i] = file[i]
    BY DEF ContractInv, TypeInv, TypeOK
  <2>2. delivered'[j] > 0 \/ file'[j]
    BY <1>1, <1>2 DEF ContractInv, TypeInv, TypeOK
  <2> QED
    BY <2>1, <2>2 DEF Performed
<1>4. Performed' = [Performed EXCEPT ![j] = TRUE]
  BY <1>3 DEF Performed
<1>5. Contract!Perform(j)
  BY <1>1, <1>4 DEF Contract!Perform, Performed
<1> QED
  BY <1>1, <1>5 DEF Contract!Next

LEMMA ContractInit == Init => Contract!Init
<1> SUFFICES ASSUME Init PROVE Contract!Init
  OBVIOUS
<1>1. \A j \in Jobs : (delivered[j] > 0 \/ file[j]) = FALSE
  BY DEF Init
<1>2. Performed = [j \in Jobs |-> FALSE]
  BY <1>1 DEF Performed
<1>3. Status = [j \in Jobs |-> "absent"] /\ Attempts = [j \in Jobs |-> 0]
  BY DEF Init, Status, Attempts
<1> QED
  BY <1>2, <1>3 DEF Contract!Init, Performed, Status, Attempts

LEMMA ContractStep ==
  ASSUME LeaseOutlastsRun
  PROVE  ContractInv /\ [Next]_vars => [Contract!Next]_(Contract!cvars)
<1> SUFFICES ASSUME ContractInv, [Next]_vars
             PROVE  Contract!Next \/ UNCHANGED Contract!cvars
  OBVIOUS
<1> USE DEF ContractInv
<1>1. ASSUME NEW j \in Jobs, Submit(j) PROVE Contract!Next
  <2>1. \A i \in Jobs : /\ job'[i].status = IF i = j THEN "pending" ELSE job[i].status
                        /\ job'[i].attempts = job[i].attempts
    BY <1>1 DEF Submit, TypeInv, TypeOK, JobRow
  <2>2. Status' = [Status EXCEPT ![j] = "pending"] /\ Status[j] = "absent"
    BY <1>1, <2>1 DEF Submit, Status
  <2>4. UNCHANGED Attempts /\ UNCHANGED Performed
    BY <1>1, <2>1 DEF Submit, Attempts, Performed
  <2>3. Contract!Submit(j)
    BY <2>2, <2>4 DEF Contract!Submit, Status, Attempts, Performed
  <2> QED
    BY <2>3 DEF Contract!Next
<1>2. ASSUME NEW w \in Workers, ClaimGranted(w) PROVE Contract!Next
  <2>1. PICK j \in Jobs : worker[w].job = j /\ job[j].status \in {"pending", "retrying", "running"}
    BY <1>2 DEF ClaimGranted, Settled, Terminal, TypeInv, TypeOK, Busy, KnownInv, Known, JobRow,
       JobStatus
  <2>2. job[j].attempts < MaxAttempts
    BY <1>2, <2>1, SettingsAssumption DEF ClaimGranted, Exhausted, TypeInv, TypeOK, JobRow
  <2>3. /\ job'[j].status = "running" /\ job'[j].attempts = job[j].attempts + 1
        /\ \A i \in Jobs \ {j} : job'[i] = job[i]
        /\ UNCHANGED <<delivered, file>>
    BY <1>2, <2>1 DEF ClaimGranted, TypeInv, TypeOK
  <2>4. /\ Status' = [Status EXCEPT ![j] = "running"]
        /\ Attempts' = [Attempts EXCEPT ![j] = @ + 1]
        /\ UNCHANGED Performed
    BY <2>1, <2>3 DEF Status, Attempts, Performed
  <2>5. Contract!Start(j)
    BY <2>1, <2>2, <2>4 DEF Contract!Start, Status, Attempts, Performed
  <2> QED
    BY <2>1, <2>5 DEF Contract!Next
<1>3. ASSUME NEW w \in Workers, ClaimExhausted(w) PROVE Contract!Next
  <2>1. PICK j \in Jobs : worker[w].job = j /\ job[j].status \in {"pending", "retrying", "running"}
    BY <1>3 DEF ClaimExhausted, Settled, Terminal, TypeInv, TypeOK, Busy, KnownInv, Known, JobRow,
       JobStatus
  <2>2. job[j].status = "running"
    BY <1>3, <2>1, SettingsAssumption DEF ClaimExhausted, Exhausted, CountInv, TypeInv, TypeOK,
       JobRow
  <2> QED
    BY <1>3, <2>1, <2>2, FailureSeen DEF ClaimExhausted
<1>4. ASSUME NEW w \in Workers, MarkFailed(w) \/ MarkExhausted(w) PROVE Contract!Next
  <2>1. PICK j \in Jobs : worker[w].job = j /\ job[j].status = "running"
    BY <1>4 DEF MarkFailed, MarkExhausted, TypeInv, Busy, HoldInv, Executing
  <2> QED
    BY <1>4, <2>1, FailureSeen DEF MarkFailed, MarkExhausted
<1>5. ASSUME NEW w \in Workers, MarkRetrying(w) PROVE Contract!Next
  <2>1. PICK j \in Jobs : /\ worker[w].job = j /\ job[j].status = "running"
                          /\ job[j].attempts < MaxAttempts
    BY <1>5 DEF MarkRetrying, TypeInv, Busy, HoldInv, CountInv, Executing
  <2>2. /\ Status' = [Status EXCEPT ![j] = "retrying"]
        /\ UNCHANGED Attempts /\ UNCHANGED Performed
    BY <1>5, <2>1, RecordSeen DEF MarkRetrying
  <2>3. Contract!Retry(j)
    BY <2>1, <2>2 DEF Contract!Retry, Status, Attempts, Performed
  <2> QED
    BY <2>1, <2>3 DEF Contract!Next
<1>6. ASSUME NEW w \in Workers, FindSent(w) \/ RecordSent(w) \/ RecordExport(w) PROVE Contract!Next
  <2>1. worker[w].pc \in Executing /\ Record(w, "succeeded") /\ UNCHANGED <<delivered, file>>
    BY <1>6 DEF FindSent, RecordSent, RecordExport, Found, Executing
  <2>2. PICK j \in Jobs : worker[w].job = j
    BY <2>1 DEF TypeInv, Busy, Executing
  <2>3. delivered[j] # 0 \/ file[j]
    BY <1>6, <2>2 DEF FindSent, RecordSent, RecordExport, Found, SuccessInv, DoneInv
  <2> QED
    BY <2>1, <2>2, <2>3, SuccessSeen
<1>7. ASSUME NEW w \in Workers, SendReturns(w) \/ WriteExport(w) PROVE Contract!Next
  <2>1. worker[w].pc \in Executing /\ worker[w].job \in Jobs
    BY <1>7 DEF SendReturns, WriteExport, Executing, TypeInv, Busy
  <2> QED
    BY <1>7, <2>1, EffectSeen DEF SendReturns, WriteExport
<1>8. ASSUME NEW w \in Workers, Crash(w) \/ TimeLimit(w)
      PROVE  Contract!Next \/ UNCHANGED Contract!cvars
  <2>1. CutShort(w) /\ UNCHANGED <<job, file>>
    BY <1>8 DEF Crash, TimeLimit
  <2>2. CASE UNCHANGED delivered
    BY <2>1, <2>2, Unseen
  <2>3. CASE ~UNCHANGED delivered
    <3>1. worker[w].pc \in Executing /\ worker[w].job \in Jobs
      BY <2>1, <2>3 DEF CutShort, Executing, TypeInv, Busy
    <3> QED
      BY <2>1, <2>3, <3>1, EffectSeen DEF CutShort
  <2> QED
    BY <2>2, <2>3
<1>9. CASE Tick
  BY <1>9, Unseen DEF Tick, TypeInv, TypeOK, JobRow
<1>10. CASE UNCHANGED <<job, delivered, file>>
  BY <1>10, Unseen
<1>11. \/ UNCHANGED <<job, delivered, file>> \/ Tick \/ \E j \in Jobs : Submit(j)
       \/ \E w \in Workers : \/ ClaimGranted(w) \/ ClaimExhausted(w) \/ MarkFailed(w)
                             \/ MarkExhausted(w) \/ MarkRetrying(w) \/ FindSent(w)
                             \/ RecordSent(w) \/ RecordExport(w) \/ SendReturns(w)
                             \/ WriteExport(w) \/ Crash(w) \/ TimeLimit(w)
  BY DEF Next, vars, Duplicate, Dispatch, LoseDispatcher, SelectBatch,
     CommitBatch, Publish, PublishFails, Receive, Execute, Claim, Email, Export, Mark,
     ClaimSettled, ClaimLeased, FindUnknown, FindNone, FindRetryable, InsertDelivery,
     InsertRefused, SendRaises, RecordRaised, ExportRefused, ExportRaises, Republish,
     Interrupt, Abort
<1> QED
  BY <1>1, <1>2, <1>3, <1>4, <1>5, <1>6, <1>7, <1>8, <1>9, <1>10, <1>11

\* With a lease longer than the hard time limit, jobs implement JobContract: what the
\* client polls is one attempt after another, each of which alone may perform the
\* effect, and an end that stays.
THEOREM JobsKeepContract ==
  ASSUME LeaseSeconds > HardLimit
  PROVE  Spec => ContractHolds
<1>1. Init => ContractInv
  BY TypeInit, SendInit, HoldInit, DoneInit, KnownInit, CountInit DEF ContractInv
<1>2. ContractInv /\ [Next]_vars => ContractInv'
  BY TypeStep, SendStep, HoldStep, SuccessStep, KnownStep, CountStep
  DEF LeaseOutlastsRun, ContractInv
<1>3. ContractInv /\ [Next]_vars => [Contract!Next]_(Contract!cvars)
  BY ContractStep DEF LeaseOutlastsRun
<1> QED
  BY <1>1, <1>2, <1>3, ContractInit, PTL DEF Spec, ContractHolds, Contract!Spec

=============================================================================
