# A TLA+ model of the ticketing service

This directory specifies the stateful parts of the multi-tenant ticketing
service in `src/src/ticketing` (FastAPI, PostgreSQL, Redis, Celery), checks the
specifications with TLC on small instances and proves the main results with
TLAPS for every value of the constants.

Paths below are relative to `src/src/ticketing` unless they begin with another
directory of the repository.

## 1. Inventory

How the system runs, as far as it matters here:

- One `AsyncSession`, hence one PostgreSQL transaction at a time (READ
  COMMITTED), per HTTP request (`db/dependencies.py`). The first statement, which
  starts the transaction, is the authentication of the caller. Services commit;
  every other way out of a request, an exception or a client that is gone, closes
  the session and rolls back.
- `expire_on_commit=False` and `autoflush=False`: an object keeps the values it was
  read with. A second `SELECT ... FOR UPDATE` of a row already in the session locks
  it and does **not** refresh it, and an `UPDATE` writes only changed columns.
- Several API processes, Celery workers and dispatchers share the database. Redis
  holds permission snapshots and login counters, and is the Celery broker.

| Component | State | Operations | Correct when | Here |
|---|---|---|---|---|
| Background jobs (`tasks/`, `models/background_job.py`) | job, outbox and delivery rows; broker messages; worker processes | submit, dispatch a batch, claim under lock and lease, send / export, record, retry, recover | a mail is not sent twice, a job is not lost, a finished job stays finished, success follows the effect, every job ends | `BackgroundJobs`, `JobContract` |
| Job submission (`services/background_job.py`) | idempotency key of a job | submit, replay, poll, fetch result | one job per key, the same answer to a repeated request | `IdempotentSubmission`, `SubmissionContract`; the outbox transaction in `BackgroundJobs` |
| Ticket workflow (`services/ticket.py`, `ticket_workflow.py`) | ticket rows, append-only events, row locks | create, claim, transfer, resolve, close, reopen, PATCH, list | exact audit trail, one assignee while taken, only the assignee or an administrator acts, an edit reverts nothing | `TicketWorkflow`, `TicketContract`; the key of create in `IdempotentSubmission`; lists not modelled |
| Roles and permission snapshots (`services/rbac.py`, `cache/`) | membership roles, Redis snapshots with a TTL | has_permission, assign_roles, invalidate | a stale snapshot has a known cause and ends with its TTL, the owner stays administrator | `MembershipAccess` |
| Tenants, memberships (`services/tenant.py`) | INVITED / ACTIVE / LEFT | create, invite, accept, leave | the lifecycle, one membership per user, a rejoining member is a requester | `MembershipAccess`, `TicketWorkflow` as far as the workflow asks, the slug in `UniqueRecords` |
| Authentication (`services/auth.py`) | refresh token rows, password hashes | register, login, refresh, logout, change password | a token is replaced once, a revoked one stays revoked, reuse ends all sessions, an email registers once | `RefreshTokens`, `UniqueRecords` |
| Login limiter (`cache/redis.py`) | fixed-window counters | check | at most `limit` in a window, fails open | not modelled: one atomic script |
| Comments, attachments (`services/ticket_collaboration.py`, `storage/local.py`) | rows, files | comment, upload, download | a row has its whole file, answers are true, no body is served short | `Attachments`; comments not modelled |
| Customers (`services/customer.py`) | customer rows | create, update | email unique in a tenant, a conflict only for a committed email, no deadlock but in an exchange | `UniqueRecords`, `UniqueContract` |
| API, schemas, middleware, settings, logging, metrics, migrations | none of their own | | | not modelled, except the validators of the job settings |

Interactions: the API commits a job with its outbox row; beat starts a dispatcher
that publishes due rows to the broker; a worker takes a message, claims the job in
the database, calls the mail server or writes a file, and commits the outcome or
sends itself a new message. Ticket requests meet in the ticket's row lock, and they
ask `RBACService` for permissions while they hold it; role and membership requests
change the answers meanwhile.

What is hard to test here, and the property meant for each, is the list of hazards
in `PROJECT.json`: lost processes between two commits, messages repeated or
acknowledged too early, leases that run out under a live worker, rows written from
an object read long before, locks held over awaits, and dates taken before a wait.

## 2. Plan

Most important first. Each module is parameterised by CONSTANTS with named
assumptions, has one action per transaction or external call, and uses no RECURSIVE
operator, so that it can be proved about.

1. `BackgroundJobs` with the abstract `JobContract`: done, with proofs of the
   refinement and of all its safety properties.
2. `TicketWorkflow` with the abstract `TicketContract`: done, actions and PATCH, with
   proofs of the refinement, of all its safety properties and of its freedom from
   deadlock.
3. `IdempotentSubmission` with the abstract `SubmissionContract`: done, with proofs of
   all its safety properties, of the refinement and of its freedom from deadlock.
4. `MembershipAccess`: memberships, roles and the cache-aside protocol: done, with
   proofs of all its properties. Next: a smaller instance for the liveness of a stale
   snapshot, whose TTL is the last resort.
5. `RefreshTokens`: rotation, reuse, logout and the revocation of a password change:
   done, with proofs of all its properties.
6. `Attachments`: uploads and downloads over two stores: done, with proofs of all its
   properties.
7. `UniqueRecords` with the abstract `UniqueContract`: emails of users, slugs of
   tenants, customers: done, with proofs of all its properties, the refinement
   included.

## 3. BackgroundJobs

### State and actions

| Variable | In the code |
|---|---|
| `job[j]` | `background_jobs`: status, `attempt_count`, `lease_expires_at` as remaining seconds |
| `delivery[j]` | `notification_deliveries`: status, `attempt_count`; unique by job |
| `outbox[j]` | `outbox_messages`: status, `publish_attempt_count`, `available_at` as remaining seconds |
| `queue[<<j, delay>>]` | messages on the broker with their countdown |
| `worker[w]` | one run of `execute_background_job`: where it is, its job, its age, its own copy of the attempt count |
| `dispatcher[d]` | one run of `dispatch_once`: the rows it has locked, by how their publication went |
| `delivered[j]`, `file[j]` | the effects: mails the server accepted without the sender seeing an error, exports in place |
| `budget` | faults still to come |

Every action is one transaction, one broker operation or one call of the mail
server. `ClaimSettled`, `ClaimLeased`, `ClaimExhausted` and `ClaimGranted` are the
four outcomes of `_claim`; `Find...`, `Insert...`, `Send...` and `Record...` are the
steps of `_execute_email`; `WriteExport`, `ExportRefused`, `ExportRaises` and
`RecordExport` those of `_execute_export`; `MarkFailed`, `MarkExhausted` and
`MarkRetrying` the recording of failures; `Republish` is `self.retry`. `Crash`,
`LoseDispatcher`, `TimeLimit`, `Interrupt`, `Abort` and `Duplicate` are the faults.
`Tick` lets a second pass for leases, countdowns and running workers together.

Choices a reader should know:

- Outcomes are written over the row as the worker remembers it: the session does not
  refresh the job after the claim. `Record` therefore has no guard on the row.
- A worker reads its clock at the start of `_claim` and may then wait for the row's
  lock, so the lease it grants and the lease it sees count from `Receive`.
- A row that does not exist cannot be locked: `FindNone` and `InsertDelivery` are two
  steps, and the unique constraint decides (`InsertRefused`). The failed flush leaves
  the session unusable, so that run records nothing.
- Celery with `acks_late` puts the message back when a process is lost and
  acknowledges it when a task fails or times out (the default of
  `task_acks_on_failure_or_timeout`). A commit whose answer is lost is an `Abort` just
  after the commit.
- A publication that raises may have reached the broker, if only its reply was lost:
  `PublishFails` then leaves a message, and the row stays pending and is published
  again. `Duplicate` is a message the broker delivers twice, or Celery's client sends
  twice within one publication that returns.
- `delivered` counts sends that returned. A send that raises may have reached the
  server; the code sends again, which nothing in the service can tell apart.
- The order in which a batch takes due rows is left open, and `max_attempts` is the
  setting, although it is copied into each row.

### Runs

| Run | Instance | What it shows |
|---|---|---|
| `jobs_recovery` | `FairSpec`, 1 email, 2 workers, 1 dispatcher, 3 attempts, lease 3 > hard 2, 2 crashes, 1 outage | types, lease exclusion, no lost job, finality of deliveries, refinement of `JobContract`, in which final states are final; every submitted job ends |
| `jobs_batch` | 1 email, 1 export, 1 worker, 2 dispatchers, batch of 2, lease 2, 1 crash, 1 failed publication, 1 copy | batches, those included of which one publication fails: messages are accounted for, success follows the effect |
| `jobs_overlap` | lease 1 < hard 2, 2 workers, 1 crash, 1 time limit, 1 error, 1 copy | even when two workers run one job, one mail, and sends within attempts |
| `jobs_stale` | lease 1, hard 2 | **violated**: `TerminalIsFinal` (finding) |
| `jobs_stranded` | 1 time limit | **violated**: `NotLost` (finding) |

Why the bounds suffice: two workers are what a race needs, and two crashes with three
attempts give a run interrupted twice, once by each worker, with an attempt left.
The lease exceeds the hard limit by one second and the backoff reaches its cap at the
second failure, so every comparison of times is met from both sides. `jobs_overlap`
swaps that one relation. In `jobs_recovery` a repeated message comes from a dispatcher
that is lost after publishing; the broker's own repetition is in `jobs_overlap`, where
it can do more harm. Time limits and errors are zero in the runs that assert
`NotLost` or liveness, because the code does lose a job there: that is what
`jobs_stranded` shows. The batch of one of `jobs_recovery` cannot fail in part: a batch
of which one row is published and the other's publication raises is in `jobs_batch`,
with both outcomes of the lost reply. There the lease is no longer than the hard limit,
to keep the instance small: with one worker no two runs overlap anyway. Workers and dispatchers are interchangeable (symmetry), which
is not used in `jobs_recovery`, whose liveness it might hide.

Fairness (`jobs_recovery`): beat starts a dispatcher every `outbox_poll_seconds` and a
dispatcher runs on; the broker's lists are first in first out, so a message that is
again and again ready is taken (strong fairness of `Receive`, which other messages
can disable); a running task goes on, a send having a timeout of 15 s; time passes.
Nothing obliges a fault or a submission to happen.

### JobContract

What a client polling a job may see: attempts are bounded, the effect happens only
while the job runs, success only after the effect, final states are final. The
refinement maps the row's status and attempts and "mail accepted or file in place".

### Proofs (`BackgroundJobsProofs`)

- `TypeCorrect`: `TypeOK`, strengthened to `TypeInv` (a worker that is not idle has a
  job, of the kind its phase says).
- `AtMostOneMail`: `SingleDelivery` for **all** settings, numbers of workers, jobs and
  faults. The inductive invariant says that a job's accepted mails, plus the workers
  that are sending or have sent, are at most one, and that such a worker is only
  compatible with the delivery states from which nothing sends again.
- `LeaseIsExclusive` and `TerminalStays` under `LeaseSeconds > HardLimit`. The
  invariant bounds a running worker's age by the hard limit and keeps what is left of
  its job's lease at `LeaseSeconds` minus that age, so a second claim is impossible
  while it runs; hence it is the only writer of the row. `jobs_stale` shows that the
  hypothesis is needed.
- `SendsArePaidFor`: `SendsWithinAttempts` without a hypothesis on the lease. `PaidInv`:
  the attempts a delivery row counts, and the workers that have claimed its job and not
  begun to send, are together no more than the attempts of the job. It needs
  `WorkersAssumption`: finitely many workers, so that they can be counted.
- `SuccessIsTrue`: `SucceededIsDone`, again for any lease. `DoneInv` says that a worker
  about to record a success has done the work, and `EffectsKept` that what was done
  stays done.
- `DeliveriesStay`: `DeliveryIsFinal` if `LeaseSeconds > HardLimit`. `SendingInv` says
  that a worker that sends still finds the delivery SENDING.
- `JobsKeepContract`: the refinement of `JobContract` if `LeaseSeconds > HardLimit`.
  `KnownInv` says that whatever concerns a job (a message, a worker, a batch, an outbox
  row) comes from its submission, and `CountInv` that an executing worker's count of
  attempts is the row's. Each step is then one of the contract's or leaves its variables
  alone.
Steps are sorted by what they do to a job's row: most leave it alone, and a claim and a
record are treated on their own (`QuietOrClaim`).

### Proofs (`BackgroundMessagesProofs`)

Where the messages of a job are, and that there are neither too few nor too many.

- `NothingElseLosesJobs`: if `LeaseSeconds > HardLimit`, `NotLost` holds until a run is
  ended by a time limit, or by a failure at which `execute` itself raises
  (`NoSilentEnd`). `DriveInv` follows the message of a job from its outbox row through
  the broker to a worker and back, over every crash. `jobs_stranded` shows that the
  condition is needed. `JobsAreNotLost` is the case in which neither kind of end occurs.
- `MessagesAreAccounted`: `MessagesAccounted` for **all** settings, batch sizes, numbers
  of workers, dispatchers and faults. It is not inductive: a dispatcher that dies leaves
  its message on the broker and its row to be published again. `AccountInv` therefore
  counts with a job's messages the publication its row still owes: together they are at
  most one, plus the publications that raised, the lost processes and the messages
  delivered or published twice so far (`Excess`). A crash of a dispatcher renews the
  debt and is itself the one more that is allowed (`OwedAgain`); a publication that
  raised may have added a message and still owes its own, and is paid for likewise.
  `BatchInv` says that no row is in the batches of two dispatchers, nor both sent and
  still to be sent in one, which is what `SKIP LOCKED` is for: the mutant without it
  breaks the property. The messages of a job are counted as the cardinality of a
  set of copies, one element per message and countdown; the lemmas on it give the
  effect of adding and of taking one message, and of a second that passes.

## 4. TicketWorkflow

### State and actions

| Variable | In the code |
|---|---|
| `ticket[t]` | `tickets`: status, creator, assignee, and `text` for the columns an edit may change |
| `events[t]` | `ticket_events` in the order of their commits, `at` being `created_at` |
| `lock[t]` | the row lock of `get_by_id(for_update=True)` |
| `request[r]` | a request being handled: its action, the row as it read it, whether it passed as an administrator |
| `role[m]`, `active` | what `has_permission` answers from; ACTIVE memberships |
| `begun` | transactions begun: the database's clock |
| `changes` | bound on changes of roles and memberships |

A request is `Begin` (authentication, where `now()` is taken), `Lock`
(`_get_locked_visible`), `Authorize` (the permission questions), `Target` (the new
assignee of a transfer) and `Save` (`_save_action`, with its event, in one commit) or
`Conflict` (409). `Abandon` ends it anywhere. `AssignRole`, `Leave` and `Rejoin` are
transactions of other requests and may come between any two of these steps.

PATCH (`update`) takes no lock. `Read` loads the row and asks whether the caller may
edit it (`_can_access`); `Rewrite` commits the columns that differ from the row as
loaded (`Edited`), after waiting for whoever has the row's lock. It has no event. A
status or an assignee that changed between the two must survive it: the mutant
`WholeRow`, which writes back what was read, breaks `AuditComplete`.

The code asks up to three permission questions in turn. They are one step here: roles
are nested, and a role that passes the last question passes those before it, so
asking all of them at the moment of the last allows exactly what the code allows.
The answer stands until the commit, as in the code: a role that is lost after it does
not stop the save. `HandsOff` therefore asks for the administrator the request was found
to be at `Authorize`; that the row it was found entitled to is the row it changes is
what it checks.
Rejections differ only in their status code, which is left out, and so the status
check may come after the check of the target. Several roles at once are the strongest
of them.

### TicketContract

What a caller may rely on, without requests, locks or transactions: every action takes
effect at once, on the ticket as it is at that moment, only where the workflow leads on
from its status, and leaves one event that says exactly what it changed; an edit changes
the text and nothing else. The refinement hides `created_at` (`Content`): the order of
the events is that of their commits. Each action is enabled by the row at its commit,
not by the row as the request read it, so the contract fails as soon as the row lock
does not cover the read, the checks and the write: without `FOR UPDATE` two claims
that race both take effect.

### Runs

| Run | Instance | What it shows |
|---|---|---|
| `tickets` | `FairSpec`, an owner, an agent, 1 ticket, 2 texts, 2 concurrent requests, 4 transactions, 1 change of a role or membership | `TypeOK`, `AuditComplete`, `AssignedWhileTaken`, `HandsOff`, the refinement of `TicketContract`; every request ends (`RequestsEnd`) |
| `tickets_timeline` | 3 transactions | **violated**: `TimelineInOrder` (finding) |

Four transactions are a creation, a claim, a change by an action or an edit, and one
more that races with any of them; the agent may have left before, and rejoin; the proofs cover every larger instance. Deadlock is
not checked in these runs: when the bound on transactions is reached and all requests
are answered, the system rests, as a server without clients does. Fairness: every
request is resumed, and PostgreSQL grants a row lock in the order of its waiters, so
that a request whose step is again and again possible takes it (strong fairness of a
request's steps, since another request may hold the lock in between).

### Proofs (`TicketWorkflowProofs`)

`Inv` = types, plus `PresentInv` (a request is about a ticket that exists), `LockInv`
(from the lock on, the row a request read **is** the row, because it holds the lock)
and `EntitledInv` (a request past its authorization was entitled to the row it read).
From it: `TypesHold`, `AuditTrail` (`ExactExtends`: an event from the row as it is to
the row as it will be extends an exact trail), `Assignment` and `NoTakeover`. They
hold for any number of members, tickets and concurrent requests and any role changes.

`TicketsKeepContract` is the refinement: `TargetInv` (a transfer about to be saved goes
to somebody else) makes every transfer one of the contract's, and `SaveSeen`,
`CreateSeen` and `RewriteSeen` map the three steps that write; all others leave the
tickets and their events alone.

`HoldersGoOn` is what can be proved of `RequestsEnd`: whoever waits for a row waits for
one other request, which works on that ticket, past its only wait. `HolderInv` says the
reverse of `LockInv`: a row is held only by a request that is between its lock and its
commit. So no circle of waiting requests exists, whatever their number, and every way
out of a request gives its row up.

## 5. IdempotentSubmission

### State and actions

| Variable | In the code |
|---|---|
| `submission[s]` | a request with its key and hash, and where its handler is |
| `rows` | committed rows of `ticket_creation_keys` and `background_jobs` |
| `inserted` | rows of transactions that have flushed and not committed |
| `answer[s]` | what the client was told |

`TicketService.create` and `BackgroundJobService._submit` are one protocol: look the
key up (`Found`, `NotFound`), insert the resource with its key (`Insert`, or
`Violation` once the other transaction has ended), `Commit`, or `Rollback` and
`Reread`. They differ in where the request is validated: a ticket after the look-up
(`Validate`), a job before, so that a job may be refused whatever its key. A key is the
pair of a member and the header's value, as in both unique constraints. A request hash
tells contents apart; for jobs it covers the ticket, the customer and the caller's
permission as they were, so that a client that repeats its request may well submit
another content. `Lose` is a lost process, connection or client, before or after the
commit; a repetition is another submission of the key.

### SubmissionContract

What the header promises: one effect per key, answers that agree with it, a conflict
only for another content, a refusal only without effect. The refinement maps the
committed rows to effects.

### Run

`submissions`: three submissions, one key of each kind, two contents, `FairSpec`.
Three are a winner, a loser and one that comes after both, or one whose answer was
lost and two that repeat it; one key of each kind suffices since keys do not interact.
Fairness: the event loop resumes every handler and PostgreSQL every statement that may
go on. Weak fairness suffices: each of the other submissions can overtake a waiting
insert at most once. Deadlock is not checked: answered submissions rest.

### Proofs (`IdempotentSubmissionProofs`)

`Inv` = types, `OpenInv` (the open rows are exactly those of the requests about to
commit), `KeyInv` (a key has one row, committed or open), `WinnerInv` (after the
commit, the request's row is there), `LoserInv` (after a violation, a row of the key is
committed), `WaitingInv` (a request in flight has no answer) and the two properties on
answers. From it, for any number of submissions and keys: `TypesHold`, `EffectIsOne`,
`AnswersAreTrue` and `LosersAreAnswered`: the `raise` after the second look-up is never
reached because of the key.

`SubmissionsAreIdempotent` is the refinement of `SubmissionContract`. It adds `RowInv`:
a committed row is that of a request which has committed it, and says what that request
submitted, so that a replay and a conflict are the contract's. `UnboundAssumption` says
that the value for "no request yet" is none of the values it is compared with.

`OwnersGoOn` is what can be proved of `SubmissionsEnd`: an insert that waits for an index
entry waits for one other submission, which has only its commit to make.

## 6. MembershipAccess

### State and actions

| Variable | In the code |
|---|---|
| `status[m]` | `memberships`, `none` for no row |
| `rows` | `membership_roles`; `by` tells which request inserted a row |
| `lock[m]` | the row lock of `get_for_user_and_tenant(for_update=True)`, or the index entry of a new membership |
| `snapshot[m]` | the permission snapshot in Redis |
| `request[r]` | a request: caller, target, where it is, what it has read |
| `excused` | history: snapshots filled with what had changed meanwhile, or not deleted as they should have been |

A request begins with its caller (`Begin`), asks for his permissions (`Hit`, or `Miss`,
`Read` and `Fill`), and changes a membership: `invite` and `leave` and `accept` under
the row's lock (`LockRow`), or its roles (`Assign`, without a lock on the membership).
Under READ COMMITTED a DELETE sees the rows as they are when it starts (`Scan`), waits
for others that delete them, passes over those that are gone (`Remove`), and the unique
pair decides about the insertion (`Insert`). After `Commit` the snapshot is deleted
(`Invalidate`), which a failing Redis does not report. `Lose` ends a request anywhere.

Simplifications: a DELETE and an INSERT of several rows are one step each, so that two
that lock rows in opposite orders, which PostgreSQL resolves by ending one, are the
behaviours with a `Lose`; a hit that cannot be parsed, inactive tenants and unknown
users are left out; an administrator who invites himself is refused because the locked
row does not replace the one in his session (`SeenStatus`).

### Run

`members`: an owner and one other member in every initial status, two concurrent
requests, three changes, Redis failures, two role sets; symmetric in the requests.
Two concurrent requests are what each race needs, and the third change is the one that
comes after it. `StaleExplained` says that a snapshot differs from the database only
while its deletion is under way, or after a deletion that was lost or a fill that read
before a commit and wrote after the deletion: the latter two are real and end only with
the TTL, the last resort that `FASTAPI_INTERVIEW_LEARNING_GUIDE.md:494` names. `OwnerIsAdmin` and `RolesDistinct` hold although assignments are not
serialised; that two of them may leave a member with the roles of both is in the
behaviours, and no property excludes it. Only safety is checked: no fairness.

### Proofs (`MembershipAccessProofs`)

The invariant adds to the types what the step a request has reached says of its
operation (`Good`); that what it read of a membership is still so until its commit,
under the row's lock or, for an assignment, because no step takes it back (`Standing`);
that every member has a role and the owner the administrator's (`Manned`); that the rows
a request has inserted and not committed differ from all that stays and from those of
any other request (`Distinct`); and that a snapshot that differs from the rows is
excused or about to be deleted (`Explained`). From it, for any number of members, roles
and concurrent requests: `TypesHold`, `OwnerStaysAdmin`,
`LifeCycleIsKept`, `RolesAreDistinct` and `StalenessIsExplained`.

## 7. RefreshTokens

### State and actions

| Variable | In the code |
|---|---|
| `token[t]` | `refresh_tokens` of one user: `revoked_at` as a flag, `replaced_by_id`, and the login it descends from |
| `expired` | tokens whose `expires_at` is past |
| `lock[t]` | the lock of a token's row |
| `request[r]` | a request and, for the UPDATE of all tokens, what it has still to lock and has revoked |

`Begin` takes only tokens that are not expired: decoding the token refuses the others
before the database is asked. One may expire between the two, so `Lock` asks again.
`Lock` is `get_for_update` with the checks on the row, `Refuse` its other outcomes,
`Issue` the commit of a login or of a rotation, `Logout` that of a logout. A reuse and
a change of the password share `revoke_all_active`: `Scan` (the rows the UPDATE sees),
`Update` (one row after the other, skipping what was revoked meanwhile) and
`RevokeAll` (the commit). `login` is history: the code does not store it.

### Run

`tokens`: four tokens, three concurrent requests, six requests in all, symmetric in
tokens and requests: a login, two rotations of it that race with a revocation, and one
more login or repetition. `RevokesAllKnown` covers the tokens issued when the UPDATE
starts. A rotation in flight at that moment inserts a successor that the UPDATE does
not see: the successor of a revoked session may stay active after a change of the
password. The model has these behaviours; no property excludes them. Deadlock is not
checked (the bound on requests), and no liveness: the UPDATEs lock rows in any order,
and PostgreSQL ends one of two that wait for each other, which here is a `Lose`.

### Proofs (`RefreshTokensProofs`)

The invariant adds to the types what a request is sure of (`RequestInv`): between its
lock and its commit its token works and the row's lock is its own; an UPDATE holds what
it has revoked, and a token it saw active is still to visit, held or revoked by another.
`TokenInv` adds that a login's tokens descend from an issued one. From them, for any number of tokens and requests: `TypesHold`, `LoginsHaveOne`,
`ReplacementIsAChain`, and of each step `RevocationIsFinal` and `RevocationIsComplete`.

## 8. Attachments

### State and actions

| Variable | In the code |
|---|---|
| `file[u]` | the object of an upload in `LocalAttachmentStorage`, by its size in chunks |
| `row[u]` | the committed `size_bytes` of its `ticket_attachments` row |
| `pc[u]`, `answer[u]` | where `upload_attachment` is, and what its client was told |
| `inDoubt` | history: uploads whose COMMIT took effect and raised all the same |
| `abandoned` | history: uploads whose cleanup raised as well |
| `download[d]` | a download: the row it read, and what its body delivered |
| `faults` | bound: failures and lost processes still to come |

An upload is `Refuse` or `Admit` (the checks before anything is written), `Open`,
`Write` per chunk (`bounded_chunks` counts a chunk before the storage gets it),
`Close`, `Commit`, `Committed` and `Refresh`. `RejectChunk` (413 or 415) and
`FailWrite` (the disk, a cancelled handler) lead to `Unlink`, the `except` of
`LocalAttachmentStorage.write`. `OpenRaises` comes before there is a file.
`CancelOpen` is a handler cancelled while a thread opens the file: the thread is not
stopped and `created` is still false. `CommitRaises` is the `except BaseException`
around the commit, before the commit took effect or after; `Delete` its compensation.
`RefreshRaises` comes after that `try` and keeps the file.

The cleanups fail too (`CleanupRaises`): `write` closes before it unlinks, and closing
flushes again the bytes that could not be written; a rollback that raises comes before
the deletion; an `unlink` may raise. Then the client gets a 500 and the file may stay.
`Crash` is a lost process; nothing in the repository looks for files afterwards.

A download reads the row (`Look`), asks for the file (`Exists`, 404 without it) and
opens it when the body is sent (`Stream`): the 200 is out by then. `missing` is a
download that did not find its file, before the 200 or after; `Breaks` ends one
whose look, opening or reading of the file raised, or whose process was lost, whatever
the file is (`broken`). Object keys are fresh, so an upload, its file and its row go by
one name. The lost machine (`flush` without `fsync`) is left out: the code takes no
measure against it.

### Run

`attachments`: two uploads, two download handlers, a limit of two chunks, three faults. A
limit of two has a file below, at and above it; three faults are one on each upload
and one on a download, or a failed commit, the cleanup that fails after it and a body
that breaks off. `AnswersTrue` says what each of the three answers promises: after
an error a file without its row is left only if the cleanup raised as well, and a refusal
is never told with one. `RowHasFile` excepts the uploads in doubt and nothing else: that
is the precise price of deleting after a commit that raised. `ServedWhole` says what a
client can rely on although any body may break off: one that ends without an error is
whole, and a file is not found only for an upload in doubt. Deadlock is not checked:
uploads that have ended rest.

### Proofs (`AttachmentsProofs`)

The inductive invariant says at each step of the upload what the file and the row are
(no row before the commit, the whole file from `Close` to the compensation, none after a
cleanup that did not raise) and that a download has read a row that still has its size.
From it, for any number of uploads and downloads, any limit and any number of faults:
`TypesHold`, `AnswersStayTrue`, `RowsHaveFiles`, `DownloadsAreWhole`.

## 9. UniqueRecords

### State and actions

One protocol serves `AuthService.register` (emails of users), `TenantService.create`
(slugs) and `CustomerService.create` and `update` (emails in a tenant): normalise, look
the value up, write, and turn the unique index's violation into the conflict the look-up
would have told.

| Variable | In the code |
|---|---|
| `value[x]` | the committed email or slug of a record |
| `request[r]` | a request: its record, the value it wants, and whether its statement writes it (`sets`: a session writes only what differs from the row it loaded) |

`Create` and `Update` read the request and, for an update, the row; `Check` is the
look-up; `Lock` the row lock an UPDATE takes; `Amend` is a PATCH without the email,
which looks nothing up and writes other columns, and `NoUpdate` one in which nothing
differs from the row, so that no UPDATE is issued; `Insert` and `Violation` the verdict of
the unique index, which waits for every open transaction that may add or give up the
value (`InDoubt`); `Commit` the end, whose answer may be lost; `Lose` a lost connection.
The tenant's memberships and roles, which `create` inserts between `Insert` and
`Commit`, are in `MembershipAccess`. Each `Spellings` is stored as one of `Values`:
normalisation is not the identity here, and the mutant that leaves it out is caught.

PostgreSQL breaks a circle of waiting statements by failing one (`Deadlock`). The error
is an `OperationalError`, which `_commit_or_email_conflict` does not catch, so that
client gets a 500. `CirclesExchange` says when: only among updates that exchange values,
never for a creation or an update that leaves the email alone.

### UniqueContract

What a caller may rely on: each request takes effect in one step or not at all, and is
told a conflict only while another record has the value. An update to the value its row
had when it was loaded, and one without the email, takes no effect at all, even if the row has changed since
(`Match`). The refinement maps a request to `pending` or `matched` until it ends.

### Run

`unique`: three records, three values, one of them with two spellings, and three
requests, symmetric in requests, records and the values with one spelling. Three requests
close a circle of two or of three, or are an exchange and one that meets it.

### Proofs (`UniqueRecordsProofs`)

The invariant: values are unique; a request that has passed the index has a value no
committed record and no other such request has; a record is inserted by one request; a
row is touched by one request. From it, for any numbers of records, values, spellings
and requests: `TypesHold`, `ValuesAreUnique`, `OnlyExchangesCircle` (whoever waits in a
circle touches something another waits for) and `RequestsAreAtomic`, the refinement:
initial states map to initial states, and every step to a step of the contract or to
one that leaves its variables alone.

## 10. Findings

1. `jobs_stale`: with a lease not longer than the hard time limit, which the settings
   accept, a worker overwrites a terminal status.
2. `jobs_stranded`: a run ended by its time limit leaves a job PENDING (struck before
   its claim, the shortest trace) or RUNNING (after it) for ever.
3. `tickets_timeline`: the events of a ticket may be listed in another order than
   their changes were made, since each is dated by the start of its transaction.

## 11. Model-checked only, and not modelled

Only model-checked: liveness under fairness (`EventuallySettled`, `RequestsEnd`,
`SubmissionsEnd`), which is out of the prover's reach. Of the last two the safety core
is proved: nobody ever waits for somebody who waits (`HoldersGoOn`, `OwnersGoOn`); of
the first, that a job always has something that will drive it (`NotLost`). Every other
property of a passing run is also proved, those of jobs that depend on the lease or on
how runs end under the hypotheses named above.

Not modelled:

- Listing tickets, customers, members, comments and attachments. Each page is one
  SELECT. The tickets' cursor is a keyset on `created_at` and `id`, which no operation
  changes, so what a page holds is a function of the committed rows; ties and encoding
  are unit-test matter. `created_at` is set by `now()` at the start of a transaction, so
  a ticket committed late may be dated before a page already read: the effect
  `tickets_timeline` shows for events.
- Comments: one INSERT after the checks of the ticket and, for an internal note, of one
  permission; nothing is read afterwards that could be stale.
- The login limiter: one atomic script of Redis, and without Redis every login is
  let through.
- The contents of payloads, mails, files and notes; password hashing and token
  signatures; HTTP and its validation; metrics and logs.
- PostgreSQL beyond row locks, unique constraints, deadlocks over them and atomic
  commits; a lost machine; Redis as a broker that loses its memory.
- Migrations, deployment and tests: what the migrations constrain is in the actions.
