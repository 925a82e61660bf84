------------------------ MODULE IdempotentSubmission ------------------------
(***************************************************************************)
(* Submissions under an Idempotency-Key: the creation of a ticket and the  *)
(* submission of a background job.  Both look the key up, insert the       *)
(* resource together with the row that carries the key, and leave it to    *)
(* the unique constraint to settle a race: the loser rolls back, reads the *)
(* row of the winner and answers from it.                                  *)
(*                                                                         *)
(* A key stands for the pair of a member and the header's value, the       *)
(* column pair of both constraints.  A client that had no answer submits   *)
(* again: another submission of the same key.                              *)
(***************************************************************************)
EXTENDS Naturals

CONSTANTS
  Submissions,  \* the requests made, each handled once
  TicketKeys,   \* keys in ticket_creation_keys
  JobKeys,      \* keys in background_jobs
  Hashes,       \* what a request hash tells apart: for an email job the hash
                \* covers what the ticket and its customer were at the time
  Unbound       \* no key, no row, no resource

Keys == TicketKeys \cup JobKeys
ASSUME KeysAssumption == TicketKeys \cap JobKeys = {}
ASSUME UnboundAssumption ==
  /\ Unbound \notin Submissions
  /\ Unbound \notin [key : Keys, hash : Hashes]
  /\ Unbound \notin [hash : Hashes, resource : Submissions]

VARIABLES
  submission,  \* step, key and hash of each request
  rows,        \* the committed rows: key, hash and resource
  inserted,    \* the rows of open transactions
  answer       \* what each client was told

vars == <<submission, rows, inserted, answer>>
-----------------------------------------------------------------------------
(* Rows and requests *)

\* A resource is named after the request that made it.
Row == [key : Keys, hash : Hashes, resource : Submissions]

InFlight == {"check", "validate", "insert", "commit", "respond", "rollback", "reread"}
Request == [pc : InFlight \cup {"answered"}, key : Keys, hash : Hashes]
NoRequest == [pc |-> "idle"]

Codes == {"waiting", "created", "replayed", "conflict", "refused", "lost", "error"}
Answer == [code : Codes, resource : Submissions \cup {Unbound}]
Waiting == [code |-> "waiting", resource |-> Unbound]

TypeOK ==
  /\ submission \in [Submissions -> Request \cup {NoRequest}]
  /\ rows \in SUBSET Row
  /\ inserted \in SUBSET Row
  /\ answer \in [Submissions -> Answer]

Init ==
  /\ submission = [s \in Submissions |-> NoRequest]
  /\ rows = {}
  /\ inserted = {}
  /\ answer = [s \in Submissions |-> Waiting]
-----------------------------------------------------------------------------
(* Steps of a request *)

At(s, pc) == submission[s].pc = pc
GoTo(s, pc) == submission' = [submission EXCEPT ![s].pc = pc]
\* Mutant of RowOf: the row is built before its resource has an id.
UnnamedRow(s) == [key |-> submission[s].key, hash |-> submission[s].hash, resource |-> Unbound]
RowOf(s) == [key |-> submission[s].key, hash |-> submission[s].hash, resource |-> s]
SameKey(s) == {x \in rows : x.key = submission[s].key}

Tell(s, code, resource) ==
  /\ GoTo(s, "answered")
  /\ answer' = [answer EXCEPT ![s] = [code |-> code, resource |-> resource]]

Submit(s, k, h) ==
  /\ At(s, "idle")
  /\ submission' = [submission EXCEPT ![s] = [pc |-> "check", key |-> k, hash |-> h]]
  /\ UNCHANGED <<rows, inserted, answer>>

\* Mutants of Replay: the hash is not compared; a raced key is always a conflict.
ReplayAny(s, row) == Tell(s, "replayed", row.resource)
ConflictAlways(s, row) == Tell(s, "conflict", Unbound)
\* The same content is answered with the row's resource, any other with 409.
Replay(s, row) ==
  IF row.hash = submission[s].hash
  THEN Tell(s, "replayed", row.resource)
  ELSE Tell(s, "conflict", Unbound)

\* A job is validated before its key is looked up, a ticket after.
Found(s) ==
  /\ At(s, "check")
  /\ \E row \in SameKey(s) : Replay(s, row)
  /\ UNCHANGED <<rows, inserted>>
NotFound(s) ==
  /\ At(s, "check") /\ SameKey(s) = {}
  /\ GoTo(s, IF submission[s].key \in TicketKeys THEN "validate" ELSE "insert")
  /\ UNCHANGED <<rows, inserted, answer>>

\* An unknown or inactive customer, a ticket without a recipient: 404.
Refuse(s) ==
  /\ \/ At(s, "validate")
     \/ At(s, "check") /\ submission[s].key \in JobKeys
  /\ Tell(s, "refused", Unbound)
  /\ UNCHANGED <<rows, inserted>>
Validate(s) ==
  /\ At(s, "validate")
  /\ GoTo(s, "insert")
  /\ UNCHANGED <<rows, inserted, answer>>

\* Mutant of Settled: an open row of the key is a violation at once.
NeverWaits(s) == TRUE
\* The index entry of an open transaction is waited for.
Settled(s) == \A x \in inserted : x.key # submission[s].key

\* Mutant of Unique: the index does not cover the key.
NotUnique(s) == TRUE
\* The unique constraint, as the insert finds it once it does not wait.
Unique(s) == SameKey(s) \cup {x \in inserted : x.key = submission[s].key} = {}

\* The flush of the commit: ticket, event and key row, or job and outbox row.
Insert(s) ==
  /\ At(s, "insert") /\ Settled(s) /\ Unique(s)
  /\ inserted' = inserted \cup {RowOf(s)}
  /\ GoTo(s, "commit")
  /\ UNCHANGED <<rows, answer>>
Violation(s) ==
  /\ At(s, "insert") /\ Settled(s) /\ ~Unique(s)
  /\ GoTo(s, "rollback")
  /\ UNCHANGED <<rows, inserted, answer>>

Commit(s) ==
  /\ At(s, "commit")
  /\ rows' = rows \cup {RowOf(s)}
  /\ inserted' = inserted \ {RowOf(s)}
  /\ GoTo(s, "respond")
  /\ UNCHANGED answer
Respond(s) ==
  /\ At(s, "respond")
  /\ Tell(s, "created", s)
  /\ UNCHANGED <<rows, inserted>>

Rollback(s) ==
  /\ At(s, "rollback")
  /\ GoTo(s, "reread")
  /\ UNCHANGED <<rows, inserted, answer>>
\* Without a row the violation was not about the key: it is raised again, a 500.
Reread(s) ==
  /\ At(s, "reread")
  /\ \/ \E row \in SameKey(s) : Replay(s, row)
     \/ SameKey(s) = {} /\ Tell(s, "error", Unbound)
  /\ UNCHANGED <<rows, inserted>>

\* Mutant of Undo: a lost connection keeps what it had inserted.
KeepInserted(s) == UNCHANGED inserted
Undo(s) == inserted' = inserted \ {RowOf(s)}
\* The process or a connection is lost: the server rolls back what is not
\* committed, and the client learns nothing.
Lose(s) ==
  /\ submission[s].pc \in InFlight
  /\ Tell(s, "lost", Unbound)
  /\ Undo(s)
  /\ UNCHANGED rows

Handle(s) == \/ Found(s) \/ NotFound(s) \/ Validate(s) \/ Insert(s) \/ Violation(s)
             \/ Commit(s) \/ Respond(s) \/ Rollback(s) \/ Reread(s)

Next == \E s \in Submissions :
  \/ \E k \in Keys, h \in Hashes : Submit(s, k, h)
  \/ Handle(s) \/ Refuse(s) \/ Lose(s)

Spec == Init /\ [][Next]_vars
\* The event loop resumes every handler, and the database a statement that may go on.
FairSpec == Spec /\ \A s \in Submissions : WF_vars(Handle(s))
-----------------------------------------------------------------------------
(* Properties *)

\* A key has one effect, however many submissions of it race, repeat one whose
\* answer was lost, or are lost themselves.
OneEffect == \A x, y \in rows : x.key = y.key => x = y

\* Nobody is told of a resource that is not committed under his key with his
\* content, so all who are told of one for a key are told of the same.
AnswersAgree == \A s \in Submissions :
  answer[s].code \in {"created", "replayed"} =>
    [key |-> submission[s].key, hash |-> submission[s].hash,
     resource |-> answer[s].resource] \in rows

\* The loser of a race always finds the winner's row: the violation was reported
\* only when the winner had committed, so "raise" after the second look-up is
\* for violations of other constraints.
NoErrors == \A s \in Submissions : answer[s].code # "error"

\* The rows and the answers are a behaviour of the contract.
Effect == [k \in Keys |->
  IF \E x \in rows : x.key = k
  THEN LET x == CHOOSE x \in rows : x.key = k IN [hash |-> x.hash, resource |-> x.resource]
  ELSE Unbound]
Submitted == [s \in Submissions |->
  IF At(s, "idle") THEN Unbound ELSE [key |-> submission[s].key, hash |-> submission[s].hash]]
Contract == INSTANCE SubmissionContract WITH submitted <- Submitted, effect <- Effect
ContractHolds == Contract!Spec

\* Every submission is answered or lost: nobody waits for ever for an index entry.
SubmissionsEnd == \A s \in Submissions :
  submission[s].pc \in InFlight ~> submission[s].pc = "answered"
=============================================================================
