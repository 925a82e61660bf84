--------------------------- MODULE UniqueRecords ---------------------------
(***************************************************************************)
(* Records with a unique value: users and their emails, tenants and their  *)
(* slugs, a tenant's customers and their emails.  Each request looks for   *)
(* the value first and leaves the verdict to the unique index, whose       *)
(* violation it turns into the same conflict.  Customers also change.      *)
(*                                                                         *)
(* PostgreSQL lets a statement wait where another transaction has touched  *)
(* the row it updates, or any row with the value it enters in the index,   *)
(* until that transaction ends; a circle of waiting statements is broken   *)
(* by failing one of them.                                                 *)
(***************************************************************************)
EXTENDS Naturals

CONSTANTS
  Records,
  Values,        \* as they are stored
  Spellings,     \* as clients write them
  Stored,        \* strip().lower(), from spellings to values
  Requests,      \* the API's request handlers
  Absent         \* the value of a record that is not there

ASSUME StoredAssumption == Stored \in [Spellings -> Values]
ASSUME AbsentAssumption == Absent \notin Records \cup Values

VARIABLES
  value,     \* the committed value of each record
  request    \* the requests being handled, and how each handler's last one ended

vars == <<value, request>>
-----------------------------------------------------------------------------
Ended == {"idle", "done", "conflict", "failed"}
Working == {"check", "lock", "insert", "commit"}

\* `sets` tells whether the statement writes the value: a session writes the columns
\* that differ from the row it loaded.
Request == [pc : Ended \cup Working, record : Records \cup {Absent},
            value : Values \cup {Absent}, sets : BOOLEAN]
End(pc) == [pc |-> pc, record |-> Absent, value |-> Absent, sets |-> FALSE]

TypeOK ==
  /\ value \in [Records -> Values \cup {Absent}]
  /\ request \in [Requests -> Request]

Init ==
  /\ value = [x \in Records |-> Absent]
  /\ request = [r \in Requests |-> End("idle")]

Exists(x) == value[x] # Absent
Others(x) == Records \ {x}
\* A record with the value, as a statement sees it: committed.
Taken(v, x) == \E y \in Others(x) : value[y] = v

At(r, pc) == request[r].pc = pc
Goto(r, pc) ==
  request' = [request EXCEPT ![r] =
    [pc |-> pc, record |-> @.record, value |-> @.value, sets |-> @.sets]]
Answer(r, pc) == request' = [request EXCEPT ![r] = End(pc)]

\* The transactions whose row another statement may have to wait for: a row is
\* touched when it is locked for its update or inserted.
\* Mutant of Touches: the row is locked when it is looked up, and then once more.
TouchesEarly(r, x) ==
  request[r].pc \in {"lock", "insert", "commit"} /\ request[r].record = x
Touches(r, x) == request[r].pc \in {"insert", "commit"} /\ request[r].record = x
RowFree(x) == \A r \in Requests : ~Touches(r, x)

\* An index entry is in doubt while its row is: the new value of one transaction, or
\* the value a row had before it.
\* Mutant of InDoubtBy: the index is looked at without regard to open transactions.
NoDoubt(q, r) == FALSE
InDoubtBy(q, r) ==
  /\ q # r
  /\ \/ At(q, "commit") /\ request[q].sets /\ request[q].value = request[r].value
     \/ \E x \in Records : Touches(q, x) /\ value[x] = request[r].value
InDoubt(r) == \E q \in Requests : InDoubtBy(q, r)
-----------------------------------------------------------------------------
(* Steps of a request *)

\* Mutant of Normalized: the value is looked up and stored as it was typed.
AsTyped(spelling) == spelling
Normalized(spelling) == Stored[spelling]

\* A creation makes an id of its own and starts with the look-up.
Create(r, x, spelling) ==
  /\ request[r].pc \in Ended /\ ~Exists(x)
  /\ \A q \in Requests : request[q].record # x
  /\ request' = [request EXCEPT ![r] =
       [pc |-> "check", record |-> x, value |-> Normalized(spelling), sets |-> TRUE]]
  /\ UNCHANGED value

\* An update loads its row, or answers 404, and looks its email up.
Update(r, x, spelling) ==
  /\ request[r].pc \in Ended /\ Exists(x)
  /\ request' = [request EXCEPT ![r] =
       [pc |-> "check", record |-> x, value |-> Normalized(spelling),
        sets |-> Normalized(spelling) # value[x]]]
  /\ UNCHANGED value

\* A PATCH without the email looks nothing up.
Amend(r, x) ==
  /\ request[r].pc \in Ended /\ Exists(x)
  /\ request' = [request EXCEPT ![r] =
       [pc |-> "lock", record |-> x, value |-> value[x], sets |-> FALSE]]
  /\ UNCHANGED value

Found(r) == Taken(request[r].value, request[r].record)
Check(r) ==
  /\ At(r, "check")
  /\ \/ Found(r) /\ Answer(r, "conflict")
     \/ ~Found(r) /\ Goto(r, IF Exists(request[r].record) THEN "lock" ELSE "insert")
  /\ UNCHANGED value

\* The UPDATE locks the row; without the email among its columns it is done.
Lock(r) ==
  /\ At(r, "lock") /\ RowFree(request[r].record)
  /\ Goto(r, IF request[r].sets THEN "insert" ELSE "commit")
  /\ UNCHANGED value

\* Nothing differs from the row as it was loaded: there is no UPDATE.
NoUpdate(r) ==
  /\ At(r, "lock") /\ ~request[r].sets
  /\ \E told \in {"done", "failed"} : Answer(r, told)
  /\ UNCHANGED value

Insert(r) ==
  /\ At(r, "insert") /\ ~InDoubt(r) /\ ~Taken(request[r].value, request[r].record)
  /\ Goto(r, "commit")
  /\ UNCHANGED value

\* IntegrityError, rolled back and told as the conflict it is.
Violation(r) ==
  /\ At(r, "insert") /\ ~InDoubt(r) /\ Taken(request[r].value, request[r].record)
  /\ Answer(r, "conflict")
  /\ UNCHANGED value

\* Mutant of Written: an update writes every column, the value as it was loaded too.
WrittenAlways(r) == [value EXCEPT ![request[r].record] = request[r].value]
Written(r) ==
  IF request[r].sets THEN [value EXCEPT ![request[r].record] = request[r].value] ELSE value
\* The answer to a commit that took effect may be lost, or the refresh after it fail.
Commit(r) ==
  /\ At(r, "commit")
  /\ value' = Written(r)
  /\ \E told \in {"done", "failed"} : Answer(r, told)

\* A lost connection, a client that is gone: rolled back.
Lose(r) == request[r].pc \in Working /\ Answer(r, "failed") /\ UNCHANGED value

WaitsFor(r, q) ==
  \/ At(r, "lock") /\ Touches(q, request[r].record)
  \/ At(r, "insert") /\ InDoubtBy(q, r)
\* Requests that wait in a circle: one of them fails, with no IntegrityError, and is
\* answered 500.
Circle(S) == /\ \A r \in S : \E q \in S : WaitsFor(r, q)
             /\ \A q \in S : \E r \in S : WaitsFor(r, q)
Deadlock(r) ==
  /\ \E S \in SUBSET Requests : r \in S /\ Circle(S)
  /\ Answer(r, "failed") /\ UNCHANGED value
-----------------------------------------------------------------------------
Step(r) == Check(r) \/ Lock(r) \/ NoUpdate(r) \/ Insert(r) \/ Violation(r) \/ Commit(r)

Next ==
  \E r \in Requests :
    \/ \E x \in Records, s \in Spellings : Create(r, x, s) \/ Update(r, x, s)
    \/ \E x \in Records : Amend(r, x)
    \/ Step(r) \/ Lose(r) \/ Deadlock(r)

Spec == Init /\ [][Next]_vars
-----------------------------------------------------------------------------
(* Correctness *)

\* No two records have one value, whatever creations and updates race
\* (uq_customers_tenant_email, users.email, tenants.slug).
Unique == \A x, y \in Records : Exists(x) /\ value[x] = value[y] => x = y

\* How far a request is for its caller: until it ends only its own transaction knows.
Stage(r) == IF request[r].pc \in Ended THEN request[r].pc
            ELSE IF request[r].sets THEN "pending" ELSE "matched"
Wants(r) == IF request[r].pc \in Ended THEN Absent
            ELSE <<request[r].record, request[r].value>>

\* Every request takes effect in one step or not at all, and is told a conflict only
\* when another record has the value then: a value whose claim is still open, and may
\* be rolled back, is no conflict (register, create, _commit_or_email_conflict).
Contract == INSTANCE UniqueContract WITH
  stage <- [r \in Requests |-> Stage(r)], wants <- [r \in Requests |-> Wants(r)]
ContractHolds == Contract!Spec

\* Statements wait in a circle only where updates exchange values: each has changed
\* its row's value and wants one that another of them gives up.  Registering a user,
\* creating a tenant or a customer, and an update that leaves the email alone never
\* fail for a deadlock, and never keep a circle closed (register, create, update).
CirclesExchange ==
  \A S \in SUBSET Requests : Circle(S) =>
    \A r \in S : /\ At(r, "insert") /\ Exists(request[r].record)
                 /\ \E q \in S \ {r} : value[request[q].record] = request[r].value
=============================================================================
