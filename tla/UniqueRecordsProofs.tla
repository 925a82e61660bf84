------------------------- MODULE UniqueRecordsProofs -------------------------
(***************************************************************************)
(* The invariants of UniqueRecords and its refinement of UniqueContract,   *)
(* for any number of records, values and concurrent requests.  Uniqueness  *)
(* is inductive with what an open transaction that passed the index knows: *)
(* no committed row has its value, and no other open transaction passed    *)
(* with it.  Both rest on one transaction per touched row.                 *)
(***************************************************************************)
EXTENDS UniqueRecords, TLAPS

USE StoredAssumption, AbsentAssumption
-----------------------------------------------------------------------------
(* Types *)

LEMMA TypeInit == Init => TypeOK
  BY DEF Init, TypeOK, Request, End, Ended

\* A handler that is done with a request knows nothing of it any more.
Clean(r) ==
  /\ request[r].pc \in Ended => request[r].record = Absent
  /\ request[r].pc \in Working => request[r].record \in Records /\ request[r].value \in Values
CleanInv == \A r \in Requests : Clean(r)

LEMMA CleanInit == Init => CleanInv
  BY DEF Init, CleanInv, Clean, End, Ended, Working

\* The two ways in which a request's record changes.
LEMMA GotoTypes ==
  ASSUME TypeOK, CleanInv, NEW r \in Requests, NEW step \in Working, Goto(r, step),
         request[r].pc \in Working
  PROVE  request' \in [Requests -> Request] /\ CleanInv'
  BY DEF TypeOK, CleanInv, Clean, Goto, Request, Working, Ended

LEMMA AnswerTypes ==
  ASSUME TypeOK, CleanInv, NEW r \in Requests, NEW told \in Ended, Answer(r, told)
  PROVE  request' \in [Requests -> Request] /\ CleanInv'
  BY DEF TypeOK, CleanInv, Clean, Answer, End, Request, Working, Ended

\* Who waits in a circle is at work.
LEMMA VictimWorks ==
  ASSUME NEW r \in Requests, Deadlock(r)
  PROVE  request[r].pc \in Working
  BY DEF Deadlock, Circle, WaitsFor, At, Working

LEMMA BeginTypes ==
  ASSUME TypeOK, CleanInv, NEW r \in Requests, NEW x \in Records, NEW s \in Spellings,
         Create(r, x, s) \/ Update(r, x, s)
  PROVE  TypeOK' /\ CleanInv'
<1>1. \E sets \in BOOLEAN :
        request' = [request EXCEPT ![r] =
          [pc |-> "check", record |-> x, value |-> Stored[s], sets |-> sets]]
  BY DEF Create, Update, Normalized
<1>2. UNCHANGED value /\ Stored[s] \in Values
  BY DEF Create, Update
<1> QED  BY <1>1, <1>2 DEF TypeOK, CleanInv, Clean, Request, Ended, Working

LEMMA AmendTypes ==
  ASSUME TypeOK, CleanInv, NEW r \in Requests, NEW x \in Records, Amend(r, x)
  PROVE  TypeOK' /\ CleanInv'
<1>1. /\ request' = [request EXCEPT ![r] =
           [pc |-> "lock", record |-> x, value |-> value[x], sets |-> FALSE]]
      /\ UNCHANGED value /\ value[x] \in Values
  BY DEF Amend, Exists, TypeOK
<1> QED  BY <1>1 DEF TypeOK, CleanInv, Clean, Request, Ended, Working

LEMMA TypeStep == TypeOK /\ CleanInv /\ [Next]_vars => TypeOK' /\ CleanInv'
<1> SUFFICES ASSUME TypeOK, CleanInv, [Next]_vars
             PROVE  TypeOK' /\ CleanInv'
  OBVIOUS
<1>1. ASSUME NEW r \in Requests, Check(r)
      PROVE  TypeOK' /\ CleanInv'
  <2>1. "lock" \in Working /\ "insert" \in Working /\ "conflict" \in Ended
    BY DEF Working, Ended
  <2> QED  BY <1>1, <2>1, GotoTypes, AnswerTypes DEF Check, At, Working, TypeOK
<1>2. ASSUME NEW r \in Requests, Lock(r) \/ Insert(r)
      PROVE  TypeOK' /\ CleanInv'
  <2>1. "commit" \in Working /\ "insert" \in Working
    BY DEF Working
  <2> QED  BY <1>2, <2>1, GotoTypes DEF Lock, Insert, At, Working, TypeOK
<1>3. ASSUME NEW r \in Requests, Violation(r) \/ Lose(r) \/ Deadlock(r)
      PROVE  TypeOK' /\ CleanInv'
  <2>1. "conflict" \in Ended /\ "failed" \in Ended
    BY DEF Ended
  <2> QED  BY <1>3, <2>1, AnswerTypes DEF Violation, Lose, Deadlock, TypeOK
<1>4. ASSUME NEW r \in Requests, Commit(r)
      PROVE  TypeOK' /\ CleanInv'
  <2>1. "done" \in Ended /\ "failed" \in Ended
    BY DEF Ended
  <2>2. request' \in [Requests -> Request] /\ CleanInv'
    BY <1>4, <2>1, AnswerTypes DEF Commit
  <2>3. request[r].value \in Values
    BY <1>4 DEF Commit, At, CleanInv, Clean, Working
  <2> QED  BY <1>4, <2>2, <2>3 DEF Commit, Written, TypeOK
<1>5. ASSUME NEW r \in Requests, NoUpdate(r)
      PROVE  TypeOK' /\ CleanInv'
  <2>1. "done" \in Ended /\ "failed" \in Ended
    BY DEF Ended
  <2> QED  BY <1>5, <2>1, AnswerTypes DEF NoUpdate, TypeOK
<1>6. CASE UNCHANGED vars
  BY <1>6 DEF vars, TypeOK, CleanInv, Clean
<1> QED  BY <1>1, <1>2, <1>3, <1>4, <1>5, <1>6, BeginTypes, AmendTypes DEF Next, Step

\* Values and requests keep their types.
THEOREM TypesHold == Spec => []TypeOK
  BY TypeInit, CleanInit, TypeStep, PTL DEF Spec
-----------------------------------------------------------------------------
(* One transaction per row *)

Works(r) == request[r].pc \in Working
\* Only creations are about records that are not there, each about its own; only what
\* sets a value enters the index; an update waits for a row that is there.
Placed(r) ==
  /\ Works(r) /\ ~Exists(request[r].record) =>
       /\ request[r].sets /\ request[r].pc # "lock"
       /\ \A q \in Requests \ {r} : request[q].record # request[r].record
  /\ request[r].pc = "insert" => request[r].sets
Single ==
  \A q, r \in Requests : q # r /\ request[q].pc \in {"insert", "commit"}
                               /\ request[r].pc \in {"insert", "commit"}
                            => request[q].record # request[r].record
RowInv == Single /\ \A r \in Requests : Placed(r)

\* A transaction that passed the index has its value for itself.
Passed(r) == request[r].pc = "commit" /\ request[r].sets
Own(r) ==
  Passed(r) => /\ \A y \in Records \ {request[r].record} : value[y] # request[r].value
               /\ \A q \in Requests \ {r} : Passed(q) => request[q].value # request[r].value
ValueInv == Unique /\ \A r \in Requests : Own(r)

IInv == TypeOK /\ CleanInv /\ RowInv /\ ValueInv

LEMMA Initially == Init => IInv
<1> SUFFICES ASSUME Init
             PROVE  RowInv /\ ValueInv
  BY TypeInit, CleanInit DEF IInv
<1>1. \A r \in Requests : request[r].pc = "idle"
  BY DEF Init, End
<1>2. RowInv
  BY <1>1 DEF RowInv, Single, Placed, Works, Working
<1>3. ValueInv
  BY <1>1 DEF ValueInv, Unique, Own, Passed, Exists, Init
<1> QED  BY <1>2, <1>3

\* A request that ends gives its row and its value up.
LEMMA EndKeeps ==
  ASSUME IInv, NEW r \in Requests, NEW told \in Ended, Answer(r, told), UNCHANGED value
  PROVE  RowInv' /\ ValueInv'
<1>1. /\ request'[r].pc = told /\ request'[r].record = Absent
      /\ \A q \in Requests \ {r} : request'[q] = request[q]
  BY DEF IInv, TypeOK, Answer, End
<1>2. told \notin Working
  BY DEF Ended, Working
<1>3. RowInv'
  BY <1>1, <1>2 DEF IInv, CleanInv, Clean, RowInv, Single, Placed, Works, Exists, Working
<1>4. ValueInv'
  BY <1>1, <1>2 DEF IInv, ValueInv, Unique, Own, Passed, Exists, Working
<1> QED  BY <1>3, <1>4

\* The look-up settles nothing: values and touched rows are as before.
LEMMA BeginKeeps ==
  ASSUME IInv, NEW r \in Requests, NEW x \in Records, NEW s \in Spellings,
         Create(r, x, s) \/ Update(r, x, s)
  PROVE  RowInv' /\ ValueInv'
<1>1. /\ request'[r].pc = "check" /\ request'[r].record = x /\ UNCHANGED value
      /\ \A q \in Requests \ {r} : request'[q] = request[q]
      /\ ~Exists(x) => request'[r].sets /\ \A q \in Requests \ {r} : request[q].record # x
  BY DEF Create, Update, IInv, TypeOK
<1>2. RowInv'
  <2>1. Single'
    BY <1>1 DEF IInv, RowInv, Single
  <2>2. ASSUME NEW q \in Requests
        PROVE  Placed(q)'
    BY <1>1, <2>2 DEF IInv, RowInv, Placed, Works, Exists, Working
  <2> QED  BY <2>1, <2>2 DEF RowInv
<1>3. ValueInv'
  BY <1>1 DEF IInv, ValueInv, Unique, Own, Passed, Exists
<1> QED  BY <1>2, <1>3

LEMMA AmendKeeps ==
  ASSUME IInv, NEW r \in Requests, NEW x \in Records, Amend(r, x)
  PROVE  RowInv' /\ ValueInv'
<1>1. /\ request'[r].pc = "lock" /\ request'[r].record = x /\ UNCHANGED value /\ Exists(x)
      /\ \A q \in Requests \ {r} : request'[q] = request[q]
  BY DEF Amend, IInv, TypeOK
<1>2. Single'
  BY <1>1 DEF IInv, RowInv, Single
<1>3. ASSUME NEW q \in Requests
      PROVE  Placed(q)'
  BY <1>1, <1>3 DEF IInv, RowInv, Placed, Works, Exists, Working
<1>4. ValueInv'
  BY <1>1 DEF IInv, ValueInv, Unique, Own, Passed, Exists
<1> QED  BY <1>2, <1>3, <1>4 DEF RowInv

\* A row is locked by one update at a time.
LEMMA LockKeeps ==
  ASSUME IInv, NEW r \in Requests, Lock(r)
  PROVE  RowInv' /\ ValueInv'
<1>1. /\ request[r].pc = "lock"
      /\ request'[r].pc = IF request[r].sets THEN "insert" ELSE "commit"
      /\ request'[r].record = request[r].record /\ request'[r].sets = request[r].sets
      /\ request'[r].value = request[r].value
      /\ \A q \in Requests \ {r} : request'[q] = request[q]
      /\ UNCHANGED value
  BY DEF Lock, At, Goto, IInv, TypeOK
<1>2. \A q \in Requests : request[q].pc \in {"insert", "commit"} =>
                            request[q].record # request[r].record
  BY DEF Lock, RowFree, Touches
<1>3. Exists(request[r].record)
  BY <1>1 DEF IInv, RowInv, Placed, Works, Working
<1>4. Single'
  BY <1>1, <1>2 DEF IInv, RowInv, Single
<1>5. ASSUME NEW q \in Requests
      PROVE  Placed(q)'
  BY <1>1, <1>3, <1>5 DEF IInv, RowInv, Placed, Works, Exists, Working
<1>6. ValueInv'
  BY <1>1 DEF IInv, ValueInv, Unique, Own, Passed, Exists
<1> QED  BY <1>4, <1>5, <1>6 DEF RowInv

\* A creation goes from the look-up to its insertion, an update to the lock.
LEMMA CheckKeeps ==
  ASSUME IInv, NEW r \in Requests, Check(r)
  PROVE  RowInv' /\ ValueInv'
<1>1. CASE Answer(r, "conflict")
  BY <1>1, EndKeeps DEF Check, Ended
<1>2. CASE Goto(r, IF Exists(request[r].record) THEN "lock" ELSE "insert")
  <2>1. /\ request[r].pc = "check"
        /\ request'[r].pc = IF Exists(request[r].record) THEN "lock" ELSE "insert"
        /\ request'[r].record = request[r].record /\ request'[r].sets = request[r].sets
        /\ \A q \in Requests \ {r} : request'[q] = request[q]
        /\ UNCHANGED value
    BY <1>2 DEF Check, At, Goto, IInv, TypeOK
  <2>2. Placed(r)
    BY DEF IInv, RowInv
  <2>3. Single'
    BY <2>1, <2>2 DEF IInv, RowInv, Single, Placed, Works, Working
  <2>4. ASSUME NEW q \in Requests
        PROVE  Placed(q)'
    BY <2>1, <2>2, <2>4 DEF IInv, RowInv, Placed, Works, Exists, Working
  <2>5. ValueInv'
    BY <2>1 DEF IInv, ValueInv, Unique, Own, Passed, Exists
  <2> QED  BY <2>3, <2>4, <2>5 DEF RowInv
<1> QED  BY <1>1, <1>2 DEF Check

\* What passes the index finds its value nowhere, committed or in doubt.
LEMMA InsertKeeps ==
  ASSUME IInv, NEW r \in Requests, Insert(r)
  PROVE  RowInv' /\ ValueInv'
<1>1. /\ request[r].pc = "insert" /\ request'[r].pc = "commit"
      /\ request'[r].record = request[r].record /\ request'[r].sets = request[r].sets
      /\ request'[r].value = request[r].value
      /\ \A q \in Requests \ {r} : request'[q] = request[q]
      /\ UNCHANGED value
  BY DEF Insert, At, Goto, IInv, TypeOK
<1>2. Placed(r)
  BY DEF IInv, RowInv
<1>3. Single'
  BY <1>1 DEF IInv, RowInv, Single
<1>4. ASSUME NEW q \in Requests
      PROVE  Placed(q)'
  BY <1>1, <1>2, <1>4 DEF IInv, RowInv, Placed, Works, Exists, Working
<1>5. /\ \A y \in Records \ {request[r].record} : value[y] # request[r].value
      /\ \A q \in Requests \ {r} : Passed(q) => request[q].value # request[r].value
  BY DEF Insert, InDoubt, InDoubtBy, Taken, Others, Passed, At
<1>6. ASSUME NEW q \in Requests
      PROVE  Own(q)'
  BY <1>1, <1>5, <1>6 DEF IInv, ValueInv, Own, Passed
<1>7. Unique'
  BY <1>1 DEF IInv, ValueInv, Unique, Exists
<1> QED  BY <1>3, <1>4, <1>5, <1>6, <1>7 DEF RowInv, ValueInv

\* A commit makes the value the record's, which no other record has.
LEMMA CommitKeeps ==
  ASSUME IInv, NEW r \in Requests, Commit(r)
  PROVE  RowInv' /\ ValueInv'
<1>1. PICK told \in {"done", "failed"} : Answer(r, told)
  BY DEF Commit
<1>2. CASE ~request[r].sets
  <2>1. UNCHANGED value
    BY <1>2 DEF Commit, Written
  <2> QED  BY <1>1, <2>1, EndKeeps DEF Ended
<1>3. CASE request[r].sets
  <2> DEFINE x == request[r].record
             v == request[r].value
  <2>1. /\ request'[r].pc = told /\ request'[r].record = Absent
        /\ \A q \in Requests \ {r} : request'[q] = request[q]
    BY <1>1 DEF IInv, TypeOK, Answer, End
  <2>2. x \in Records /\ v \in Values /\ request[r].pc = "commit"
    BY DEF Commit, At, IInv, CleanInv, Clean, Working
  <2>3. /\ value'[x] = v /\ \A y \in Records \ {x} : value'[y] = value[y]
    BY <1>3, <2>2 DEF Commit, Written, IInv, TypeOK
  <2>4. Own(r) /\ Passed(r)
    BY <1>3, <2>2 DEF IInv, ValueInv, Passed
  <2>5. Single'
    BY <2>1 DEF IInv, RowInv, Single
  <2>6. ASSUME NEW q \in Requests
        PROVE  Placed(q)'
    <3>1. \A y \in Records : Exists(y) => Exists(y)'
      BY <2>2, <2>3 DEF Exists
    <3>2. Placed(q) /\ Clean(q)
      BY DEF IInv, RowInv, CleanInv
    <3>3. CASE q = r
      BY <1>1, <2>1, <3>3 DEF Placed, Works, Working
    <3>4. CASE q # r
      BY <2>1, <2>2, <3>1, <3>2, <3>4 DEF Placed, Works, Clean
    <3> QED  BY <3>3, <3>4
  <2>7. Unique'
    BY <2>2, <2>3, <2>4 DEF IInv, ValueInv, Unique, Own, Exists
  <2>8. ASSUME NEW q \in Requests
        PROVE  Own(q)'
    <3>1. CASE q = r
      BY <1>1, <2>1, <3>1 DEF Own, Passed
    <3>2. CASE q # r
      <4>1. Own(q)
        BY DEF IInv, ValueInv
      <4>2. Passed(q) => request[q].record # x /\ request[q].value # v
        BY <2>2, <2>4, <3>2, <4>1 DEF IInv, RowInv, Single, Passed, Own
      <4>3. ASSUME Passed(q)'
            PROVE  \A y \in Records \ {request[q].record} : value'[y] # request[q].value
        BY <2>1, <2>3, <3>2, <4>1, <4>2, <4>3 DEF Own, Passed
      <4> QED  BY <1>1, <2>1, <3>2, <4>1, <4>3 DEF Own, Passed
    <3> QED  BY <3>1, <3>2
  <2> QED  BY <2>5, <2>6, <2>7, <2>8 DEF RowInv, ValueInv
<1> QED  BY <1>2, <1>3

LEMMA Inductive == IInv /\ [Next]_vars => IInv'
<1> SUFFICES ASSUME IInv, [Next]_vars
             PROVE  RowInv' /\ ValueInv'
  BY TypeStep DEF IInv
<1>1. ASSUME NEW r \in Requests, Violation(r) \/ Lose(r) \/ Deadlock(r) \/ NoUpdate(r)
      PROVE  RowInv' /\ ValueInv'
  BY <1>1, EndKeeps DEF Violation, Lose, Deadlock, NoUpdate, Ended
<1>2. CASE UNCHANGED vars
  BY <1>2 DEF vars, IInv, RowInv, Single, Placed, Works, ValueInv, Unique, Own, Passed, Exists
<1> QED  BY <1>1, <1>2, BeginKeeps, AmendKeeps, CheckKeeps, LockKeeps, InsertKeeps, CommitKeeps
         DEF Next, Step

\* No two records have one value, whatever creations and updates race.
THEOREM ValuesAreUnique == Spec => []Unique
<1>1. IInv => Unique
  BY DEF IInv, ValueInv
<1> QED  BY <1>1, Initially, Inductive, PTL DEF Spec
-----------------------------------------------------------------------------
(* Circles of waiting statements *)

\* Who is in a circle waits to enter the index, with a row others wait for.
LEMMA CirclesEnter ==
  ASSUME NEW S \in SUBSET Requests, Circle(S), NEW q \in S
  PROVE  At(q, "insert")
<1>1. At(q, "lock") \/ At(q, "insert")
  BY DEF Circle, WaitsFor
<1>2. PICK r \in S : WaitsFor(r, q)
  BY DEF Circle
<1>3. At(q, "commit") \/ request[q].pc \in {"insert", "commit"}
  BY <1>2 DEF WaitsFor, InDoubtBy, Touches
<1> QED  BY <1>1, <1>3 DEF At

\* Who waits there for another of its circle waits for the value of the other's row.
LEMMA CirclesWant ==
  ASSUME NEW S \in SUBSET Requests, Circle(S), NEW q \in S, NEW r \in S, WaitsFor(r, q)
  PROVE  q # r /\ value[request[q].record] = request[r].value
<1>1. At(q, "insert") /\ At(r, "insert")
  BY CirclesEnter
<1> QED  BY <1>1 DEF WaitsFor, InDoubtBy, Touches, At

\* Statements wait in a circle only where updates exchange values: no creation and
\* no update that leaves the value alone is ever failed for a deadlock.
THEOREM OnlyExchangesCircle == Spec => []CirclesExchange
<1>1. TypeOK /\ CleanInv => CirclesExchange
  <2> SUFFICES ASSUME TypeOK, CleanInv, NEW S \in SUBSET Requests, Circle(S), NEW r \in S
               PROVE  /\ At(r, "insert") /\ Exists(request[r].record)
                      /\ \E q \in S \ {r} : value[request[q].record] = request[r].value
    BY DEF CirclesExchange
  <2>1. PICK q \in S : WaitsFor(r, q)
    BY DEF Circle
  <2>2. PICK w \in S : WaitsFor(w, r)
    BY DEF Circle
  <2>3. request[w].value \in Values
    BY CirclesEnter DEF At, CleanInv, Clean, Working
  <2>4. Exists(request[r].record)
    BY <2>2, <2>3, CirclesWant DEF Exists
  <2> QED  BY <2>1, <2>4, CirclesEnter, CirclesWant
<1> QED  BY <1>1, TypeInit, CleanInit, TypeStep, PTL DEF Spec
-----------------------------------------------------------------------------
(* UniqueRecords implements UniqueContract *)

USE DEF Stage, Wants

LEMMA ContractInit == Init => Contract!Init
  BY DEF Init, Contract!Init, End, Ended

\* A request that goes on is for its caller what it was.
LEMMA GoingOn ==
  ASSUME IInv, NEW r \in Requests, NEW step \in Working, request[r].pc \in Working,
         Goto(r, step), UNCHANGED value
  PROVE  UNCHANGED Contract!vars
<1>1. \A q \in Requests : Stage(q)' = Stage(q) /\ Wants(q)' = Wants(q)
  BY DEF Goto, IInv, TypeOK, Ended, Working
<1> QED  BY <1>1 DEF Contract!vars

\* A request that ends is answered.
LEMMA Ending ==
  ASSUME IInv, NEW r \in Requests, NEW told \in Ended, Answer(r, told)
  PROVE  Contract!Answer(r, told)
<1>1. Stage(r)' = told /\ Wants(r)' = Absent
  BY DEF Answer, End, IInv, TypeOK
<1>2. \A q \in Requests \ {r} : Stage(q)' = Stage(q) /\ Wants(q)' = Wants(q)
  BY DEF Answer, IInv, TypeOK
<1> QED  BY <1>1, <1>2 DEF Contract!Answer

LEMMA Submitting ==
  ASSUME IInv, NEW r \in Requests, NEW x \in Records, NEW s \in Spellings,
         Create(r, x, s) \/ Update(r, x, s)
  PROVE  Contract!Submit(r, x, Stored[s])
<1>1. /\ Stage(r)' = IF value[x] = Stored[s] THEN "matched" ELSE "pending"
      /\ Wants(r)' = <<x, Stored[s]>> /\ UNCHANGED value /\ request[r].pc \in Ended
  <2>1. /\ request'[r].pc = "check" /\ request'[r].record = x
        /\ request'[r].value = Stored[s] /\ request'[r].sets = (Stored[s] # value[x])
        /\ UNCHANGED value /\ request[r].pc \in Ended
    <3>1. CASE Create(r, x, s)
      <4>1. Stored[s] \in Values
        OBVIOUS
      <4>2. Stored[s] # value[x]
        BY <3>1, <4>1 DEF Create, Exists
      <4> QED  BY <3>1, <4>2 DEF Create, Normalized, IInv, TypeOK
    <3>2. CASE Update(r, x, s)
      BY <3>2 DEF Update, Normalized, IInv, TypeOK
    <3> QED  BY <3>1, <3>2
  <2> QED  BY <2>1 DEF Ended
<1>2. \A q \in Requests \ {r} : Stage(q)' = Stage(q) /\ Wants(q)' = Wants(q)
  BY DEF Create, Update, IInv, TypeOK
<1> QED  BY <1>1, <1>2 DEF Contract!Submit, Contract!Ended, Ended

LEMMA Amending ==
  ASSUME IInv, NEW r \in Requests, NEW x \in Records, Amend(r, x)
  PROVE  Contract!Next
<1>1. /\ request'[r].pc = "lock" /\ request'[r].record = x /\ request'[r].value = value[x]
      /\ ~request'[r].sets /\ UNCHANGED value /\ request[r].pc \in Ended
      /\ value[x] \in Values
  BY DEF Amend, Exists, IInv, TypeOK
<1>2. Stage(r)' = "matched" /\ Wants(r)' = <<x, value[x]>>
  BY <1>1 DEF Ended
<1>3. \A q \in Requests \ {r} : Stage(q)' = Stage(q) /\ Wants(q)' = Wants(q)
  BY DEF Amend, IInv, TypeOK
<1>4. PICK v \in Values : v = value[x]
  BY <1>1
<1>5. Contract!Submit(r, x, v)
  BY <1>1, <1>2, <1>3, <1>4 DEF Contract!Submit, Contract!Ended, Ended
<1> QED  BY <1>5 DEF Contract!Next

LEMMA Refusing ==
  ASSUME IInv, NEW r \in Requests, request[r].pc \in Working,
         Taken(request[r].value, request[r].record), Answer(r, "conflict"), UNCHANGED value
  PROVE  Contract!Refuse(r)
<1>1. /\ Stage(r) \in {"pending", "matched"}
      /\ Wants(r) = <<request[r].record, request[r].value>>
      /\ request[r].record \in Records /\ request[r].value \in Values
  BY DEF IInv, CleanInv, Clean, Working, Ended
<1>2. Contract!HasIt(request[r].value, request[r].record)
  BY DEF Taken, Others, Contract!HasIt
<1>3. Contract!Answer(r, "conflict")
  BY Ending DEF Ended
<1> QED  BY <1>1, <1>2, <1>3 DEF Contract!Refuse

LEMMA Failing ==
  ASSUME IInv, NEW r \in Requests, request[r].pc \in Working, Answer(r, "failed"),
         UNCHANGED value
  PROVE  Contract!Fail(r)
<1>1. Stage(r) \notin Contract!Ended
  BY DEF Working, Ended, Contract!Ended
<1>2. Contract!Answer(r, "failed")
  BY Ending DEF Ended
<1> QED  BY <1>1, <1>2 DEF Contract!Fail

LEMMA Committing ==
  ASSUME IInv, NEW r \in Requests, Commit(r)
  PROVE  Contract!Take(r) \/ Contract!Match(r) \/ Contract!Fail(r)
<1>1. PICK told \in {"done", "failed"} : Answer(r, told)
  BY DEF Commit
<1>2. Contract!Answer(r, told)
  BY <1>1, Ending DEF Ended
<1>3. /\ request[r].pc = "commit"
      /\ request[r].record \in Records /\ request[r].value \in Values
  BY DEF Commit, At, IInv, CleanInv, Clean, Working
<1>4. CASE request[r].sets
  <2>1. Stage(r) = "pending" /\ Wants(r) = <<request[r].record, request[r].value>>
    BY <1>3, <1>4 DEF Ended
  <2>2. ~Contract!HasIt(request[r].value, request[r].record)
    BY <1>3, <1>4 DEF IInv, ValueInv, Own, Passed, Contract!HasIt
  <2>3. value' = [value EXCEPT ![request[r].record] = request[r].value]
    BY <1>4 DEF Commit, Written
  <2> QED  BY <1>2, <1>3, <2>1, <2>2, <2>3 DEF Contract!Take
<1>5. CASE ~request[r].sets
  <2>1. Stage(r) = "matched" /\ UNCHANGED value
    BY <1>3, <1>5 DEF Ended, Commit, Written
  <2>2. CASE told = "done"
    BY <1>2, <2>1, <2>2 DEF Contract!Match
  <2>3. CASE told = "failed"
    BY <1>2, <2>1, <2>3 DEF Contract!Fail, Contract!Ended
  <2> QED  BY <2>2, <2>3
<1> QED  BY <1>4, <1>5

\* An update that changes nothing matches, or its answer is lost.
LEMMA Matching ==
  ASSUME IInv, NEW r \in Requests, NoUpdate(r)
  PROVE  Contract!Match(r) \/ Contract!Fail(r)
<1>1. PICK told \in {"done", "failed"} : Answer(r, told)
  BY DEF NoUpdate
<1>2. Contract!Answer(r, told)
  BY <1>1, Ending DEF Ended
<1>3. Stage(r) = "matched" /\ UNCHANGED value
  BY DEF NoUpdate, At, Ended
<1>4. CASE told = "done"
  BY <1>2, <1>3, <1>4 DEF Contract!Match
<1>5. CASE told = "failed"
  BY <1>2, <1>3, <1>5 DEF Contract!Fail, Contract!Ended
<1> QED  BY <1>4, <1>5

LEMMA ContractStep == IInv /\ [Next]_vars => [Contract!Next]_(Contract!vars)
<1> SUFFICES ASSUME IInv, [Next]_vars
             PROVE  Contract!Next \/ UNCHANGED Contract!vars
  OBVIOUS
<1>1. ASSUME NEW r \in Requests, NEW x \in Records, NEW s \in Spellings,
             Create(r, x, s) \/ Update(r, x, s)
      PROVE  Contract!Next
  BY <1>1, Submitting, Stored[s] \in Values DEF Contract!Next
<1>2. ASSUME NEW r \in Requests, Check(r)
      PROVE  Contract!Next \/ UNCHANGED Contract!vars
  <2>1. request[r].pc \in Working /\ "lock" \in Working /\ "insert" \in Working
    BY <1>2 DEF Check, At, Working
  <2>2. CASE Found(r) /\ Answer(r, "conflict")
    BY <1>2, <2>1, <2>2, Refusing DEF Check, Found, Contract!Next
  <2>3. CASE Goto(r, IF Exists(request[r].record) THEN "lock" ELSE "insert")
    BY <1>2, <2>1, <2>3, GoingOn DEF Check
  <2> QED  BY <1>2, <2>2, <2>3 DEF Check
<1>3. ASSUME NEW r \in Requests, Lock(r) \/ Insert(r)
      PROVE  UNCHANGED Contract!vars
  <2>1. request[r].pc \in Working /\ "commit" \in Working /\ "insert" \in Working
    BY <1>3 DEF Lock, Insert, At, Working
  <2> QED  BY <1>3, <2>1, GoingOn DEF Lock, Insert
<1>4. ASSUME NEW r \in Requests, Violation(r)
      PROVE  Contract!Next
  BY <1>4, Refusing DEF Violation, At, Working, Contract!Next
<1>5. ASSUME NEW r \in Requests, Lose(r) \/ Deadlock(r)
      PROVE  Contract!Next
  BY <1>5, Failing, VictimWorks DEF Lose, Deadlock, Contract!Next
<1>6. ASSUME NEW r \in Requests, Commit(r)
      PROVE  Contract!Next
  BY <1>6, Committing DEF Contract!Next
<1>7. ASSUME NEW r \in Requests, NEW x \in Records, Amend(r, x)
      PROVE  Contract!Next
  BY <1>7, Amending
<1>8. ASSUME NEW r \in Requests, NoUpdate(r)
      PROVE  Contract!Next
  BY <1>8, Matching DEF Contract!Next
<1>9. CASE UNCHANGED vars
  BY <1>9 DEF vars, Contract!vars
<1> QED  BY <1>1, <1>2, <1>3, <1>4, <1>5, <1>6, <1>7, <1>8, <1>9 DEF Next, Step

\* Every request takes effect in one step or not at all, and is told a conflict only
\* while another record has the value.
THEOREM RequestsAreAtomic == Spec => ContractHolds
<1> QED  BY Initially, Inductive, ContractInit, ContractStep, PTL
         DEF Spec, ContractHolds, Contract!Spec
=============================================================================
