--------------------- MODULE IdempotentSubmissionProofs ---------------------
(***************************************************************************)
(* Proofs that one key has one effect and that the answers tell of it, for *)
(* any number of submissions, keys and contents.                           *)
(*                                                                         *)
(* None of the properties is inductive alone.  Inv adds where the rows of  *)
(* open transactions stand (OpenInv), that keys are distinct among all     *)
(* rows, committed or open (KeyInv), what a winner has committed before it *)
(* answers (WinnerInv), that a loser has a winner's row to read            *)
(* (LoserInv), and that nobody is answered early (WaitingInv).             *)
(***************************************************************************)
EXTENDS IdempotentSubmission, TLAPS

\* An open row belongs to a request about to commit, and such a request has one.
OpenInv ==
  /\ \A x \in inserted : At(x.resource, "commit") /\ x = RowOf(x.resource)
  /\ \A s \in Submissions : At(s, "commit") => RowOf(s) \in inserted
KeyInv == \A x, y \in rows \cup inserted : x.key = y.key => x = y
WinnerInv == \A s \in Submissions : At(s, "respond") => RowOf(s) \in rows
LoserInv == \A s \in Submissions :
  At(s, "rollback") \/ At(s, "reread") => SameKey(s) # {}
WaitingInv == \A s \in Submissions : At(s, "answered") \/ answer[s] = Waiting
Inv == /\ TypeOK /\ OpenInv /\ KeyInv /\ WinnerInv /\ LoserInv /\ WaitingInv
       /\ AnswersAgree /\ NoErrors

\* What a request in flight is, and what a step of its program counter makes of it.
LEMMA InFlightRequest ==
  ASSUME TypeOK, NEW s \in Submissions, submission[s].pc # "idle"
  PROVE  submission[s] \in Request
BY DEF TypeOK, NoRequest

LEMMA GoToEffect ==
  ASSUME TypeOK, NEW s \in Submissions, submission[s].pc # "idle",
         NEW pc \in InFlight \cup {"answered"}, GoTo(s, pc)
  PROVE  /\ submission' \in [Submissions -> Request \cup {NoRequest}]
         /\ submission'[s] = [pc |-> pc, key |-> submission[s].key, hash |-> submission[s].hash]
         /\ \A o \in Submissions : o # s => submission'[o] = submission[o]
<1>1. submission[s] \in Request
  BY InFlightRequest
<1>2. [submission[s] EXCEPT !.pc = pc]
        = [pc |-> pc, key |-> submission[s].key, hash |-> submission[s].hash]
  BY <1>1 DEF Request
<1>3. submission[s].key \in Keys /\ submission[s].hash \in Hashes
  BY <1>1 DEF Request
<1>4. submission' = [submission EXCEPT ![s] =
                       [pc |-> pc, key |-> submission[s].key, hash |-> submission[s].hash]]
  BY <1>2 DEF GoTo
<1>5. [pc |-> pc, key |-> submission[s].key, hash |-> submission[s].hash] \in Request
  BY <1>3 DEF Request
<1> QED
  BY <1>4, <1>5 DEF TypeOK

LEMMA RowOfType ==
  ASSUME TypeOK, NEW s \in Submissions, submission[s].pc # "idle"
  PROVE  RowOf(s) \in Row
<1>1. submission[s] \in Request
  BY InFlightRequest
<1> QED
  BY <1>1 DEF RowOf, Row, Request

\* What the rest of the state says of a request does not change with the steps of
\* another.
LEMMA OthersKeep ==
  ASSUME NEW o \in Submissions, submission'[o] = submission[o]
  PROVE  /\ RowOf(o)' = RowOf(o)
         /\ \A pc : At(o, pc)' <=> At(o, pc)
BY DEF RowOf, At

-----------------------------------------------------------------------------
(* The steps of a request, by what they do to the rows *)

\* A step that only moves on, to where nothing has been written.
LEMMA MoveKeeps ==
  ASSUME Inv, NEW s \in Submissions,
         submission[s].pc \in {"check", "validate", "insert", "rollback"},
         NEW pc \in {"validate", "insert", "rollback", "reread"}, GoTo(s, pc),
         pc \in {"rollback", "reread"} => SameKey(s) # {},
         UNCHANGED <<rows, inserted, answer>>
  PROVE  Inv'
<1> USE DEF Inv
<1>1. /\ submission' \in [Submissions -> Request \cup {NoRequest}]
      /\ submission'[s] = [pc |-> pc, key |-> submission[s].key, hash |-> submission[s].hash]
      /\ \A o \in Submissions : o # s => submission'[o] = submission[o]
  BY GoToEffect DEF InFlight
<1>2. TypeOK'
  BY <1>1 DEF TypeOK
<1>3. RowOf(s)' = RowOf(s) /\ SameKey(s)' = SameKey(s) /\ submission'[s].pc = pc
  BY <1>1 DEF RowOf, SameKey
<1>4. \A o \in Submissions : RowOf(o)' = RowOf(o) /\ SameKey(o)' = SameKey(o)
  BY <1>1, <1>3 DEF RowOf, SameKey
<1>5. \A o \in Submissions : At(o, "commit")' <=> At(o, "commit")
  BY <1>1, <1>3 DEF At
<1>6. OpenInv'
  <2>1. \A x \in inserted : x.resource \in Submissions
    BY DEF TypeOK, Row
  <2> QED
    BY <1>4, <1>5, <2>1 DEF OpenInv
<1>7. KeyInv'
  BY DEF KeyInv
<1>8. WinnerInv'
  BY <1>1, <1>3, <1>4 DEF WinnerInv, At
<1>9. LoserInv'
  BY <1>1, <1>3, <1>4 DEF LoserInv, At
<1>10. AnswersAgree'
  BY <1>1 DEF AnswersAgree
<1>11. NoErrors'
  BY DEF NoErrors
<1>12. WaitingInv'
  BY <1>1 DEF WaitingInv, At
<1> QED
  BY <1>2, <1>6, <1>7, <1>8, <1>9, <1>10, <1>11, <1>12

\* A step that answers, with a committed row or with none, and undoes what is open.
LEMMA TellKeeps ==
  ASSUME Inv, NEW s \in Submissions, submission[s].pc \in InFlight,
         NEW code \in Codes \ {"error", "waiting"}, NEW resource \in Submissions \cup {Unbound},
         Tell(s, code, resource),
         code \in {"created", "replayed"} =>
           [key |-> submission[s].key, hash |-> submission[s].hash, resource |-> resource]
             \in rows,
         inserted' = inserted \ {RowOf(s)}, UNCHANGED rows
  PROVE  Inv'
<1> USE DEF Inv
<1>1. /\ submission' \in [Submissions -> Request \cup {NoRequest}]
      /\ submission'[s] = [pc |-> "answered", key |-> submission[s].key,
                           hash |-> submission[s].hash]
      /\ \A o \in Submissions : o # s => submission'[o] = submission[o]
  <2>1. submission[s].pc # "idle" /\ GoTo(s, "answered")
    BY DEF Tell, InFlight
  <2> QED
    BY <2>1, GoToEffect DEF InFlight
<1>2. answer' = [answer EXCEPT ![s] = [code |-> code, resource |-> resource]]
  BY DEF Tell
<1>3. TypeOK'
  <2>1. [code |-> code, resource |-> resource] \in Answer
    BY DEF Answer
  <2> QED
    BY <1>1, <1>2, <2>1 DEF TypeOK
<1>4. \A o \in Submissions : RowOf(o)' = RowOf(o) /\ SameKey(o)' = SameKey(o)
  BY <1>1 DEF RowOf, SameKey
<1>5. OpenInv'
  <2>1. \A x \in inserted' : x.resource \in Submissions /\ x.resource # s
    BY DEF OpenInv, TypeOK, Row
  <2>2. ASSUME NEW o \in Submissions, At(o, "commit")'
        PROVE  RowOf(o)' \in inserted'
    <3>1. o # s /\ At(o, "commit")
      BY <1>1, <2>2 DEF At
    <3>2. RowOf(o) # RowOf(s)
      BY <3>1 DEF RowOf
    <3> QED
      BY <1>4, <3>1, <3>2 DEF OpenInv
  <2>3. ASSUME NEW x \in inserted'
        PROVE  At(x.resource, "commit")' /\ x = RowOf(x.resource)'
    <3>1. x \in inserted /\ x.resource \in Submissions /\ x.resource # s
      BY <2>1
    <3>2. At(x.resource, "commit") /\ x = RowOf(x.resource)
      BY <3>1 DEF OpenInv
    <3> QED
      BY <1>1, <1>4, <3>1, <3>2 DEF At
  <2> QED
    BY <2>2, <2>3 DEF OpenInv
<1>6. KeyInv'
  BY DEF KeyInv
<1>7. WinnerInv'
  BY <1>1, <1>4 DEF WinnerInv, At
<1>8. LoserInv'
  BY <1>1, <1>4 DEF LoserInv, At
<1>9. AnswersAgree'
  <2>1. ASSUME NEW o \in Submissions, answer'[o].code \in {"created", "replayed"}
        PROVE  [key |-> submission'[o].key, hash |-> submission'[o].hash,
                resource |-> answer'[o].resource] \in rows'
    <3>1. CASE o = s
      BY <1>1, <1>2, <2>1, <3>1 DEF TypeOK
    <3>2. CASE o # s
      BY <1>1, <1>2, <2>1, <3>2 DEF TypeOK, AnswersAgree
    <3> QED
      BY <3>1, <3>2
  <2> QED
    BY <2>1 DEF AnswersAgree
<1>10. NoErrors'
  BY <1>2 DEF NoErrors, TypeOK
<1>11. WaitingInv'
  BY <1>1, <1>2 DEF WaitingInv, At, TypeOK
<1> QED
  BY <1>3, <1>5, <1>6, <1>7, <1>8, <1>9, <1>10, <1>11

\* An answer read from a row of the key: the same content gets its resource.
LEMMA ReplayKeeps ==
  ASSUME Inv, NEW s \in Submissions, submission[s].pc \in InFlight \ {"commit"},
         NEW row \in SameKey(s), Replay(s, row), UNCHANGED <<rows, inserted>>
  PROVE  Inv'
<1>1. row \in rows /\ row \in Row /\ row.key = submission[s].key
  BY DEF SameKey, Inv, TypeOK
<1>2. row = [key |-> row.key, hash |-> row.hash, resource |-> row.resource]
      /\ row.resource \in Submissions
  BY <1>1 DEF Row
<1>3. inserted' = inserted \ {RowOf(s)}
  <2>1. RowOf(s) \notin inserted
    BY DEF Inv, OpenInv, RowOf, At
  <2> QED
    BY <2>1
<1>4. CASE row.hash = submission[s].hash
  <2>1. Tell(s, "replayed", row.resource)
    BY <1>4 DEF Replay
  <2> QED
    BY <1>1, <1>2, <1>3, <1>4, <2>1, TellKeeps DEF Codes
<1>5. CASE row.hash # submission[s].hash
  <2>1. Tell(s, "conflict", Unbound)
    BY <1>5 DEF Replay
  <2> QED
    BY <1>3, <2>1, TellKeeps DEF Codes
<1> QED
  BY <1>4, <1>5

-----------------------------------------------------------------------------
(* The other steps *)

LEMMA SubmitKeeps ==
  ASSUME Inv, NEW s \in Submissions, NEW k \in Keys, NEW h \in Hashes, Submit(s, k, h)
  PROVE  Inv'
<1> USE DEF Inv
<1>1. /\ submission[s].pc = "idle" /\ UNCHANGED <<rows, inserted, answer>>
      /\ submission' = [submission EXCEPT ![s] = [pc |-> "check", key |-> k, hash |-> h]]
  BY DEF Submit, At
<1>2. /\ submission' \in [Submissions -> Request \cup {NoRequest}]
      /\ submission'[s] = [pc |-> "check", key |-> k, hash |-> h]
      /\ \A o \in Submissions : o # s => submission'[o] = submission[o]
  BY <1>1 DEF TypeOK, Request, InFlight
<1>3. TypeOK'
  BY <1>1, <1>2 DEF TypeOK
<1>4. \A o \in Submissions : o # s => RowOf(o)' = RowOf(o) /\ SameKey(o)' = SameKey(o)
  BY <1>1, <1>2 DEF RowOf, SameKey
<1>5. OpenInv'
  <2>1. \A x \in inserted : x.resource \in Submissions /\ x.resource # s
    BY <1>1 DEF OpenInv, TypeOK, Row, At
  <2> QED
    BY <1>1, <1>2, <1>4, <2>1 DEF OpenInv, At
<1>6. KeyInv'
  BY <1>1 DEF KeyInv
<1>7. WinnerInv'
  BY <1>1, <1>2, <1>4 DEF WinnerInv, At
<1>8. LoserInv'
  BY <1>1, <1>2, <1>4 DEF LoserInv, At
<1>9. AnswersAgree'
  <2>1. \A o \in Submissions : answer[o].code \in {"created", "replayed"} => o # s
    BY <1>1 DEF WaitingInv, At, Waiting
  <2> QED
    BY <1>1, <1>2, <2>1 DEF AnswersAgree
<1>10. NoErrors'
  BY <1>1 DEF NoErrors
<1>11. WaitingInv'
  BY <1>1, <1>2 DEF WaitingInv, At
<1> QED
  BY <1>3, <1>5, <1>6, <1>7, <1>8, <1>9, <1>10, <1>11

\* The insertion finds the key free among the rows of everybody.
LEMMA InsertKeeps ==
  ASSUME Inv, NEW s \in Submissions, Insert(s)
  PROVE  Inv'
<1> USE DEF Inv
<1>1. /\ submission[s].pc = "insert" /\ UNCHANGED <<rows, answer>>
      /\ inserted' = inserted \cup {RowOf(s)} /\ GoTo(s, "commit")
      /\ \A x \in rows \cup inserted : x.key # submission[s].key
  BY DEF Insert, At, Unique, SameKey
<1>2. /\ submission' \in [Submissions -> Request \cup {NoRequest}]
      /\ submission'[s] = [pc |-> "commit", key |-> submission[s].key,
                           hash |-> submission[s].hash]
      /\ \A o \in Submissions : o # s => submission'[o] = submission[o]
  BY <1>1, GoToEffect DEF InFlight
<1>3. RowOf(s) \in Row /\ RowOf(s).resource = s /\ RowOf(s).key = submission[s].key
  BY <1>1, RowOfType DEF RowOf
<1>4. TypeOK'
  BY <1>1, <1>2, <1>3 DEF TypeOK
<1>5. \A o \in Submissions : RowOf(o)' = RowOf(o) /\ SameKey(o)' = SameKey(o)
  BY <1>1, <1>2 DEF RowOf, SameKey
<1>6. OpenInv'
  <2>1. \A o \in Submissions : At(o, "commit")' => RowOf(o)' \in inserted'
    BY <1>1, <1>2, <1>5 DEF OpenInv, At
  <2>2. ASSUME NEW x \in inserted'
        PROVE  At(x.resource, "commit")' /\ x = RowOf(x.resource)'
    <3>1. CASE x = RowOf(s)
      BY <1>2, <1>3, <1>5, <3>1 DEF At
    <3>2. CASE x \in inserted
      <4>1. x.resource \in Submissions /\ At(x.resource, "commit") /\ x = RowOf(x.resource)
        BY <3>2 DEF OpenInv, TypeOK, Row
      <4>2. x.resource # s
        BY <1>1, <4>1 DEF At
      <4> QED
        BY <1>2, <1>5, <4>1, <4>2 DEF At
    <3> QED
      BY <1>1, <3>1, <3>2
  <2> QED
    BY <2>1, <2>2 DEF OpenInv
<1>7. KeyInv'
  BY <1>1, <1>3 DEF KeyInv
<1>8. WinnerInv' /\ LoserInv'
  BY <1>1, <1>2, <1>5 DEF WinnerInv, LoserInv, At
<1>9. AnswersAgree'
  BY <1>1, <1>2 DEF AnswersAgree
<1>10. NoErrors' /\ WaitingInv'
  BY <1>1, <1>2 DEF NoErrors, WaitingInv, At
<1> QED
  BY <1>4, <1>6, <1>7, <1>8, <1>9, <1>10

\* The commit makes an open row a committed one.
LEMMA CommitKeeps ==
  ASSUME Inv, NEW s \in Submissions, Commit(s)
  PROVE  Inv'
<1> USE DEF Inv
<1>1. /\ submission[s].pc = "commit" /\ UNCHANGED answer
      /\ rows' = rows \cup {RowOf(s)} /\ inserted' = inserted \ {RowOf(s)}
      /\ GoTo(s, "respond") /\ RowOf(s) \in inserted
  BY DEF Commit, At, OpenInv
<1>2. /\ submission' \in [Submissions -> Request \cup {NoRequest}]
      /\ submission'[s] = [pc |-> "respond", key |-> submission[s].key,
                           hash |-> submission[s].hash]
      /\ \A o \in Submissions : o # s => submission'[o] = submission[o]
  BY <1>1, GoToEffect DEF InFlight
<1>3. TypeOK'
  BY <1>1, <1>2 DEF TypeOK
<1>4. \A o \in Submissions : RowOf(o)' = RowOf(o) /\ RowOf(o).resource = o
  BY <1>2 DEF RowOf
<1>5. \A o \in Submissions : SameKey(o) \subseteq SameKey(o)'
  BY <1>1, <1>2 DEF SameKey
<1>6. OpenInv'
  <2>1. ASSUME NEW o \in Submissions, At(o, "commit")'
        PROVE  RowOf(o)' \in inserted'
    <3>1. o # s /\ At(o, "commit")
      BY <1>2, <2>1 DEF At
    <3> QED
      BY <1>1, <1>4, <3>1 DEF OpenInv
  <2>2. ASSUME NEW x \in inserted'
        PROVE  At(x.resource, "commit")' /\ x = RowOf(x.resource)'
    <3>1. x.resource \in Submissions /\ At(x.resource, "commit") /\ x = RowOf(x.resource)
      BY <1>1 DEF OpenInv, TypeOK, Row
    <3>2. x.resource # s
      BY <1>1, <3>1
    <3> QED
      BY <1>2, <1>4, <3>1, <3>2 DEF At
  <2> QED
    BY <2>1, <2>2 DEF OpenInv
<1>7. KeyInv'
  <2>1. rows' \cup inserted' \subseteq rows \cup inserted
    BY <1>1
  <2> QED
    BY <2>1 DEF KeyInv
<1>8. WinnerInv'
  BY <1>1, <1>2, <1>4 DEF WinnerInv, At
<1>9. LoserInv'
  BY <1>2, <1>5 DEF LoserInv, At
<1>10. AnswersAgree'
  <2>1. \A o \in Submissions : answer[o].code \in {"created", "replayed"} => o # s
    BY <1>1 DEF WaitingInv, At, Waiting
  <2> QED
    BY <1>1, <1>2, <2>1 DEF AnswersAgree
<1>11. NoErrors' /\ WaitingInv'
  BY <1>1, <1>2 DEF NoErrors, WaitingInv, At
<1> QED
  BY <1>3, <1>6, <1>7, <1>8, <1>9, <1>10, <1>11
-----------------------------------------------------------------------------
(* The invariant *)

LEMMA InvInit == Init => Inv
<1> SUFFICES ASSUME Init PROVE Inv
  OBVIOUS
<1> USE DEF Init
<1>1. TypeOK
  BY DEF TypeOK, Waiting, Answer, Codes
<1>2. OpenInv /\ WinnerInv /\ LoserInv
  BY DEF OpenInv, WinnerInv, LoserInv, At, NoRequest
<1>3. KeyInv /\ WaitingInv /\ AnswersAgree /\ NoErrors
  BY DEF KeyInv, WaitingInv, AnswersAgree, NoErrors, Waiting
<1> QED
  BY <1>1, <1>2, <1>3 DEF Inv

\* A request without an open row leaves the open rows alone when it is undone.
LEMMA NothingOpen ==
  ASSUME Inv, NEW s \in Submissions, submission[s].pc # "commit"
  PROVE  inserted = inserted \ {RowOf(s)}
<1>1. RowOf(s) \notin inserted
  BY DEF Inv, OpenInv, RowOf, At
<1> QED
  BY <1>1

LEMMA InvNext == Inv /\ [Next]_vars => Inv'
<1> SUFFICES ASSUME Inv, [Next]_vars PROVE Inv'
  OBVIOUS
<1>1. CASE UNCHANGED vars
  BY <1>1 DEF vars, Inv, TypeOK, OpenInv, KeyInv, WinnerInv, LoserInv, WaitingInv,
     AnswersAgree, NoErrors, At, RowOf, SameKey
<1>2. ASSUME NEW s \in Submissions, NEW k \in Keys, NEW h \in Hashes, Submit(s, k, h)
      PROVE  Inv'
  BY <1>2, SubmitKeeps
<1>3. ASSUME NEW s \in Submissions, Found(s)
      PROVE  Inv'
  BY <1>3, ReplayKeeps DEF Found, At, InFlight
<1>4. ASSUME NEW s \in Submissions, NotFound(s)
      PROVE  Inv'
  BY <1>4, MoveKeeps DEF NotFound, At
<1>5. ASSUME NEW s \in Submissions, Refuse(s)
      PROVE  Inv'
  <2>1. /\ submission[s].pc \in {"validate", "check"}
        /\ Tell(s, "refused", Unbound) /\ UNCHANGED <<rows, inserted>>
    BY <1>5 DEF Refuse, At
  <2>2. inserted' = inserted \ {RowOf(s)}
    BY <2>1, NothingOpen
  <2> QED
    BY <2>1, <2>2, TellKeeps DEF Codes, InFlight
<1>6. ASSUME NEW s \in Submissions, Validate(s)
      PROVE  Inv'
  BY <1>6, MoveKeeps DEF Validate, At
<1>7. ASSUME NEW s \in Submissions, Insert(s)
      PROVE  Inv'
  BY <1>7, InsertKeeps
<1>8. ASSUME NEW s \in Submissions, Violation(s)
      PROVE  Inv'
  \* An open row of the key would be waited for, so the violation is a committed one's.
  <2>1. /\ submission[s].pc = "insert" /\ GoTo(s, "rollback")
        /\ UNCHANGED <<rows, inserted, answer>> /\ SameKey(s) # {}
    BY <1>8 DEF Violation, At, Settled, Unique
  <2> QED
    BY <2>1, MoveKeeps
<1>9. ASSUME NEW s \in Submissions, Commit(s)
      PROVE  Inv'
  BY <1>9, CommitKeeps
<1>10. ASSUME NEW s \in Submissions, Respond(s)
       PROVE  Inv'
  <2>1. /\ submission[s].pc = "respond" /\ Tell(s, "created", s) /\ UNCHANGED <<rows, inserted>>
        /\ RowOf(s) \in rows
    BY <1>10 DEF Respond, At, Inv, WinnerInv
  <2>2. inserted' = inserted \ {RowOf(s)}
    BY <2>1, NothingOpen
  <2> QED
    BY <2>1, <2>2, TellKeeps DEF Codes, InFlight, RowOf
<1>11. ASSUME NEW s \in Submissions, Rollback(s)
       PROVE  Inv'
  <2>1. /\ submission[s].pc = "rollback" /\ GoTo(s, "reread")
        /\ UNCHANGED <<rows, inserted, answer>> /\ SameKey(s) # {}
    BY <1>11 DEF Rollback, At, Inv, LoserInv
  <2> QED
    BY <2>1, MoveKeeps
<1>12. ASSUME NEW s \in Submissions, Reread(s)
       PROVE  Inv'
  <2>1. /\ submission[s].pc = "reread" /\ UNCHANGED <<rows, inserted>>
        /\ \E row \in SameKey(s) : Replay(s, row)
    BY <1>12 DEF Reread, At, Inv, LoserInv
  <2> QED
    BY <2>1, ReplayKeeps DEF InFlight
<1>13. ASSUME NEW s \in Submissions, Lose(s)
       PROVE  Inv'
  BY <1>13, TellKeeps DEF Lose, Undo, Codes
<1> QED
  BY <1>1, <1>2, <1>3, <1>4, <1>5, <1>6, <1>7, <1>8, <1>9, <1>10, <1>11, <1>12, <1>13
  DEF Next, Handle

LEMMA InvHolds == Spec => []Inv
  BY InvInit, InvNext, PTL DEF Spec

\* Requests, rows and answers keep their types.
THEOREM TypesHold == Spec => []TypeOK
<1>1. Inv => TypeOK
  BY DEF Inv
<1> QED
  BY <1>1, InvHolds, PTL

\* A key has one effect, whatever races, repeats or is lost.
THEOREM EffectIsOne == Spec => []OneEffect
<1>1. Inv => OneEffect
  BY DEF Inv, KeyInv, OneEffect
<1> QED
  BY <1>1, InvHolds, PTL

\* Whoever is told of a resource is told of the one committed under his key with
\* his content.
THEOREM AnswersAreTrue == Spec => []AnswersAgree
<1>1. Inv => AnswersAgree
  BY DEF Inv
<1> QED
  BY <1>1, InvHolds, PTL

\* The look-up after a violation always finds the winner's row.
THEOREM LosersAreAnswered == Spec => []NoErrors
<1>1. Inv => NoErrors
  BY DEF Inv
<1> QED
  BY <1>1, InvHolds, PTL

\* An insert that waits, waits for one other request, which is about to commit and
\* waits for nothing itself.
NoWaitCycle ==
  \A s \in Submissions : At(s, "insert") /\ ~Settled(s) =>
    \E owner \in Submissions \ {s} :
      /\ At(owner, "commit") /\ RowOf(owner).key = submission[s].key
      /\ \A x \in inserted : x.key = submission[s].key => x = RowOf(owner)

\* Submissions of one key cannot deadlock on its index entry.
THEOREM OwnersGoOn == Spec => []NoWaitCycle
<1>1. Inv => NoWaitCycle
  <2> SUFFICES ASSUME Inv, NEW s \in Submissions, At(s, "insert"),
                      NEW x \in inserted, x.key = submission[s].key
               PROVE  \E owner \in Submissions \ {s} :
                        /\ At(owner, "commit") /\ RowOf(owner).key = submission[s].key
                        /\ \A y \in inserted : y.key = submission[s].key => y = RowOf(owner)
    BY DEF NoWaitCycle, Settled
  <2>1. x.resource \in Submissions
    BY DEF Inv, TypeOK, Row
  <2>2. At(x.resource, "commit") /\ x = RowOf(x.resource)
    BY DEF Inv, OpenInv
  <2>3. x.resource # s
    BY <2>2 DEF At
  <2>4. \A y \in inserted : y.key = submission[s].key => y = x
    BY DEF Inv, KeyInv
  <2> QED
    BY <2>1, <2>2, <2>3, <2>4
<1> QED
  BY <1>1, InvHolds, PTL
-----------------------------------------------------------------------------
(* The refinement of SubmissionContract *)

\* A committed row is that of a request that has committed it and has not changed.
RowInv == \A x \in rows :
  /\ x = RowOf(x.resource)
  /\ submission[x.resource].pc \in {"respond", "answered"}

\* A step of s that keeps its key and content, and leaves "respond" only to answer.
LEMMA RowsStay ==
  ASSUME Inv, RowInv, NEW s \in Submissions, UNCHANGED rows,
         \A o \in Submissions : o # s => submission'[o] = submission[o],
         submission[s].pc \in {"respond", "answered"} =>
           RowOf(s)' = RowOf(s) /\ submission'[s].pc = "answered"
  PROVE  RowInv'
<1>1. \A x \in rows : x.resource \in Submissions
  BY DEF Inv, TypeOK, Row
<1> QED
  BY <1>1 DEF RowInv, RowOf

\* The steps that only go on.
LEMMA Moving ==
  ASSUME Inv, RowInv, NEW s \in Submissions, submission[s].pc \in InFlight \ {"respond"},
         NEW pc \in InFlight, GoTo(s, pc)
  PROVE  UNCHANGED Submitted /\ (UNCHANGED rows => RowInv')
<1>1. submission[s].pc # "idle" /\ submission[s].pc # "answered"
  BY DEF InFlight
<1>2. /\ submission'[s] = [pc |-> pc, key |-> submission[s].key, hash |-> submission[s].hash]
      /\ \A o \in Submissions : o # s => submission'[o] = submission[o]
  BY <1>1, GoToEffect DEF Inv
<1>3. \A o \in Submissions : At(o, "idle")' <=> At(o, "idle")
  BY <1>1, <1>2 DEF At, InFlight
<1>4. UNCHANGED Submitted
  BY <1>2, <1>3 DEF Submitted
<1> QED
  BY <1>1, <1>2, <1>4, RowsStay

\* The steps that answer: the contract sees the answer and nothing else.
LEMMA Telling ==
  ASSUME Inv, RowInv, NEW s \in Submissions, submission[s].pc \in InFlight,
         NEW code, NEW resource, Tell(s, code, resource), UNCHANGED rows
  PROVE  Contract!Pending(s) /\ Contract!Say(s, code, resource) /\ RowInv'
<1>1. submission[s].pc # "idle" /\ submission[s].pc # "answered" /\ GoTo(s, "answered")
  BY DEF InFlight, Tell
<1>2. /\ submission'[s] = [pc |-> "answered", key |-> submission[s].key,
                           hash |-> submission[s].hash]
      /\ \A o \in Submissions : o # s => submission'[o] = submission[o]
  BY <1>1, GoToEffect DEF Inv
<1>3. \A o \in Submissions : At(o, "idle")' <=> At(o, "idle")
  BY <1>1, <1>2 DEF At
<1>4. UNCHANGED Submitted /\ UNCHANGED Effect
  BY <1>2, <1>3 DEF Submitted, Effect
<1>5. Submitted[s] # Unbound
  <2>1. submission[s].key \in Keys /\ submission[s].hash \in Hashes
    BY <1>1, InFlightRequest DEF Inv, Request
  <2> QED
    BY <1>1, <2>1, UnboundAssumption DEF Submitted, At
<1>6. Contract!Pending(s)
  BY <1>1, <1>5 DEF Contract!Pending, Contract!Waiting, Waiting, Inv, WaitingInv, At
<1>7. Contract!Say(s, code, resource)
  BY <1>4 DEF Contract!Say, Tell
<1>8. RowInv'
  <2>1. RowOf(s)' = RowOf(s)
    BY <1>2 DEF RowOf
  <2> QED
    BY <1>2, <2>1, RowsStay
<1> QED
  BY <1>6, <1>7, <1>8

\* What a key is bound to is what its row says; a key without a row is free.
LEMMA BoundIs ==
  ASSUME Inv, NEW row \in rows
  PROVE  /\ Effect[row.key] = [hash |-> row.hash, resource |-> row.resource]
         /\ Effect[row.key] # Unbound
<1>1. row.key \in Keys /\ row.hash \in Hashes /\ row.resource \in Submissions
  BY DEF Inv, TypeOK, Row
<1>2. \A x \in rows : x.key = row.key => x = row
  BY DEF Inv, KeyInv
<1>3. (CHOOSE x \in rows : x.key = row.key) = row
  BY <1>2
<1>4. Effect[row.key] = [hash |-> row.hash, resource |-> row.resource]
  BY <1>1, <1>3 DEF Effect
<1> QED
  BY <1>1, <1>4, UnboundAssumption

LEMMA SubmittedIs ==
  ASSUME Inv, NEW s \in Submissions, submission[s].pc \in InFlight
  PROVE  /\ Submitted[s] = [key |-> submission[s].key, hash |-> submission[s].hash]
         /\ submission[s].key \in Keys
<1>1. submission[s].pc # "idle"
  BY DEF InFlight
<1>2. submission[s].key \in Keys
  BY <1>1, InFlightRequest DEF Inv, Request
<1> QED
  BY <1>1, <1>2 DEF Submitted, At

\* An answer read from a row is the acceptance or the conflict of the contract.
LEMMA Replaying ==
  ASSUME Inv, RowInv, NEW s \in Submissions, submission[s].pc \in {"check", "reread"},
         NEW row \in SameKey(s), Replay(s, row), UNCHANGED <<rows, inserted>>
  PROVE  (Contract!Accept(s) \/ Contract!Conflict(s)) /\ RowInv'
<1>1. row \in rows /\ row.key = submission[s].key /\ submission[s].pc \in InFlight
  BY DEF SameKey, InFlight
<1>2. Submitted[s] = [key |-> submission[s].key, hash |-> submission[s].hash]
  BY <1>1, SubmittedIs
<1>3. /\ Effect[Submitted[s].key] = [hash |-> row.hash, resource |-> row.resource]
      /\ Effect[Submitted[s].key] # Unbound
      /\ Submitted[s].hash = submission[s].hash
  BY <1>1, <1>2, BoundIs
<1>4. row.resource # s
  BY <1>1 DEF RowInv
<1>5. CASE row.hash = submission[s].hash
  <2>1. Tell(s, "replayed", row.resource)
    BY <1>5 DEF Replay
  <2>2. Contract!Pending(s) /\ Contract!Say(s, "replayed", row.resource) /\ RowInv'
    BY <1>1, <2>1, Telling
  <2> QED
    BY <1>3, <1>4, <1>5, <2>2 DEF Contract!Accept
<1>6. CASE row.hash # submission[s].hash
  <2>1. Tell(s, "conflict", Unbound)
    BY <1>6 DEF Replay
  <2>2. Contract!Pending(s) /\ Contract!Say(s, "conflict", Unbound) /\ RowInv'
    BY <1>1, <2>1, Telling
  <2> QED
    BY <1>3, <1>6, <2>2 DEF Contract!Conflict
<1> QED
  BY <1>5, <1>6

\* The commit is where a submission takes effect: nobody else has the key.
LEMMA TakingEffect ==
  ASSUME Inv, RowInv, NEW s \in Submissions, Commit(s)
  PROVE  Contract!TakeEffect(s) /\ RowInv'
<1>1. /\ submission[s].pc = "commit" /\ submission[s].pc \in InFlight /\ UNCHANGED answer
      /\ rows' = rows \cup {RowOf(s)} /\ GoTo(s, "respond") /\ RowOf(s) \in inserted
  BY DEF Commit, At, Inv, OpenInv, InFlight
<1>2. /\ submission'[s] = [pc |-> "respond", key |-> submission[s].key,
                           hash |-> submission[s].hash]
      /\ \A o \in Submissions : o # s => submission'[o] = submission[o]
  BY <1>1, GoToEffect DEF Inv, InFlight
<1>3. UNCHANGED Submitted
  BY <1>1, Moving DEF InFlight
<1>4. /\ Submitted[s] = [key |-> submission[s].key, hash |-> submission[s].hash]
      /\ submission[s].key \in Keys
  BY <1>1, SubmittedIs
<1>5. RowOf(s).key = submission[s].key /\ RowOf(s).hash = submission[s].hash
      /\ RowOf(s).resource = s
  BY DEF RowOf
<1>6. \A x \in rows : x.key # submission[s].key
  <2>1. RowOf(s) \notin rows
    BY <1>1, <1>5 DEF RowInv
  <2> QED
    BY <1>1, <1>5, <2>1 DEF Inv, KeyInv
<1>7. Effect[submission[s].key] = Unbound
  BY <1>4, <1>6 DEF Effect
<1>8. Effect' = [Effect EXCEPT ![submission[s].key] =
                   [hash |-> submission[s].hash, resource |-> s]]
  <2>1. ASSUME NEW k \in Keys, k # submission[s].key
        PROVE  Effect'[k] = Effect[k]
    <3>1. {x \in rows' : x.key = k} = {x \in rows : x.key = k}
      BY <1>1, <1>5, <2>1
    <3>2. (\E x \in rows' : x.key = k) <=> (\E x \in rows : x.key = k)
      BY <3>1
    <3>3. (CHOOSE x \in rows' : x.key = k) = (CHOOSE x \in rows : x.key = k)
      <4>1. \A x : (x \in rows' /\ x.key = k) <=> (x \in rows /\ x.key = k)
        BY <3>1
      <4> QED
        BY <4>1
    <3> QED
      BY <2>1, <3>2, <3>3 DEF Effect
  <2>2. (CHOOSE x \in rows' : x.key = submission[s].key) = RowOf(s)
    BY <1>1, <1>5, <1>6
  <2>3. Effect'[submission[s].key] = [hash |-> submission[s].hash, resource |-> s]
    BY <1>1, <1>4, <1>5, <2>2 DEF Effect
  <2>4. Effect = [k \in Keys |-> Effect[k]] /\ Effect' = [k \in Keys |-> Effect'[k]]
    BY DEF Effect
  <2> QED
    BY <2>1, <2>3, <2>4
<1>9. Contract!Pending(s)
  <2>1. Submitted[s] # Unbound
    BY <1>1, <1>4, UnboundAssumption, InFlightRequest DEF Inv, Request
  <2> QED
    BY <1>1, <2>1 DEF Contract!Pending, Contract!Waiting, Waiting, Inv, WaitingInv, At
<1>10. Contract!TakeEffect(s)
  BY <1>1, <1>3, <1>4, <1>7, <1>8, <1>9 DEF Contract!TakeEffect
<1>11. RowInv'
  <2>1. \A x \in rows : x.resource \in Submissions /\ x.resource # s
    BY <1>1 DEF RowInv, Inv, TypeOK, Row
  <2>2. \A o \in Submissions : RowOf(o)' = RowOf(o)
    BY <1>2 DEF RowOf
  <2> QED
    BY <1>1, <1>2, <1>5, <2>1, <2>2 DEF RowInv
<1> QED
  BY <1>10, <1>11

LEMMA Submitting ==
  ASSUME Inv, RowInv, NEW s \in Submissions, NEW k \in Keys, NEW h \in Hashes, Submit(s, k, h)
  PROVE  Contract!Submit(s, k, h) /\ RowInv'
<1>1. /\ submission[s].pc = "idle" /\ UNCHANGED <<rows, inserted, answer>>
      /\ submission' = [submission EXCEPT ![s] = [pc |-> "check", key |-> k, hash |-> h]]
      /\ submission \in [Submissions -> Request \cup {NoRequest}]
  BY DEF Submit, At, Inv, TypeOK
<1>2. /\ submission'[s] = [pc |-> "check", key |-> k, hash |-> h]
      /\ \A o \in Submissions : o # s => submission'[o] = submission[o]
  BY <1>1
<1>3. Submitted' = [Submitted EXCEPT ![s] = [key |-> k, hash |-> h]]
  BY <1>1, <1>2 DEF Submitted, At
<1>4. Submitted[s] = Unbound
  BY <1>1 DEF Submitted, At
<1>5. UNCHANGED Effect
  BY <1>1 DEF Effect
<1>6. RowInv'
  BY <1>1, <1>2, RowsStay
<1> QED
  BY <1>1, <1>3, <1>4, <1>5, <1>6 DEF Contract!Submit

\* A refused submission has no row: only one that has committed has.
LEMMA Refusing ==
  ASSUME Inv, RowInv, NEW s \in Submissions, Refuse(s)
  PROVE  Contract!Refuse(s) /\ RowInv'
<1>1. /\ submission[s].pc \in {"validate", "check"} /\ submission[s].pc \in InFlight
      /\ Tell(s, "refused", Unbound) /\ UNCHANGED <<rows, inserted>>
  BY DEF Refuse, At, InFlight
<1>2. Contract!Pending(s) /\ Contract!Say(s, "refused", Unbound) /\ RowInv'
  BY <1>1, Telling
<1>3. ASSUME NEW k \in Keys, Effect[k] # Unbound
      PROVE  Effect[k].resource # s
  <2>1. PICK x \in rows : x.key = k
    BY <1>3 DEF Effect
  <2>2. Effect[k] = [hash |-> x.hash, resource |-> x.resource]
    BY <2>1, BoundIs
  <2> QED
    BY <1>1, <2>2 DEF RowInv
<1> QED
  BY <1>2, <1>3 DEF Contract!Refuse

\* Its own row bears its content, so the answer to a winner is an acceptance.
LEMMA Responding ==
  ASSUME Inv, RowInv, NEW s \in Submissions, Respond(s)
  PROVE  Contract!Accept(s) /\ RowInv'
<1>1. /\ submission[s].pc = "respond" /\ submission[s].pc \in InFlight
      /\ Tell(s, "created", s) /\ UNCHANGED <<rows, inserted>> /\ RowOf(s) \in rows
  BY DEF Respond, At, InFlight, Inv, WinnerInv
<1>2. Contract!Pending(s) /\ Contract!Say(s, "created", s) /\ RowInv'
  BY <1>1, Telling
<1>3. Submitted[s] = [key |-> submission[s].key, hash |-> submission[s].hash]
  BY <1>1, SubmittedIs
<1>4. RowOf(s).key = submission[s].key /\ RowOf(s).hash = submission[s].hash
      /\ RowOf(s).resource = s
  BY DEF RowOf
<1>5. /\ Effect[Submitted[s].key] = [hash |-> submission[s].hash, resource |-> s]
      /\ Effect[Submitted[s].key] # Unbound
      /\ Submitted[s].hash = submission[s].hash
  BY <1>1, <1>3, <1>4, BoundIs
<1> QED
  BY <1>2, <1>5 DEF Contract!Accept

LEMMA ContractInit == Init => Contract!Init /\ RowInv
<1> SUFFICES ASSUME Init PROVE Contract!Init /\ RowInv
  OBVIOUS
<1>1. Submitted = [s \in Submissions |-> Unbound]
  BY DEF Init, Submitted, At, NoRequest
<1>2. Effect = [k \in Keys |-> Unbound]
  BY DEF Init, Effect
<1> QED
  BY <1>1, <1>2 DEF Init, RowInv, Contract!Init, Contract!Waiting, Waiting

\* Every step of the requests is one of the contract or does not show in it.
LEMMA ContractStep == Inv /\ RowInv /\ [Next]_vars => [Contract!Next]_(Contract!cvars) /\ RowInv'
<1> SUFFICES ASSUME Inv, RowInv, [Next]_vars
             PROVE  (Contract!Next \/ UNCHANGED Contract!cvars) /\ RowInv'
  OBVIOUS
<1>1. ASSUME NEW s \in Submissions, NEW k \in Keys, NEW h \in Hashes, Submit(s, k, h)
      PROVE  Contract!Next /\ RowInv'
  BY <1>1, Submitting DEF Contract!Next
<1>2. ASSUME NEW s \in Submissions, Found(s) \/ Reread(s)
      PROVE  Contract!Next /\ RowInv'
  <2>1. /\ submission[s].pc \in {"check", "reread"} /\ UNCHANGED <<rows, inserted>>
        /\ \E row \in SameKey(s) : Replay(s, row)
    BY <1>2 DEF Found, Reread, At, Inv, LoserInv
  <2> QED
    BY <2>1, Replaying DEF Contract!Next
<1>3. ASSUME NEW s \in Submissions,
             NotFound(s) \/ Validate(s) \/ Insert(s) \/ Violation(s) \/ Rollback(s)
      PROVE  UNCHANGED Contract!cvars /\ RowInv'
  <2>1. PICK pc \in InFlight : GoTo(s, pc)
    BY <1>3 DEF NotFound, Validate, Insert, Violation, Rollback, InFlight
  <2>2. submission[s].pc \in InFlight \ {"respond"} /\ UNCHANGED <<rows, answer>>
    BY <1>3 DEF NotFound, Validate, Insert, Violation, Rollback, InFlight, At
  <2>3. UNCHANGED Submitted /\ RowInv'
    BY <2>1, <2>2, Moving
  <2>4. UNCHANGED Effect
    BY <2>2 DEF Effect
  <2> QED
    BY <2>2, <2>3, <2>4 DEF Contract!cvars
<1>4. ASSUME NEW s \in Submissions, Commit(s)
      PROVE  Contract!Next /\ RowInv'
  BY <1>4, TakingEffect DEF Contract!Next
<1>5. ASSUME NEW s \in Submissions, Respond(s)
      PROVE  Contract!Next /\ RowInv'
  BY <1>5, Responding DEF Contract!Next
<1>6. ASSUME NEW s \in Submissions, Refuse(s)
      PROVE  Contract!Next /\ RowInv'
  BY <1>6, Refusing DEF Contract!Next
<1>7. ASSUME NEW s \in Submissions, Lose(s)
      PROVE  Contract!Next /\ RowInv'
  BY <1>7, Telling DEF Lose, Contract!Lose, Contract!Next
<1>8. CASE UNCHANGED vars
  BY <1>8 DEF vars, Contract!cvars, Submitted, Effect, RowInv, RowOf, At
<1> QED
  BY <1>1, <1>2, <1>3, <1>4, <1>5, <1>6, <1>7, <1>8 DEF Next, Handle

\* The submissions implement SubmissionContract: the first of a key takes effect once
\* and for all, and whoever is answered afterwards gets its resource or a conflict.
THEOREM SubmissionsAreIdempotent == Spec => ContractHolds
<1> QED
  BY InvInit, InvNext, ContractInit, ContractStep, PTL
  DEF Spec, ContractHolds, Contract!Spec
=============================================================================
