------------------------- MODULE SubmissionContract -------------------------
(***************************************************************************)
(* What an Idempotency-Key promises its client: the first submission of a  *)
(* key takes effect once and for all, and whoever is answered afterwards   *)
(* gets its resource if he submitted the same content, and a conflict if   *)
(* he submitted another.  A submission may also be refused, or its answer  *)
(* may be lost, whether or not it took effect.  Nothing here tells of      *)
(* transactions.                                                           *)
(***************************************************************************)
EXTENDS Naturals

CONSTANTS Submissions, Keys, Hashes, Unbound

VARIABLES
  submitted,  \* the key and the content of each submission
  effect,     \* what each key is bound to
  answer      \* what each submission was told

cvars == <<submitted, effect, answer>>

Waiting == [code |-> "waiting", resource |-> Unbound]

Init ==
  /\ submitted = [s \in Submissions |-> Unbound]
  /\ effect = [k \in Keys |-> Unbound]
  /\ answer = [s \in Submissions |-> Waiting]

Submit(s, k, h) ==
  /\ submitted[s] = Unbound
  /\ submitted' = [submitted EXCEPT ![s] = [key |-> k, hash |-> h]]
  /\ UNCHANGED <<effect, answer>>

Pending(s) == submitted[s] # Unbound /\ answer[s] = Waiting

\* The resource is named after the submission that made it.
TakeEffect(s) ==
  /\ Pending(s) /\ effect[submitted[s].key] = Unbound
  /\ effect' = [effect EXCEPT ![submitted[s].key] = [hash |-> submitted[s].hash, resource |-> s]]
  /\ UNCHANGED <<submitted, answer>>

Say(s, code, resource) ==
  /\ answer' = [answer EXCEPT ![s] = [code |-> code, resource |-> resource]]
  /\ UNCHANGED <<submitted, effect>>

Accept(s) ==
  LET bound == effect[submitted[s].key]
  IN  /\ Pending(s) /\ bound # Unbound /\ bound.hash = submitted[s].hash
      /\ Say(s, IF bound.resource = s THEN "created" ELSE "replayed", bound.resource)

Conflict(s) ==
  LET bound == effect[submitted[s].key]
  IN  /\ Pending(s) /\ bound # Unbound /\ bound.hash # submitted[s].hash
      /\ Say(s, "conflict", Unbound)

\* A refused submission has no effect.
Refuse(s) ==
  /\ Pending(s) /\ \A k \in Keys : effect[k] # Unbound => effect[k].resource # s
  /\ Say(s, "refused", Unbound)

Lose(s) == Pending(s) /\ Say(s, "lost", Unbound)

Next == \E s \in Submissions :
  \/ \E k \in Keys, h \in Hashes : Submit(s, k, h)
  \/ TakeEffect(s) \/ Accept(s) \/ Conflict(s) \/ Refuse(s) \/ Lose(s)

Spec == Init /\ [][Next]_cvars
=============================================================================
