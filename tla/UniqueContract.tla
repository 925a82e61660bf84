--------------------------- MODULE UniqueContract ---------------------------
(***************************************************************************)
(* What a caller may rely on when it registers a user, creates a tenant or *)
(* creates or changes a customer: the value it asks for, an email or a     *)
(* slug, becomes its record's in one step, if no other record has it then, *)
(* and a conflict is told only while another record does have it.          *)
(***************************************************************************)
CONSTANTS Records, Values, Requests, Absent

VARIABLES
  value,      \* the value of each record
  stage,      \* what has become of a request
  wants       \* the record and the value a pending request is about

vars == <<value, stage, wants>>

Ended == {"idle", "done", "conflict", "failed"}
HasIt(v, x) == \E y \in Records \ {x} : value[y] = v

Init ==
  /\ value = [x \in Records |-> Absent]
  /\ stage = [r \in Requests |-> "idle"]
  /\ wants = [r \in Requests |-> Absent]

\* An update that finds its record with the value it asks for changes it no more.
Submit(r, x, v) ==
  /\ stage[r] \in Ended
  /\ stage' = [stage EXCEPT ![r] = IF value[x] = v THEN "matched" ELSE "pending"]
  /\ wants' = [wants EXCEPT ![r] = <<x, v>>]
  /\ UNCHANGED value

Answer(r, told) ==
  /\ stage' = [stage EXCEPT ![r] = told]
  /\ wants' = [wants EXCEPT ![r] = Absent]

\* The value is the record's from here on, whether the caller learns it or not.
Take(r) ==
  \E x \in Records, v \in Values :
    /\ stage[r] = "pending" /\ wants[r] = <<x, v>> /\ ~HasIt(v, x)
    /\ value' = [value EXCEPT ![x] = v]
    /\ \E told \in {"done", "failed"} : Answer(r, told)

Match(r) == stage[r] = "matched" /\ Answer(r, "done") /\ UNCHANGED value

Refuse(r) ==
  \E x \in Records, v \in Values :
    /\ stage[r] \in {"pending", "matched"} /\ wants[r] = <<x, v>> /\ HasIt(v, x)
    /\ Answer(r, "conflict") /\ UNCHANGED value

Fail(r) == stage[r] \notin Ended /\ Answer(r, "failed") /\ UNCHANGED value

Next ==
  \E r \in Requests :
    \/ \E x \in Records, v \in Values : Submit(r, x, v)
    \/ Take(r) \/ Match(r) \/ Refuse(r) \/ Fail(r)

Spec == Init /\ [][Next]_vars
=============================================================================
