----------------------------- MODULE JobContract -----------------------------
(***************************************************************************)
(* What a background job promises the client that polls it: a job is       *)
(* attempted a bounded number of times, its effect (the mail, the file)    *)
(* happens only during an attempt, it succeeds only once the effect has    *)
(* happened, and SUCCEEDED and FAILED are final.  Nothing here tells of    *)
(* messages, leases or workers.                                            *)
(***************************************************************************)
EXTENDS Naturals

CONSTANTS Jobs, MaxAttempts

VARIABLES
  status,     \* the status the API reports
  attempts,   \* the attempt_count the API reports
  performed   \* has the effect happened?

cvars == <<status, attempts, performed>>

Init ==
  /\ status = [j \in Jobs |-> "absent"]
  /\ attempts = [j \in Jobs |-> 0]
  /\ performed = [j \in Jobs |-> FALSE]

Submit(j) ==
  /\ status[j] = "absent"
  /\ status' = [status EXCEPT ![j] = "pending"]
  /\ UNCHANGED <<attempts, performed>>

\* A running job starts again when its worker was lost.
Start(j) ==
  /\ status[j] \in {"pending", "retrying", "running"}
  /\ attempts[j] < MaxAttempts
  /\ status' = [status EXCEPT ![j] = "running"]
  /\ attempts' = [attempts EXCEPT ![j] = @ + 1]
  /\ UNCHANGED performed

Perform(j) ==
  /\ status[j] = "running"
  /\ performed' = [performed EXCEPT ![j] = TRUE]
  /\ UNCHANGED <<status, attempts>>

Retry(j) ==
  /\ status[j] = "running"
  /\ attempts[j] < MaxAttempts
  /\ status' = [status EXCEPT ![j] = "retrying"]
  /\ UNCHANGED <<attempts, performed>>

Succeed(j) ==
  /\ status[j] = "running"
  /\ performed[j]
  /\ status' = [status EXCEPT ![j] = "succeeded"]
  /\ UNCHANGED <<attempts, performed>>

Fail(j) ==
  /\ status[j] = "running"
  /\ status' = [status EXCEPT ![j] = "failed"]
  /\ UNCHANGED <<attempts, performed>>

Next == \E j \in Jobs : \/ Submit(j) \/ Start(j) \/ Perform(j)
                        \/ Retry(j) \/ Succeed(j) \/ Fail(j)

Spec == Init /\ [][Next]_cvars
=============================================================================
