--------------------------- MODULE TicketContract ---------------------------
(***************************************************************************)
(* What the ticket API promises its callers: every action takes effect at  *)
(* once, on the ticket as it is at that moment and where the workflow      *)
(* allows it, and leaves one event that tells exactly what it changed; an  *)
(* update of the text changes nothing else.  Nothing here tells of         *)
(* requests, locks or transactions.                                        *)
(***************************************************************************)
EXTENDS Naturals, Sequences

CONSTANTS Tickets, Members, Texts, Nobody

VARIABLES
  ticket,  \* the tickets
  trail    \* what has been done to each, in order

cvars == <<ticket, trail>>

Absent == [status |-> "absent", creator |-> Nobody, assignee |-> Nobody, text |-> Nobody]

Init ==
  /\ ticket = [t \in Tickets |-> Absent]
  /\ trail = [t \in Tickets |-> <<>>]

Log(t, type, actor, to, assignee) ==
  trail' = [trail EXCEPT ![t] = Append(@,
    [type |-> type, actor |-> actor, from |-> ticket[t].status, to |-> to,
     fromAssignee |-> ticket[t].assignee, toAssignee |-> assignee])]

Create(t, m) ==
  /\ ticket[t].status = "absent"
  /\ \E text \in Texts : ticket' = [ticket EXCEPT ![t] =
       [status |-> "open", creator |-> m, assignee |-> Nobody, text |-> text]]
  /\ Log(t, "create", m, "open", Nobody)

Move(t, type, m, to, assignee) ==
  /\ ticket' = [ticket EXCEPT ![t].status = to, ![t].assignee = assignee]
  /\ Log(t, type, m, to, assignee)

Claim(t, m) ==
  /\ ticket[t].status = "open" /\ ticket[t].assignee = Nobody
  /\ Move(t, "claim", m, "in_progress", m)

Transfer(t, m, target) ==
  /\ ticket[t].status = "in_progress" /\ target # ticket[t].assignee
  /\ Move(t, "transfer", m, "in_progress", target)

Resolve(t, m) ==
  /\ ticket[t].status = "in_progress"
  /\ Move(t, "resolve", m, "resolved", ticket[t].assignee)

Close(t, m) ==
  /\ ticket[t].status = "resolved"
  /\ Move(t, "close", m, "closed", ticket[t].assignee)

Reopen(t, m) ==
  /\ ticket[t].status \in {"resolved", "closed"}
  /\ Move(t, "reopen", m, "open", Nobody)

Rewrite(t) ==
  /\ ticket[t].status # "absent"
  /\ \E text \in Texts : ticket' = [ticket EXCEPT ![t].text = text]
  /\ UNCHANGED trail

Next == \E t \in Tickets :
  \/ Rewrite(t)
  \/ \E m \in Members : \/ Create(t, m) \/ Claim(t, m) \/ Resolve(t, m)
                        \/ Close(t, m) \/ Reopen(t, m)
                        \/ \E target \in Members : Transfer(t, m, target)

Spec == Init /\ [][Next]_cvars
=============================================================================
