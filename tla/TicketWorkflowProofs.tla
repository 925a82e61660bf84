------------------------ MODULE TicketWorkflowProofs ------------------------
(***************************************************************************)
(* Proofs about TicketWorkflow, for every number of members, tickets and   *)
(* concurrent requests and any changes of roles and memberships.           *)
(***************************************************************************)
EXTENDS TicketWorkflow, SequenceTheorems, TLAPS

\* A request being handled is about a ticket.
Busy == \A r \in Requests : request[r].pc # "idle" => request[r].ticket \in Tickets
TypeInv == TypeOK /\ Busy

\* And the ticket exists: rows of tickets are never deleted.
PresentInv ==
  \A r \in Requests : request[r].pc # "idle" => ticket[request[r].ticket].status # "absent"

\* The row a request read is the row: it has the lock, so nobody else writes it.
LockInv ==
  \A r \in Requests : request[r].pc \in Locking =>
    /\ lock[request[r].ticket] = r
    /\ request[r].row = ticket[request[r].ticket]

\* A request past its authorization was entitled to the row it read.
EntitledInv ==
  \A r \in Requests : request[r].pc \in {"target", "save"} =>
    \/ request[r].action \in {"claim", "reopen"}
    \/ request[r].row.assignee = request[r].actor
    \/ request[r].admin

-----------------------------------------------------------------------------
(* The steps a request is made of *)

\* Moving on changes the handler's own state, and what it says.
LEMMA MoveOnEffect ==
  ASSUME TypeInv, NEW r \in Requests, request[r].pc # "idle",
         NEW pc \in Locking \cup {"edit"}, NEW row \in Row, NEW admin \in BOOLEAN,
         MoveOn(r, pc, row, admin)
  PROVE  /\ request' \in [Requests -> Request]
         /\ Busy'
         /\ request'[r].pc = pc /\ request'[r].row = row /\ request'[r].admin = admin
         /\ request'[r].ticket = request[r].ticket /\ request'[r].actor = request[r].actor
         /\ request'[r].action = request[r].action
         /\ \A q \in Requests \ {r} : request'[q] = request[q]
<1> USE DEF TypeInv, TypeOK, MoveOn
<1>1. request[r] \in Request
  OBVIOUS
<1>2. [pc |-> pc, ticket |-> request[r].ticket, actor |-> request[r].actor,
       action |-> request[r].action, target |-> request[r].target, at |-> request[r].at,
       row |-> row, admin |-> admin] \in Request
  BY <1>1 DEF Request, Locking
<1> QED
  BY <1>2 DEF Busy

\* An idle handler is well formed.
LEMMA IdleTyped == Idle \in Request
  BY OwnerAssumption DEF Idle, Request, Actions, NoRow, Row

\* The end of a transaction leaves the handler idle and every other handler, and
\* the locks the others have, as they were.
LEMMA EndEffect ==
  ASSUME TypeInv, NEW r \in Requests, request' = [request EXCEPT ![r] = Idle], Release(r)
  PROVE  /\ request' \in [Requests -> Request]
         /\ Busy'
         /\ lock' \in [Tickets -> Requests \cup {Nothing}]
         /\ request'[r].pc = "idle"
         /\ \A q \in Requests \ {r} : request'[q] = request[q]
         /\ \A t \in Tickets : lock[t] # r => lock'[t] = lock[t]
<1> USE DEF TypeInv, TypeOK
<1>1. request' \in [Requests -> Request]
  BY IdleTyped
<1>2. request'[r].pc = "idle"
  BY DEF Idle
<1>3. Busy'
  BY <1>2 DEF Busy
<1>4. /\ lock' \in [Tickets -> Requests \cup {Nothing}]
      /\ \A t \in Tickets : lock[t] # r => lock'[t] = lock[t]
  BY DEF Release
<1> QED
  BY <1>1, <1>2, <1>3, <1>4

\* A transaction that ends without a commit keeps every invariant.
LEMMA RejectKeeps ==
  ASSUME TypeInv, PresentInv, LockInv, EntitledInv, NEW r \in Requests, Reject(r)
  PROVE  TypeInv' /\ PresentInv' /\ LockInv' /\ EntitledInv'
<1>1. /\ request' \in [Requests -> Request] /\ Busy'
      /\ lock' \in [Tickets -> Requests \cup {Nothing}]
      /\ request'[r].pc = "idle"
      /\ \A q \in Requests \ {r} : request'[q] = request[q]
      /\ \A t \in Tickets : lock[t] # r => lock'[t] = lock[t]
  BY EndEffect DEF Reject
<1>2. UNCHANGED <<ticket, events, role, active, begun, changes>>
  BY DEF Reject
<1>3. TypeInv'
  BY <1>1, <1>2 DEF TypeInv, TypeOK
<1>4. \A q \in Requests : request'[q].pc \in Locking =>
        /\ q # r /\ request[q].pc \in Locking /\ request'[q] = request[q]
        /\ request[q].ticket \in Tickets
  BY <1>1 DEF Locking, TypeInv, Busy
<1>5. LockInv'
  BY <1>1, <1>2, <1>4 DEF LockInv
<1>6. EntitledInv'
  BY <1>1, <1>4 DEF EntitledInv, Locking
<1>7. PresentInv'
  BY <1>1, <1>2 DEF PresentInv
<1> QED
  BY <1>3, <1>5, <1>6, <1>7

\* What a request reads and the rows it locks stay within their types.
LEMMA NextAssigneeTyped ==
  ASSUME TypeInv, NEW r \in Requests
  PROVE  /\ request[r] \in Request
         /\ NextAssignee(r) \in Members \cup {Nobody}
         /\ NextStatuses(r) \in SUBSET Statuses
<1>1. request[r] \in Request
  BY DEF TypeInv, TypeOK
<1>2. NextAssignee(r) \in Members \cup {Nobody}
  BY <1>1 DEF NextAssignee, Request, Row
<1>3. NextStatuses(r) \in SUBSET Statuses
  BY DEF NextStatuses, Transitions, Statuses
<1> QED
  BY <1>1, <1>2, <1>3

-----------------------------------------------------------------------------
(* Types, locks and entitlements *)

Inv == TypeInv /\ PresentInv /\ LockInv /\ EntitledInv

\* A tenant without tickets and with idle handlers satisfies them.
LEMMA InvInit == Init => Inv
<1> SUFFICES ASSUME Init PROVE Inv
  OBVIOUS
<1> USE DEF Init
<1>1. ticket \in [Tickets -> Row]
  BY DEF NoRow, Row
<1>2. request \in [Requests -> Request]
  BY IdleTyped
<1>3. role \in [Members -> Roles]
  BY DEF Roles
<1>4. changes \in Nat
  BY BoundAssumption
<1>5. \A r \in Requests : request[r].pc = "idle"
  BY DEF Idle
<1>6. events \in [Tickets -> Seq(Event)]
  OBVIOUS
<1>7. lock \in [Tickets -> Requests \cup {Nothing}]
  OBVIOUS
<1>8. active \in SUBSET Members /\ begun \in Nat
  OBVIOUS
<1>9. TypeInv
  BY <1>1, <1>2, <1>3, <1>4, <1>5, <1>6, <1>7, <1>8 DEF TypeInv, TypeOK, Busy
<1> QED
  BY <1>5, <1>9 DEF Inv, PresentInv, LockInv, EntitledInv, Locking

\* A step that concerns no handler, lock or ticket in use keeps them.
LEMMA OthersKeep ==
  ASSUME Inv, UNCHANGED <<lock, request>>, TypeOK',
         \A r \in Requests : request[r].pc # "idle" =>
            ticket'[request[r].ticket] = ticket[request[r].ticket]
  PROVE  Inv'
<1>1. TypeInv'
  BY DEF Inv, TypeInv, Busy
<1>2. PresentInv'
  BY DEF Inv, PresentInv
<1>3. LockInv'
  BY DEF Inv, LockInv, Locking
<1>4. EntitledInv'
  BY DEF Inv, EntitledInv
<1> QED
  BY <1>1, <1>2, <1>3, <1>4 DEF Inv

\* A request that has the lock and moves on, entitled to what it read, keeps them.
LEMMA MoveKeeps ==
  ASSUME Inv, NEW r \in Requests, request[r].pc \in Locking,
         NEW pc \in {"target", "save"}, NEW admin \in BOOLEAN,
         MoveOn(r, pc, request[r].row, admin),
         UNCHANGED <<ticket, events, lock, role, active, begun, changes>>,
         \/ request[r].action \in {"claim", "reopen"}
         \/ request[r].row.assignee = request[r].actor
         \/ admin
  PROVE  Inv'
<1>1. /\ request[r].pc # "idle" /\ request[r].row \in Row /\ pc \in Locking
  BY DEF Inv, TypeInv, TypeOK, Request, Locking
<1>2. /\ request' \in [Requests -> Request]
      /\ Busy'
      /\ request'[r].pc = pc /\ request'[r].row = request[r].row /\ request'[r].admin = admin
      /\ request'[r].ticket = request[r].ticket /\ request'[r].actor = request[r].actor
      /\ request'[r].action = request[r].action
      /\ \A q \in Requests \ {r} : request'[q] = request[q]
  BY <1>1, MoveOnEffect DEF Inv
<1>3. TypeInv'
  BY <1>2 DEF Inv, TypeInv, TypeOK
<1>4. PresentInv'
  BY <1>1, <1>2 DEF Inv, PresentInv
<1>5. LockInv'
  BY <1>2 DEF Inv, LockInv
<1>6. EntitledInv'
  BY <1>2 DEF Inv, EntitledInv
<1> QED
  BY <1>3, <1>4, <1>5, <1>6 DEF Inv

\* Getting the lock makes what the request read the row.
LEMMA LockKeeps ==
  ASSUME Inv, NEW r \in Requests, Lock(r)
  PROVE  Inv'
<1> DEFINE t == request[r].ticket
<1>1. request[r].pc = "lock" /\ t \in Tickets /\ ticket[t] \in Row
  BY DEF Lock, Inv, TypeInv, TypeOK, Busy
<1>2. /\ lock[t] = Nothing
      /\ lock' = [lock EXCEPT ![t] = r]
      /\ MoveOn(r, "authorize", ticket[t], FALSE)
      /\ UNCHANGED <<ticket, events, role, active, begun, changes>>
  BY DEF Lock, Free
<1>3. /\ request' \in [Requests -> Request]
      /\ Busy'
      /\ request'[r].pc = "authorize" /\ request'[r].row = ticket[t]
      /\ request'[r].ticket = t
      /\ \A q \in Requests \ {r} : request'[q] = request[q]
  <2>1. "authorize" \in Locking /\ FALSE \in BOOLEAN /\ request[r].pc # "idle"
    BY <1>1 DEF Locking
  <2> QED
    BY <1>1, <1>2, <2>1, MoveOnEffect DEF Inv
<1>4. lock' \in [Tickets -> Requests \cup {Nothing}]
  BY <1>1, <1>2 DEF Inv, TypeInv, TypeOK
<1>5. TypeInv'
  BY <1>2, <1>3, <1>4 DEF Inv, TypeInv, TypeOK
<1>6. PresentInv'
  BY <1>1, <1>2, <1>3 DEF Inv, PresentInv
<1>7. lock'[t] = r /\ \A u \in Tickets : lock[u] # Nothing => lock'[u] = lock[u]
  BY <1>1, <1>2 DEF Inv, TypeInv, TypeOK
<1>8. \A q \in Requests : request[q].pc \in Locking => request[q].ticket \in Tickets
  BY DEF Inv, TypeInv, Busy, Locking
<1>9. LockInv'
  <2> SUFFICES ASSUME NEW q \in Requests, request'[q].pc \in Locking
               PROVE  /\ lock'[request'[q].ticket] = q
                      /\ request'[q].row = ticket'[request'[q].ticket]
    BY DEF LockInv
  <2>1. CASE q = r
    BY <2>1, <1>2, <1>3, <1>7
  <2>2. CASE q # r
    BY <2>2, <1>2, <1>3, <1>7, <1>8, NothingAssumption DEF Inv, LockInv
  <2> QED
    BY <2>1, <2>2
<1>10. EntitledInv'
  BY <1>3 DEF Inv, EntitledInv
<1> QED
  BY <1>5, <1>6, <1>9, <1>10 DEF Inv

\* What a save commits: the ticket's new row and one more event, of the request's
\* own transaction, from the row as it is to the row as it will be.
Saved(r, t, to, assignee, e) ==
  /\ request[r].pc = "save" /\ t = request[r].ticket
  /\ lock[t] = r /\ request[r].row = ticket[t] /\ ticket[t].status # "absent"
  /\ to \in NextStatuses(r) /\ assignee = NextAssignee(r) /\ Assignable(r)
  /\ ticket' = [ticket EXCEPT ![t] =
       [status |-> to, creator |-> ticket[t].creator, assignee |-> assignee,
        text |-> ticket[t].text]]
  /\ events' = [events EXCEPT ![t] = Append(events[t], e)]
  /\ e.type = request[r].action /\ e.actor = request[r].actor
  /\ e.from = ticket[t].status /\ e.to = to
  /\ e.fromAssignee = ticket[t].assignee /\ e.toAssignee = assignee

\* Every save is of this form: the row it read is still the row.
LEMMA SaveEffect ==
  ASSUME Inv, NEW r \in Requests, Save(r)
  PROVE  \E t \in Tickets, to \in Statuses, assignee \in Members \cup {Nobody}, e \in Event :
           Saved(r, t, to, assignee, e)
<1> DEFINE t == request[r].ticket
           assignee == NextAssignee(r)
<1>1. request[r].pc = "save" /\ t \in Tickets /\ ticket[t] \in Row /\ ticket[t].status # "absent"
  BY DEF Save, Inv, TypeInv, TypeOK, Busy, PresentInv
<1>2. lock[t] = r /\ request[r].row = ticket[t]
  BY <1>1 DEF Inv, LockInv, Locking
<1>3. assignee \in Members \cup {Nobody} /\ NextStatuses(r) \subseteq Statuses
  BY NextAssigneeTyped DEF Inv
<1>4. PICK to \in NextStatuses(r) :
        /\ events' = [events EXCEPT ![t] =
             Append(@, [type |-> request[r].action, actor |-> request[r].actor,
                        at |-> request[r].at, from |-> request[r].row.status, to |-> to,
                        fromAssignee |-> request[r].row.assignee, toAssignee |-> assignee])]
        /\ ticket' = [ticket EXCEPT ![t] =
             [status |-> to, creator |-> @.creator, assignee |-> assignee, text |-> @.text]]
  BY DEF Save
<1> DEFINE e == [type |-> request[r].action, actor |-> request[r].actor,
                 at |-> request[r].at, from |-> request[r].row.status, to |-> to,
                 fromAssignee |-> request[r].row.assignee, toAssignee |-> assignee]
<1>5. e \in Event
  <2>1. request[r] \in Request /\ to \in Statuses /\ request[r].action \in Actions
    BY <1>3, NextAssigneeTyped DEF Inv, NextStatuses, Transitions, Actions
  <2> HIDE DEF assignee
  <2> QED
    BY <1>1, <1>2, <1>3, <2>1 DEF Event, Request, Row
<1>6. events' = [events EXCEPT ![t] = Append(events[t], e)]
  BY <1>4
<1>7. ticket' = [ticket EXCEPT ![t] =
        [status |-> to, creator |-> ticket[t].creator, assignee |-> assignee,
         text |-> ticket[t].text]]
  BY <1>4
<1>8. /\ e.type = request[r].action /\ e.actor = request[r].actor
      /\ e.from = ticket[t].status /\ e.to = to
      /\ e.fromAssignee = ticket[t].assignee /\ e.toAssignee = assignee
  BY <1>2
<1>9. Assignable(r)
  BY DEF Save
<1>10. to \in NextStatuses(r) /\ assignee = NextAssignee(r) /\ t = request[r].ticket
  OBVIOUS
<1>11. to \in Statuses
  BY <1>3
<1> HIDE DEF e, assignee, t
<1>12. Saved(r, t, to, assignee, e)
  BY <1>1, <1>2, <1>6, <1>7, <1>8, <1>9, <1>10 DEF Saved
<1> QED
  BY <1>1, <1>3, <1>5, <1>11, <1>12

\* A save touches its own ticket, which no other request has locked.
LEMMA SaveKeeps ==
  ASSUME Inv, NEW r \in Requests, Save(r)
  PROVE  Inv'
<1>1. PICK t \in Tickets, to \in Statuses, assignee \in Members \cup {Nobody}, e \in Event :
        Saved(r, t, to, assignee, e)
  BY SaveEffect
<1>2. /\ request' \in [Requests -> Request] /\ Busy'
      /\ lock' \in [Tickets -> Requests \cup {Nothing}]
      /\ request'[r].pc = "idle"
      /\ \A q \in Requests \ {r} : request'[q] = request[q]
      /\ \A u \in Tickets : lock[u] # r => lock'[u] = lock[u]
  BY EndEffect DEF Save, Inv
<1>3. UNCHANGED <<role, active, begun, changes>>
  BY DEF Save
<1> DEFINE row == [status |-> to, creator |-> ticket[t].creator, assignee |-> assignee,
                   text |-> ticket[t].text]
<1>4. row \in Row /\ row.status \in Statuses
  BY DEF Inv, TypeInv, TypeOK, Row
<1>5. /\ ticket' \in [Tickets -> Row] /\ ticket'[t] = row
      /\ \A u \in Tickets \ {t} : ticket'[u] = ticket[u]
  BY <1>1, <1>4 DEF Saved, Inv, TypeInv, TypeOK
<1>6. events' \in [Tickets -> Seq(Event)]
  <2>1. Append(events[t], e) \in Seq(Event)
    BY DEF Inv, TypeInv, TypeOK
  <2> QED
    BY <1>1, <2>1 DEF Saved, Inv, TypeInv, TypeOK
<1>7. TypeInv'
  BY <1>2, <1>3, <1>5, <1>6 DEF Inv, TypeInv, TypeOK
<1> HIDE DEF row
<1>8. PresentInv'
  <2>1. row.status # "absent"
    BY <1>4 DEF Statuses
  <2> QED
    BY <1>2, <1>5, <2>1 DEF Inv, TypeInv, Busy, PresentInv
<1>9. LockInv'
  <2> SUFFICES ASSUME NEW q \in Requests, request'[q].pc \in Locking
               PROVE  /\ lock'[request'[q].ticket] = q
                      /\ request'[q].row = ticket'[request'[q].ticket]
    BY DEF LockInv
  <2>1. q # r /\ request'[q] = request[q]
    BY <1>2 DEF Locking
  <2>2. /\ request[q].ticket \in Tickets /\ lock[request[q].ticket] = q
        /\ request[q].row = ticket[request[q].ticket]
    BY <2>1 DEF Inv, TypeInv, Busy, LockInv, Locking
  <2>3. request[q].ticket # t
    BY <1>1, <2>1, <2>2 DEF Saved
  <2> QED
    BY <1>2, <1>5, <2>1, <2>2, <2>3
<1>10. EntitledInv'
  BY <1>2 DEF Inv, EntitledInv
<1> QED
  BY <1>7, <1>8, <1>9, <1>10 DEF Inv

\* A request that reads a row to update it has no lock.
LEMMA ReadKeeps ==
  ASSUME Inv, NEW r \in Requests, request[r].pc = "read",
         MoveOn(r, "edit", ticket[request[r].ticket], FALSE),
         UNCHANGED <<ticket, events, lock, role, active, begun, changes>>
  PROVE  Inv'
<1>1. request[r].ticket \in Tickets /\ ticket[request[r].ticket] \in Row
  BY DEF Inv, TypeInv, TypeOK, Busy
<1>2. /\ request' \in [Requests -> Request] /\ Busy'
      /\ request'[r].pc = "edit" /\ request'[r].ticket = request[r].ticket
      /\ \A q \in Requests \ {r} : request'[q] = request[q]
  BY <1>1, MoveOnEffect DEF Inv
<1>3. TypeInv'
  BY <1>2 DEF Inv, TypeInv, TypeOK
<1>4. PresentInv' /\ LockInv' /\ EntitledInv'
  BY <1>2 DEF Inv, PresentInv, LockInv, EntitledInv, Locking
<1> QED
  BY <1>3, <1>4 DEF Inv

\* An update of the text writes nothing else, and waits while anybody has the lock.
LEMMA RewriteEffect ==
  ASSUME Inv, NEW r \in Requests, Rewrite(r)
  PROVE  /\ UNCHANGED <<events, role, active, begun, changes>>
         /\ ticket' \in [Tickets -> Row]
         /\ \A t \in Tickets : /\ ticket'[t].status = ticket[t].status
                               /\ ticket'[t].assignee = ticket[t].assignee
                               /\ lock[t] # Nothing => ticket'[t] = ticket[t]
<1> DEFINE t == request[r].ticket
<1>1. t \in Tickets /\ ticket[t] \in Row /\ lock[t] = Nothing
  BY DEF Rewrite, Free, Inv, TypeInv, TypeOK, Busy
<1>2. PICK text \in Texts : ticket' = [ticket EXCEPT ![t] =
        [status |-> ticket[t].status, creator |-> ticket[t].creator,
         assignee |-> ticket[t].assignee, text |-> text]]
  BY DEF Rewrite, Edited
<1> HIDE DEF t
<1>3. UNCHANGED <<events, role, active, begun, changes>>
  BY DEF Rewrite
<1> QED
  BY <1>1, <1>2, <1>3 DEF Inv, TypeInv, TypeOK, Row

LEMMA RewriteKeeps ==
  ASSUME Inv, NEW r \in Requests, Rewrite(r)
  PROVE  Inv'
<1>1. /\ request' \in [Requests -> Request] /\ Busy'
      /\ lock' \in [Tickets -> Requests \cup {Nothing}]
      /\ request'[r].pc = "idle"
      /\ \A q \in Requests \ {r} : request'[q] = request[q]
      /\ \A t \in Tickets : lock[t] # r => lock'[t] = lock[t]
  BY EndEffect DEF Rewrite, Inv
<1>2. TypeInv'
  BY <1>1, RewriteEffect DEF Inv, TypeInv, TypeOK
<1>3. PresentInv'
  BY <1>1, RewriteEffect DEF Inv, TypeInv, Busy, PresentInv
<1>4. LockInv'
  <2> SUFFICES ASSUME NEW q \in Requests, request'[q].pc \in Locking
               PROVE  /\ lock'[request'[q].ticket] = q
                      /\ request'[q].row = ticket'[request'[q].ticket]
    BY DEF LockInv
  <2>1. q # r /\ request'[q] = request[q] /\ q # Nothing
    BY <1>1, NothingAssumption DEF Locking
  <2>2. /\ request[q].ticket \in Tickets /\ lock[request[q].ticket] = q
        /\ request[q].row = ticket[request[q].ticket]
    BY <2>1 DEF Inv, TypeInv, Busy, LockInv, Locking
  <2> QED
    BY <1>1, <2>1, <2>2, RewriteEffect
<1>5. EntitledInv'
  BY <1>1 DEF Inv, EntitledInv
<1> QED
  BY <1>2, <1>3, <1>4, <1>5 DEF Inv

\* Every step keeps types, locks and entitlements.
LEMMA InvStep == Inv /\ [Next]_vars => Inv'
<1> SUFFICES ASSUME Inv, [Next]_vars PROVE Inv'
  OBVIOUS
<1> USE DEF Inv
<1>1. ASSUME NEW t \in Tickets, NEW m \in Members, Create(t, m) PROVE Inv'
  <2>0. PICK text \in Texts : ticket' = [ticket EXCEPT ![t] =
          [status |-> "open", creator |-> m, assignee |-> Nobody, text |-> text]]
    BY <1>1 DEF Create
  <2> DEFINE row == [status |-> "open", creator |-> m, assignee |-> Nobody, text |-> text]
             e == [type |-> "create", actor |-> m, at |-> begun + 1, from |-> "absent",
                   to |-> "open", fromAssignee |-> Nobody, toAssignee |-> Nobody]
  <2>1. row \in Row /\ e \in Event
    BY DEF Row, Event, Statuses, TypeInv, TypeOK
  <2>2. ticket' = [ticket EXCEPT ![t] = row] /\ events' = [events EXCEPT ![t] = <<e>>]
    BY <1>1, <2>0 DEF Create
  <2>3. <<e>> \in Seq(Event)
    BY <2>1
  <2> HIDE DEF row, e
  <2>4. TypeOK'
    BY <1>1, <2>1, <2>2, <2>3 DEF Create, TypeInv, TypeOK
  <2>5. \A r \in Requests : request[r].pc # "idle" =>
          ticket'[request[r].ticket] = ticket[request[r].ticket]
    <3> SUFFICES ASSUME NEW r \in Requests, request[r].pc # "idle"
                 PROVE  ticket'[request[r].ticket] = ticket[request[r].ticket]
      OBVIOUS
    <3>1. request[r].ticket \in Tickets /\ ticket[request[r].ticket].status # "absent"
      BY DEF TypeInv, Busy, PresentInv
    <3>2. ticket[t].status = "absent"
      BY <1>1 DEF Create
    <3> QED
      BY <2>2, <3>1, <3>2 DEF TypeInv, TypeOK
  <2> QED
    BY <1>1, <2>4, <2>5, OthersKeep DEF Create
<1>2. ASSUME NEW r \in Requests, NEW m \in Members, NEW target \in Members, NEW t \in Tickets,
             NEW action \in Actions \cup {"update"}, Begin(r, m, t, action, target)
      PROVE  Inv'
  <2> DEFINE new == [pc |-> IF action = "update" THEN "read" ELSE "lock", ticket |-> t, actor |-> m, action |-> action,
                     target |-> target, at |-> begun + 1, row |-> NoRow, admin |-> FALSE]
  <2>1. new \in Request
    BY DEF Request, NoRow, Row, TypeInv, TypeOK
  <2>2. request' = [request EXCEPT ![r] = new]
    BY <1>2 DEF Begin
  <2>3. TypeInv'
    BY <1>2, <2>1, <2>2 DEF Begin, TypeInv, TypeOK, Busy
  <2>4. \A q \in Requests : request'[q].pc \in Locking => request'[q] = request[q]
    BY <2>2 DEF TypeInv, TypeOK, Locking
  <2>5. PresentInv'
    BY <1>2, <2>2 DEF Begin, PresentInv, TypeInv, TypeOK
  <2>6. UNCHANGED <<ticket, lock>>
    BY <1>2 DEF Begin
  <2>7. LockInv'
    BY <2>4, <2>6 DEF LockInv
  <2>8. EntitledInv'
    BY <2>4 DEF EntitledInv, Locking
  <2> QED
    BY <2>3, <2>5, <2>7, <2>8
<1>3. ASSUME NEW r \in Requests, Lock(r) PROVE Inv'
  BY <1>3, LockKeeps
<1>4. ASSUME NEW r \in Requests, Authorize(r) PROVE Inv'
  <2> DEFINE pc == IF request[r].action = "transfer" THEN "target" ELSE "save"
  <2>1. request[r].pc \in Locking /\ pc \in {"target", "save"} /\ Admin(r) \in BOOLEAN
    BY <1>4 DEF Authorize, Locking, Admin, HasPermission
  <2>2. CASE Reject(r)
    BY <2>2, RejectKeeps
  <2>3. CASE /\ Entitled(r)
             /\ MoveOn(r, pc, request[r].row, Admin(r))
             /\ UNCHANGED <<ticket, events, lock, role, active, begun, changes>>
    <3>1. \/ request[r].action \in {"claim", "reopen"}
          \/ request[r].row.assignee = request[r].actor
          \/ Admin(r)
      BY <2>3 DEF Entitled, Assigned
    <3> HIDE DEF pc
    <3> QED
      BY <2>1, <2>3, <3>1, MoveKeeps
  <2> QED
    BY <1>4, <2>2, <2>3 DEF Authorize
<1>5. ASSUME NEW r \in Requests, Target(r) PROVE Inv'
  <2>1. /\ request[r].pc = "target" /\ request[r].pc \in Locking
        /\ request[r].admin \in BOOLEAN /\ "save" \in {"target", "save"}
    BY <1>5 DEF Target, Locking, TypeInv, TypeOK, Request
  <2>2. CASE Reject(r)
    BY <2>2, RejectKeeps
  <2>3. CASE /\ MoveOn(r, "save", request[r].row, request[r].admin)
             /\ UNCHANGED <<ticket, events, lock, role, active, begun, changes>>
    <3>1. \/ request[r].action \in {"claim", "reopen"}
          \/ request[r].row.assignee = request[r].actor
          \/ request[r].admin
      BY <2>1 DEF EntitledInv
    <3> QED
      BY <2>1, <2>3, <3>1, MoveKeeps
  <2> QED
    BY <1>5, <2>2, <2>3 DEF Target
<1>6. ASSUME NEW r \in Requests, Save(r) PROVE Inv'
  BY <1>6, SaveKeeps
<1>7. ASSUME NEW r \in Requests, Conflict(r) PROVE Inv'
  BY <1>7, RejectKeeps DEF Conflict
<1>8. ASSUME NEW r \in Requests, Abandon(r) PROVE Inv'
  BY <1>8, RejectKeeps DEF Abandon
<1>9. ASSUME NEW m \in Members, NEW to \in Roles, AssignRole(m, to) PROVE Inv'
  <2>1. TypeOK'
    BY <1>9 DEF AssignRole, Change, TypeInv, TypeOK
  <2> QED
    BY <1>9, <2>1, OthersKeep DEF AssignRole
<1>10. ASSUME NEW m \in Members, Leave(m) PROVE Inv'
  <2>1. TypeOK'
    BY <1>10 DEF Leave, Change, TypeInv, TypeOK
  <2> QED
    BY <1>10, <2>1, OthersKeep DEF Leave
<1>11. ASSUME NEW m \in Members, Rejoin(m) PROVE Inv'
  <2>1. TypeOK'
    BY <1>11 DEF Rejoin, Change, TypeInv, TypeOK, Roles
  <2> QED
    BY <1>11, <2>1, OthersKeep DEF Rejoin
<1>12. CASE UNCHANGED vars
  BY <1>12, OthersKeep DEF vars, TypeInv, TypeOK
<1>13. ASSUME NEW r \in Requests, Read(r) PROVE Inv'
  <2>1. CASE Reject(r)
    BY <2>1, RejectKeeps
  <2>2. CASE /\ MoveOn(r, "edit", ticket[request[r].ticket], FALSE)
             /\ UNCHANGED <<ticket, events, lock, role, active, begun, changes>>
    BY <1>13, <2>2, ReadKeeps DEF Read
  <2> QED
    BY <1>13, <2>1, <2>2 DEF Read
<1>14. ASSUME NEW r \in Requests, Rewrite(r) PROVE Inv'
  BY <1>14, RewriteKeeps
<1> QED
  BY <1>1, <1>2, <1>3, <1>4, <1>5, <1>6, <1>7, <1>8, <1>9, <1>10, <1>11, <1>12,
     <1>13, <1>14
  DEF Next, Step

\* Every reachable state has the types, locks and entitlements above.
THEOREM InvHolds == Spec => []Inv
  BY InvInit, InvStep, PTL DEF Spec

\* The type invariant, for any members, tickets and number of concurrent requests.
THEOREM TypesHold == Spec => []TypeOK
<1>1. Inv => TypeOK
  BY DEF Inv, TypeInv
<1> QED
  BY <1>1, InvHolds, PTL

-----------------------------------------------------------------------------
(* The audit trail *)

\* A trail is exact for a row: its events follow on one another and the last one
\* ends at what the row is.
Exact(trail, row) ==
  /\ trail = <<>> <=> row.status = "absent"
  /\ trail # <<>> => trail[Len(trail)].to = row.status /\ trail[Len(trail)].toAssignee = row.assignee
  /\ \A i \in 1 .. Len(trail) - 1 : /\ trail[i + 1].from = trail[i].to
                                    /\ trail[i + 1].fromAssignee = trail[i].toAssignee

\* An event from the row as it is to the row as it will be extends an exact trail.
LEMMA ExactExtends ==
  ASSUME NEW trail \in Seq(Event), NEW row, NEW next, NEW e \in Event,
         Exact(trail, row), row.status # "absent", next.status # "absent",
         e.from = row.status, e.to = next.status,
         e.fromAssignee = row.assignee, e.toAssignee = next.assignee
  PROVE  Exact(Append(trail, e), next)
<1> DEFINE longer == Append(trail, e)
<1>1. /\ Len(trail) \in Nat /\ Len(longer) = Len(trail) + 1
      /\ longer[Len(longer)] = e
      /\ \A i \in 1 .. Len(trail) : longer[i] = trail[i]
      /\ longer # <<>>
  OBVIOUS
<1>2. /\ trail # <<>> /\ Len(trail) > 0
      /\ trail[Len(trail)].to = row.status /\ trail[Len(trail)].toAssignee = row.assignee
  BY DEF Exact
<1>3. ASSUME NEW i \in 1 .. Len(longer) - 1
      PROVE  longer[i + 1].from = longer[i].to /\ longer[i + 1].fromAssignee = longer[i].toAssignee
  <2>1. CASE i = Len(trail)
    BY <1>1, <1>2, <2>1
  <2>2. CASE i # Len(trail)
    <3>1. i \in 1 .. Len(trail) - 1 /\ i \in 1 .. Len(trail) /\ i + 1 \in 1 .. Len(trail)
      BY <1>1, <2>2
    <3> QED
      BY <1>1, <3>1 DEF Exact
  <2> QED
    BY <2>1, <2>2
<1> HIDE DEF longer
<1>4. Exact(longer, next)
  BY <1>1, <1>3 DEF Exact
<1> QED
  BY <1>4 DEF longer

\* A step other than a creation, a save and an update leaves rows and events alone.
LEMMA RowsKept ==
  ASSUME [Next]_vars,
         ~ \E t \in Tickets, m \in Members : Create(t, m),
         ~ \E r \in Requests : Save(r) \/ Rewrite(r)
  PROVE  UNCHANGED <<ticket, events>>
  BY DEF Next, Step, Begin, Lock, Authorize, Target, Conflict, Abandon, Reject, Read,
         Leave, Rejoin, AssignRole, vars

\* The trail of every ticket stays exact.
LEMMA AuditStep == Inv /\ AuditComplete /\ [Next]_vars => AuditComplete'
<1> SUFFICES ASSUME Inv, AuditComplete, [Next]_vars PROVE AuditComplete'
  OBVIOUS
<1>1. \A t \in Tickets : Exact(events[t], ticket[t]) /\ events[t] \in Seq(Event)
  BY DEF AuditComplete, Exact, Inv, TypeInv, TypeOK
<1>2. SUFFICES \A t \in Tickets : Exact(events'[t], ticket'[t])
  BY DEF AuditComplete, Exact
<1>3. ASSUME NEW t \in Tickets, NEW m \in Members, Create(t, m)
      PROVE  \A u \in Tickets : Exact(events'[u], ticket'[u])
  <2>0. PICK text \in Texts : ticket' = [ticket EXCEPT ![t] =
          [status |-> "open", creator |-> m, assignee |-> Nobody, text |-> text]]
    BY <1>3 DEF Create
  <2> DEFINE row == [status |-> "open", creator |-> m, assignee |-> Nobody, text |-> text]
             e == [type |-> "create", actor |-> m, at |-> begun + 1, from |-> "absent",
                   to |-> "open", fromAssignee |-> Nobody, toAssignee |-> Nobody]
  <2>1. ticket' = [ticket EXCEPT ![t] = row] /\ events' = [events EXCEPT ![t] = <<e>>]
    BY <1>3, <2>0 DEF Create
  <2>2. Exact(<<e>>, row)
    BY DEF Exact
  <2> HIDE DEF row, e
  <2> QED
    BY <1>1, <2>1, <2>2 DEF Inv, TypeInv, TypeOK
<1>4. ASSUME NEW r \in Requests, Save(r)
      PROVE  \A u \in Tickets : Exact(events'[u], ticket'[u])
  <2>1. PICK t \in Tickets, to \in Statuses, assignee \in Members \cup {Nobody}, e \in Event :
          Saved(r, t, to, assignee, e)
    BY <1>4, SaveEffect
  <2> DEFINE row == [status |-> to, creator |-> ticket[t].creator, assignee |-> assignee,
                     text |-> ticket[t].text]
  <2>2. row.status = to /\ row.assignee = assignee /\ to # "absent"
    BY DEF Statuses
  <2>3. ticket' = [ticket EXCEPT ![t] = row]
    BY <2>1 DEF Saved
  <2> HIDE DEF row
  <2>4. Exact(Append(events[t], e), row)
    BY <1>1, <2>1, <2>2, ExactExtends DEF Saved
  <2> QED
    BY <1>1, <2>1, <2>3, <2>4 DEF Saved, Inv, TypeInv, TypeOK
<1>5. CASE UNCHANGED <<ticket, events>>
  BY <1>1, <1>5
<1>6. ASSUME NEW r \in Requests, Rewrite(r)
      PROVE  \A u \in Tickets : Exact(events'[u], ticket'[u])
  BY <1>1, <1>6, RewriteEffect DEF Exact
<1> QED
  BY <1>3, <1>4, <1>5, <1>6, RowsKept

\* The audit trail of every ticket is complete and exact, whatever requests race.
THEOREM AuditTrail == Spec => []AuditComplete
<1>1. Init => AuditComplete
  BY DEF Init, AuditComplete, NoRow
<1> QED
  BY <1>1, InvHolds, AuditStep, PTL DEF Spec

-----------------------------------------------------------------------------
(* Assignees *)

\* What the transitions say of a save: a taken ticket stays taken with an assignee,
\* a reopened one has none.
LEMMA SaveAssigns ==
  ASSUME Inv, NEW r \in Requests, NEW to \in NextStatuses(r)
  PROVE  \/ /\ request[r].action = "claim" /\ to = "in_progress"
            /\ NextAssignee(r) = request[r].actor
         \/ /\ request[r].action = "transfer" /\ to = "in_progress"
            /\ NextAssignee(r) = request[r].target
         \/ /\ request[r].action = "reopen" /\ to = "open" /\ NextAssignee(r) = Nobody
         \/ /\ request[r].action \in {"resolve", "close"} /\ to \in {"resolved", "closed"}
            /\ request[r].row.status \in {"in_progress", "resolved"}
            /\ NextAssignee(r) = request[r].row.assignee
  BY DEF NextStatuses, Transitions, NextAssignee

\* Rows of tickets keep an assignee exactly while they are taken.
LEMMA AssignedStep == Inv /\ AssignedWhileTaken /\ [Next]_vars => AssignedWhileTaken'
<1> SUFFICES ASSUME Inv, AssignedWhileTaken, [Next]_vars PROVE AssignedWhileTaken'
  OBVIOUS
<1> DEFINE Taken == {"in_progress", "resolved", "closed"}
<1>1. ASSUME NEW t \in Tickets, NEW m \in Members, Create(t, m) PROVE AssignedWhileTaken'
  <2>1. PICK text \in Texts : ticket' = [ticket EXCEPT ![t] =
          [status |-> "open", creator |-> m, assignee |-> Nobody, text |-> text]]
    BY <1>1 DEF Create
  <2> QED
    BY <2>1 DEF AssignedWhileTaken, Inv, TypeInv, TypeOK
<1>2. ASSUME NEW r \in Requests, Save(r) PROVE AssignedWhileTaken'
  <2>1. PICK t \in Tickets, to \in Statuses, assignee \in Members \cup {Nobody}, e \in Event :
          Saved(r, t, to, assignee, e)
    BY <1>2, SaveEffect
  <2>2. request[r].actor # Nobody /\ request[r].target # Nobody
    BY NobodyAssumption DEF Inv, TypeInv, TypeOK, Request
  <2>3. assignee # Nobody <=> to \in Taken
    BY <2>1, <2>2, SaveAssigns DEF Saved, AssignedWhileTaken
  <2> QED
    BY <2>1, <2>3 DEF Saved, AssignedWhileTaken, Inv, TypeInv, TypeOK
<1>3. CASE UNCHANGED <<ticket, events>>
  BY <1>3 DEF AssignedWhileTaken
<1>4. ASSUME NEW r \in Requests, Rewrite(r) PROVE AssignedWhileTaken'
  BY <1>4, RewriteEffect DEF AssignedWhileTaken
<1> QED
  BY <1>1, <1>2, <1>3, <1>4, RowsKept

\* A ticket has an assignee exactly while it is taken, whatever requests race.
THEOREM Assignment == Spec => []AssignedWhileTaken
<1>1. Init => AssignedWhileTaken
  BY DEF Init, AssignedWhileTaken, NoRow
<1> QED
  BY <1>1, InvHolds, AssignedStep, PTL DEF Spec

\* A save of a ticket somebody has is by its assignee, or by a request that passed
\* as an administrator's, or a reopening: a claim meets Assignable.
LEMMA SaveEntitled ==
  ASSUME Inv, [Next]_vars, NEW t \in Tickets, ticket[t].assignee # Nobody,
         Work(ticket[t])' # Work(ticket[t]), AssignedWhileTaken
  PROVE  \E r \in Requests :
           /\ request[r].pc = "save" /\ request[r].ticket = t
           /\ \/ request[r].actor = ticket[t].assignee
              \/ request[r].admin
              \/ request[r].action = "reopen" /\ ticket'[t].assignee = Nobody
<1>0. ticket'[t].status # ticket[t].status \/ ticket'[t].assignee # ticket[t].assignee
  BY DEF Work
<1>1. ASSUME NEW u \in Tickets, NEW m \in Members, Create(u, m) PROVE FALSE
  <2>1. ticket[u].status = "absent" /\ \E row : ticket' = [ticket EXCEPT ![u] = row]
    BY <1>1 DEF Create
  <2>2. t = u
    BY <1>0, <2>1 DEF Inv, TypeInv, TypeOK
  <2> QED
    BY <2>1, <2>2 DEF AssignedWhileTaken
<1>8. ASSUME NEW r \in Requests, Rewrite(r) PROVE FALSE
  BY <1>0, <1>8, RewriteEffect
<1>2. PICK r \in Requests : Save(r)
  BY <1>0, <1>1, <1>8, RowsKept
<1>3. PICK u \in Tickets, to \in Statuses, assignee \in Members \cup {Nobody}, e \in Event :
        Saved(r, u, to, assignee, e)
  BY <1>2, SaveEffect
<1>4. t = u /\ ticket'[t].assignee = assignee
  BY <1>0, <1>3 DEF Saved, Inv, TypeInv, TypeOK
<1>5. request[r].action # "claim"
  BY <1>2, <1>3, <1>4 DEF Saved, Save, Assignable
<1>6. request[r].action = "reopen" => assignee = Nobody
  BY <1>3 DEF Saved, NextAssignee
<1>7. \/ request[r].action \in {"claim", "reopen"}
      \/ request[r].row.assignee = request[r].actor
      \/ request[r].admin
  BY <1>3 DEF Saved, Inv, EntitledInv
<1> QED
  BY <1>3, <1>4, <1>5, <1>6, <1>7 DEF Saved

\* Nobody takes a ticket over from the member who has it, whatever requests race.
THEOREM NoTakeover == Spec => HandsOff
<1>1. Inv /\ AssignedWhileTaken /\ [Next]_vars =>
        [\A t \in Tickets :
           ticket[t].assignee # Nobody /\ Work(ticket[t])' # Work(ticket[t]) =>
             \E r \in Requests :
               /\ request[r].pc = "save" /\ request[r].ticket = t
               /\ \/ request[r].actor = ticket[t].assignee
                  \/ request[r].admin
                  \/ request[r].action = "reopen" /\ ticket'[t].assignee = Nobody]_vars
  BY SaveEntitled
<1> QED
  BY <1>1, InvHolds, Assignment, PTL DEF Spec, HandsOff
-----------------------------------------------------------------------------
(* The contract *)

\* A transfer that is about to be saved goes to somebody else.
TargetInv ==
  \A r \in Requests : request[r].pc = "save" /\ request[r].action = "transfer" =>
    request[r].target # request[r].row.assignee

LEMMA TargetStep == Inv /\ TargetInv /\ [Next]_vars => TargetInv'
<1> SUFFICES ASSUME Inv, TargetInv, [Next]_vars, NEW q \in Requests,
                    request'[q].pc = "save", request'[q].action = "transfer"
             PROVE  request'[q].target # request'[q].row.assignee
  BY DEF TargetInv
<1> USE DEF Inv, TypeInv, TypeOK
<1>1. CASE request'[q] = request[q]
  BY <1>1 DEF TargetInv
<1>2. ASSUME NEW r \in Requests, request' = [request EXCEPT ![r] = Idle]
      PROVE  request'[q] = request[q]
  BY <1>2 DEF Idle
<1>3. ASSUME NEW r \in Requests, NEW pc, NEW row, NEW admin, MoveOn(r, pc, row, admin),
             q # r \/ pc # "save"
      PROVE  request'[q] = request[q]
  BY <1>3 DEF MoveOn
<1>4. ASSUME NEW r \in Requests, NEW m \in Members, NEW target \in Members, NEW t \in Tickets,
             NEW action \in Actions \cup {"update"}, Begin(r, m, t, action, target)
      PROVE  request'[q] = request[q]
  BY <1>4 DEF Begin
<1>5. ASSUME NEW r \in Requests, Authorize(r) PROVE request'[q] = request[q]
  <2>1. CASE Reject(r)
    BY <1>2, <2>1 DEF Reject
  <2>2. CASE MoveOn(r, IF request[r].action = "transfer" THEN "target" ELSE "save",
                    request[r].row, Admin(r))
    <3>1. q = r => request[r].action # "transfer"
      BY <2>2 DEF MoveOn
    <3>2. q = r => request'[q].action = request[r].action
      BY <2>2 DEF MoveOn
    <3> QED
      BY <1>3, <2>2, <3>1, <3>2
  <2> QED
    BY <1>5, <2>1, <2>2 DEF Authorize
<1>6. ASSUME NEW r \in Requests, Target(r)
      PROVE  \/ request'[q] = request[q]
             \/ request'[q].target # request'[q].row.assignee
  <2>1. CASE Reject(r)
    BY <1>2, <2>1 DEF Reject
  <2>2. CASE ~Reject(r)
    <3>1. MoveOn(r, "save", request[r].row, request[r].admin)
            /\ request[r].target # request[r].row.assignee
      BY <1>6, <2>2 DEF Target
    <3> QED
      BY <3>1 DEF MoveOn
  <2> QED
    BY <2>1, <2>2
<1>7. ASSUME NEW r \in Requests, Lock(r) PROVE request'[q] = request[q]
  BY <1>3, <1>7 DEF Lock
<1>8. ASSUME NEW r \in Requests, Read(r) PROVE request'[q] = request[q]
  BY <1>2, <1>3, <1>8 DEF Read, Reject
<1>9. ASSUME NEW r \in Requests, Save(r) \/ Rewrite(r) \/ Conflict(r) \/ Abandon(r)
      PROVE  request'[q] = request[q]
  BY <1>2, <1>9 DEF Save, Rewrite, Conflict, Abandon, Reject
<1>10. ASSUME NEW t \in Tickets, NEW m \in Members, Create(t, m) PROVE request'[q] = request[q]
  BY <1>10 DEF Create
<1>11. ASSUME NEW m \in Members, Leave(m) \/ Rejoin(m) \/ \E to \in Roles : AssignRole(m, to)
       PROVE  request'[q] = request[q]
  BY <1>11 DEF Leave, Rejoin, AssignRole
<1>12. CASE UNCHANGED vars
  BY <1>1, <1>12 DEF vars
<1> QED
  BY <1>1, <1>4, <1>5, <1>6, <1>7, <1>8, <1>9, <1>10, <1>11, <1>12 DEF Next, Step

\* The contract sees an event more where an event is appended.
Trail == [t \in Tickets |-> Contents(events[t])]

LEMMA ContentsAppend ==
  ASSUME NEW s \in Seq(Event), NEW e \in Event
  PROVE  Contents(Append(s, e)) = Append(Contents(s), Content(e))
<1> DEFINE C == {Content(x) : x \in Event}
<1>1. Len(s) \in Nat /\ \A i \in 1 .. Len(s) : s[i] \in Event
  OBVIOUS
<1>2. Contents(s) \in Seq(C) /\ Len(Contents(s)) = Len(s)
  <2>1. Contents(s) \in [1 .. Len(s) -> C]
    BY <1>1 DEF Contents
  <2> HIDE DEF C
  <2> QED
    BY <1>1, <2>1
<1>3. Content(e) \in C
  OBVIOUS
<1>4. /\ Len(Append(s, e)) = Len(s) + 1
      /\ \A i \in 1 .. Len(s) : Append(s, e)[i] = s[i]
      /\ Append(s, e)[Len(s) + 1] = e /\ Append(s, e) \in Seq(Event)
  BY <1>1
<1>5. Contents(Append(s, e)) \in Seq(C) /\ Len(Contents(Append(s, e))) = Len(s) + 1
  <2>1. \A i \in 1 .. Len(s) + 1 : Append(s, e)[i] \in Event
    BY <1>1, <1>4
  <2>2. Contents(Append(s, e)) \in [1 .. Len(s) + 1 -> C]
    BY <1>4, <2>1 DEF Contents
  <2> HIDE DEF C
  <2> QED
    BY <1>1, <2>2
<1>6. \A i \in 1 .. Len(s) + 1 :
        Contents(Append(s, e))[i] = IF i = Len(s) + 1 THEN Content(e) ELSE Contents(s)[i]
  BY <1>1, <1>4 DEF Contents
<1> HIDE DEF C
<1>7. /\ Append(Contents(s), Content(e)) \in Seq(C)
      /\ Len(Append(Contents(s), Content(e))) = Len(s) + 1
      /\ \A i \in 1 .. Len(s) + 1 :
           Append(Contents(s), Content(e))[i] = IF i = Len(s) + 1 THEN Content(e) ELSE Contents(s)[i]
  BY <1>1, <1>2, <1>3
<1> QED
  BY <1>5, <1>6, <1>7, SeqEqual

LEMMA TrailSeen ==
  ASSUME Inv, NEW t \in Tickets, NEW e \in Event,
         events' = [events EXCEPT ![t] = Append(events[t], e)]
  PROVE  Trail' = [Trail EXCEPT ![t] = Append(@, Content(e))]
<1>1. \A u \in Tickets : events'[u] = IF u = t THEN Append(events[t], e) ELSE events[u]
  BY DEF Inv, TypeInv, TypeOK
<1>2. Contents(Append(events[t], e)) = Append(Contents(events[t]), Content(e))
  BY ContentsAppend DEF Inv, TypeInv, TypeOK
<1>3. \A u \in Tickets : Contents(events'[u]) =
        IF u = t THEN Append(Contents(events[t]), Content(e)) ELSE Contents(events[u])
  <2> SUFFICES ASSUME NEW u \in Tickets
               PROVE  Contents(events'[u]) =
                        IF u = t THEN Append(Contents(events[t]), Content(e))
                        ELSE Contents(events[u])
    OBVIOUS
  <2>1. CASE u = t
    <3>1. events'[u] = Append(events[t], e)
      BY <1>1, <2>1
    <3> QED
      BY <1>2, <2>1, <3>1
  <2>2. CASE u # t
    <3>1. events'[u] = events[u]
      BY <1>1, <2>2
    <3> QED
      BY <2>2, <3>1
  <2> QED
    BY <2>1, <2>2
<1>4. Trail' = [u \in Tickets |-> Contents(events'[u])]
  BY DEF Trail
<1>5. Trail[t] = Contents(events[t])
  BY DEF Trail
<1> QED
  BY <1>3, <1>4, <1>5 DEF Trail

LEMMA ContractInit == Init => Contract!Init
<1> SUFFICES ASSUME Init PROVE Contract!Init
  OBVIOUS
<1>1. \A t \in Tickets : Contents(events[t]) = <<>>
  BY DEF Init, Contents
<1> QED
  BY <1>1 DEF Init, NoRow, Contract!Init, Contract!Absent

\* A save is the contract's action of the same name.
LEMMA SaveSeen ==
  ASSUME Inv, TargetInv, NEW r \in Requests, Save(r)
  PROVE  Contract!Next
<1>1. PICK t \in Tickets, to \in Statuses, assignee \in Members \cup {Nobody}, e \in Event :
        Saved(r, t, to, assignee, e)
  BY SaveEffect
<1> DEFINE m == request[r].actor
           action == request[r].action
<1>2. /\ m \in Members /\ request[r].target \in Members
      /\ ticket[t] \in Row /\ ticket \in [Tickets -> Row]
  BY DEF Inv, TypeInv, TypeOK, Request
<1>3. ticket' = [ticket EXCEPT ![t].status = to, ![t].assignee = assignee]
  BY <1>1, <1>2 DEF Saved, Row
<1>4. Content(e) = [type |-> action, actor |-> m, from |-> ticket[t].status, to |-> to,
                    fromAssignee |-> ticket[t].assignee, toAssignee |-> assignee]
  BY <1>1 DEF Saved, Content
<1>5. Trail' = [Trail EXCEPT ![t] = Append(@, Content(e))]
  BY <1>1, TrailSeen DEF Saved
<1>6. Contract!Move(t, action, m, to, assignee)
  BY <1>3, <1>4, <1>5 DEF Contract!Move, Contract!Log, Trail
<1>7. <<action, ticket[t].status, to>> \in Transitions
  <2>1. request[r].row = ticket[t] /\ to \in NextStatuses(r)
    BY <1>1 DEF Saved
  <2>2. PICK step \in Transitions : step[1] = action /\ step[2] = ticket[t].status /\ step[3] = to
    BY <2>1 DEF NextStatuses
  <2> QED
    BY <2>2 DEF Transitions
<1>8. assignee = NextAssignee(r) /\ Assignable(r) /\ request[r].row = ticket[t]
      /\ request[r].pc = "save"
  BY <1>1 DEF Saved
<1> HIDE DEF m
<1>9. CASE action = "claim"
  <2>1. ticket[t].status = "open" /\ to = "in_progress"
    BY <1>7, <1>9 DEF Transitions
  <2>2. assignee = m /\ ticket[t].assignee = Nobody
    BY <1>8, <1>9 DEF NextAssignee, Assignable, m
  <2>3. Contract!Claim(t, m)
    BY <1>6, <1>9, <2>1, <2>2 DEF Contract!Claim
  <2> QED
    BY <1>2, <2>3 DEF Contract!Next
<1>10. CASE action = "transfer"
  <2>1. ticket[t].status = "in_progress" /\ to = "in_progress"
    BY <1>7, <1>10 DEF Transitions
  <2>2. assignee = request[r].target /\ request[r].target # ticket[t].assignee
    BY <1>8, <1>10 DEF NextAssignee, TargetInv
  <2>3. Contract!Transfer(t, m, request[r].target)
    BY <1>6, <1>10, <2>1, <2>2 DEF Contract!Transfer
  <2> QED
    BY <1>2, <2>3 DEF Contract!Next
<1>11. CASE action = "resolve"
  <2>1. ticket[t].status = "in_progress" /\ to = "resolved"
    BY <1>7, <1>11 DEF Transitions
  <2>2. assignee = ticket[t].assignee
    BY <1>8, <1>11 DEF NextAssignee
  <2>3. Contract!Resolve(t, m)
    BY <1>6, <1>11, <2>1, <2>2 DEF Contract!Resolve
  <2> QED
    BY <1>2, <2>3 DEF Contract!Next
<1>12. CASE action = "close"
  <2>1. ticket[t].status = "resolved" /\ to = "closed"
    BY <1>7, <1>12 DEF Transitions
  <2>2. assignee = ticket[t].assignee
    BY <1>8, <1>12 DEF NextAssignee
  <2>3. Contract!Close(t, m)
    BY <1>6, <1>12, <2>1, <2>2 DEF Contract!Close
  <2> QED
    BY <1>2, <2>3 DEF Contract!Next
<1>13. CASE action = "reopen"
  <2>1. ticket[t].status \in {"resolved", "closed"} /\ to = "open"
    BY <1>7, <1>13 DEF Transitions
  <2>2. assignee = Nobody
    BY <1>8, <1>13 DEF NextAssignee
  <2>3. Contract!Reopen(t, m)
    BY <1>6, <1>13, <2>1, <2>2 DEF Contract!Reopen
  <2> QED
    BY <1>2, <2>3 DEF Contract!Next
<1> QED
  BY <1>7, <1>9, <1>10, <1>11, <1>12, <1>13 DEF Transitions

LEMMA CreateSeen ==
  ASSUME Inv, AuditComplete, AssignedWhileTaken, NEW t \in Tickets, NEW m \in Members,
         Create(t, m)
  PROVE  Contract!Next
<1> DEFINE e == [type |-> "create", actor |-> m, at |-> begun + 1, from |-> "absent",
                 to |-> "open", fromAssignee |-> Nobody, toAssignee |-> Nobody]
<1>1. ticket[t].status = "absent" /\ events[t] = <<>>
  BY DEF Create, AuditComplete
<1>2. PICK text \in Texts : ticket' = [ticket EXCEPT ![t] =
        [status |-> "open", creator |-> m, assignee |-> Nobody, text |-> text]]
  BY DEF Create
<1>3. e \in Event /\ events' = [events EXCEPT ![t] = Append(events[t], e)]
  <2>1. events' = [events EXCEPT ![t] = <<e>>]
    BY DEF Create
  <2>2. begun + 1 \in Nat
    BY DEF Inv, TypeInv, TypeOK
  <2>3. e \in Event
    BY <2>2 DEF Event, Statuses
  <2> HIDE DEF e
  <2>4. Append(events[t], e) = <<e>>
    BY <1>1
  <2> QED
    BY <2>1, <2>3, <2>4
<1>4. Content(e) = [type |-> "create", actor |-> m, from |-> "absent", to |-> "open",
                    fromAssignee |-> Nobody, toAssignee |-> Nobody]
  BY DEF Content
<1> HIDE DEF e
<1>5. Trail' = [Trail EXCEPT ![t] = Append(@, Content(e))]
  BY <1>3, TrailSeen
<1>6. ticket[t].assignee = Nobody
  BY <1>1 DEF AssignedWhileTaken
<1>7. Contract!Create(t, m)
  BY <1>1, <1>2, <1>4, <1>5, <1>6 DEF Contract!Create, Contract!Log, Trail
<1> QED
  BY <1>7 DEF Contract!Next

LEMMA RewriteSeen ==
  ASSUME Inv, NEW r \in Requests, Rewrite(r)
  PROVE  Contract!Next
<1> DEFINE t == request[r].ticket
<1>1. t \in Tickets /\ ticket[t] \in Row /\ ticket[t].status # "absent"
  BY DEF Rewrite, Inv, TypeInv, TypeOK, Busy, PresentInv
<1>2. PICK text \in Texts : ticket' = [ticket EXCEPT ![t] =
        [status |-> ticket[t].status, creator |-> ticket[t].creator,
         assignee |-> ticket[t].assignee, text |-> text]]
  BY DEF Rewrite, Edited
<1> HIDE DEF t
<1>3. ticket' = [ticket EXCEPT ![t].text = text]
  BY <1>1, <1>2 DEF Row, Inv, TypeInv, TypeOK
<1>4. Trail' = Trail
  BY RewriteEffect DEF Trail
<1>5. Contract!Rewrite(t)
  BY <1>1, <1>3, <1>4 DEF Contract!Rewrite, Trail
<1> QED
  BY <1>1, <1>5 DEF Contract!Next

\* However requests interleave, what they do to a ticket is what its contract allows, one
\* action after the other (TicketService's actions).
THEOREM TicketsKeepContract == Spec => ContractHolds
<1>1. Init => TargetInv
  BY DEF Init, TargetInv, Idle
<1>2. Inv /\ AuditComplete /\ AssignedWhileTaken /\ TargetInv /\ [Next]_vars
        => [Contract!Next]_(Contract!cvars)
  <2> SUFFICES ASSUME Inv, AuditComplete, AssignedWhileTaken, TargetInv, [Next]_vars
               PROVE  Contract!Next \/ UNCHANGED Contract!cvars
    OBVIOUS
  <2>1. UNCHANGED <<ticket, events>> => UNCHANGED Contract!cvars
    BY DEF Contract!cvars
  <2> QED
    BY <2>1, SaveSeen, CreateSeen, RewriteSeen, RowsKept
<1> QED
  BY <1>1, <1>2, InvHolds, AuditTrail, Assignment, TargetStep, ContractInit, PTL
  DEF Spec, ContractHolds, Contract!Spec
-----------------------------------------------------------------------------
(* Waiting for a row *)

\* Who holds a row is at work on that ticket, past its lock: it holds no other row
\* and waits for none.
HolderInv ==
  \A t \in Tickets : lock[t] # Nothing =>
    request[lock[t]].pc \in Locking /\ request[lock[t]].ticket = t

LEMMA HolderInit == Init => HolderInv
  BY DEF Init, HolderInv

\* Handlers come to hold rows by locking them, and leave what they hold at the end.
LEMMA HolderStep == Inv /\ HolderInv /\ [Next]_vars => HolderInv'
<1> SUFFICES ASSUME Inv, HolderInv, [Next]_vars, NEW t \in Tickets, lock'[t] # Nothing
             PROVE  request'[lock'[t]].pc \in Locking /\ request'[lock'[t]].ticket = t
  BY DEF HolderInv
<1> USE DEF Inv, TypeInv, TypeOK
<1>1. CASE lock'[t] = lock[t] /\ request'[lock[t]] = request[lock[t]]
  BY <1>1 DEF HolderInv
<1>2. lock[t] # Nothing => lock[t] \in Requests /\ request[lock[t]].pc \in Locking
                             /\ request[lock[t]].ticket = t
  BY DEF HolderInv
<1>3. ASSUME NEW r \in Requests, request' = [request EXCEPT ![r] = Idle], Release(r)
      PROVE  lock'[t] = lock[t] /\ request'[lock[t]] = request[lock[t]]
  BY <1>2, <1>3 DEF Release
<1>4. ASSUME NEW r \in Requests, request[r].pc \notin Locking, UNCHANGED lock,
             \E value : request' = [request EXCEPT ![r] = value]
      PROVE  lock'[t] = lock[t] /\ request'[lock[t]] = request[lock[t]]
  BY <1>2, <1>4
<1>5. ASSUME NEW r \in Requests, NEW pc \in Locking, NEW row \in Row, NEW admin \in BOOLEAN,
             request[r].pc \in Locking, MoveOn(r, pc, row, admin), UNCHANGED lock
      PROVE  request'[lock'[t]].pc \in Locking /\ request'[lock'[t]].ticket = t
  <2>1. /\ request'[r].pc = pc /\ request'[r].ticket = request[r].ticket
        /\ \A q \in Requests \ {r} : request'[q] = request[q]
    BY <1>5, MoveOnEffect DEF Locking
  <2> QED
    BY <1>2, <1>5, <2>1
<1>6. ASSUME NEW r \in Requests, Lock(r)
      PROVE  request'[lock'[t]].pc \in Locking /\ request'[lock'[t]].ticket = t
  <2>1. /\ request[r].pc = "lock" /\ request[r].ticket \in Tickets
        /\ lock' = [lock EXCEPT ![request[r].ticket] = r]
        /\ MoveOn(r, "authorize", ticket[request[r].ticket], FALSE)
    BY <1>6 DEF Lock, Busy
  <2>2. /\ request'[r].pc = "authorize" /\ request'[r].ticket = request[r].ticket
        /\ \A q \in Requests \ {r} : request'[q] = request[q]
    BY <2>1, MoveOnEffect DEF Locking
  <2>3. CASE t = request[r].ticket
    BY <2>1, <2>2, <2>3 DEF Locking
  <2>4. CASE t # request[r].ticket
    <3>1. lock'[t] = lock[t] /\ lock[t] # r
      BY <1>2, <2>1, <2>4 DEF Locking
    <3> QED
      BY <1>1, <1>2, <2>2, <3>1
  <2> QED
    BY <2>3, <2>4
<1>7. ASSUME NEW r \in Requests, Authorize(r)
      PROVE  request'[lock'[t]].pc \in Locking /\ request'[lock'[t]].ticket = t
  <2>1. CASE Reject(r)
    BY <1>1, <1>3, <2>1 DEF Reject
  <2>2. CASE ~Reject(r)
    <3>1. /\ request[r].pc = "authorize" /\ UNCHANGED lock
          /\ MoveOn(r, IF request[r].action = "transfer" THEN "target" ELSE "save",
                    request[r].row, Admin(r))
      BY <1>7, <2>2 DEF Authorize
    <3>2. Admin(r) \in BOOLEAN /\ request[r].row \in Row
      BY DEF Admin, HasPermission, Request
    <3> QED
      BY <1>5, <3>1, <3>2 DEF Locking
  <2> QED
    BY <2>1, <2>2
<1>8. ASSUME NEW r \in Requests, Target(r)
      PROVE  request'[lock'[t]].pc \in Locking /\ request'[lock'[t]].ticket = t
  <2>1. CASE Reject(r)
    BY <1>1, <1>3, <2>1 DEF Reject
  <2>2. CASE ~Reject(r)
    <3>1. /\ request[r].pc = "target" /\ UNCHANGED lock
          /\ MoveOn(r, "save", request[r].row, request[r].admin)
      BY <1>8, <2>2 DEF Target
    <3>2. request[r].admin \in BOOLEAN /\ request[r].row \in Row
      BY DEF Request
    <3> QED
      BY <1>5, <3>1, <3>2 DEF Locking
  <2> QED
    BY <2>1, <2>2
<1>9. ASSUME NEW r \in Requests, Read(r)
      PROVE  request'[lock'[t]].pc \in Locking /\ request'[lock'[t]].ticket = t
  <2>1. CASE Reject(r)
    BY <1>1, <1>3, <2>1 DEF Reject
  <2>2. CASE ~Reject(r)
    BY <1>1, <1>4, <1>9, <2>2 DEF Read, MoveOn, Locking
  <2> QED
    BY <2>1, <2>2
<1>10. ASSUME NEW r \in Requests, Save(r) \/ Rewrite(r) \/ Conflict(r) \/ Abandon(r)
       PROVE  lock'[t] = lock[t] /\ request'[lock[t]] = request[lock[t]]
  BY <1>3, <1>10 DEF Save, Rewrite, Conflict, Abandon, Reject
<1>11. ASSUME NEW r \in Requests, NEW m \in Members, NEW target \in Members, NEW u \in Tickets,
              NEW action \in Actions \cup {"update"}, Begin(r, m, u, action, target)
       PROVE  lock'[t] = lock[t] /\ request'[lock[t]] = request[lock[t]]
  BY <1>4, <1>11 DEF Begin, Locking
<1>12. ASSUME NEW u \in Tickets, NEW m \in Members, Create(u, m) PROVE UNCHANGED <<lock, request>>
  BY <1>12 DEF Create
<1>13. ASSUME NEW m \in Members, Leave(m) \/ Rejoin(m) \/ \E to \in Roles : AssignRole(m, to)
       PROVE  UNCHANGED <<lock, request>>
  BY <1>13 DEF Leave, Rejoin, AssignRole
<1>14. CASE UNCHANGED vars
  BY <1>1, <1>14 DEF vars
<1> QED
  BY <1>1, <1>6, <1>7, <1>8, <1>9, <1>10, <1>11, <1>12, <1>13, <1>14 DEF Next, Step

\* No cycle of handlers waiting for each other's rows exists: the row a handler
\* waits for is held by one that is past its only wait, or by nobody.
NoWaitCycle ==
  \A r \in Requests : request[r].pc \in {"lock", "edit"} /\ ~Free(request[r].ticket) =>
    \E holder \in Requests \ {r} :
      /\ lock[request[r].ticket] = holder /\ request[holder].ticket = request[r].ticket
      /\ request[holder].pc \in Locking

\* Whoever waits, waits for a handler that does not wait: the lock of a ticket's row
\* is the only one a transaction takes, so that the workflow cannot deadlock.
THEOREM HoldersGoOn == Spec => []NoWaitCycle
<1>1. Inv /\ HolderInv => NoWaitCycle
  <2> SUFFICES ASSUME Inv, HolderInv, NEW r \in Requests, request[r].pc \in {"lock", "edit"},
                      ~Free(request[r].ticket)
               PROVE  \E holder \in Requests \ {r} :
                        /\ lock[request[r].ticket] = holder
                        /\ request[holder].ticket = request[r].ticket
                        /\ request[holder].pc \in Locking
    BY DEF NoWaitCycle
  <2>1. request[r].ticket \in Tickets /\ lock[request[r].ticket] # Nothing
    BY DEF Inv, TypeInv, Busy, Free
  <2>2. /\ lock[request[r].ticket] \in Requests
        /\ request[lock[request[r].ticket]].pc \in Locking
        /\ request[lock[request[r].ticket]].ticket = request[r].ticket
    BY <2>1 DEF HolderInv, Inv, TypeInv, TypeOK
  <2>3. lock[request[r].ticket] # r
    BY <2>2 DEF Locking
  <2> QED
    BY <2>2, <2>3
<1> QED
  BY <1>1, InvHolds, HolderInit, HolderStep, PTL DEF Spec
=============================================================================
