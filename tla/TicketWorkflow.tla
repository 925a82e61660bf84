--------------------------- MODULE TicketWorkflow ---------------------------
(***************************************************************************)
(* The workflow of the ticketing service: members claim, transfer,         *)
(* resolve, close and reopen tickets in concurrent requests, and each      *)
(* change is committed together with an audit event.  Others rewrite what  *)
(* the ticket says meanwhile.                                              *)
(*                                                                         *)
(* A request is one transaction.  It locks the ticket's row, then asks for *)
(* permissions one at a time, awaiting the cache or the database at each   *)
(* step, and commits or is rolled back.  An update of the text reads the   *)
(* row without its lock.  Roles and memberships change meanwhile: `role`   *)
(* is what has_permission answers from, cached or not.                     *)
(***************************************************************************)
EXTENDS Naturals, Sequences

CONSTANTS
  Members,       \* the memberships of one tenant
  Owner,         \* the membership of its owner, who stays its administrator
  Agents,        \* the members who are agents to begin with
  Tickets,
  Texts,         \* what a ticket's subject, description and priority may say
  Requests,      \* the API's request handlers
  Nobody,        \* the assignee of a ticket nobody has, the text of one not there
  Nothing,       \* the lock of a row nobody holds, the ticket of an idle handler
  MaxRequests,   \* bound: transactions begun
  MaxChanges     \* bound: changes of roles and memberships

ASSUME OwnerAssumption == Owner \in Members /\ Agents \subseteq Members \ {Owner}
ASSUME NobodyAssumption == Nobody \notin Members
ASSUME NothingAssumption == Nothing \notin Requests \cup Tickets
ASSUME BoundAssumption == MaxRequests \in Nat /\ MaxChanges \in Nat

VARIABLES
  ticket,    \* tickets rows
  events,    \* ticket_events rows of each ticket, in the order of their commits
  lock,      \* which request holds the lock of a ticket's row
  request,   \* the requests being handled
  role,      \* the role a member's permissions come from
  active,    \* the members whose membership is ACTIVE
  begun,     \* transactions begun so far: the database's clock
  changes    \* changes of roles and memberships still to come

vars == <<ticket, events, lock, request, role, active, begun, changes>>
-----------------------------------------------------------------------------
(* Rows, permissions and requests *)

Statuses == {"open", "in_progress", "resolved", "closed"}
Actions == {"claim", "transfer", "resolve", "reopen", "close"}
\* Mutant of Transitions: resolving leads to a status the table does not know.
UnknownStatus == {<<"claim", "open", "in_progress">>, <<"resolve", "in_progress", "done">>}
Transitions == {<<"claim", "open", "in_progress">>,
                <<"transfer", "in_progress", "in_progress">>,
                <<"resolve", "in_progress", "resolved">>,
                <<"reopen", "resolved", "open">>,
                <<"reopen", "closed", "open">>,
                <<"close", "resolved", "closed">>}

\* The default roles, and their permissions the workflow asks for.
Roles == {"requester", "agent", "tenant_admin"}
Granted == [requester |-> {},
            agent |-> {"tickets.read.all", "tickets.update.all", "tickets.manage.workflow"},
            tenant_admin |-> {"tickets.read.all", "tickets.update.all",
                              "tickets.manage.workflow", "roles.manage"}]
HasPermission(m, permission) == permission \in Granted[role[m]]

Row == [status : Statuses \cup {"absent"}, creator : Members \cup {Nobody},
        assignee : Members \cup {Nobody}, text : Texts \cup {Nobody}]
NoRow == [status |-> "absent", creator |-> Nobody, assignee |-> Nobody, text |-> Nobody]
Event == [type : Actions \cup {"create"}, actor : Members, at : Nat,
          from : Statuses \cup {"absent"}, to : Statuses,
          fromAssignee : Members \cup {Nobody}, toAssignee : Members \cup {Nobody}]

\* A request keeps the row as it read it, with the lock or, to update it, without.
Locking == {"authorize", "target", "save"}
Request == [pc : {"idle", "lock", "read", "edit"} \cup Locking,
            ticket : Tickets \cup {Nothing}, actor : Members,
            action : Actions \cup {"update"}, target : Members, at : Nat,
            row : Row, admin : BOOLEAN]
Idle == [pc |-> "idle", ticket |-> Nothing, actor |-> Owner, action |-> "claim",
         target |-> Owner, at |-> 0, row |-> NoRow, admin |-> FALSE]

TypeOK ==
  /\ ticket \in [Tickets -> Row]
  /\ events \in [Tickets -> Seq(Event)]
  /\ lock \in [Tickets -> Requests \cup {Nothing}]
  /\ request \in [Requests -> Request]
  /\ role \in [Members -> Roles]
  /\ active \in SUBSET Members
  /\ begun \in Nat
  /\ changes \in Nat

\* The tenant has its owner, its agents, and requesters, some of whom have left.
Init ==
  /\ ticket = [t \in Tickets |-> NoRow]
  /\ events = [t \in Tickets |-> <<>>]
  /\ lock = [t \in Tickets |-> Nothing]
  /\ request = [r \in Requests |-> Idle]
  /\ role = [m \in Members |-> IF m = Owner THEN "tenant_admin"
                              ELSE IF m \in Agents THEN "agent" ELSE "requester"]
  /\ active \in {ms \in SUBSET Members : Owner \in ms}
  /\ begun = 0
  /\ changes = MaxChanges
-----------------------------------------------------------------------------
(* Steps of a request *)

\* A ticket, its first event and nothing else are one commit.
Create(t, m) ==
  /\ ticket[t].status = "absent" /\ m \in active /\ begun < MaxRequests
  /\ \E text \in Texts :
       ticket' = [ticket EXCEPT ![t] =
         [status |-> "open", creator |-> m, assignee |-> Nobody, text |-> text]]
  /\ events' = [events EXCEPT ![t] = <<[type |-> "create", actor |-> m, at |-> begun + 1,
                                        from |-> "absent", to |-> "open",
                                        fromAssignee |-> Nobody, toAssignee |-> Nobody]>>]
  /\ begun' = begun + 1
  /\ UNCHANGED <<lock, request, role, active, changes>>

\* The transaction starts when the caller is authenticated, and now() is of this
\* moment; the membership read here is not read again.
Begin(r, m, t, action, target) ==
  /\ request[r].pc = "idle" /\ begun < MaxRequests
  /\ m \in active /\ ticket[t].status # "absent"
  /\ action # "transfer" => target = Owner   \* only a transfer names a target
  /\ request' = [request EXCEPT ![r] =
                   [pc |-> IF action = "update" THEN "read" ELSE "lock",
                    ticket |-> t, actor |-> m, action |-> action, target |-> target,
                    at |-> begun + 1, row |-> NoRow, admin |-> FALSE]]
  /\ begun' = begun + 1
  /\ UNCHANGED <<ticket, events, lock, role, active, changes>>

MoveOn(r, pc, row, admin) ==
  request' = [request EXCEPT ![r] =
    [pc |-> pc, ticket |-> @.ticket, actor |-> @.actor, action |-> @.action,
     target |-> @.target, at |-> @.at, row |-> row, admin |-> admin]]

\* Mutant of Release: the transaction is left open.
LeftOpen(r) == UNCHANGED lock
\* The end of the transaction gives its row lock up.
Release(r) ==
  lock' = [t \in Tickets |-> IF lock[t] = r THEN Nothing ELSE lock[t]]
\* An answer other than 200, a client that is gone, a lost process: rolled back.
Reject(r) ==
  /\ request' = [request EXCEPT ![r] = Idle]
  /\ Release(r)
  /\ UNCHANGED <<ticket, events, role, active, begun, changes>>

\* Mutant of Free: the row is selected without FOR UPDATE.
AlwaysFree(t) == TRUE
Free(t) == lock[t] = Nothing
Lock(r) ==
  LET t == request[r].ticket IN
  /\ request[r].pc = "lock" /\ Free(t)
  /\ lock' = [lock EXCEPT ![t] = r]
  /\ MoveOn(r, "authorize", ticket[t], FALSE)
  /\ UNCHANGED <<ticket, events, role, active, begun, changes>>

\* Who may act: a request sees the ticket if it is its creator's or its caller
\* reads all; it works on it with the permission, or reopens its own; and it
\* changes what somebody has as the assignee or as an administrator.  The code
\* asks one after the other.  A role that passes the last question passes the ones
\* before it, so asking all of them then allows the same.
Visible(r) == \/ request[r].row.creator = request[r].actor
              \/ HasPermission(request[r].actor, "tickets.read.all")
Permitted(r) == \/ HasPermission(request[r].actor, "tickets.manage.workflow")
                \/ request[r].action = "reopen" /\ request[r].row.creator = request[r].actor
Assigned(r) == request[r].row.assignee = request[r].actor
Admin(r) == HasPermission(request[r].actor, "roles.manage")
Entitled(r) == request[r].action \in {"claim", "reopen"} \/ Assigned(r) \/ Admin(r)

Authorize(r) ==
  LET authorized == Visible(r) /\ Permitted(r) /\ Entitled(r) IN
  /\ request[r].pc = "authorize"
  /\ \/ /\ authorized
        /\ MoveOn(r, IF request[r].action = "transfer" THEN "target" ELSE "save",
                  request[r].row, Admin(r))
        /\ UNCHANGED <<ticket, events, lock, role, active, begun, changes>>
     \/ ~authorized /\ Reject(r)

\* The new assignee is an active member who may work on tickets, and another one.
Target(r) ==
  LET target == request[r].target
      suitable == /\ target \in active
                  /\ HasPermission(target, "tickets.manage.workflow")
                  /\ target # request[r].row.assignee IN
  /\ request[r].pc = "target"
  /\ \/ /\ suitable
        /\ MoveOn(r, "save", request[r].row, request[r].admin)
        /\ UNCHANGED <<ticket, events, lock, role, active, begun, changes>>
     \/ ~suitable /\ Reject(r)

\* Mutant of NextAssignee: reopening leaves the ticket with its assignee.
KeptAssignee(r) ==
  CASE request[r].action = "claim" -> request[r].actor
    [] request[r].action = "transfer" -> request[r].target
    [] OTHER -> request[r].row.assignee
NextAssignee(r) ==
  CASE request[r].action = "claim" -> request[r].actor
    [] request[r].action = "transfer" -> request[r].target
    [] request[r].action = "reopen" -> Nobody
    [] OTHER -> request[r].row.assignee

\* Where the action leads from the ticket's status; a claim also needs a ticket
\* nobody has.
NextStatuses(r) ==
  {step[3] : step \in {s \in Transitions : s[1] = request[r].action /\ s[2] = request[r].row.status}}
Assignable(r) == request[r].action = "claim" => request[r].row.assignee = Nobody

\* _save_action: the change and its event are one commit, which ends the lock.
Save(r) ==
  LET t == request[r].ticket IN
  /\ request[r].pc = "save" /\ Assignable(r)
  /\ \E to \in NextStatuses(r) :
       /\ events' = [events EXCEPT ![t] =
            Append(@, [type |-> request[r].action, actor |-> request[r].actor,
                       at |-> request[r].at, from |-> request[r].row.status, to |-> to,
                       fromAssignee |-> request[r].row.assignee,
                       toAssignee |-> NextAssignee(r)])]
       /\ ticket' = [ticket EXCEPT ![t] =
            [status |-> to, creator |-> @.creator, assignee |-> NextAssignee(r),
             text |-> @.text]]
  /\ request' = [request EXCEPT ![r] = Idle]
  /\ Release(r)
  /\ UNCHANGED <<role, active, begun, changes>>

\* An update reads the row and asks whether its caller may; if not, or if the
\* ticket says already what it asks for, it ends here.
MayUpdate(r) == \/ ticket[request[r].ticket].creator = request[r].actor
                \/ HasPermission(request[r].actor, "tickets.update.all")
Read(r) ==
  /\ request[r].pc = "read"
  /\ \/ /\ MayUpdate(r)
        /\ MoveOn(r, "edit", ticket[request[r].ticket], FALSE)
        /\ UNCHANGED <<ticket, events, lock, role, active, begun, changes>>
     \/ Reject(r)

\* Mutant of Edited: every column is written, as it was read.
WholeRow(r, text) == [status |-> request[r].row.status, creator |-> request[r].row.creator,
                      assignee |-> request[r].row.assignee, text |-> text]
\* The columns that say something else than the row that was read, and no other.
Edited(r, text) == LET row == ticket[request[r].ticket] IN
  [status |-> row.status, creator |-> row.creator, assignee |-> row.assignee, text |-> text]
\* The UPDATE waits for the row's lock, and is committed at once.
Rewrite(r) ==
  LET t == request[r].ticket IN
  /\ request[r].pc = "edit" /\ Free(t)
  /\ \E text \in Texts \ {request[r].row.text} :
       ticket' = [ticket EXCEPT ![t] = Edited(r, text)]
  /\ request' = [request EXCEPT ![r] = Idle]
  /\ Release(r)
  /\ UNCHANGED <<events, role, active, begun, changes>>

Conflict(r) ==
  /\ request[r].pc = "save" /\ ~(Assignable(r) /\ NextStatuses(r) # {})
  /\ Reject(r)

Abandon(r) == request[r].pc # "idle" /\ Reject(r)
-----------------------------------------------------------------------------
(* Roles and memberships, which change in transactions of their own *)

Change == changes > 0 /\ changes' = changes - 1

\* assign_roles; the owner keeps the administrator's role.
AssignRole(m, to) ==
  /\ m # Owner /\ role[m] # to
  /\ role' = [role EXCEPT ![m] = to]
  /\ Change
  /\ UNCHANGED <<ticket, events, lock, request, active, begun>>

\* leave; the tickets the member had stay with the member.
Leave(m) ==
  /\ m \in active /\ m # Owner
  /\ active' = active \ {m}
  /\ Change
  /\ UNCHANGED <<ticket, events, lock, request, role, begun>>

\* An invitation, which makes the member a requester again, and its acceptance.
Rejoin(m) ==
  /\ m \notin active
  /\ active' = active \cup {m}
  /\ role' = [role EXCEPT ![m] = "requester"]
  /\ Change
  /\ UNCHANGED <<ticket, events, lock, request, begun>>
-----------------------------------------------------------------------------
Step(r) == \/ Lock(r) \/ Authorize(r) \/ Target(r) \/ Save(r) \/ Conflict(r)
           \/ Read(r) \/ Rewrite(r)

Next ==
  \/ \E t \in Tickets, m \in Members : Create(t, m)
  \/ \E r \in Requests, m, target \in Members, t \in Tickets,
        action \in Actions \cup {"update"} :
       Begin(r, m, t, action, target)
  \/ \E r \in Requests : Step(r) \/ Abandon(r)
  \/ \E m \in Members : Leave(m) \/ Rejoin(m) \/ \E to \in Roles : AssignRole(m, to)

Spec == Init /\ [][Next]_vars

\* A request whose caller waits goes on.  Only its wait for the row's lock is ever
\* interrupted, and PostgreSQL grants a lock in the order of the waiters.  Nobody is
\* obliged to send a request.
FairSpec == Spec /\ \A r \in Requests : SF_vars(Step(r))
-----------------------------------------------------------------------------
(* Correctness *)

\* The audit trail of a ticket is complete and exact: each event starts where the
\* one before it ended, and the last one ends at what the ticket is, whatever is
\* written to the row meanwhile (_save_action, update).
AuditComplete ==
  \A t \in Tickets : LET trail == events[t] IN
    /\ trail = <<>> <=> ticket[t].status = "absent"
    /\ trail # <<>> => /\ trail[Len(trail)].to = ticket[t].status
                       /\ trail[Len(trail)].toAssignee = ticket[t].assignee
    /\ \A i \in 1 .. Len(trail) - 1 : /\ trail[i + 1].from = trail[i].to
                                      /\ trail[i + 1].fromAssignee = trail[i].toAssignee

\* A ticket has an assignee exactly while it is taken: from the claim until it is
\* reopened, however claims, transfers and reopenings race.
AssignedWhileTaken ==
  \A t \in Tickets : ticket[t].assignee # Nobody <=>
                     ticket[t].status \in {"in_progress", "resolved", "closed"}

\* Whoever moves a ticket somebody has is its assignee at that moment, or passed
\* as an administrator; a reopening needs neither (_require_assignee_or_admin).
Work(row) == <<row.status, row.assignee>>
HandsOff ==
  [][\A t \in Tickets :
       ticket[t].assignee # Nobody /\ Work(ticket[t])' # Work(ticket[t]) =>
         \E r \in Requests :
           /\ request[r].pc = "save" /\ request[r].ticket = t
           /\ \/ request[r].actor = ticket[t].assignee
              \/ request[r].admin
              \/ request[r].action = "reopen" /\ ticket'[t].assignee = Nobody]_vars

\* Every request is answered: no handler waits for a row's lock forever.
RequestsEnd == \A r \in Requests : request[r].pc # "idle" ~> request[r].pc = "idle"

\* Whatever requests race, every action takes effect at once on the ticket as it is
\* then, as the contract of a ticket says (_save_action, update).
Content(e) == [type |-> e.type, actor |-> e.actor, from |-> e.from, to |-> e.to,
               fromAssignee |-> e.fromAssignee, toAssignee |-> e.toAssignee]
Contents(trail) == [i \in 1 .. Len(trail) |-> Content(trail[i])]
Contract == INSTANCE TicketContract WITH
  trail <- [t \in Tickets |-> Contents(events[t])]
ContractHolds == Contract!Spec

\* The events of a ticket, listed by created_at, come in the order in which their
\* actions took effect (list_for_ticket).
TimelineInOrder ==
  \A t \in Tickets : \A i \in 1 .. Len(events[t]) - 1 : events[t][i].at < events[t][i + 1].at
=============================================================================
