-------------------------- MODULE MembershipAccess --------------------------
(***************************************************************************)
(* The members of a tenant, their roles, and the snapshots of their        *)
(* permissions in Redis.                                                   *)
(*                                                                         *)
(* A request resolves its caller's membership, asks for the caller's       *)
(* permissions (cache aside: snapshot, else database and a new snapshot),  *)
(* and then changes a membership or its roles in a transaction; after the  *)
(* commit it deletes the target's snapshot.  invite, accept and leave lock *)
(* the membership's row.  assign_roles does not: it deletes the role rows  *)
(* that its statement sees, having waited for whoever deletes them too,    *)
(* and inserts others, which the unique (membership, role) may refuse.     *)
(***************************************************************************)
EXTENDS Naturals

CONSTANTS
  Members,       \* users, each with at most one membership of the tenant
  Owner,
  Requests,      \* the API's request handlers
  Nothing,       \* no snapshot, no holder of a lock
  RedisFails,    \* may an operation on Redis fail?
  RoleSets,      \* bound: the sets of roles assignments ask for
  MaxChanges     \* bound: requests begun that change something

ASSUME OwnerAssumption == Owner \in Members
ASSUME NothingAssumption == Nothing \notin Requests
\* The request's role_ids are not empty.
ASSUME RoleSetsAssumption == RoleSets \subseteq (SUBSET {"requester", "agent", "tenant_admin"}) \ {{}}
ASSUME BoundAssumption == RedisFails \in BOOLEAN /\ MaxChanges \in Nat

VARIABLES
  status,     \* the status of each membership row
  rows,       \* membership_roles
  lock,       \* which request holds the row, or the new index entry, of a membership
  snapshot,   \* the permission snapshot of each member
  request,    \* the requests being handled
  begun,      \* requests begun that change something
  excused     \* history: members whose snapshot was filled with what had changed
              \* meanwhile, or was not deleted as it should have been

vars == <<status, rows, lock, snapshot, request, begun, excused>>
-----------------------------------------------------------------------------
(* Rows, permissions, snapshots and requests *)

Statuses == {"none", "invited", "active", "left"}
Roles == {"requester", "agent", "tenant_admin"}
\* Who wrote a row tells two rows of a role apart.
RoleRow == [member : Members, role : Roles, by : Nat]
RowsOf(m) == {x \in rows : x.member = m}

\* What the default roles grant, as far as the requests below tell it apart.
Granted == [requester |-> {}, agent |-> {"work"}, tenant_admin |-> {"work", "manage"}]
Permissions == {"work", "manage"}
PermissionsOf(m) == UNION {Granted[x.role] : x \in RowsOf(m)}

\* invite and assign ask for a permission, so does "work", any request that
\* changes nothing here; accept and leave are the caller's own business.
Needs == [invite |-> "manage", assign |-> "manage", work |-> "work"]
\* Mutant of Becomes: an acceptance stores a status the enumeration does not have.
Unlisted == [invite |-> "invited", accept |-> "accepted", leave |-> "left"]
Becomes == [invite |-> "invited", accept |-> "active", leave |-> "left"]
Operations == {"invite", "assign", "work", "accept", "leave"}
Steps == {"idle", "get", "read", "fill", "act", "create", "scan", "remove", "insert",
          "commit", "invalidate"}
Request == [pc : Steps, op : Operations, actor : Members, target : Members,
            wants : SUBSET Roles,               \* the roles to be assigned
            permissions : SUBSET Permissions,   \* as read from the database
            seen : SUBSET RoleRow,              \* rows its DELETE saw, then those it deleted
            by : Nat]
Idle == [pc |-> "idle", op |-> "work", actor |-> Owner, target |-> Owner,
         wants |-> {}, permissions |-> {}, seen |-> {}, by |-> 0]

TypeOK ==
  /\ status \in [Members -> Statuses]
  /\ rows \in SUBSET RoleRow
  /\ lock \in [Members -> Requests \cup {Nothing}]
  /\ snapshot \in [Members -> (SUBSET Permissions) \cup {Nothing}]
  /\ request \in [Requests -> Request]
  /\ begun \in 0..MaxChanges
  /\ excused \in SUBSET Members

\* The tenant has been created with its owner, and others may have been invited,
\* have accepted and have left: each with the role an invitation gives.
Init ==
  /\ status \in {f \in [Members -> Statuses] : f[Owner] = "active"}
  /\ rows = {[member |-> Owner, role |-> "tenant_admin", by |-> 0]} \cup
            {[member |-> m, role |-> "requester", by |-> 0] :
               m \in {n \in Members \ {Owner} : status[n] # "none"}}
  /\ lock = [m \in Members |-> Nothing]
  /\ snapshot = [m \in Members |-> Nothing]
  /\ request = [r \in Requests |-> Idle]
  /\ begun = 0
  /\ excused = {}
-----------------------------------------------------------------------------
(* Who may act: the caller's membership and permissions *)

MoveOn(r, pc, permissions, seen) ==
  request' = [request EXCEPT ![r] =
    [pc |-> pc, op |-> @.op, actor |-> @.actor, target |-> @.target, wants |-> @.wants,
     permissions |-> permissions, seen |-> seen, by |-> @.by]]
GoTo(r, pc) == MoveOn(r, pc, request[r].permissions, request[r].seen)
End(r) == request' = [request EXCEPT ![r] = Idle]

\* get_current_tenant admits active members; the target and the roles come with
\* the request.
Begin(r, op, actor, target, wants) ==
  /\ request[r].pc = "idle"
  /\ op \in {"invite", "assign", "work"} => status[actor] = "active"
  /\ op \in {"work", "accept", "leave"} => target = actor
  /\ wants \in IF op = "assign" THEN RoleSets ELSE {{"requester"}}
  /\ begun' = IF op = "work" THEN begun ELSE begun + 1
  /\ begun' \in 0..MaxChanges
  /\ request' = [request EXCEPT ![r] =
       [pc |-> IF op \in {"accept", "leave"} THEN "act" ELSE "get", op |-> op,
        actor |-> actor, target |-> target, wants |-> wants, permissions |-> {},
        seen |-> {}, by |-> IF op = "work" THEN 0 ELSE begun']]
  /\ UNCHANGED <<status, rows, lock, snapshot, excused>>

\* require: 403, or on to the operation.
Decide(r, permissions) ==
  IF request[r].op # "work" /\ Needs[request[r].op] \in permissions
  THEN MoveOn(r, "act", {}, {}) ELSE End(r)

Hit(r) ==
  /\ request[r].pc = "get" /\ snapshot[request[r].actor] # Nothing
  /\ Decide(r, snapshot[request[r].actor])
  /\ UNCHANGED <<status, rows, lock, snapshot, begun, excused>>
\* Without a snapshot, or without Redis, the database is asked.
Miss(r) ==
  /\ request[r].pc = "get" /\ (snapshot[request[r].actor] = Nothing \/ RedisFails)
  /\ GoTo(r, "read")
  /\ UNCHANGED <<status, rows, lock, snapshot, begun, excused>>
Read(r) ==
  /\ request[r].pc = "read"
  /\ MoveOn(r, "fill", PermissionsOf(request[r].actor), {})
  /\ UNCHANGED <<status, rows, lock, snapshot, begun, excused>>
Fill(r) ==
  LET q == request[r] IN
  /\ q.pc = "fill"
  /\ \/ /\ snapshot' = [snapshot EXCEPT ![q.actor] = q.permissions]
        /\ excused' = IF q.permissions = PermissionsOf(q.actor)
                      THEN excused \ {q.actor} ELSE excused \cup {q.actor}
     \/ RedisFails /\ UNCHANGED <<snapshot, excused>>
  /\ Decide(r, q.permissions)
  /\ UNCHANGED <<status, rows, lock, begun>>

\* Redis drops a snapshot when its TTL, with its jitter, ends.
Expire(m) ==
  /\ snapshot[m] # Nothing
  /\ snapshot' = [snapshot EXCEPT ![m] = Nothing]
  /\ excused' = excused \ {m}
  /\ UNCHANGED <<status, rows, lock, request, begun>>
-----------------------------------------------------------------------------
(* The membership *)

\* The end of a transaction, committed or rolled back.
Release(r) == lock' = [m \in Members |-> IF lock[m] = r THEN Nothing ELSE lock[m]]

\* Mutant of Free: the row is selected without FOR UPDATE.
AlwaysFree(r) == TRUE
Free(r) == lock[request[r].target] = Nothing

\* An administrator who invites himself has his row in the session, and the
\* locked row does not replace it.
SeenStatus(r) ==
  IF request[r].op = "invite" /\ request[r].target = request[r].actor
  THEN "active" ELSE status[request[r].target]
Admitted(r) ==
  CASE request[r].op = "invite" -> SeenStatus(r) = "left"
    [] request[r].op = "accept" -> SeenStatus(r) = "invited"
    [] request[r].op = "leave"  -> SeenStatus(r) = "active" /\ request[r].target # Owner

\* A membership that exists is locked, and the status is of the locked row.
LockRow(r) ==
  /\ request[r].pc = "act" /\ request[r].op \in {"invite", "accept", "leave"}
  /\ status[request[r].target] # "none" /\ Free(r) /\ Admitted(r)
  /\ lock' = [lock EXCEPT ![request[r].target] = r]
  /\ GoTo(r, IF request[r].op = "invite" THEN "scan" ELSE "commit")
  /\ UNCHANGED <<status, rows, snapshot, begun, excused>>
Refuse(r) ==
  /\ request[r].pc = "act" /\ request[r].op \in {"invite", "accept", "leave"}
  /\ \/ status[request[r].target] # "none" /\ Free(r) /\ ~Admitted(r)
     \/ status[request[r].target] = "none" /\ request[r].op # "invite"
  /\ End(r)
  /\ UNCHANGED <<status, rows, lock, snapshot, begun, excused>>

\* Nothing to lock: two invitations may both come to insert the membership, and
\* the unique (tenant, user) lets one of them; for the other it is a 500.
InviteNew(r) ==
  /\ request[r].pc = "act" /\ request[r].op = "invite"
  /\ status[request[r].target] = "none"
  /\ GoTo(r, "create")
  /\ UNCHANGED <<status, rows, lock, snapshot, begun, excused>>
Create(r) ==
  /\ request[r].pc = "create" /\ lock[request[r].target] = Nothing
  /\ IF status[request[r].target] = "none"
     THEN lock' = [lock EXCEPT ![request[r].target] = r] /\ GoTo(r, "scan")
     ELSE End(r) /\ UNCHANGED lock
  /\ UNCHANGED <<status, rows, snapshot, begun, excused>>
-----------------------------------------------------------------------------
(* Its roles *)

\* Mutant of OwnerKeepsAdmin: the owner is treated like anybody.
AnyRoles(m, roles) == TRUE
OwnerKeepsAdmin(m, roles) == m = Owner => "tenant_admin" \in roles

\* assign_roles reads the membership without locking it; its status does not matter.
Assign(r) ==
  LET q == request[r] IN
  /\ q.pc = "act" /\ q.op = "assign"
  /\ IF status[q.target] # "none" /\ OwnerKeepsAdmin(q.target, q.wants)
     THEN GoTo(r, "scan") ELSE End(r)
  /\ UNCHANGED <<status, rows, lock, snapshot, begun, excused>>

\* DELETE: the statement sees the rows committed when it starts ...
Scan(r) ==
  /\ request[r].pc = "scan"
  /\ MoveOn(r, "remove", {}, RowsOf(request[r].target))
  /\ UNCHANGED <<status, rows, lock, snapshot, begun, excused>>

Deleted(r) == IF request[r].pc \in {"insert", "commit"} THEN request[r].seen ELSE {}
Inserted(r) ==
  IF request[r].pc = "commit" /\ request[r].op \in {"invite", "assign"}
  THEN {[member |-> request[r].target, role |-> role, by |-> request[r].by] :
          role \in request[r].wants}
  ELSE {}
Others(r) == Requests \ {r}

\* ... waits for whoever deletes one of them, and passes over those that are gone.
Remove(r) ==
  /\ request[r].pc = "remove"
  /\ \A o \in Others(r) : Deleted(o) \cap request[r].seen = {}
  /\ MoveOn(r, "insert", {}, request[r].seen \cap rows)
  /\ UNCHANGED <<status, rows, lock, snapshot, begun, excused>>

\* A row for the same member and role.
Clash(r, xs) == \E x \in xs : x.member = request[r].target /\ x.role \in request[r].wants

\* Mutant of Violated: the pair is not unique.
NeverViolated(r) == FALSE
\* The unique pair, once no open transaction has deleted or inserted one like it.
Violated(r) == Clash(r, rows \ request[r].seen)
Insert(r) ==
  /\ request[r].pc = "insert"
  /\ \A o \in Others(r) : ~Clash(r, Deleted(o) \cup Inserted(o))
  /\ IF Violated(r) THEN End(r) /\ Release(r)   \* an IntegrityError: 500
     ELSE GoTo(r, "commit") /\ UNCHANGED lock
  /\ UNCHANGED <<status, rows, snapshot, begun, excused>>
-----------------------------------------------------------------------------
(* The end of a request *)

\* Mutant of AfterCommit: only a changed status deletes the snapshot.
StatusOnly(op) == IF op = "assign" THEN "idle" ELSE "invalidate"
AfterCommit(op) == "invalidate"
Commit(r) ==
  LET q == request[r] IN
  /\ q.pc = "commit"
  /\ status' = IF q.op = "assign" THEN status
               ELSE [status EXCEPT ![q.target] = Becomes[q.op]]
  /\ rows' = (rows \ Deleted(r)) \cup Inserted(r)
  /\ Release(r)
  /\ MoveOn(r, AfterCommit(q.op), {}, {})
  /\ UNCHANGED <<snapshot, begun, excused>>

\* invalidate_permissions, which a failure of Redis does not report.
Invalidate(r) ==
  LET m == request[r].target IN
  /\ request[r].pc = "invalidate"
  /\ \/ /\ snapshot' = [snapshot EXCEPT ![m] = Nothing]
        /\ excused' = excused \ {m}
     \/ RedisFails /\ excused' = excused \cup {m} /\ UNCHANGED snapshot
  /\ End(r)
  /\ UNCHANGED <<status, rows, lock, begun>>

\* The process or a connection is lost: what is not committed is rolled back,
\* and a snapshot that was to be deleted is not.
Lose(r) ==
  /\ request[r].pc # "idle"
  /\ excused' = IF request[r].pc = "invalidate"
                THEN excused \cup {request[r].target} ELSE excused
  /\ End(r) /\ Release(r)
  /\ UNCHANGED <<status, rows, snapshot, begun>>

Handle(r) ==
  \/ Hit(r) \/ Miss(r) \/ Read(r) \/ Fill(r) \/ LockRow(r) \/ Refuse(r) \/ InviteNew(r)
  \/ Create(r) \/ Assign(r) \/ Scan(r) \/ Remove(r) \/ Insert(r) \/ Commit(r) \/ Invalidate(r)

Next ==
  \/ \E r \in Requests :
       \/ \E op \in Operations, a, t \in Members, wants \in RoleSets \cup {{"requester"}} :
            Begin(r, op, a, t, wants)
       \/ Handle(r)
       \/ Lose(r)
  \/ \E m \in Members : Expire(m)

Spec == Init /\ [][Next]_vars
-----------------------------------------------------------------------------
(* Properties *)

\* A membership goes from invited to active to left and by an invitation back,
\* never from left to active by an acceptance that read an earlier invitation.
LifeCycle == {<<"none", "invited">>, <<"invited", "active">>, <<"active", "left">>,
              <<"left", "invited">>}
LifeCycleKept == [][\A m \in Members :
  status'[m] # status[m] => <<status[m], status'[m]>> \in LifeCycle]_vars

\* The owner is an active administrator whatever assignments race, and every
\* member has a role: no order of deletions and insertions leaves him without.
OwnerIsAdmin ==
  /\ status[Owner] = "active" /\ "tenant_admin" \in {x.role : x \in RowsOf(Owner)}
  /\ \A m \in Members : status[m] # "none" => RowsOf(m) # {}

\* A member has a role once, although two assignments may both insert theirs.
RolesDistinct == \A x, y \in rows : x.member = y.member /\ x.role = y.role => x = y

\* A snapshot that differs from the database is about to be deleted, or a lost
\* deletion or a fill that raced with a commit explains it: no operation
\* forgets the snapshot, or deletes it too early.
Fresh(m) == snapshot[m] = Nothing \/ snapshot[m] = PermissionsOf(m)
StaleExplained == \A m \in Members :
  Fresh(m) \/ m \in excused
  \/ \E r \in Requests : request[r].pc = "invalidate" /\ request[r].target = m
=============================================================================
