----------------------- MODULE MembershipAccessProofs -----------------------
(***************************************************************************)
(* The properties of MembershipAccess, for any number of members, requests *)
(* and changes.  They rest on two facts about a request under way: what it *)
(* read of a membership it has locked is true until it commits (Standing), *)
(* and what it has inserted clashes with nothing that stays (Distinct).    *)
(***************************************************************************)
EXTENDS MembershipAccess, TLAPS

USE OwnerAssumption, NothingAssumption
-----------------------------------------------------------------------------
(* Steps of a request, and types *)

\* Where a request is tells what it is for; its DELETE sees rows of its target only.
Good(r) ==
  LET q == request[r] IN
  /\ q.pc \in {"get", "read", "fill"} => q.op \in {"invite", "assign", "work"}
  /\ q.pc \in {"act", "commit"} => q.op # "work"
  /\ q.pc = "create" => q.op = "invite"
  /\ q.pc \in {"scan", "remove", "insert"} => q.op \in {"invite", "assign"}
  /\ q.pc # "idle" => q.wants # {}
  /\ q.op \in {"accept", "leave"} => q.seen = {}
  /\ \A x \in q.seen : x.member = q.target
GoodInv == \A r \in Requests : Good(r)

\* The request moves on and nothing else of the requests changes.
LEMMA MoveEffect ==
  ASSUME TypeOK, NEW r \in Requests, NEW pc \in Steps, NEW permissions \in SUBSET Permissions,
         NEW seen \in SUBSET RoleRow, MoveOn(r, pc, permissions, seen)
  PROVE  /\ request' \in [Requests -> Request]
         /\ request'[r].pc = pc /\ request'[r].seen = seen
         /\ request'[r].op = request[r].op /\ request'[r].target = request[r].target
         /\ request'[r].wants = request[r].wants /\ request'[r].by = request[r].by
         /\ \A o \in Others(r) : request'[o] = request[o]
  BY DEF TypeOK, MoveOn, Request, Others

LEMMA RequestTyped ==
  ASSUME TypeOK, NEW r \in Requests
  PROVE  /\ request[r].pc \in Steps /\ request[r].op \in Operations
         /\ request[r].actor \in Members /\ request[r].target \in Members
         /\ request[r].wants \in SUBSET Roles /\ request[r].by \in Nat
         /\ request[r].permissions \in SUBSET Permissions
         /\ request[r].seen \in SUBSET RoleRow
  BY DEF TypeOK, Request

LEMMA GoToEffect ==
  ASSUME TypeOK, NEW r \in Requests, NEW pc \in Steps, GoTo(r, pc)
  PROVE  /\ request' \in [Requests -> Request]
         /\ request'[r].pc = pc /\ request'[r].seen = request[r].seen
         /\ request'[r].op = request[r].op /\ request'[r].target = request[r].target
         /\ request'[r].wants = request[r].wants /\ request'[r].by = request[r].by
         /\ \A o \in Others(r) : request'[o] = request[o]
  BY RequestTyped, MoveEffect DEF GoTo

LEMMA IdleTyped == Idle \in Request
  BY DEF Idle, Request, Steps, Operations

LEMMA EndEffect ==
  ASSUME TypeOK, NEW r \in Requests, End(r)
  PROVE  /\ request' \in [Requests -> Request]
         /\ request'[r] = Idle /\ \A o \in Others(r) : request'[o] = request[o]
  BY IdleTyped DEF TypeOK, End, Others

\* A transaction that ends gives up its own locks and no other.
LEMMA ReleaseEffect ==
  ASSUME TypeOK, NEW r \in Requests, Release(r)
  PROVE  /\ lock' \in [Members -> Requests \cup {Nothing}]
         /\ \A m \in Members : lock[m] # r => lock'[m] = lock[m]
  BY DEF TypeOK, Release

LEMMA PermissionsTyped ==
  ASSUME TypeOK, NEW m \in Members
  PROVE  PermissionsOf(m) \in SUBSET Permissions
<1>1. \A x \in RowsOf(m) : x.role \in Roles
  BY DEF TypeOK, RowsOf, RoleRow
<1>2. \A role \in Roles : Granted[role] \in SUBSET Permissions
  BY DEF Roles, Granted, Permissions
<1> QED  BY <1>1, <1>2 DEF PermissionsOf

LEMMA InsertedTyped ==
  ASSUME TypeOK, NEW r \in Requests
  PROVE  Inserted(r) \in SUBSET RoleRow
  BY RequestTyped DEF Inserted, RoleRow

LEMMA InitGood == Init => TypeOK /\ GoodInv
<1> SUFFICES ASSUME Init PROVE TypeOK /\ GoodInv
  OBVIOUS
<1>1. rows \in SUBSET RoleRow
  BY DEF Init, RoleRow, Roles
<1>2. begun \in 0 .. MaxChanges
  BY BoundAssumption DEF Init
<1>3. TypeOK
  BY <1>1, <1>2, IdleTyped DEF Init, TypeOK
<1>4. GoodInv
  BY DEF Init, GoodInv, Good, Idle
<1> QED  BY <1>3, <1>4

\* The requests are typed after a step, and what Good says holds of the one that
\* made it; the others stay where they are.
Stepped(r) ==
  /\ request' \in [Requests -> Request] /\ Good(r)'
  /\ \A o \in Others(r) : request'[o] = request[o]

LEMMA EndStepped ==
  ASSUME TypeOK, NEW r \in Requests, End(r)
  PROVE  Stepped(r)
  BY EndEffect DEF Stepped, Good, Idle

LEMMA BeginStepped ==
  ASSUME TypeOK, NEW r \in Requests, NEW op \in Operations, NEW a \in Members,
         NEW t \in Members, NEW wants \in RoleSets \cup {{"requester"}},
         Begin(r, op, a, t, wants)
  PROVE  Stepped(r)
<1>1. wants \in SUBSET Roles /\ wants # {}
  BY RoleSetsAssumption DEF Roles
<1>2. begun' \in Nat
  BY BoundAssumption DEF Begin
<1>3. request'[r] = [pc |-> IF op \in {"accept", "leave"} THEN "act" ELSE "get", op |-> op,
        actor |-> a, target |-> t, wants |-> wants, permissions |-> {},
        seen |-> {}, by |-> IF op = "work" THEN 0 ELSE begun']
  BY DEF Begin, TypeOK
<1>4. request'[r] \in Request
  BY <1>1, <1>2, <1>3 DEF Request, Steps
<1>5. request' \in [Requests -> Request] /\ \A o \in Others(r) : request'[o] = request[o]
  BY <1>4, <1>3 DEF Begin, TypeOK, Others
<1>6. Good(r)'
  BY <1>1, <1>3 DEF Good, Operations
<1> QED  BY <1>5, <1>6 DEF Stepped

LEMMA DecideStepped ==
  ASSUME TypeOK, GoodInv, NEW r \in Requests, NEW permissions,
         request[r].pc \in {"get", "fill"}, Decide(r, permissions)
  PROVE  Stepped(r)
<1>1. CASE End(r)
  BY <1>1, EndStepped
<1>2. CASE MoveOn(r, "act", {}, {}) /\ request[r].op # "work"
  <2>1. "act" \in Steps /\ {} \in SUBSET Permissions /\ {} \in SUBSET RoleRow
    BY DEF Steps
  <2> QED  BY <1>2, <2>1, MoveEffect DEF Stepped, Good, GoodInv
<1> QED  BY <1>1, <1>2 DEF Decide

LEMMA HandleStepped ==
  ASSUME TypeOK, GoodInv, NEW r \in Requests, Handle(r)
  PROVE  Stepped(r)
<1> USE DEF GoodInv
<1>0. /\ {} \in SUBSET Permissions /\ {} \in SUBSET RoleRow
      /\ \A pc \in {"read", "fill", "scan", "remove", "insert", "create", "commit",
                    "invalidate"} : pc \in Steps
  BY DEF Steps
<1>1. CASE Hit(r)
  BY <1>1, DecideStepped DEF Hit
<1>2. CASE Miss(r)
  BY <1>2, <1>0, GoToEffect DEF Miss, Stepped, Good
<1>3. CASE Read(r)
  BY <1>3, <1>0, MoveEffect, PermissionsTyped, RequestTyped DEF Read, Stepped, Good
<1>4. CASE Fill(r)
  BY <1>4, DecideStepped DEF Fill
<1>5. CASE LockRow(r)
  BY <1>5, <1>0, GoToEffect DEF LockRow, Stepped, Good
<1>6. CASE Refuse(r)
  BY <1>6, EndStepped DEF Refuse
<1>7. CASE InviteNew(r)
  BY <1>7, <1>0, GoToEffect DEF InviteNew, Stepped, Good
<1>8. CASE Create(r)
  <2>1. CASE End(r)
    BY <2>1, EndStepped
  <2>2. CASE GoTo(r, "scan")
    BY <1>8, <2>2, <1>0, GoToEffect DEF Create, Stepped, Good
  <2> QED  BY <1>8, <2>1, <2>2 DEF Create
<1>9. CASE Assign(r)
  <2>1. CASE End(r)
    BY <2>1, EndStepped
  <2>2. CASE GoTo(r, "scan")
    BY <1>9, <2>2, <1>0, GoToEffect DEF Assign, Stepped, Good
  <2> QED  BY <1>9, <2>1, <2>2 DEF Assign
<1>10. CASE Scan(r)
  <2>1. RowsOf(request[r].target) \in SUBSET RoleRow
    BY DEF TypeOK, RowsOf
  <2>2. \A x \in RowsOf(request[r].target) : x.member = request[r].target
    BY DEF RowsOf
  <2> QED  BY <1>10, <1>0, <2>1, <2>2, MoveEffect DEF Scan, Stepped, Good
<1>11. CASE Remove(r)
  <2>1. request[r].seen \cap rows \in SUBSET RoleRow
    BY DEF TypeOK
  <2> QED  BY <1>11, <1>0, <2>1, MoveEffect DEF Remove, Stepped, Good
<1>12. CASE Insert(r)
  <2>1. CASE End(r)
    BY <2>1, EndStepped
  <2>2. CASE GoTo(r, "commit")
    BY <1>12, <2>2, <1>0, GoToEffect DEF Insert, Stepped, Good
  <2> QED  BY <1>12, <2>1, <2>2 DEF Insert
<1>13. CASE Commit(r)
  BY <1>13, <1>0, MoveEffect DEF Commit, AfterCommit, Stepped, Good
<1>14. CASE Invalidate(r)
  BY <1>14, EndStepped DEF Invalidate
<1> QED
  BY <1>1, <1>2, <1>3, <1>4, <1>5, <1>6, <1>7, <1>8, <1>9, <1>10, <1>11, <1>12, <1>13, <1>14
  DEF Handle

LEMMA NextStepped ==
  ASSUME TypeOK, GoodInv, [Next]_vars
  PROVE  request' \in [Requests -> Request] /\ GoodInv'
<1>1. ASSUME NEW r \in Requests, Stepped(r)
      PROVE  request' \in [Requests -> Request] /\ GoodInv'
  <2>1. ASSUME NEW o \in Others(r)
        PROVE  Good(o)'
    BY <1>1, <2>1 DEF Stepped, GoodInv, Good, Others
  <2> QED  BY <1>1, <2>1 DEF Stepped, GoodInv, Others
<1>2. ASSUME NEW r \in Requests, Lose(r)
      PROVE  Stepped(r)
  BY <1>2, EndStepped DEF Lose
<1>3. CASE UNCHANGED request
  BY <1>3 DEF TypeOK, GoodInv, Good
<1> QED
  BY <1>1, <1>2, <1>3, BeginStepped, HandleStepped DEF Next, Expire, vars

LEMMA HandleTypes ==
  ASSUME TypeOK, GoodInv, NEW r \in Requests, Handle(r)
  PROVE  /\ status' \in [Members -> Statuses] /\ rows' \in SUBSET RoleRow
         /\ lock' \in [Members -> Requests \cup {Nothing}]
         /\ snapshot' \in [Members -> (SUBSET Permissions) \cup {Nothing}]
         /\ begun' \in 0 .. MaxChanges /\ excused' \in SUBSET Members
<1> USE DEF TypeOK
<1>1. CASE Hit(r) \/ Miss(r) \/ Read(r) \/ Refuse(r) \/ InviteNew(r) \/ Assign(r)
           \/ Scan(r) \/ Remove(r)
  BY <1>1 DEF Hit, Miss, Read, Refuse, InviteNew, Assign, Scan, Remove
<1>2. CASE Fill(r)
  BY <1>2, RequestTyped DEF Fill
<1>3. CASE LockRow(r) \/ Create(r)
  BY <1>3 DEF LockRow, Create
<1>4. CASE Insert(r)
  BY <1>4, ReleaseEffect DEF Insert
<1>5. CASE Commit(r)
  <2>1. request[r].op \in {"invite", "accept", "leave", "assign"}
    BY <1>5, RequestTyped DEF Commit, GoodInv, Good, Operations
  <2>2. request[r].op # "assign" => Becomes[request[r].op] \in Statuses
    BY <2>1 DEF Becomes, Statuses
  <2>3. status' \in [Members -> Statuses]
    BY <1>5, <2>2 DEF Commit
  <2> QED  BY <1>5, <2>3, ReleaseEffect, InsertedTyped DEF Commit
<1>6. CASE Invalidate(r)
  BY <1>6, RequestTyped DEF Invalidate
<1> QED  BY <1>1, <1>2, <1>3, <1>4, <1>5, <1>6 DEF Handle

LEMMA NextTypes == TypeOK /\ GoodInv /\ [Next]_vars => TypeOK' /\ GoodInv'
<1> SUFFICES ASSUME TypeOK, GoodInv, [Next]_vars
             PROVE  TypeOK'
  BY NextStepped
<1>0. request' \in [Requests -> Request]
  BY NextStepped
<1>1. ASSUME NEW r \in Requests, Handle(r)
      PROVE  TypeOK'
  BY <1>0, <1>1, HandleTypes DEF TypeOK
<1>2. ASSUME NEW r \in Requests, NEW op \in Operations, NEW a \in Members,
             NEW t \in Members, NEW wants \in RoleSets \cup {{"requester"}},
             Begin(r, op, a, t, wants)
      PROVE  TypeOK'
  BY <1>0, <1>2 DEF Begin, TypeOK
<1>3. ASSUME NEW r \in Requests, Lose(r)
      PROVE  TypeOK'
  BY <1>0, <1>3, ReleaseEffect, RequestTyped DEF Lose, TypeOK
<1>4. ASSUME NEW m \in Members, Expire(m)
      PROVE  TypeOK'
  BY <1>0, <1>4 DEF Expire, TypeOK
<1>5. CASE UNCHANGED vars
  BY <1>5 DEF TypeOK, vars
<1> QED  BY <1>1, <1>2, <1>3, <1>4, <1>5 DEF Next

\* Every variable has its type, for all members, requests and bounds.
THEOREM TypesHold == Spec => []TypeOK
<1>1. Init => TypeOK /\ GoodInv
  BY InitGood
<1>2. TypeOK /\ GoodInv /\ [Next]_vars => TypeOK' /\ GoodInv'
  BY NextTypes
<1> QED  BY <1>1, <1>2, PTL DEF Spec
-----------------------------------------------------------------------------
(* What a request read of a membership stays true until it commits *)

Changing == {"scan", "remove", "insert", "commit"}
Standing(r) ==
  LET q == request[r] IN
  q.pc \in Changing =>
    /\ q.op = "assign" => status[q.target] # "none" /\ OwnerKeepsAdmin(q.target, q.wants)
    /\ q.op # "assign" => lock[q.target] = r
    /\ q.op = "invite" => status[q.target] \in {"none", "left"}
    /\ q.op = "accept" => status[q.target] = "invited"
    /\ q.op = "leave" => status[q.target] = "active" /\ q.target # Owner
StandingInv == \A r \in Requests : Standing(r)

\* Every member has a role, and the owner the administrator's.
Manned == /\ status[Owner] = "active" /\ \E x \in rows : x.member = Owner /\ x.role = "tenant_admin"
          /\ \A m \in Members : status[m] # "none" => \E x \in rows : x.member = m
StatusInv == StandingInv /\ Manned

LEMMA MannedIsAdmin == Manned <=> OwnerIsAdmin
  BY DEF Manned, OwnerIsAdmin, RowsOf

\* Nobody takes a lock that another request holds.
LEMMA LocksKept ==
  ASSUME TypeOK, NEW r \in Requests, Handle(r) \/ Lose(r), NEW m \in Members,
         lock[m] # r, lock[m] # Nothing
  PROVE  lock'[m] = lock[m]
<1>1. CASE LockRow(r) \/ Create(r)
  BY <1>1, RequestTyped DEF LockRow, Create, Free, TypeOK
<1>2. CASE Insert(r) \/ Commit(r) \/ Lose(r)
  BY <1>2, ReleaseEffect DEF Insert, Commit, Lose
<1> QED  BY <1>1, <1>2 DEF Handle, Hit, Miss, Read, Fill, Refuse, InviteNew, Assign, Scan,
                           Remove, Invalidate

\* Only a commit changes a status or a role.
LEMMA OnlyCommit ==
  ASSUME NEW r \in Requests, Handle(r) \/ Lose(r), ~Commit(r)
  PROVE  UNCHANGED <<status, rows>>
  BY DEF Handle, Lose, Hit, Miss, Read, Fill, LockRow, Refuse, InviteNew, Create, Assign,
         Scan, Remove, Insert, Invalidate

\* A commit changes the status of its target, along the life cycle, and the rows of
\* its target, which it leaves with the roles asked for.
LEMMA CommitEffect ==
  ASSUME TypeOK, GoodInv, StatusInv, NEW r \in Requests, Commit(r)
  PROVE  LET q == request[r] IN
         /\ \A m \in Members : m # q.target => status'[m] = status[m]
         /\ q.op = "assign" => status' = status
         /\ q.op # "assign" =>
              <<status[q.target], status'[q.target]>> \in LifeCycle /\ q.target # Owner
         /\ \A x \in RoleRow : x.member # q.target => (x \in rows' <=> x \in rows)
         /\ q.op \in {"accept", "leave"} => rows' = rows
         /\ q.op \in {"invite", "assign"} =>
              \A role \in q.wants : \E x \in rows' : x.member = q.target /\ x.role = role
<1> DEFINE q == request[r]
<1>1. q.op \in {"invite", "accept", "leave", "assign"} /\ q.target \in Members /\ q.pc = "commit"
  BY RequestTyped DEF Commit, GoodInv, Good, Operations
<1>2. Standing(r) /\ Good(r)
  BY DEF StatusInv, StandingInv, GoodInv
<1>3. \A m \in Members : m # q.target => status'[m] = status[m]
  BY DEF Commit, TypeOK
<1>4. q.op = "assign" => status' = status
  BY DEF Commit
<1>5. ASSUME q.op # "assign"
      PROVE  <<status[q.target], status'[q.target]>> \in LifeCycle /\ q.target # Owner
  <2>1. status'[q.target] = Becomes[q.op]
    BY <1>1, <1>5 DEF Commit, TypeOK
  <2>2. status[Owner] = "active"
    BY DEF StatusInv, Manned
  <2>3. CASE q.op = "invite"
    BY <1>1, <1>2, <2>1, <2>2, <2>3 DEF Standing, Changing, Becomes, LifeCycle
  <2>4. CASE q.op = "accept"
    BY <1>1, <1>2, <2>1, <2>2, <2>4 DEF Standing, Changing, Becomes, LifeCycle
  <2>5. CASE q.op = "leave"
    BY <1>1, <1>2, <2>1, <2>2, <2>5 DEF Standing, Changing, Becomes, LifeCycle
  <2> QED  BY <1>1, <1>5, <2>3, <2>4, <2>5
<1>6. rows' = (rows \ q.seen) \cup Inserted(r)
  BY <1>1 DEF Commit, Deleted
<1>7. \A x \in Inserted(r) : x.member = q.target
  BY DEF Inserted
<1>8. \A x \in q.seen : x.member = q.target
  BY <1>2 DEF Good
<1>9. q.op \in {"accept", "leave"} => rows' = rows
  BY <1>2, <1>6 DEF Good, Inserted
<1>10. ASSUME q.op \in {"invite", "assign"}, NEW role \in q.wants
       PROVE  \E x \in rows' : x.member = q.target /\ x.role = role
  <2> DEFINE x == [member |-> q.target, role |-> role, by |-> q.by]
  <2>1. x \in Inserted(r)
    BY <1>1, <1>10 DEF Inserted
  <2> QED  BY <1>6, <2>1
<1> QED  BY <1>3, <1>4, <1>5, <1>6, <1>7, <1>8, <1>9, <1>10

\* What another request relies on survives a step.
LEMMA StandingKept ==
  ASSUME TypeOK, GoodInv, StatusInv, NEW r \in Requests, Handle(r) \/ Lose(r),
         NEW o \in Others(r), request'[o] = request[o]
  PROVE  Standing(o)'
<1>1. o \in Requests /\ o # r /\ Standing(o) /\ request[o].target \in Members
  BY RequestTyped DEF Others, StatusInv, StandingInv
<1>2. lock[request[o].target] = o => lock'[request[o].target] = o
  BY <1>1, LocksKept
<1>3. CASE UNCHANGED status
  BY <1>1, <1>2, <1>3 DEF Standing
<1>4. CASE Commit(r)
  <2> DEFINE q == request[r]
  <2>0. q.pc = "commit" /\ q.target \in Members /\ Standing(r)
    BY <1>4, RequestTyped DEF Commit, StatusInv, StandingInv
  <2>1. CASE q.op = "assign" \/ q.target # request[o].target
    <3>1. status'[request[o].target] = status[request[o].target]
      BY <1>1, <1>4, <2>1, CommitEffect
    <3> QED  BY <1>1, <1>2, <3>1 DEF Standing
  <2>2. CASE q.op # "assign" /\ q.target = request[o].target
    <3>1. lock[q.target] = r
      BY <2>0, <2>2 DEF Standing, Changing
    <3>2. <<status[q.target], status'[q.target]>> \in LifeCycle
      BY <1>4, <2>2, CommitEffect
    <3>3. status'[q.target] # "none"
      BY <3>2 DEF LifeCycle
    <3> QED  BY <1>1, <2>2, <3>1, <3>3 DEF Standing
  <2> QED  BY <2>1, <2>2
<1> QED  BY <1>3, <1>4, OnlyCommit

\* The request that makes a step has what it relies on.
LEMMA StandingStep ==
  ASSUME TypeOK, GoodInv, StatusInv, NEW r \in Requests, Handle(r)
  PROVE  Standing(r)'
<1> DEFINE q == request[r]
<1>0. /\ q.pc \in Steps /\ q.target \in Members /\ Good(r) /\ Standing(r)
      /\ \A pc \in {"read", "fill", "scan", "remove", "insert", "create", "commit",
                    "invalidate"} : pc \in Steps
      /\ {} \in SUBSET Permissions /\ {} \in SUBSET RoleRow
  BY RequestTyped DEF GoodInv, StatusInv, StandingInv, Steps
<1>1. ASSUME End(r)
      PROVE  Standing(r)'
  BY <1>1, EndEffect DEF Standing, Changing, Idle
<1>2. CASE Hit(r) \/ Fill(r)
  <2>1. CASE MoveOn(r, "act", {}, {})
    <3>1. "act" \in Steps
      BY DEF Steps
    <3> QED  BY <1>0, <2>1, <3>1, MoveEffect DEF Standing, Changing
  <2> QED  BY <1>1, <1>2, <2>1 DEF Hit, Fill, Decide
<1>3. CASE Miss(r)
  BY <1>0, <1>3, GoToEffect DEF Miss, Standing, Changing
<1>4. CASE Read(r)
  BY <1>0, <1>4, MoveEffect, PermissionsTyped, RequestTyped DEF Read, Standing, Changing
<1>5. CASE LockRow(r)
  <2>1. lock'[q.target] = r /\ status' = status
    BY <1>0, <1>5 DEF LockRow, TypeOK
  <2>2. /\ request'[r].op = q.op /\ request'[r].target = q.target
        /\ request'[r].pc = IF q.op = "invite" THEN "scan" ELSE "commit"
    BY <1>0, <1>5, GoToEffect DEF LockRow
  <2>3. /\ q.op = "invite" => status[q.target] = "left"
        /\ q.op = "accept" => status[q.target] = "invited"
        /\ q.op = "leave" => status[q.target] = "active" /\ q.target # Owner
    BY <1>5 DEF LockRow, Admitted, SeenStatus
  <2>4. q.op \in {"invite", "accept", "leave"}
    BY <1>5 DEF LockRow
  <2> QED  BY <2>1, <2>2, <2>3, <2>4 DEF Standing
<1>6. CASE Refuse(r) \/ Invalidate(r)
  BY <1>1, <1>6 DEF Refuse, Invalidate
<1>7. CASE InviteNew(r)
  BY <1>0, <1>7, GoToEffect DEF InviteNew, Standing, Changing
<1>8. CASE Create(r)
  <2>1. CASE GoTo(r, "scan") /\ ~End(r)
    BY <1>0, <1>8, <2>1, GoToEffect DEF Create, Standing, Good, TypeOK
  <2> QED  BY <1>1, <1>8, <2>1 DEF Create
<1>9. CASE Assign(r)
  <2>1. CASE GoTo(r, "scan") /\ ~End(r)
    BY <1>0, <1>9, <2>1, GoToEffect DEF Assign, Standing, OwnerKeepsAdmin
  <2> QED  BY <1>1, <1>9, <2>1 DEF Assign
<1>10. CASE Scan(r)
  <2>1. RowsOf(q.target) \in SUBSET RoleRow
    BY DEF TypeOK, RowsOf
  <2> QED  BY <1>0, <1>10, <2>1, MoveEffect DEF Scan, Standing, Changing, OwnerKeepsAdmin
<1>11. CASE Remove(r)
  <2>1. q.seen \cap rows \in SUBSET RoleRow
    BY DEF TypeOK
  <2> QED  BY <1>0, <1>11, <2>1, MoveEffect DEF Remove, Standing, Changing, OwnerKeepsAdmin
<1>12. CASE Insert(r)
  <2>1. CASE GoTo(r, "commit") /\ ~End(r)
    BY <1>0, <1>12, <2>1, GoToEffect DEF Insert, Standing, Changing, OwnerKeepsAdmin
  <2> QED  BY <1>1, <1>12, <2>1 DEF Insert
<1>13. CASE Commit(r)
  BY <1>0, <1>13, MoveEffect DEF Commit, AfterCommit, Standing, Changing
<1> QED
  BY <1>2, <1>3, <1>4, <1>5, <1>6, <1>7, <1>8, <1>9, <1>10, <1>11, <1>12, <1>13 DEF Handle

LEMMA MannedStep ==
  ASSUME TypeOK, GoodInv, StatusInv, NEW r \in Requests, Handle(r) \/ Lose(r)
  PROVE  Manned'
<1>1. CASE Commit(r)
  <2> DEFINE q == request[r]
  <2>1. /\ q.pc = "commit" /\ q.target \in Members /\ q.wants # {} /\ Standing(r)
        /\ q.op \in {"invite", "accept", "leave", "assign"}
    BY <1>1, RequestTyped DEF Commit, GoodInv, Good, StatusInv, StandingInv, Operations
  <2>2. Manned /\ rows \in SUBSET RoleRow
    BY DEF StatusInv, TypeOK
  <2>3. ASSUME NEW m \in Members, m # q.target, status'[m] # "none"
        PROVE  \E x \in rows' : x.member = m
    BY <1>1, <2>2, <2>3, CommitEffect DEF Manned
  <2>4. \E x \in rows' : x.member = q.target
    <3>1. CASE q.op \in {"invite", "assign"}
      BY <1>1, <2>1, <3>1, CommitEffect
    <3>2. CASE q.op \in {"accept", "leave"}
      <4>1. status[q.target] # "none"
        BY <2>1, <3>2 DEF Standing, Changing
      <4> QED  BY <1>1, <2>1, <2>2, <3>2, <4>1, CommitEffect DEF Manned
    <3> QED  BY <2>1, <3>1, <3>2
  <2>5. status'[Owner] = "active"
    BY <1>1, <2>1, <2>2, CommitEffect DEF Manned
  <2>6. \E x \in rows' : x.member = Owner /\ x.role = "tenant_admin"
    <3>1. CASE q.target # Owner
      BY <1>1, <2>2, <3>1, CommitEffect DEF Manned
    <3>2. CASE q.target = Owner
      <4>1. q.op = "assign"
        BY <1>1, <3>2, CommitEffect
      <4>2. "tenant_admin" \in q.wants
        BY <2>1, <3>2, <4>1 DEF Standing, Changing, OwnerKeepsAdmin
      <4> QED  BY <1>1, <3>2, <4>1, <4>2, CommitEffect
    <3> QED  BY <3>1, <3>2
  <2> QED  BY <2>3, <2>4, <2>5, <2>6 DEF Manned
<1>2. CASE ~Commit(r)
  BY <1>2, OnlyCommit DEF StatusInv, Manned
<1> QED  BY <1>1, <1>2

LEMMA InitStatus == Init => StatusInv
<1> SUFFICES ASSUME Init PROVE StatusInv
  OBVIOUS
<1>1. StandingInv
  BY DEF Init, StandingInv, Standing, Changing, Idle
<1>2. status[Owner] = "active" /\ status \in [Members -> Statuses]
  BY DEF Init
<1>3. \E x \in rows : x.member = Owner /\ x.role = "tenant_admin"
  <2>1. [member |-> Owner, role |-> "tenant_admin", by |-> 0] \in rows
    BY DEF Init
  <2> QED  BY <2>1
<1>4. ASSUME NEW m \in Members, status[m] # "none"
      PROVE  \E x \in rows : x.member = m
  <2>1. CASE m = Owner
    BY <1>3, <2>1
  <2>2. CASE m # Owner
    <3>1. [member |-> m, role |-> "requester", by |-> 0] \in rows
      BY <1>4, <2>2 DEF Init
    <3> QED  BY <3>1
  <2> QED  BY <2>1, <2>2
<1> QED  BY <1>1, <1>2, <1>3, <1>4 DEF StatusInv, Manned

\* A step that handles no request leaves alone what requests rely on.
Outside == \/ \E r \in Requests, op \in Operations, a, t \in Members,
                 wants \in RoleSets \cup {{"requester"}} : Begin(r, op, a, t, wants)
           \/ \E m \in Members : Expire(m)
           \/ UNCHANGED vars
LEMMA OutsideEffect ==
  ASSUME TypeOK, Outside
  PROVE  /\ UNCHANGED <<status, rows, lock>>
         /\ \A r \in Requests :
              \/ request'[r] = request[r]
              \/ request[r].pc = "idle" /\ request'[r].pc \in {"get", "act"}
<1>1. ASSUME NEW r \in Requests, NEW op \in Operations, NEW a \in Members, NEW t \in Members,
             NEW wants \in RoleSets \cup {{"requester"}}, Begin(r, op, a, t, wants)
      PROVE  /\ request[r].pc = "idle" /\ request'[r].pc \in {"get", "act"}
             /\ \A o \in Requests \ {r} : request'[o] = request[o]
             /\ UNCHANGED <<status, rows, lock>>
  BY <1>1 DEF Begin, TypeOK
<1>2. CASE \E m \in Members : Expire(m)
  BY <1>2 DEF Expire
<1>3. CASE UNCHANGED vars
  BY <1>3 DEF vars
<1> QED  BY <1>1, <1>2, <1>3 DEF Outside

LEMMA StatusStep == TypeOK /\ GoodInv /\ StatusInv /\ [Next]_vars => StatusInv'
<1> SUFFICES ASSUME TypeOK, GoodInv, StatusInv, [Next]_vars
             PROVE  StatusInv'
  OBVIOUS
<1>1. ASSUME NEW r \in Requests, Handle(r) \/ Lose(r)
      PROVE  StatusInv'
  <2>1. \A o \in Others(r) : request'[o] = request[o]
    BY <1>1, HandleStepped, EndStepped DEF Lose, Stepped
  <2>2. Standing(r)'
    <3>1. CASE Lose(r)
      BY <3>1, EndEffect DEF Lose, Standing, Changing, Idle
    <3> QED  BY <1>1, <3>1, StandingStep
  <2>3. StandingInv'
    BY <1>1, <2>1, <2>2, StandingKept DEF StandingInv, Others
  <2> QED  BY <1>1, <2>3, MannedStep DEF StatusInv
<1>2. CASE Outside
  BY <1>2, OutsideEffect DEF StatusInv, StandingInv, Standing, Changing, Manned
<1> QED  BY <1>1, <1>2 DEF Next, Outside

StepInv == TypeOK /\ GoodInv /\ StatusInv
LEMMA Standard == Spec => []StepInv
<1>1. Init => StepInv
  BY InitGood, InitStatus DEF StepInv
<1>2. StepInv /\ [Next]_vars => StepInv'
  BY NextTypes, StatusStep DEF StepInv
<1> QED  BY <1>1, <1>2, PTL DEF Spec

\* The owner stays an active administrator, and every member has a role at every
\* commit, whatever invitations and assignments race (assign_roles,
\* reset_to_requester).
THEOREM OwnerStaysAdmin == Spec => []OwnerIsAdmin
<1>1. StepInv => OwnerIsAdmin
  BY MannedIsAdmin DEF StepInv, StatusInv
<1> QED  BY <1>1, Standard, PTL

\* A membership only ever takes the steps of its life cycle: an acceptance or an
\* invitation that waited for the row decides by the row as it is (invite,
\* accept_invitation, leave).
THEOREM LifeCycleIsKept == Spec => LifeCycleKept
<1>1. ASSUME StepInv, [Next]_vars
      PROVE  [\A m \in Members : status'[m] # status[m] =>
                <<status[m], status'[m]>> \in LifeCycle]_vars
  <2>1. ASSUME NEW r \in Requests, Commit(r), NEW m \in Members, status'[m] # status[m]
        PROVE  <<status[m], status'[m]>> \in LifeCycle
    BY <1>1, <2>1, CommitEffect DEF StepInv
  <2>2. ASSUME NEW r \in Requests, Handle(r) \/ Lose(r), ~Commit(r)
        PROVE  UNCHANGED status
    BY <2>2, OnlyCommit
  <2>3. CASE Outside
    BY <1>1, <2>3, OutsideEffect DEF StepInv
  <2> QED  BY <1>1, <2>1, <2>2, <2>3 DEF Next, Outside
<1> QED  BY <1>1, Standard, PTL DEF Spec, LifeCycleKept
-----------------------------------------------------------------------------
(* What is inserted clashes with nothing that stays *)

Same(x, y) == x.member = y.member /\ x.role = y.role
Distinct(r) ==
  /\ \A x \in Inserted(r), y \in rows \ Deleted(r) : ~Same(x, y)
  /\ \A o \in Others(r) : \A x \in Inserted(r), y \in Inserted(o) : ~Same(x, y)
RowsInv == RolesDistinct /\ \A r \in Requests : Distinct(r)

LEMMA InsertedKept ==
  ASSUME NEW r \in Requests, request'[r] = request[r]
  PROVE  Inserted(r)' = Inserted(r) /\ Deleted(r)' = Deleted(r)
  BY DEF Inserted, Deleted

\* Until its INSERT, and after its commit, a request has inserted nothing.
LEMMA NothingInserted ==
  ASSUME TypeOK, GoodInv, NEW r \in Requests, Handle(r) \/ Lose(r), ~(Insert(r) /\ GoTo(r, "commit"))
  PROVE  Inserted(r)' = {}
<1>0. \A pc \in {"read", "fill", "scan", "remove", "insert", "create", "commit",
                 "invalidate", "act"} : pc \in Steps
  BY DEF Steps
<1>00. {} \in SUBSET Permissions /\ {} \in SUBSET RoleRow
  OBVIOUS
<1>1. ASSUME End(r)
      PROVE  Inserted(r)' = {}
  BY <1>1, EndEffect DEF Inserted, Idle
<1>2. CASE LockRow(r)
  <2>1. request'[r].op = request[r].op /\ (request'[r].pc = "commit" => request[r].op # "invite")
    BY <1>0, <1>2, GoToEffect DEF LockRow
  <2>2. request[r].op # "assign"
    BY <1>2 DEF LockRow
  <2> QED  BY <2>1, <2>2 DEF Inserted
<1>3. CASE Hit(r) \/ Fill(r)
  <2>1. CASE MoveOn(r, "act", {}, {})
    BY <1>0, <1>00, <2>1, MoveEffect DEF Inserted
  <2> QED  BY <1>1, <1>3, <2>1 DEF Hit, Fill, Decide
<1>4. CASE Miss(r) \/ InviteNew(r) \/ (Create(r) /\ ~End(r)) \/ (Assign(r) /\ ~End(r))
  BY <1>0, <1>4, GoToEffect DEF Miss, InviteNew, Create, Assign, Inserted
<1>5. CASE Read(r)
  BY <1>0, <1>00, <1>5, MoveEffect, PermissionsTyped, RequestTyped DEF Read, Inserted
<1>6. CASE Scan(r) \/ Remove(r)
  <2>1. RowsOf(request[r].target) \in SUBSET RoleRow /\ request[r].seen \cap rows \in SUBSET RoleRow
    BY DEF TypeOK, RowsOf
  <2> QED  BY <1>0, <1>00, <1>6, <2>1, MoveEffect DEF Scan, Remove, Inserted
<1>7. CASE Commit(r)
  BY <1>0, <1>00, <1>7, MoveEffect DEF Commit, AfterCommit, Inserted
<1>8. CASE Refuse(r) \/ Invalidate(r) \/ Lose(r)
  BY <1>1, <1>8 DEF Refuse, Invalidate, Lose
<1>9. CASE Insert(r)
  BY <1>1, <1>9 DEF Insert
<1> QED
  BY <1>1, <1>2, <1>3, <1>4, <1>5, <1>6, <1>7, <1>8, <1>9 DEF Handle

LEMMA RowsStep ==
  ASSUME TypeOK, GoodInv, RowsInv, NEW r \in Requests, Handle(r) \/ Lose(r),
         \A o \in Others(r) : request'[o] = request[o]
  PROVE  RowsInv'
<1>0. /\ \A o \in Others(r) : Inserted(o)' = Inserted(o) /\ Deleted(o)' = Deleted(o)
      /\ \A o \in Requests : Distinct(o)
      /\ RolesDistinct
  BY InsertedKept DEF Others, RowsInv
<1>1. CASE Insert(r) /\ GoTo(r, "commit")
  <2> DEFINE q == request[r]
  <2>1. /\ q.pc = "insert" /\ q.op \in {"invite", "assign"} /\ rows' = rows
        /\ request'[r].pc = "commit" /\ request'[r].seen = q.seen
        /\ request'[r].target = q.target /\ request'[r].wants = q.wants
        /\ "commit" \in Steps
    BY <1>1, GoToEffect DEF Insert, GoodInv, Good, Steps
  <2>2. \A x \in Inserted(r)' : x.member = q.target /\ x.role \in q.wants
    BY <2>1 DEF Inserted
  <2>3. Deleted(r)' = q.seen
    BY <2>1 DEF Deleted
  <2>4. ~Violated(r)
    <3>1. request'[r].pc # "idle"
      BY <2>1
    <3>2. ~End(r)
      BY <3>1, EndEffect DEF Idle
    <3> QED  BY <1>1, <3>2 DEF Insert
  <2>5. \A y \in rows \ q.seen : ~(y.member = q.target /\ y.role \in q.wants)
    BY <2>4 DEF Violated, Clash
  <2>6. \A o \in Others(r) : \A y \in Inserted(o) : ~(y.member = q.target /\ y.role \in q.wants)
    BY <1>1 DEF Insert, Clash
  <2>7. Distinct(r)'
    BY <1>0, <2>1, <2>2, <2>3, <2>5, <2>6 DEF Distinct, Same, Others
  <2>8. ASSUME NEW o \in Others(r)
        PROVE  Distinct(o)'
    <3>1. \A x \in Inserted(o), y \in Inserted(r)' : ~Same(x, y)
      BY <2>2, <2>6 DEF Same
    <3>2. ASSUME NEW p \in Others(o)
          PROVE  \A x \in Inserted(o)', y \in Inserted(p)' : ~Same(x, y)
      BY <1>0, <3>1 DEF Distinct, Others
    <3> QED  BY <1>0, <2>1, <3>2 DEF Distinct, Others
  <2>9. RolesDistinct'
    BY <1>0, <2>1 DEF RolesDistinct
  <2> QED  BY <2>7, <2>8, <2>9 DEF RowsInv, Others
<1>2. CASE ~(Insert(r) /\ GoTo(r, "commit"))
  <2>1. Inserted(r)' = {}
    BY <1>2, NothingInserted
  <2>2. Distinct(r)'
    BY <2>1 DEF Distinct
  <2>3. rows' = rows \/ rows' = (rows \ Deleted(r)) \cup Inserted(r)
    BY OnlyCommit DEF Commit
  <2>4. ASSUME NEW o \in Others(r)
        PROVE  Distinct(o)'
    <3>1. \A x \in Inserted(o), y \in Inserted(r) : ~Same(x, y)
      BY <1>0 DEF Distinct, Others
    <3>2. \A x \in Inserted(o), y \in rows' \ Deleted(o) : ~Same(x, y)
      BY <1>0, <2>3, <3>1 DEF Distinct, Others
    <3>3. ASSUME NEW p \in Others(o)
          PROVE  \A x \in Inserted(o)', y \in Inserted(p)' : ~Same(x, y)
      BY <1>0, <2>1 DEF Distinct, Others
    <3> QED  BY <1>0, <3>2, <3>3 DEF Distinct
  <2>5. RolesDistinct'
    <3>1. CASE rows' = rows
      BY <1>0, <3>1 DEF RolesDistinct
    <3>2. CASE rows' = (rows \ Deleted(r)) \cup Inserted(r)
      <4>1. ASSUME NEW x \in Inserted(r), NEW y \in Inserted(r), Same(x, y)
            PROVE  x = y
        BY <4>1 DEF Inserted, Same
      <4>2. \A x \in Inserted(r), y \in rows \ Deleted(r) : ~Same(x, y)
        BY <1>0 DEF Distinct
      <4> QED  BY <1>0, <3>2, <4>1, <4>2 DEF RolesDistinct, Same
    <3> QED  BY <2>3, <3>1, <3>2
  <2> QED  BY <2>2, <2>4, <2>5 DEF RowsInv, Others
<1> QED  BY <1>1, <1>2

LEMMA InitRows == Init => RowsInv
<1> SUFFICES ASSUME Init PROVE RowsInv
  OBVIOUS
<1>1. \A r \in Requests : Inserted(r) = {}
  BY DEF Init, Inserted, Idle
<1>2. \A x \in rows : x = [member |-> x.member, role |-> IF x.member = Owner
                             THEN "tenant_admin" ELSE "requester", by |-> 0]
  BY DEF Init
<1> QED  BY <1>1, <1>2 DEF RowsInv, RolesDistinct, Distinct

\* A member has a role at most once, although assignments do not lock the membership:
\* the unique pair waits for and sees what every open transaction has inserted
\* (assign_roles).
THEOREM RolesAreDistinct == Spec => []RolesDistinct
<1>1. Init => RowsInv
  BY InitRows
<1>2. ASSUME StepInv, RowsInv, [Next]_vars
      PROVE  RowsInv'
  <2>1. ASSUME NEW r \in Requests, Handle(r) \/ Lose(r)
        PROVE  RowsInv'
    <3>1. \A o \in Others(r) : request'[o] = request[o]
      BY <1>2, <2>1, HandleStepped, EndStepped DEF Lose, Stepped, StepInv
    <3> QED  BY <1>2, <2>1, <3>1, RowsStep DEF StepInv
  <2>2. CASE Outside
    <3>1. rows' = rows
      BY <1>2, <2>2, OutsideEffect DEF StepInv
    <3>2. \A r \in Requests : \/ Inserted(r)' = Inserted(r) /\ Deleted(r)' = Deleted(r)
                              \/ Inserted(r)' = {}
      BY <1>2, <2>2, OutsideEffect DEF StepInv, Inserted, Deleted
    <3> QED  BY <1>2, <3>1, <3>2 DEF RowsInv, RolesDistinct, Distinct, Others
  <2> QED  BY <1>2, <2>1, <2>2 DEF Next, Outside
<1>3. RowsInv => RolesDistinct
  BY DEF RowsInv
<1> QED  BY <1>1, <1>2, <1>3, Standard, PTL DEF Spec
-----------------------------------------------------------------------------
(* Snapshots *)

Explained(m) ==
  \/ Fresh(m) \/ m \in excused
  \/ \E r \in Requests : request[r].pc = "invalidate" /\ request[r].target = m

\* A snapshot stays explained while its member's rows, the snapshot, the excuse and the
\* deletions that are to come stay.
LEMMA ExplainedKept ==
  ASSUME NEW m \in Members, Explained(m), RowsOf(m)' = RowsOf(m), snapshot'[m] = snapshot[m],
         m \in excused => m \in excused',
         \A r \in Requests : request[r].pc = "invalidate" /\ request[r].target = m =>
           request'[r] = request[r] \/ m \in excused'
  PROVE  Explained(m)'
<1>1. PermissionsOf(m)' = PermissionsOf(m)
  BY DEF PermissionsOf
<1> QED  BY <1>1 DEF Explained, Fresh

LEMMA CommitExplains ==
  ASSUME StepInv, NEW r \in Requests, Commit(r), NEW m \in Members, Explained(m)
  PROVE  Explained(m)'
<1> USE DEF StepInv
<1>1. "invalidate" \in Steps /\ {} \in SUBSET Permissions /\ {} \in SUBSET RoleRow
  BY DEF Steps
<1>2. /\ request'[r].pc = "invalidate" /\ request'[r].target = request[r].target
      /\ \A o \in Others(r) : request'[o] = request[o]
  BY <1>1, MoveEffect DEF Commit, AfterCommit
<1>3. CASE m = request[r].target
  BY <1>2, <1>3 DEF Explained
<1>4. CASE m # request[r].target
  <2>1. rows \in SUBSET RoleRow /\ rows' \in SUBSET RoleRow
    BY InsertedTyped DEF Commit, TypeOK
  <2>2. RowsOf(m)' = RowsOf(m)
    BY <1>4, <2>1, CommitEffect DEF RowsOf
  <2>3. request[r].pc # "invalidate"
    BY DEF Commit
  <2> QED  BY <1>2, <2>2, <2>3, ExplainedKept DEF Commit, Others
<1> QED  BY <1>3, <1>4

LEMMA HandleExplains ==
  ASSUME StepInv, NEW r \in Requests, Handle(r) \/ Lose(r), ~Commit(r),
         NEW m \in Members, Explained(m)
  PROVE  Explained(m)'
<1> USE DEF StepInv
<1>1. RowsOf(m)' = RowsOf(m) /\ PermissionsOf(m)' = PermissionsOf(m)
  BY OnlyCommit DEF RowsOf, PermissionsOf
<1>2. \A o \in Others(r) : request'[o] = request[o]
  BY HandleStepped, EndStepped DEF Lose, Stepped
<1>3. CASE Fill(r)
  <2>1. request[r].pc = "fill"
    BY <1>3 DEF Fill
  <2>2. CASE request[r].actor = m /\ snapshot' # snapshot
    <3>1. snapshot'[m] = request[r].permissions
      BY <1>3, <2>2 DEF Fill, TypeOK
    <3> QED  BY <1>1, <1>3, <2>2, <3>1 DEF Fill, Explained, Fresh
  <2>3. CASE request[r].actor # m
    <3>1. snapshot'[m] = snapshot[m] /\ (m \in excused => m \in excused')
      BY <1>3, <2>3 DEF Fill, TypeOK
    <3> QED  BY <1>1, <1>2, <2>1, <3>1, ExplainedKept DEF Others
  <2>4. CASE request[r].actor = m /\ snapshot' = snapshot
    <3>1. CASE UNCHANGED excused
      BY <1>1, <1>2, <2>1, <2>4, <3>1, ExplainedKept DEF Others
    <3>2. CASE ~UNCHANGED excused
      <4>1. snapshot'[m] = request[r].permissions
        BY <1>3, <2>4, <3>2 DEF Fill, TypeOK
      <4> QED  BY <1>1, <1>3, <2>4, <3>2, <4>1 DEF Fill, Explained, Fresh
    <3> QED  BY <3>1, <3>2
  <2> QED  BY <2>2, <2>3, <2>4
<1>4. CASE Invalidate(r)
  <2>1. CASE request[r].target = m
    <3>1. snapshot'[m] = Nothing \/ m \in excused'
      BY <1>4, <2>1 DEF Invalidate, TypeOK
    <3> QED  BY <3>1 DEF Explained, Fresh
  <2>2. CASE request[r].target # m
    <3>1. snapshot'[m] = snapshot[m] /\ (m \in excused => m \in excused')
      BY <1>4, <2>2 DEF Invalidate, TypeOK
    <3> QED  BY <1>1, <1>2, <2>2, <3>1, ExplainedKept DEF Others
  <2> QED  BY <2>1, <2>2
<1>5. CASE Lose(r)
  <2>1. snapshot' = snapshot /\ (m \in excused => m \in excused')
    BY <1>5 DEF Lose
  <2>2. request[r].pc = "invalidate" /\ request[r].target = m => m \in excused'
    BY <1>5 DEF Lose
  <2> QED  BY <1>1, <1>2, <2>1, <2>2, ExplainedKept DEF Others
<1>6. CASE Handle(r) /\ ~Fill(r) /\ ~Invalidate(r)
  <2>1. UNCHANGED <<snapshot, excused>> /\ request[r].pc # "invalidate"
    BY <1>6 DEF Handle, Hit, Miss, Read, LockRow, Refuse, InviteNew, Create, Assign, Scan,
                Remove, Insert
  <2> QED  BY <1>1, <1>2, <2>1, ExplainedKept DEF Others
<1> QED  BY <1>3, <1>4, <1>5, <1>6

\* A snapshot that is not what the database holds is about to be deleted, or a lost
\* deletion or a fill that raced with a commit explains it (has_permission,
\* invalidate_permissions).
THEOREM StalenessIsExplained == Spec => []StaleExplained
<1>1. Init => StaleExplained
  BY DEF Init, StaleExplained, Fresh
<1>2. ASSUME StepInv, StaleExplained, [Next]_vars
      PROVE  StaleExplained'
  <2> SUFFICES ASSUME NEW m \in Members
               PROVE  Explained(m)'
    BY DEF StaleExplained, Explained
  <2>0. Explained(m)
    BY <1>2 DEF StaleExplained, Explained
  <2>1. ASSUME NEW r \in Requests, Handle(r) \/ Lose(r)
        PROVE  Explained(m)'
    BY <1>2, <2>0, <2>1, CommitExplains, HandleExplains
  <2>2. CASE \E n \in Members : Expire(n)
    <3>1. PICK n \in Members : Expire(n)
      BY <2>2
    <3>2. CASE n = m
      BY <1>2, <3>1, <3>2 DEF Expire, Explained, Fresh, StepInv, TypeOK
    <3>3. CASE n # m
      <4>1. snapshot'[m] = snapshot[m] /\ (m \in excused => m \in excused')
        BY <1>2, <3>1, <3>3 DEF Expire, StepInv, TypeOK
      <4>2. RowsOf(m)' = RowsOf(m) /\ UNCHANGED request
        BY <3>1 DEF Expire, RowsOf
      <4> QED  BY <2>0, <4>1, <4>2, ExplainedKept
    <3> QED  BY <3>2, <3>3
  <2>3. CASE Outside /\ ~\E n \in Members : Expire(n)
    <3>1. UNCHANGED <<snapshot, excused, rows>>
      BY <2>3 DEF Outside, Begin, vars
    <3>2. \A r \in Requests : request[r].pc = "invalidate" => request'[r] = request[r]
      BY <1>2, <2>3, OutsideEffect DEF StepInv
    <3>3. RowsOf(m)' = RowsOf(m)
      BY <3>1 DEF RowsOf
    <3> QED  BY <2>0, <3>1, <3>2, <3>3, ExplainedKept
  <2> QED  BY <1>2, <2>1, <2>2, <2>3 DEF Next, Outside
<1> QED  BY <1>1, <1>2, Standard, PTL DEF Spec
=============================================================================
