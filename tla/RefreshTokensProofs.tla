------------------------- MODULE RefreshTokensProofs -------------------------
(***************************************************************************)
(* The properties of RefreshTokens, for any number of tokens and of        *)
(* concurrent requests.  What they rest on is RequestInv: what a request   *)
(* read of a row is true until it commits, since it has the row's lock,    *)
(* and what an UPDATE has not seen revoked it still has to visit.          *)
(***************************************************************************)
EXTENDS RefreshTokens, TLAPS

\* A request that has passed its lock holds a token that works; one that revokes all
\* holds what it has revoked, and knows no working token it has not yet to visit.
Good(r) ==
  LET q == request[r] IN
  /\ q.pc = "lock" => q.token \in Issued
  /\ q.pc = "commit" /\ q.op # "login" =>
       q.token \in Issued /\ lock[q.token] = r /\ ~token[q.token].revoked
  /\ q.pc = "update" =>
       /\ q.known \subseteq Issued
       /\ \A t \in q.revokes : t \in Issued /\ lock[t] = r
       /\ \A t \in q.known : t \in q.todo \cup q.revokes \/ token[t].revoked
RequestInv == \A r \in Requests : Good(r)
Inv == TypeOK /\ RequestInv

\* A login's tokens descend from a token that was issued.
LoginIssued == \A t \in Issued : token[t].login \in Issued
TokenInv == LoginIssued /\ OneActivePerLogin /\ ReplacedByOne
-----------------------------------------------------------------------------
(* Types and requests *)

LEMMA IssuedTyped ==
  ASSUME TypeOK, NEW t \in Issued
  PROVE  t \in Tokens /\ token[t] \in Row /\ token[t] # NoRow
  BY DEF TypeOK, Issued

LEMMA RowIssued ==
  ASSUME NEW t \in Tokens, token[t] \in Row
  PROVE  t \in Issued
  BY NothingAssumption DEF Issued, Row, NoRow

LEMMA IdleTyped == Idle \in Request
  BY DEF Idle, Request, Steps, Operations

LEMMA InvInit == Init => Inv
<1> SUFFICES ASSUME Init
             PROVE  TypeOK /\ RequestInv
  BY DEF Inv
<1>1. begun \in 0..MaxRequests
  BY BoundAssumption DEF Init
<1>2. TypeOK
  BY <1>1, IdleTyped DEF Init, TypeOK
<1>3. RequestInv
  BY DEF Init, RequestInv, Good, Idle
<1> QED  BY <1>2, <1>3

\* What a request is sure of stays so while others leave alone what it has locked.
LEMMA GoodKept ==
  ASSUME TypeOK, NEW r \in Requests, Good(r), request'[r] = request[r],
         \A t \in Issued : t \in Issued' /\ (token[t].revoked => token'[t].revoked),
         \A t \in Issued : lock[t] = r => lock'[t] = r /\ token'[t] = token[t]
  PROVE  Good(r)'
  BY DEF Good

\* The end of a transaction, committed or rolled back, that writes rows nobody else
\* has locked and takes no revocation back.
LEMMA EndKeeps ==
  ASSUME Inv, NEW r \in Requests, End(r), UNCHANGED <<expired, begun>>,
         token' \in [Tokens -> Row \cup {NoRow}],
         \A t \in Issued : token'[t] \in Row /\ (token[t].revoked => token'[t].revoked),
         \A t \in Issued : lock[t] \in Requests \ {r} => token'[t] = token[t]
  PROVE  Inv'
<1>1. /\ request' \in [Requests -> Request] /\ request'[r].pc = "idle"
      /\ \A q \in Requests \ {r} : request'[q] = request[q]
  BY IdleTyped DEF Inv, TypeOK, End, Idle
<1>2. /\ lock' \in [Tokens -> Requests \cup {Nothing}]
      /\ \A t \in Tokens : lock[t] # r => lock'[t] = lock[t]
  BY DEF Inv, TypeOK, End, Release
<1>3. TypeOK'
  BY <1>1, <1>2 DEF Inv, TypeOK
<1>4. \A t \in Issued : t \in Issued'
  BY NothingAssumption DEF Issued, Row, NoRow
<1>5. ASSUME NEW q \in Requests
      PROVE  Good(q)'
  <2>1. CASE q = r
    BY <1>1, <2>1 DEF Good
  <2>2. CASE q # r
    <3>1. Good(q) /\ request'[q] = request[q]
      BY <1>1, <2>2 DEF Inv, RequestInv
    <3>2. \A t \in Issued : lock[t] = q => lock'[t] = q /\ token'[t] = token[t]
      BY <1>2, <2>2 DEF Issued
    <3> QED  BY <1>4, <3>1, <3>2, GoodKept DEF Inv
  <2> QED  BY <2>1, <2>2
<1> QED  BY <1>3, <1>5 DEF Inv, RequestInv

\* A step that writes no row, of a request that goes on and may have locked one.
LEMMA OnKeeps ==
  ASSUME Inv, NEW r \in Requests, NEW next \in Request,
         request' = [request EXCEPT ![r] = next], Good(r)',
         lock' \in [Tokens -> Requests \cup {Nothing}],
         \A t \in Tokens : lock[t] \in Requests \ {r} => lock'[t] = lock[t],
         UNCHANGED <<token, expired>>, begun' \in 0..MaxRequests
  PROVE  Inv'
<1>1. TypeOK'
  BY DEF Inv, TypeOK
<1>2. ASSUME NEW q \in Requests, q # r
      PROVE  Good(q)'
  <2>1. Good(q) /\ request'[q] = request[q]
    BY <1>2 DEF Inv, TypeOK, RequestInv
  <2>2. \A t \in Issued : t \in Issued' /\ (token[t].revoked => token'[t].revoked)
    BY DEF Issued
  <2>3. \A t \in Issued : lock[t] = q => lock'[t] = q /\ token'[t] = token[t]
    BY <1>2 DEF Issued
  <2> QED  BY <2>1, <2>2, <2>3, GoodKept DEF Inv
<1> QED  BY <1>1, <1>2 DEF Inv, RequestInv

LEMMA BeginKeeps ==
  ASSUME Inv, NEW r \in Requests, NEW op \in Operations \ {"reuse"},
         NEW t \in Tokens \cup {Nothing}, Begin(r, op, t)
  PROVE  Inv'
<1> DEFINE pc == CASE op = "login" -> "commit" [] op = "change" -> "scan" [] OTHER -> "lock"
           next == [pc |-> pc, op |-> op, token |-> t, todo |-> {}, revokes |-> {},
                    known |-> {}]
<1>1. pc \in Steps /\ (pc = "commit" => op = "login") /\ (pc = "lock" => t \in Issued)
      /\ pc # "update"
  BY DEF Begin, Steps, Operations
<1>2. request' = [request EXCEPT ![r] = next]
  BY DEF Begin
<1> HIDE DEF pc
<1>3. next \in Request
  BY <1>1 DEF Request
<1>4. UNCHANGED <<token, expired, lock>> /\ begun' \in 0..MaxRequests
  BY BoundAssumption DEF Begin, Inv, TypeOK
<1>5. request'[r] = next
  BY <1>2 DEF Inv, TypeOK
<1>6. Good(r)'
  BY <1>1, <1>4, <1>5 DEF Good, Issued
<1> HIDE DEF next
<1> QED  BY <1>2, <1>3, <1>4, <1>6, OnKeeps DEF Inv, TypeOK

LEMMA LockKeeps ==
  ASSUME Inv, NEW r \in Requests, Lock(r)
  PROVE  Inv'
<1> DEFINE t == request[r].token
<1>1. request[r].pc = "lock" /\ t \in Issued /\ t \in Tokens
  BY DEF Lock, Inv, RequestInv, Good, Issued
<1>2. PICK op \in {"refresh", "logout", "reuse"}, pc \in {"commit", "scan"} :
        /\ request' = [request EXCEPT ![r] =
             [pc |-> pc, op |-> op, token |-> t, todo |-> {}, revokes |-> {}, known |-> {}]]
        /\ pc = "commit" => ~token[t].revoked
        /\ lock' = [lock EXCEPT ![t] = r]
  BY DEF Lock
<1>3. lock[t] = Nothing /\ UNCHANGED <<token, expired, begun>>
  BY DEF Lock, Free
<1> DEFINE next == [pc |-> pc, op |-> op, token |-> t, todo |-> {}, revokes |-> {},
                    known |-> {}]
<1>4. next \in Request
  BY <1>1 DEF Request, Steps, Operations
<1>5. request'[r] = next
  BY <1>2 DEF Inv, TypeOK
<1> HIDE DEF t
<1>6. /\ lock' \in [Tokens -> Requests \cup {Nothing}] /\ lock'[t] = r
      /\ \A u \in Tokens : lock[u] \in Requests \ {r} => lock'[u] = lock[u]
  BY <1>1, <1>2, <1>3, NothingAssumption DEF Inv, TypeOK
<1>7. Good(r)'
  BY <1>1, <1>2, <1>3, <1>5, <1>6 DEF Good, Issued
<1>8. request' = [request EXCEPT ![r] = next]
  BY <1>2
<1> HIDE DEF next
<1> QED  BY <1>3, <1>4, <1>6, <1>7, <1>8, OnKeeps DEF Inv, TypeOK

LEMMA ScanKeeps ==
  ASSUME Inv, NEW r \in Requests, Scan(r)
  PROVE  Inv'
<1> DEFINE next == [pc |-> "update", op |-> request[r].op, token |-> request[r].token,
                    todo |-> Active, revokes |-> {}, known |-> Issued]
<1>1. request' = [request EXCEPT ![r] = next] /\ UNCHANGED <<token, expired, lock, begun>>
  BY DEF Scan, Scanned
<1>2. next \in Request
  BY DEF Inv, TypeOK, Request, Steps, Active, Issued
<1>3. request'[r] = next
  BY <1>1 DEF Inv, TypeOK
<1>4. Good(r)'
  BY <1>1, <1>3 DEF Good, Issued, Active
<1> HIDE DEF next
<1> QED  BY <1>1, <1>2, <1>4, OnKeeps DEF Inv, TypeOK

\* A row the UPDATE visits is revoked already, or locked to be revoked.
LEMMA UpdateKeeps ==
  ASSUME Inv, NEW r \in Requests, NEW t \in Tokens, Update(r, t)
  PROVE  Inv'
<1> DEFINE q == request[r]
           revokes == IF t \in Active THEN q.revokes \cup {t} ELSE q.revokes
           next == [pc |-> "update", op |-> q.op, token |-> q.token, todo |-> q.todo \ {t},
                    revokes |-> revokes, known |-> q.known]
<1>1. /\ request' = [request EXCEPT ![r] = next] /\ UNCHANGED <<token, expired, begun>>
      /\ q.pc = "update" /\ lock[t] \in {Nothing, r}
      /\ lock' = IF t \in Active THEN [lock EXCEPT ![t] = r] ELSE lock
  BY DEF Update
<1>2. q \in Request /\ Good(r)
  BY DEF Inv, TypeOK, RequestInv
<1>3. /\ lock' \in [Tokens -> Requests \cup {Nothing}]
      /\ \A u \in Tokens : lock[u] \in Requests \ {r} => lock'[u] = lock[u]
      /\ \A u \in Tokens : lock[u] = r => lock'[u] = r
      /\ t \in Active => lock'[t] = r
  BY <1>1, NothingAssumption DEF Inv, TypeOK
<1>4. revokes \in SUBSET Tokens
  BY <1>2 DEF Request
<1>5. \A u \in revokes : u \in q.revokes \/ (u = t /\ t \in Active)
  OBVIOUS
<1>6. q.revokes \subseteq revokes /\ (t \in Active => t \in revokes)
  OBVIOUS
<1> HIDE DEF revokes
<1>7. next \in Request
  BY <1>2, <1>4 DEF Request, Steps
<1>8. request'[r] = next
  BY <1>1 DEF Inv, TypeOK
<1>9. Good(r)'
  <2>1. q.known \subseteq Issued'
    BY <1>1, <1>2 DEF Good, Issued
  <2>2. \A u \in revokes : u \in Issued' /\ lock'[u] = r
    BY <1>1, <1>2, <1>3, <1>5 DEF Good, Issued, Active
  <2>3. \A u \in q.known : u \in (q.todo \ {t}) \cup revokes \/ token'[u].revoked
    BY <1>1, <1>2, <1>6 DEF Good, Active
  <2> QED  BY <1>8, <2>1, <2>2, <2>3 DEF Good
<1> HIDE DEF next
<1> QED  BY <1>1, <1>3, <1>7, <1>9, OnKeeps DEF Inv, TypeOK
-----------------------------------------------------------------------------
(* What commits write *)

\* A login's first token is named after itself; a successor takes the place of the
\* token presented, which works and which nobody else has locked.
LEMMA IssueEffect ==
  ASSUME Inv, NEW r \in Requests, NEW new \in Tokens, Issue(r, new)
  PROVE  /\ new \notin Issued /\ End(r) /\ UNCHANGED <<expired, begun>>
         /\ token' \in [Tokens -> Row \cup {NoRow}]
         /\ \/ /\ token'[new] = NewRow(new)
               /\ \A t \in Tokens \ {new} : token'[t] = token[t]
            \/ \E old \in Issued :
                 /\ old # new /\ lock[old] = r /\ ~token[old].revoked
                 /\ token'[new] = NewRow(token[old].login)
                 /\ token'[old] = Replaced(token[old], new)
                 /\ \A t \in Tokens \ {old, new} : token'[t] = token[t]
<1>1. new \notin Issued /\ End(r) /\ UNCHANGED <<expired, begun>>
  BY DEF Issue
<1>2. CASE request[r].op = "login"
  <2>1. token' = [token EXCEPT ![new] = NewRow(new)]
    BY <1>2 DEF Issue
  <2>2. NewRow(new) \in Row
    BY DEF NewRow, Row
  <2> QED  BY <1>1, <2>1, <2>2 DEF Inv, TypeOK
<1>3. CASE request[r].op # "login"
  <2> DEFINE old == request[r].token
  <2>1. old \in Issued /\ lock[old] = r /\ ~token[old].revoked
    BY <1>3 DEF Issue, Inv, RequestInv, Good
  <2>2. token[old] \in Row /\ old # new /\ old \in Tokens
    BY <1>1, <2>1, IssuedTyped DEF Inv
  <2>3. token' = [t \in Tokens |-> IF t = new THEN NewRow(token[old].login)
                                   ELSE IF t = old THEN Replaced(token[t], new)
                                   ELSE token[t]]
    BY <1>3 DEF Issue
  <2> HIDE DEF old
  <2>4. NewRow(token[old].login) \in Row /\ Replaced(token[old], new) \in Row
    BY <2>2 DEF NewRow, Replaced, Row
  <2> QED  BY <1>1, <2>1, <2>2, <2>3, <2>4 DEF Inv, TypeOK
<1> QED  BY <1>2, <1>3

\* A logout, a reuse and a change revoke tokens they have locked.
Revokes(S) == token' = [t \in Tokens |-> IF t \in S THEN Revoked(token[t]) ELSE token[t]]

LEMMA RevokedTyped ==
  ASSUME NEW row \in Row
  PROVE  Revoked(row) \in Row /\ Revoked(row).revoked /\ (row.revoked => Revoked(row) = row)
  BY DEF Revoked, Row

LEMMA RevokeEffect ==
  ASSUME Inv, NEW r \in Requests, Logout(r) \/ RevokeAll(r)
  PROVE  /\ End(r) /\ UNCHANGED <<expired, begun>>
         /\ \E S \in SUBSET Issued : Revokes(S) /\ \A t \in S : lock[t] = r
         /\ token' \in [Tokens -> Row \cup {NoRow}]
         /\ \A t \in Issued : token'[t] \in Row /\ (token[t].revoked => token'[t] = token[t])
<1>1. End(r) /\ UNCHANGED <<expired, begun>>
  BY DEF Logout, RevokeAll
<1>2. \E S \in SUBSET Issued : Revokes(S) /\ \A t \in S : lock[t] = r
  <2>1. CASE Logout(r)
    <3> DEFINE t == request[r].token
    <3>1. t \in Issued /\ t \in Tokens /\ lock[t] = r
      BY <2>1 DEF Logout, Inv, RequestInv, Good, Issued
    <3>2. token' = [token EXCEPT ![t] = Revoked(token[t])]
      BY <2>1 DEF Logout
    <3> HIDE DEF t
    <3>3. Revokes({t})
      BY <3>1, <3>2 DEF Revokes, Inv, TypeOK
    <3> QED  BY <3>1, <3>3
  <2>2. CASE RevokeAll(r)
    <3>1. Revokes(request[r].revokes) /\ request[r].pc = "update"
      BY <2>2 DEF RevokeAll, Revokes
    <3>2. \A t \in request[r].revokes : t \in Issued /\ lock[t] = r
      BY <3>1 DEF Inv, RequestInv, Good
    <3> QED  BY <3>1, <3>2
  <2> QED  BY <2>1, <2>2
<1>3. PICK S \in SUBSET Issued : Revokes(S)
  BY <1>2
<1>4. \A t \in Issued : token'[t] \in Row /\ (token[t].revoked => token'[t] = token[t])
  BY <1>3, IssuedTyped, RevokedTyped DEF Revokes, Inv
<1>5. \A t \in Tokens \ Issued : token'[t] = token[t]
  BY <1>3 DEF Revokes
<1>6. DOMAIN token' = Tokens /\ token' = [t \in Tokens |-> token'[t]]
  BY <1>3 DEF Revokes
<1>7. token' \in [Tokens -> Row \cup {NoRow}]
  BY <1>4, <1>5, <1>6 DEF Inv, TypeOK
<1> QED  BY <1>1, <1>2, <1>4, <1>7

LEMMA InvStep == Inv /\ [Next]_vars => Inv'
<1> SUFFICES ASSUME Inv, [Next]_vars
             PROVE  Inv'
  OBVIOUS
<1>1. ASSUME NEW r \in Requests, NEW new \in Tokens, Issue(r, new)
      PROVE  Inv'
  <2>1. \A t \in Issued : token[t] \in Row /\ t # new /\ t \in Tokens
    BY <1>1, IssueEffect, IssuedTyped DEF Inv
  <2>2. \A t \in Issued : /\ token'[t] \in Row /\ (token[t].revoked => token'[t].revoked)
                          /\ lock[t] # r => token'[t] = token[t]
    <3>1. CASE \A t \in Tokens \ {new} : token'[t] = token[t]
      BY <2>1, <3>1
    <3>2. CASE \E old \in Issued :
                 /\ old # new /\ lock[old] = r
                 /\ token'[old] = Replaced(token[old], new)
                 /\ \A t \in Tokens \ {old, new} : token'[t] = token[t]
      <4>1. \A row \in Row : Replaced(row, new) \in Row /\ Replaced(row, new).revoked
        BY DEF Replaced, Row
      <4> QED  BY <2>1, <3>2, <4>1
    <3> QED  BY <1>1, <3>1, <3>2, IssueEffect
  <2> QED  BY <1>1, <2>2, IssueEffect, EndKeeps
<1>2. ASSUME NEW r \in Requests, Logout(r) \/ RevokeAll(r)
      PROVE  Inv'
  <2>1. \A t \in Issued : lock[t] \in Requests \ {r} => token'[t] = token[t]
    BY <1>2, RevokeEffect DEF Revokes, Issued
  <2> QED  BY <1>2, <2>1, RevokeEffect, EndKeeps
<1>3. ASSUME NEW r \in Requests, Refuse(r) \/ Lose(r)
      PROVE  Inv'
  <2>1. End(r) /\ UNCHANGED <<token, expired, begun>>
    BY <1>3 DEF Refuse, Lose
  <2>2. token' \in [Tokens -> Row \cup {NoRow}] /\ \A t \in Issued : token'[t] \in Row
    BY <2>1, IssuedTyped DEF Inv, TypeOK
  <2> QED  BY <2>1, <2>2, EndKeeps
<1>4. ASSUME NEW t \in Tokens, Expire(t)
      PROVE  Inv'
  BY <1>4 DEF Expire, Inv, TypeOK, RequestInv, Good, Issued
<1>5. CASE UNCHANGED vars
  BY <1>5 DEF vars, Inv, TypeOK, RequestInv, Good, Issued
<1> QED  BY <1>1, <1>2, <1>3, <1>4, <1>5, BeginKeeps, LockKeeps, ScanKeeps, UpdateKeeps
         DEF Next

\* Rows, locks and requests keep their types, and locks their meaning.
THEOREM TypesHold == Spec => []TypeOK
<1>1. Inv => TypeOK
  BY DEF Inv
<1> QED  BY <1>1, InvInit, InvStep, PTL DEF Spec
-----------------------------------------------------------------------------
(* Tokens *)

LEMMA TokenInit == Init => TokenInv
<1> SUFFICES ASSUME Init
             PROVE  TokenInv
  OBVIOUS
<1>1. Issued = {}
  BY DEF Init, Issued
<1> QED  BY <1>1 DEF TokenInv, LoginIssued, OneActivePerLogin, ReplacedByOne, Active

\* Revoking leaves logins and replacements what they are.
LEMMA RevokeKeepsTokens ==
  ASSUME Inv, TokenInv, NEW S \in SUBSET Issued, Revokes(S)
  PROVE  TokenInv'
<1>1. \A t \in Issued : /\ t \in Tokens /\ token[t] \in Row /\ token'[t] \in Row
                        /\ token'[t].login = token[t].login
                        /\ token'[t].replacedBy = token[t].replacedBy
                        /\ token[t].revoked => token'[t].revoked
  BY IssuedTyped DEF Revokes, Revoked, Row, Inv
<1>2. Issued' = Issued
  <2>1. \A t \in Tokens \ Issued : token'[t] = token[t]
    BY DEF Revokes
  <2>2. \A t \in Issued : token'[t] # NoRow
    BY <1>1, NothingAssumption DEF Row, NoRow
  <2> QED  BY <2>1, <2>2 DEF Issued
<1>3. Active' \subseteq Active
  BY <1>1, <1>2 DEF Active
<1>4. LoginIssued' /\ OneActivePerLogin' /\ ReplacedByOne'
  BY <1>1, <1>2, <1>3 DEF TokenInv, LoginIssued, OneActivePerLogin, ReplacedByOne, Active
<1> QED  BY <1>4 DEF TokenInv

\* A token of a login that has just begun is the only one of its login.
LEMMA LoginKeepsTokens ==
  ASSUME Inv, TokenInv, NEW new \in Tokens \ Issued, token'[new] = NewRow(new),
         \A t \in Tokens \ {new} : token'[t] = token[t]
  PROVE  TokenInv'
<1>1. Issued' = Issued \cup {new}
  BY NothingAssumption DEF Issued, NewRow, NoRow
<1>2. \A t \in Issued : t # new /\ token'[t] = token[t] /\ token[t].login \in Issued
  BY DEF Issued, TokenInv, LoginIssued
<1>3. token'[new].login = new /\ token'[new].replacedBy = Nothing /\ ~token'[new].revoked
  BY DEF NewRow
<1>4. Active' = Active \cup {new}
  BY <1>1, <1>2, <1>3 DEF Active
<1>5. LoginIssued'
  BY <1>1, <1>2, <1>3 DEF LoginIssued
<1>6. OneActivePerLogin'
  BY <1>2, <1>3, <1>4 DEF TokenInv, OneActivePerLogin, Active
<1>7. ReplacedByOne'
  BY <1>1, <1>2, <1>3 DEF TokenInv, ReplacedByOne
<1> QED  BY <1>5, <1>6, <1>7 DEF TokenInv

\* A successor takes the place of the one token of its login that works.
LEMMA RefreshKeepsTokens ==
  ASSUME Inv, TokenInv, NEW new \in Tokens \ Issued, NEW old \in Issued, ~token[old].revoked,
         token'[new] = NewRow(token[old].login), token'[old] = Replaced(token[old], new),
         \A t \in Tokens \ {old, new} : token'[t] = token[t]
  PROVE  TokenInv'
<1>1. /\ token[old] \in Row /\ old # new /\ old \in Active
      /\ token[old].login \in Tokens /\ token[old].login \in Issued
      /\ token[old].replacedBy = Nothing
  BY IssuedTyped DEF Active, Inv, TokenInv, LoginIssued, ReplacedByOne, Row
<1>2. /\ token'[new].login = token[old].login /\ token'[new].replacedBy = Nothing
      /\ ~token'[new].revoked
  BY DEF NewRow
<1>3. /\ token'[old].login = token[old].login /\ token'[old].replacedBy = new
      /\ token'[old].revoked
  BY DEF Replaced
<1>4. \A t \in Issued \ {old} : token'[t] = token[t] /\ t # new
  BY DEF Issued
<1>5. Issued' = Issued \cup {new}
  <2>1. token'[new] # NoRow /\ token'[old] # NoRow
    BY <1>1, NothingAssumption DEF NewRow, Replaced, NoRow
  <2>2. \A t \in Tokens : token'[t] # NoRow <=> t \in Issued \cup {new}
    BY <2>1 DEF Issued
  <2> QED  BY <2>2 DEF Issued
<1>6. Active' = (Active \ {old}) \cup {new}
  BY <1>2, <1>3, <1>4, <1>5 DEF Active
<1>7. LoginIssued'
  BY <1>1, <1>2, <1>3, <1>4, <1>5 DEF TokenInv, LoginIssued
<1>8. OneActivePerLogin'
  <2>1. \A t \in Active \ {old} : token'[t] = token[t] /\ token[t].login # token[old].login
    BY <1>1, <1>4 DEF TokenInv, OneActivePerLogin, Active
  <2> QED  BY <1>2, <1>6, <2>1 DEF TokenInv, OneActivePerLogin
<1>9. ReplacedByOne'
  <2>1. \A t \in Issued : token[t].replacedBy # new
    BY NothingAssumption DEF TokenInv, ReplacedByOne
  <2>2. \A t \in Issued' : token'[t].replacedBy = new => t = old
    BY <1>2, <1>3, <1>4, <1>5, <2>1, NothingAssumption
  <2>3. \A t \in Issued : token'[t].login = token[t].login
    BY <1>3, <1>4
  <2>4. ASSUME NEW t \in Issued', token'[t].replacedBy # Nothing
        PROVE  /\ token'[t].revoked /\ token'[t].replacedBy \in Issued'
               /\ token'[token'[t].replacedBy].login = token'[t].login
               /\ \A u \in Issued' : token'[u].replacedBy = token'[t].replacedBy => u = t
    <3>1. CASE t = old
      BY <1>2, <1>3, <1>5, <2>2, <3>1
    <3>2. CASE t # old
      <4>1. t \in Issued \ {old} /\ token'[t] = token[t]
        BY <1>2, <1>4, <1>5, <2>4, <3>2
      <4>2. /\ token[t].revoked /\ token[t].replacedBy \in Issued
            /\ token[token[t].replacedBy].login = token[t].login
            /\ \A u \in Issued : token[u].replacedBy = token[t].replacedBy => u = t
        BY <2>4, <4>1 DEF TokenInv, ReplacedByOne
      <4>3. token[t].replacedBy # new
        BY <2>1, <4>1
      <4>4. ASSUME NEW u \in Issued', token'[u].replacedBy = token[t].replacedBy
            PROVE  u = t
        <5>1. u # new /\ u # old
          BY <1>2, <1>3, <2>4, <4>1, <4>3, <4>4
        <5> QED  BY <1>4, <1>5, <4>2, <4>4, <5>1
      <4> QED  BY <1>5, <2>3, <4>1, <4>2, <4>4
    <3> QED  BY <3>1, <3>2
  <2> QED  BY <2>4 DEF ReplacedByOne
<1> QED  BY <1>7, <1>8, <1>9 DEF TokenInv

\* Steps that commit nothing leave the rows alone.
LEMMA RowsKept ==
  ASSUME [Next]_vars, ~ \E r \in Requests : Logout(r) \/ RevokeAll(r),
         ~ \E r \in Requests, t \in Tokens : Issue(r, t)
  PROVE  token' = token
  BY DEF Next, vars, Begin, Lock, Refuse, Scan, Lose, Update, Expire

LEMMA TokenStep == Inv /\ TokenInv /\ [Next]_vars => TokenInv'
<1> SUFFICES ASSUME Inv, TokenInv, [Next]_vars
             PROVE  TokenInv'
  OBVIOUS
<1>1. ASSUME NEW r \in Requests, NEW new \in Tokens, Issue(r, new)
      PROVE  TokenInv'
  BY <1>1, IssueEffect, LoginKeepsTokens, RefreshKeepsTokens
<1>2. ASSUME NEW r \in Requests, Logout(r) \/ RevokeAll(r)
      PROVE  TokenInv'
  BY <1>2, RevokeEffect, RevokeKeepsTokens
<1>3. CASE token' = token
  BY <1>3 DEF TokenInv, LoginIssued, OneActivePerLogin, ReplacedByOne, Active, Issued
<1> QED  BY <1>1, <1>2, <1>3, RowsKept

\* A login has at most one token that works, however its tokens are refreshed.
THEOREM LoginsHaveOne == Spec => []OneActivePerLogin
<1>1. TokenInv => OneActivePerLogin
  BY DEF TokenInv
<1> QED  BY <1>1, InvInit, InvStep, TokenInit, TokenStep, PTL DEF Spec

\* Replaced tokens are revoked and each has a successor of its own.
THEOREM ReplacementIsAChain == Spec => []ReplacedByOne
<1>1. TokenInv => ReplacedByOne
  BY DEF TokenInv
<1> QED  BY <1>1, InvInit, InvStep, TokenInit, TokenStep, PTL DEF Spec

\* No request writes a row that has been revoked.
THEOREM RevocationIsFinal == Spec => RevokedIsFinal
<1>1. ASSUME Inv, [Next]_vars
      PROVE  \A t \in Issued : token[t].revoked => token'[t] = token[t]
  <2>1. ASSUME NEW r \in Requests, NEW new \in Tokens, Issue(r, new),
               NEW t \in Issued, token[t].revoked
        PROVE  token'[t] = token[t]
    BY <1>1, <2>1, IssueEffect, IssuedTyped DEF Inv
  <2>2. ASSUME NEW r \in Requests, Logout(r) \/ RevokeAll(r)
        PROVE  \A t \in Issued : token[t].revoked => token'[t] = token[t]
    BY <1>1, <2>2, RevokeEffect
  <2>3. CASE token' = token
    BY <2>3
  <2> QED  BY <1>1, <2>1, <2>2, <2>3, RowsKept
<1> QED  BY <1>1, InvInit, InvStep, PTL DEF Spec, RevokedIsFinal

\* A reuse, or a change of the password, that commits has revoked every token that
\* was issued when it started, whatever others replaced or held meanwhile.
THEOREM RevocationIsComplete == Spec => RevokesAllKnown
<1>1. ASSUME Inv, NEW r \in Requests, RevokeAll(r), NEW t \in request[r].known
      PROVE  token'[t].revoked
  <2>1. /\ request[r].pc = "update" /\ request[r].todo = {}
        /\ Revokes(request[r].revokes)
    BY <1>1 DEF RevokeAll, Revokes
  <2>2. t \in Issued /\ (t \in request[r].revokes \/ token[t].revoked)
    BY <1>1, <2>1 DEF Inv, RequestInv, Good
  <2>3. token[t] \in Row /\ t \in Tokens
    BY <1>1, <2>2, IssuedTyped DEF Inv
  <2> QED  BY <2>1, <2>2, <2>3, RevokedTyped DEF Revokes
<1>2. Inv /\ [Next]_vars =>
        [\A r \in Requests :
           RevokeAll(r) => \A t \in request[r].known : token'[t].revoked]_vars
  BY <1>1
<1> QED  BY <1>2, InvInit, InvStep, PTL DEF Spec, RevokesAllKnown
=============================================================================
