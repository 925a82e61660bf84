---------------------------- MODULE RefreshTokens ----------------------------
(***************************************************************************)
(* The refresh tokens of one user: every statement on them is restricted   *)
(* to the user's.  A login issues a token, a refresh replaces it by a new  *)
(* one under a lock of its row, a logout revokes it.  A replaced token     *)
(* that is presented again, and a change of the password, revoke all       *)
(* tokens: the UPDATE sees those that are committed and not revoked when   *)
(* it starts, and locks them one by one.                                   *)
(*                                                                         *)
(* Passwords and signatures are not modelled: a request whose credentials  *)
(* are refused changes nothing.                                            *)
(***************************************************************************)
EXTENDS Naturals

CONSTANTS
  Tokens,        \* the ids that may be issued
  Requests,      \* the API's request handlers
  Nothing,       \* no token, no holder of a lock
  MaxRequests    \* bound: requests begun

ASSUME NothingAssumption == Nothing \notin Tokens \cup Requests
ASSUME BoundAssumption == MaxRequests \in Nat

VARIABLES
  token,     \* refresh_tokens
  expired,   \* the tokens whose expires_at is past
  lock,      \* which request holds the lock of a token's row
  request,   \* the requests being handled
  begun      \* requests begun so far

vars == <<token, expired, lock, request, begun>>
-----------------------------------------------------------------------------
(* Rows and requests *)

\* `login` is the token of the login a token descends from.
Row == [revoked : BOOLEAN, replacedBy : Tokens \cup {Nothing}, login : Tokens]
NoRow == [revoked |-> FALSE, replacedBy |-> Nothing, login |-> Nothing]
Issued == {t \in Tokens : token[t] # NoRow}
Active == {t \in Issued : ~token[t].revoked}

Steps == {"idle", "lock", "scan", "update", "commit"}
Operations == {"login", "refresh", "logout", "change", "reuse"}
Request == [pc : Steps, op : Operations,
            token : Tokens \cup {Nothing},  \* the token presented
            todo : SUBSET Tokens,           \* tokens its UPDATE has still to lock
            revokes : SUBSET Tokens,        \* tokens its UPDATE has revoked
            known : SUBSET Tokens]          \* history: tokens issued when the UPDATE started
Idle == [pc |-> "idle", op |-> "login", token |-> Nothing, todo |-> {}, revokes |-> {},
         known |-> {}]

TypeOK ==
  /\ token \in [Tokens -> Row \cup {NoRow}]
  /\ expired \in SUBSET Tokens
  /\ lock \in [Tokens -> Requests \cup {Nothing}]
  /\ request \in [Requests -> Request]
  /\ begun \in 0..MaxRequests

Init ==
  /\ token = [t \in Tokens |-> NoRow]
  /\ expired = {}
  /\ lock = [t \in Tokens |-> Nothing]
  /\ request = [r \in Requests |-> Idle]
  /\ begun = 0
-----------------------------------------------------------------------------
(* Steps of a request *)

Release(r) == lock' = [t \in Tokens |-> IF lock[t] = r THEN Nothing ELSE lock[t]]
End(r) == request' = [request EXCEPT ![r] = Idle] /\ Release(r)

\* The password was right, for a login or a change; any token that was ever
\* issued may be presented, by a client that repeats a request too, and is decoded,
\* which refuses one that has expired.
Begin(r, op, t) ==
  /\ request[r].pc = "idle" /\ begun < MaxRequests
  /\ IF op \in {"login", "change"} THEN t = Nothing ELSE t \in Issued \ expired
  /\ request' = [request EXCEPT ![r] =
       [pc |-> CASE op = "login" -> "commit" [] op = "change" -> "scan" [] OTHER -> "lock",
        op |-> op, token |-> t, todo |-> {}, revokes |-> {}, known |-> {}]]
  /\ begun' = begun + 1
  /\ UNCHANGED <<token, expired, lock>>

\* Mutant of Free: the row is selected without FOR UPDATE.
AlwaysFree(t) == TRUE
Free(t) == lock[t] = Nothing

\* A refresh that finds its token replaced is a reuse; a logout does not ask for
\* the expiry once more.
Lock(r) ==
  LET q == request[r]
      row == token[q.token]
      locked(op, pc) ==
        /\ lock' = [lock EXCEPT ![q.token] = r]
        /\ request' = [request EXCEPT ![r] =
             [pc |-> pc, op |-> op, token |-> q.token, todo |-> {}, revokes |-> {}, known |-> {}]]
  IN  /\ q.pc = "lock" /\ Free(q.token)
      /\ \/ q.op = "refresh" /\ q.token \notin expired /\ ~row.revoked
            /\ locked("refresh", "commit")
         \/ q.op = "refresh" /\ q.token \notin expired /\ row.revoked
            /\ row.replacedBy # Nothing /\ locked("reuse", "scan")
         \/ q.op = "logout" /\ ~row.revoked /\ locked("logout", "commit")
      /\ UNCHANGED <<token, expired, begun>>

\* A token that expired before the lock was had, or one that a logout or a change of
\* the password revoked; a logout repeated is answered like the first.
Refuse(r) ==
  LET q == request[r]
      row == token[q.token]
  IN  /\ q.pc = "lock" /\ Free(q.token)
      /\ \/ q.op = "refresh" /\ (q.token \in expired \/ (row.revoked /\ row.replacedBy = Nothing))
         \/ q.op = "logout" /\ row.revoked
      /\ End(r)
      /\ UNCHANGED <<token, expired, begun>>

\* Mutant of Replaced: the token that was presented stays valid.
StaysValid(row, new) == [revoked |-> FALSE, replacedBy |-> new, login |-> row.login]
Replaced(row, new) == [revoked |-> TRUE, replacedBy |-> new, login |-> row.login]
Revoked(row) == [revoked |-> TRUE, replacedBy |-> row.replacedBy, login |-> row.login]
\* Mutant of NewRow: the login is counted, not named.
CountedLogin(login) == [revoked |-> FALSE, replacedBy |-> Nothing, login |-> begun]
\* A new token's row is inserted and, for a refresh, replaces the one presented.
NewRow(login) == [revoked |-> FALSE, replacedBy |-> Nothing, login |-> login]
Issue(r, new) ==
  LET q == request[r] IN
  /\ q.pc = "commit" /\ q.op \in {"login", "refresh"} /\ new \notin Issued
  /\ token' = IF q.op = "login" THEN [token EXCEPT ![new] = NewRow(new)]
              ELSE [t \in Tokens |-> IF t = new THEN NewRow(token[q.token].login)
                                     ELSE IF t = q.token THEN Replaced(token[t], new)
                                     ELSE token[t]]
  /\ End(r)
  /\ UNCHANGED <<expired, begun>>

Logout(r) ==
  /\ request[r].pc = "commit" /\ request[r].op = "logout"
  /\ token' = [token EXCEPT ![request[r].token] = Revoked(@)]
  /\ End(r)
  /\ UNCHANGED <<expired, begun>>
-----------------------------------------------------------------------------
(* revoke_all_active *)

\* Mutant of Scanned: rows that others have locked are skipped.
SkipLocked(r) == {t \in Active : lock[t] \in {Nothing, r}}
\* The UPDATE sees the tokens that are committed and not revoked.
Scanned(r) == Active
Scan(r) ==
  /\ request[r].pc = "scan"
  /\ request' = [request EXCEPT ![r] =
       [pc |-> "update", op |-> @.op, token |-> @.token, todo |-> Scanned(r), revokes |-> {},
        known |-> Issued]]
  /\ UNCHANGED <<token, expired, lock, begun>>

\* Each of them is locked in turn, and skipped if it has been revoked meanwhile.
Update(r, t) ==
  LET q == request[r] IN
  /\ q.pc = "update" /\ t \in q.todo /\ lock[t] \in {Nothing, r}
  /\ request' = [request EXCEPT ![r] =
       [pc |-> "update", op |-> q.op, token |-> q.token, todo |-> q.todo \ {t},
        revokes |-> IF t \in Active THEN q.revokes \cup {t} ELSE q.revokes,
        known |-> q.known]]
  /\ lock' = IF t \in Active THEN [lock EXCEPT ![t] = r] ELSE lock
  /\ UNCHANGED <<token, expired, begun>>

\* A reuse commits and is answered 401; a change stores the new hash as well.
RevokeAll(r) ==
  LET q == request[r] IN
  /\ q.pc = "update" /\ q.todo = {}
  /\ token' = [t \in Tokens |-> IF t \in q.revokes THEN Revoked(token[t]) ELSE token[t]]
  /\ End(r)
  /\ UNCHANGED <<expired, begun>>

\* The process or a connection is lost, or the database ends a deadlock of two
\* UPDATEs that lock their rows in different orders: rolled back.
Lose(r) ==
  /\ request[r].pc # "idle"
  /\ End(r)
  /\ UNCHANGED <<token, expired, begun>>

Expire(t) ==
  /\ t \in Issued \ expired
  /\ expired' = expired \cup {t}
  /\ UNCHANGED <<token, lock, request, begun>>

Next ==
  \/ \E r \in Requests :
       \/ \E op \in Operations \ {"reuse"}, t \in Tokens \cup {Nothing} : Begin(r, op, t)
       \/ Lock(r) \/ Refuse(r) \/ Logout(r) \/ Scan(r) \/ RevokeAll(r) \/ Lose(r)
       \/ \E t \in Tokens : Issue(r, t) \/ Update(r, t)
  \/ \E t \in Tokens : Expire(t)

Spec == Init /\ [][Next]_vars
-----------------------------------------------------------------------------
(* Properties *)

\* However often its tokens are refreshed, repeated and raced, a login has at
\* most one token that works.
OneActivePerLogin == \A t, u \in Active : token[t].login = token[u].login => t = u

\* Replacement is a chain: a replaced token is revoked, its successor is of the
\* same login and succeeds nobody else.
ReplacedByOne == \A t \in Issued :
  token[t].replacedBy # Nothing =>
    /\ token[t].revoked /\ token[t].replacedBy \in Issued
    /\ token[token[t].replacedBy].login = token[t].login
    /\ \A u \in Issued : token[u].replacedBy = token[t].replacedBy => u = t

\* Once revoked, by a logout, a change or a refresh, a token stays revoked and is
\* never replaced any more: no refresh that read it before writes after.
RevokedIsFinal == [][\A t \in Issued : token[t].revoked => token'[t] = token[t]]_vars

\* When a change of the password or a reuse commits, every token that had been
\* issued when its UPDATE started is revoked, the ones that other requests held
\* or replaced meanwhile included.
RevokesAllKnown == [][\A r \in Requests :
  RevokeAll(r) => \A t \in request[r].known : token'[t].revoked]_vars
=============================================================================
