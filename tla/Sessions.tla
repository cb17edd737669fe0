------------------------------- MODULE Sessions -------------------------------
(***************************************************************************)
(* The requests of signed-in users: the session row each of them locks,    *)
(* the pool that lends them their database connections, and the second     *)
(* connection on which a security event is written while the first is held *)
(* (identity/router.py, identity/service.py, security/csrf.py,             *)
(* security/rate_limit.py, audit/service.py, database.py).                 *)
(*                                                                         *)
(* What a request does to other tables is left out: it is "working".       *)
(***************************************************************************)
EXTENDS Integers

CONSTANTS
  Requests,
  Tokens,     \* the sessions that can ever be opened; a cookie holds one
  PoolSize,   \* pool_size + max_overflow of the engine
  None        \* no cookie

VARIABLES
  session,   \* of a token: "none" (no row), "active", "revoked", "expired"
  pool,      \* connections that are lent
  op         \* what a request is doing

svars == <<session, pool, op>>

Idle == [at |-> "idle"]
Kinds == {"work", "login", "logout", "rejected"}
Places == {"connect", "look", "authenticate", "working", "reconnect", "tail",
           "audit", "auditing", "audited"}

\* conns: how many connections it holds; locked: it has its session row locked.
Doing(kind, token, at, conns, locked) ==
  [kind |-> kind, token |-> token, at |-> at, conns |-> conns, locked |-> locked]

Goto(r, at) == op' = [op EXCEPT ![r].at = at]

Init ==
  /\ session = [t \in Tokens |-> "none"]
  /\ pool = 0
  /\ op = [r \in Requests |-> Idle]

\* The end of get_db, committed or rolled back: the connection goes back and the
\* lock with it.
End(r) ==
  /\ op' = [op EXCEPT ![r] = Idle]
  /\ pool' = pool - op[r].conns

At(r, places) == op[r] # Idle /\ op[r].at \in places

-----------------------------------------------------------------------------
(***************************************************************************)
(* A request arrives.  It takes its connection with its first query; one   *)
(* that is refused for its cookies, its origin or its CSRF header is       *)
(* refused without any, and is only audited.                               *)
(***************************************************************************)
Reserved == {op[r].token : r \in {q \in Requests : op[q] # Idle /\ op[q].kind = "login"}}

ArriveLogin(r, t) ==
  /\ op[r] = Idle
  /\ session[t] = "none" /\ t \notin Reserved    \* a token nobody has been given
  /\ op' = [op EXCEPT ![r] = Doing("login", t, "connect", 0, FALSE)]
  /\ UNCHANGED <<session, pool>>

Arrive(r, kind, t) ==
  /\ op[r] = Idle
  /\ session[t] # "none"
  /\ op' = [op EXCEPT ![r] = Doing(kind, t, "connect", 0, FALSE)]
  /\ UNCHANGED <<session, pool>>

Refuse(r) ==
  /\ op[r] = Idle
  /\ op' = [op EXCEPT ![r] = Doing("rejected", None, "audit", 0, FALSE)]
  /\ UNCHANGED <<session, pool>>

-----------------------------------------------------------------------------
(***************************************************************************)
(* The pool.  Whoever finds it empty waits, and gives up after a while:    *)
(* the request with an error, the audit with a line in the log.            *)
(***************************************************************************)
Lend(r, at) ==
  /\ pool < PoolSize /\ pool' = pool + 1
  /\ op' = [op EXCEPT ![r].at = at, ![r].conns = @ + 1]

Connect(r) ==
  /\ At(r, {"connect"})
  /\ Lend(r, IF op[r].kind = "login" THEN "authenticate" ELSE "look")
  /\ UNCHANGED session

\* upload_document has committed, and reads its row again.
Reconnect(r) == At(r, {"reconnect"}) /\ Lend(r, "tail") /\ UNCHANGED session

GiveUp(r) ==
  /\ At(r, {"connect", "reconnect"})
  /\ pool = PoolSize
  /\ End(r)
  /\ UNCHANGED session

\* log_security_event, in a session and a transaction of its own.
AuditConnect(r) == At(r, {"audit"}) /\ Lend(r, "auditing") /\ UNCHANGED session

AuditDone(r) ==
  /\ At(r, {"auditing"})
  /\ pool' = pool - 1
  /\ op' = [op EXCEPT ![r].at = "audited", ![r].conns = @ - 1]
  /\ UNCHANGED session

AuditWaits(r) == FALSE         \* mutant: the audit waits without a limit
AuditGivesUp(r) == At(r, {"audit"}) /\ pool = PoolSize

AuditLost(r) ==
  /\ AuditGivesUp(r)
  /\ Goto(r, "audited")
  /\ UNCHANGED <<session, pool>>

-----------------------------------------------------------------------------
(***************************************************************************)
(* get_active_session, of a request and of a logout: the row is locked     *)
(* until the transaction ends, whatever is found in it.                    *)
(***************************************************************************)
Unlocked(r, t) == TRUE         \* mutant: the row is read without FOR UPDATE
Free(r, t) == \A q \in Requests \ {r} : op[q] # Idle /\ op[q].token = t => ~op[q].locked

\* A request is rejected for its session, its CSRF header or its user; a logout of
\* a session that has ended has nothing to do.
Seen(kind, state) ==
  {<<"audit", "rejected">>}
  \cup IF kind = "logout"
         THEN {IF state = "active" THEN <<"audit", "logout">> ELSE <<"tail", "logout">>}
         ELSE {<<"working", "work">> : x \in {state} \cap {"active"}}

Look(r) ==
  /\ At(r, {"look"})
  /\ Free(r, op[r].token)
  /\ \E s \in Seen(op[r].kind, session[op[r].token]) :
       op' = [op EXCEPT ![r].at = s[1], ![r].kind = s[2], ![r].locked = TRUE]
  /\ UNCHANGED <<session, pool>>

\* authenticate or create_user, then create_session.
Authenticate(r) ==
  /\ At(r, {"authenticate"})
  /\ \/ Goto(r, "audit") /\ UNCHANGED pool        \* login_success
     \/ Goto(r, "audited") /\ UNCHANGED pool      \* register, which is not audited
     \/ End(r)                                    \* 401, 404, 409
  /\ UNCHANGED session

\* The limit of the route is exceeded (429); Redis does not answer (503) is Finish.
RateLimited(r) ==
  /\ At(r, {"working"})
  /\ op' = [op EXCEPT ![r].at = "audit", ![r].kind = "rejected"]
  /\ UNCHANGED <<session, pool>>

\* upload_document commits before it enqueues.
EarlyCommit(r) ==
  /\ At(r, {"working"})
  /\ pool' = pool - 1
  /\ op' = [op EXCEPT ![r].at = "reconnect", ![r].conns = 0, ![r].locked = FALSE]
  /\ UNCHANGED session

\* The request is over, committed or not.
Finish(r) == At(r, {"working", "tail"}) /\ End(r) /\ UNCHANGED session
Rejected(r) == At(r, {"audited"}) /\ op[r].kind = "rejected" /\ End(r) /\ UNCHANGED session

\* A login or a logout that was audited commits, or fails after all.
Changed(r) ==
  [session EXCEPT ![op[r].token] = IF op[r].kind = "login" THEN "active" ELSE "revoked"]

Commit(r) ==
  /\ At(r, {"audited"}) /\ op[r].kind \in {"login", "logout"}
  /\ \E s \in {session, Changed(r)} : session' = s
  /\ End(r)

\* SESSION_EXPIRE_MINUTES have passed.
Expire(t) ==
  /\ session[t] = "active"
  /\ session' = [session EXCEPT ![t] = "expired"]
  /\ UNCHANGED <<pool, op>>

-----------------------------------------------------------------------------
Answer(r) ==
  \/ Connect(r) \/ Reconnect(r) \/ GiveUp(r)
  \/ AuditConnect(r) \/ AuditDone(r) \/ AuditLost(r)
  \/ Authenticate(r) \/ RateLimited(r) \/ EarlyCommit(r)
  \/ Finish(r) \/ Rejected(r) \/ Commit(r)

Next ==
  \/ \E r \in Requests :
       \/ Look(r) \/ Answer(r)
       \/ \E t \in Tokens : \/ ArriveLogin(r, t)
                            \/ \E k \in {"work", "logout"} : Arrive(r, k, t)
       \/ Refuse(r)
  \/ \E t \in Tokens : Expire(t)

Spec == Init /\ [][Next]_svars

\* The server runs the requests it has accepted, and PostgreSQL grants a row lock
\* in the order of the requests for it.
Fairness == \A r \in Requests : WF_svars(op[r] # Idle /\ Answer(r)) /\ SF_svars(Look(r))

-----------------------------------------------------------------------------
(***************************************************************************)
(* Properties.                                                             *)
(***************************************************************************)
TypeOK ==
  /\ session \in [Tokens -> {"none", "active", "revoked", "expired"}]
  /\ pool \in Int /\ pool <= PoolSize
  /\ DOMAIN op = Requests
  /\ \A r \in Requests : op[r] # Idle =>
       op[r] \in [kind : Kinds, token : Tokens \cup {None}, at : Places, conns : Nat,
                  locked : BOOLEAN]

\* Nothing is done in the name of a session after its logout: a request that has
\* not committed yet keeps its logout waiting (get_active_session,
\* "test_authenticated_transaction_holds_session_lock_until_domain_mutation_commits").
NothingAfterLogout ==
  \A r \in Requests : At(r, {"working"}) => session[op[r].token] # "revoked"

\* Every request is answered, even if all connections are held by requests that
\* want a second one (log_security_event).
EveryRequestAnswered == \A r \in Requests : op[r] # Idle ~> op[r] = Idle
=============================================================================
