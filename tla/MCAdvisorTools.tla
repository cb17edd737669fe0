--------------------------- MODULE MCAdvisorTools ---------------------------
(***************************************************************************)
(* The advisor, the browser it is used from, and the sessions of the       *)
(* server between the two.  The initial state chooses the part:            *)
(*   "advisor"   AdvisorTools, with this module's constants;               *)
(*   "browser"   AuthStore: one tab that signs in and out;                 *)
(*   "sessions"  Sessions: requests, their connections and row locks.      *)
(***************************************************************************)
EXTENDS AdvisorTools, TLC

CONSTANTS Tokens, MaxCalls, ServerRequests, PoolSize

ASSUME PoolAssumption == PoolSize \in Nat

VARIABLES part, page, authStatus, known, calls, redirect, cookie, live,
          session, pool, serverOp

B == INSTANCE AuthStore WITH status <- authStatus
S == INSTANCE Sessions WITH Requests <- ServerRequests, op <- serverOp

browserVars == <<page, authStatus, known, calls, redirect, cookie, live>>
sessionVars == <<session, pool, serverOp>>

PartInit == /\ Init /\ B!Init /\ S!Init
            /\ \/ part \in {"advisor", "sessions"} /\ page = "login" /\ cookie = None
               \/ part = "browser"

PartNext == /\ \/ part = "advisor" /\ Next /\ UNCHANGED <<browserVars, sessionVars>>
               \/ part = "browser" /\ B!Next /\ UNCHANGED <<vars, sessionVars>>
               \/ part = "sessions" /\ S!Next /\ UNCHANGED <<vars, browserVars>>
            /\ UNCHANGED part

PartSpec == PartInit /\ [][PartNext]_<<part, vars, browserVars, sessionVars>>

MCSymmetry == Permutations(Calls) \cup Permutations(Requests)
-----------------------------------------------------------------------------
\* A page that is loading waits for a call (Login, ProtectedRoute).
NeverStuckLoading == B!NeverStuckLoading

\* A late answer changes nothing (isCurrentAuthRequest).
NewestDecides == B!NewestDecides

\* A logout waits for the requests of its session (get_active_session).
NothingAfterLogout == S!NothingAfterLogout
=============================================================================
