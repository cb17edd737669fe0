------------------------------ MODULE AuthStore ------------------------------
(***************************************************************************)
(* One browser tab that signs in and out: the store with its versioned     *)
(* calls, the cookie that answers set and delete, the redirect after a 401 *)
(* and the pages that decide which call can be started (authStore.ts,      *)
(* lib/api.ts, App.tsx, Login.tsx, ProtectedRoute.tsx, Layout.tsx).        *)
(*                                                                         *)
(* Calls are served one by one (Sessions), and answered in any order.      *)
(***************************************************************************)
EXTENDS Naturals, Sequences

CONSTANTS
  Tokens,     \* the sessions the user can open
  None,       \* no cookie
  MaxCalls    \* bounds the calls of a tab between two reloads

VARIABLES
  page,       \* "login", or "app": any page behind ProtectedRoute
  status,     \* authStatus; isLoading exactly if it is "loading"
  known,      \* user # null
  calls,      \* the store's calls; a call's version is its index
  redirect,   \* unauthorizedRedirectInProgress
  cookie,     \* advisor_session
  live        \* the sessions that the server accepts

avars == <<page, status, known, calls, redirect, cookie, live>>

Version == Len(calls)       \* authRequestVersion
isAuthenticated == status = "authenticated" \/ (status = "unavailable" /\ known)

\* leg: the endpoint that is asked; a login asks /auth/me in the end.
Pending(v) == calls[v].step # "over"
Call(kind, leg) == [kind |-> kind, leg |-> leg, step |-> "sent", cookie |-> cookie,
                    answer |-> "none"]

Init ==
  /\ page \in {"login", "app"}
  /\ status = "loading" /\ known = FALSE /\ calls = <<>> /\ redirect = FALSE
  /\ \/ cookie = None /\ live = {}
     \/ \E t \in Tokens : cookie = t /\ live \in {{}, {t}}

-----------------------------------------------------------------------------
(***************************************************************************)
(* What the user and the pages start.                                      *)
(***************************************************************************)
Start(kind, leg) ==
  /\ Len(calls) < MaxCalls /\ ~redirect
  /\ calls' = Append(calls, Call(kind, leg))
  /\ UNCHANGED <<page, status, known, redirect, cookie, live>>

\* App has mounted.
Mount == calls = <<>> /\ Start("fetch", "me")

\* The button of ProtectedRoute.
Retry == page = "app" /\ status = "unavailable" /\ Start("fetch", "me")

FormAlways == TRUE            \* mutant: the form does not wait for isLoading
FormShown == status # "loading"

Login == page = "login" /\ FormShown /\ ~isAuthenticated /\ Start("login", "login")

\* The button of Layout, which is not disabled while a logout is pending.
Logout == page = "app" /\ status = "authenticated" /\ Start("logout", "logout")

\* Links, the browser's history, Navigate of ProtectedRoute and of Login.
Navigate ==
  /\ ~redirect
  /\ page' \in {"login", "app"} \ {page}
  /\ UNCHANGED <<status, known, calls, redirect, cookie, live>>

-----------------------------------------------------------------------------
(***************************************************************************)
(* The server.                                                             *)
(***************************************************************************)
Answers(v) ==
  CASE calls[v].leg = "me" -> {IF calls[v].cookie \in live THEN "ok" ELSE "401"}
    [] calls[v].leg = "login" -> {"401"} \cup {"ok" : t \in Tokens \ live}
    [] OTHER -> {"ok"}

\* The token of a new session; only one that no cookie and no call can hold.
Fresh(t) == t \notin live /\ t # cookie /\ \A v \in DOMAIN calls : t # calls[v].cookie

Serve(v) ==
  /\ calls[v].step = "sent"
  /\ \E a \in Answers(v), t \in Tokens \cup {None} :
       /\ IF calls[v].leg = "login" /\ a = "ok" THEN t # None /\ Fresh(t) ELSE t = None
       /\ live' = CASE t # None -> live \cup {t}
                    [] calls[v].leg = "logout" -> live \ {calls[v].cookie}
                    [] OTHER -> live
       /\ calls' = [calls EXCEPT ![v].step = "served", ![v].answer = a,
                      ![v].cookie = IF calls[v].leg = "login" THEN t ELSE @]
  /\ UNCHANGED <<page, status, known, redirect, cookie>>

\* The request or its answer is lost, or the server fails.
Lose(v) ==
  /\ calls[v].step \in {"sent", "served"}
  /\ calls' = [calls EXCEPT ![v].step = "served", ![v].answer = "lost"]
  /\ UNCHANGED <<page, status, known, redirect, cookie, live>>

\* The session expires, or is revoked on another device.
SessionEnds(t) ==
  /\ t \in live
  /\ live' = live \ {t}
  /\ UNCHANGED <<page, status, known, calls, redirect, cookie>>

-----------------------------------------------------------------------------
(***************************************************************************)
(* An answer arrives: first the browser applies its cookies, then the      *)
(* interceptor sees a 401, then the store looks whether it still counts.   *)
(***************************************************************************)
AnyVersion(v) == TRUE           \* mutant: late answers count
isCurrentAuthRequest(v) == v = Version

CookieAfter(c) ==
  CASE c.answer = "ok" /\ c.leg = "login" -> c.cookie
    [] c.answer = "ok" /\ c.leg = "logout" -> None
    [] OTHER -> cookie

RedirectAfter(c) == IF c.answer = "401" THEN page # "login" ELSE redirect

\* The store after the answer c that counts.
StatusAfter(c) ==
  CASE c.kind = "logout" -> "unauthenticated"
    [] c.leg = "me" /\ c.answer = "ok" -> "authenticated"
    [] c.kind = "fetch" /\ c.answer # "ok" ->
         IF c.answer = "401" THEN "unauthenticated" ELSE "unavailable"
    [] OTHER -> status                               \* a login that fails throws

KnownAfter(c) ==
  CASE StatusAfter(c) = "unauthenticated" /\ c.kind # "login" -> FALSE
    [] c.leg = "me" /\ c.answer = "ok" -> TRUE
    [] OTHER -> known

AsksMe(v) == calls[v].leg = "login" /\ calls[v].answer = "ok" /\ isCurrentAuthRequest(v)

Receive(v) ==
  /\ calls[v].step = "served"
  /\ cookie' = CookieAfter(calls[v])
  /\ IF isCurrentAuthRequest(v)
       THEN status' = StatusAfter(calls[v]) /\ known' = KnownAfter(calls[v])
       ELSE UNCHANGED <<status, known>>
  /\ redirect' = IF isCurrentAuthRequest(v) /\ calls[v].kind = "login" /\ status' = "authenticated"
                   THEN FALSE ELSE RedirectAfter(calls[v])
  /\ calls' = IF AsksMe(v)
                THEN [calls EXCEPT ![v].leg = "me", ![v].step = "sent", ![v].answer = "none",
                                   ![v].cookie = cookie']
                ELSE [calls EXCEPT ![v].step = "over"]
  /\ UNCHANGED <<page, live>>

\* A query of a page is answered with 401.
QueryRejected ==
  /\ page = "app" /\ cookie \notin live /\ status = "authenticated"
  /\ redirect' = TRUE
  /\ UNCHANGED <<page, status, known, calls, cookie, live>>

\* window.location.assign: the tab starts again on the login page.
Reload ==
  /\ redirect
  /\ page' = "login" /\ status' = "loading" /\ known' = FALSE
  /\ calls' = <<>> /\ redirect' = FALSE
  /\ UNCHANGED <<cookie, live>>

-----------------------------------------------------------------------------
Next ==
  \/ Mount \/ Retry \/ Login \/ Logout \/ Navigate
  \/ \E v \in DOMAIN calls : Serve(v) \/ Lose(v) \/ Receive(v)
  \/ \E t \in Tokens : SessionEnds(t)
  \/ QueryRejected \/ Reload

Spec == Init /\ [][Next]_avars

-----------------------------------------------------------------------------
(***************************************************************************)
(* Properties.                                                             *)
(***************************************************************************)

\* While the pages show that they are loading, the call that ends it is under way
\* (Login and ProtectedRoute show nothing else then).
NeverStuckLoading == status = "loading" => calls = <<>> \/ Pending(Version)

\* What the newest call was told stays until another call is started: an answer
\* that arrives late changes nothing ("does not let a stale fetch 401 overwrite a
\* newer successful login").
NewestDecides ==
  calls # <<>> /\ ~Pending(Version) =>
    LET c == calls[Version]
    IN  CASE c.kind = "logout" -> status = "unauthenticated"
          [] c.leg = "me" /\ c.answer = "ok" -> status = "authenticated"
          [] c.kind = "fetch" /\ c.answer # "ok" ->
               status = IF c.answer = "401" THEN "unauthenticated" ELSE "unavailable"
          [] OTHER -> TRUE
=============================================================================
