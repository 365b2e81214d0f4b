---------------------------- MODULE BrowserSession ----------------------------
(***************************************************************************)
(* The session as the dashboard keeps it: the access token and the user in  *)
(* localStorage and a cookie for proxy.ts, shared by the tabs of a browser  *)
(* and changed by apiRequest, useLogin and the logout button of each.  The  *)
(* token is good for fifteen minutes, the cookie for a day, and the         *)
(* dashboard never asks for a refresh.                                      *)
(* The requests a page makes together are one; a tab is taken to be         *)
(* visible, as it does not poll when it is hidden.                          *)
(***************************************************************************)
EXTENDS Naturals

CONSTANTS
    Tabs,
    MaxMoves   \* how often a user goes to a page, logs in or logs out

ASSUME SessionAssumption == MaxMoves \in Nat

AuthPages == {"login", "signup"}
Polling == {"home", "overview"}
Querying == Polling \union {"users", "super"}
Pages == AuthPages \union Querying \union {"settings"}

VARIABLES
    savedToken,   \* pulseguard_token: "undefined" is what a rejected login stores
    savedUser,    \* role in pulseguard_user, "undefined" likewise
    authCookie,   \* whether the cookie is set
    page,         \* what each tab shows
    nav,          \* where it is going, "none" when it is not
    flight,       \* the token its request carries, "login" for one to /auth/login
    moves

sessionVars == <<savedToken, savedUser, authCookie, page, nav, flight, moves>>
storage == <<savedToken, savedUser, authCookie>>
Roles == {"VIEWER", "ADMIN", "SUPER_ADMIN"}

------------------------------------------------------------------------------
SessionInit ==
    /\ savedToken = "none" /\ savedUser = "none" /\ authCookie = FALSE
    /\ page = [t \in Tabs |-> "login"] /\ nav = [t \in Tabs |-> "none"]
    /\ flight = [t \in Tabs |-> "idle"]
    /\ moves = 0

Goto(t, p) == nav' = [nav EXCEPT ![t] = p]
Landed(t) == flight' = [flight EXCEPT ![t] = "idle"]
UserActs == moves < MaxMoves /\ moves' = moves + 1

\* proxy.ts, when a page is asked for.
Proxied(p) ==
    CASE ~authCookie /\ p \notin AuthPages -> "login"
      [] authCookie /\ p \in AuthPages -> "home"
      [] OTHER -> p

\* AdminLayout and SuperConsole look at the stored role once, when they are mounted,
\* and let a tab stay that has none.
Refused(p) ==
    \/ p \in {"overview", "users", "settings"} /\ savedUser = "VIEWER"
    \/ p = "super" /\ savedUser \in {"VIEWER", "ADMIN"}

\* A page is loaded and makes its first request.
Arrive(t) ==
    /\ nav[t] # "none"
    /\ LET p == Proxied(nav[t])
       IN /\ page' = [page EXCEPT ![t] = p]
          /\ Goto(t, IF Refused(p) THEN "home" ELSE "none")
          /\ flight' = [flight EXCEPT ![t] = IF p \in Querying THEN savedToken ELSE "idle"]
    /\ UNCHANGED <<storage, moves>>

\* refetchInterval of useTelemetry, useIncidents and useMetricsSummary.
Poll(t) ==
    /\ page[t] \in Polling /\ flight[t] = "idle"
    /\ flight' = [flight EXCEPT ![t] = savedToken]
    /\ UNCHANGED <<storage, page, nav, moves>>

Accepted(t) ==
    /\ flight[t] = "good" /\ Landed(t)
    /\ UNCHANGED <<storage, page, nav, moves>>

\* Mutant of Unauthorized: the cookie is left.
UnauthorizedKeepsCookie(t) ==
    /\ flight[t] \notin {"idle", "login", "good"} /\ Landed(t)
    /\ savedToken' = "none" /\ savedUser' = "none" /\ UNCHANGED authCookie
    /\ Goto(t, "login")
    /\ UNCHANGED <<page, moves>>

\* apiRequest on 401: whatever token is stored by now is removed.
Unauthorized(t) ==
    /\ flight[t] \notin {"idle", "login", "good"} /\ Landed(t)
    /\ savedToken' = "none" /\ savedUser' = "none" /\ authCookie' = FALSE
    /\ Goto(t, "login")
    /\ UNCHANGED <<page, moves>>

\* Network or server failure: the query or the login shows its error.
RequestFails(t) ==
    /\ UserActs /\ flight[t] # "idle" /\ Landed(t)
    /\ UNCHANGED <<storage, page, nav>>

SubmitLogin(t) ==
    /\ UserActs /\ page[t] = "login" /\ flight[t] = "idle"
    /\ flight' = [flight EXCEPT ![t] = "login"]
    /\ UNCHANGED <<storage, page, nav>>

\* useLogin's onSuccess.
LoggedIn(t) ==
    /\ flight[t] = "login" /\ Landed(t)
    /\ savedToken' = "good" /\ savedUser' \in Roles /\ authCookie' = TRUE
    /\ Goto(t, "home")
    /\ UNCHANGED <<page, moves>>

\* A rejected login is a 401 too: apiRequest clears the storage, sends the tab to
\* /login and returns {}, which onSuccess then stores and goes to / with.
LoginRejected(t) ==
    /\ flight[t] = "login" /\ Landed(t)
    /\ savedToken' = "undefined" /\ savedUser' = "undefined" /\ authCookie' = TRUE
    /\ \E p \in {"login", "home"} : Goto(t, p)
    /\ UNCHANGED <<page, moves>>

\* useSignup: an account was created.
SignedUp(t) ==
    /\ UserActs /\ page[t] = "signup" /\ Goto(t, "login")
    /\ UNCHANGED <<storage, page, flight>>

\* The logout button of the console: clear and reload.
LogOut(t) ==
    /\ UserActs /\ page[t] = "home"
    /\ savedToken' = "none" /\ savedUser' = "none" /\ authCookie' = FALSE
    /\ Goto(t, "home")
    /\ UNCHANGED <<page, flight>>

Browse(t) == UserActs /\ (\E p \in Pages : Goto(t, p)) /\ UNCHANGED <<storage, page, flight>>

TokenExpires ==
    /\ savedToken = "good" /\ savedToken' = "expired"
    /\ UNCHANGED <<savedUser, authCookie, page, nav, flight, moves>>

\* Long after the token.
CookieExpires ==
    /\ authCookie /\ savedToken # "good" /\ authCookie' = FALSE
    /\ UNCHANGED <<savedToken, savedUser, page, nav, flight, moves>>

RequestAnswered(t) == Accepted(t) \/ Unauthorized(t) \/ LoggedIn(t) \/ LoginRejected(t)

SessionNext ==
    \/ \E t \in Tabs :
        \/ Arrive(t) \/ Poll(t) \/ RequestAnswered(t) \/ RequestFails(t)
        \/ SubmitLogin(t) \/ SignedUp(t) \/ LogOut(t) \/ Browse(t)
    \/ TokenExpires \/ CookieExpires

\* Navigations end, timers fire and requests are answered; users need not act.
SessionFairness ==
    \A t \in Tabs :
        WF_sessionVars(Arrive(t)) /\ WF_sessionVars(Poll(t)) /\ WF_sessionVars(RequestAnswered(t))

SessionSpec == SessionInit /\ [][SessionNext]_sessionVars /\ SessionFairness

------------------------------------------------------------------------------
Saved == {"none", "good", "expired", "undefined"}

\* Every variable has its type.
SessionTypeOK ==
    /\ savedToken \in Saved
    /\ savedUser \in Roles \union {"none", "undefined"} /\ authCookie \in BOOLEAN
    /\ page \in [Tabs -> Pages] /\ nav \in [Tabs -> Pages \union {"none"}]
    /\ flight \in [Tabs -> Saved \union {"idle", "login"}]
    /\ moves \in 0..MaxMoves

\* A tab that shows a page that polls does not stay there without a token that is
\* accepted: it ends at the login page, or another tab logs in, whatever the storage
\* and the cookie were left like by an expiry, a rejected login or the other tab.
\* (The user may leave for a page that does not poll: there nothing notices.)
SessionEnds ==
    \A t \in Tabs :
        (page[t] \in Polling /\ savedToken # "good")
            ~> (page[t] \notin Polling \/ savedToken = "good")
==============================================================================
