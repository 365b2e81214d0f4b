---------------------------- MODULE RefreshTokens ----------------------------
(***************************************************************************)
(* AuthService.login, refresh and logout query by query, with the cookie    *)
(* their controller sets: rotation of refresh tokens for one user and one   *)
(* browser, whose requests may overlap (two tabs, a retry) and be lost.     *)
(* Tokens are numbered in the order they are stored; a family is known by   *)
(* the token its login stored.  Hashing, the access token and lastLoginAt   *)
(* are left out; a rejected login and a refresh without a cookie change     *)
(* nothing here.                                                            *)
(***************************************************************************)
EXTENDS Naturals

CONSTANTS
    Calls,      \* requests that may be under way at once
    MaxTokens,  \* how many tokens are ever stored
    MaxLosses   \* how many requests fail, die with the server, or lose their answer

ASSUME TokenAssumption == MaxTokens \in Nat \ {0} /\ MaxLosses \in Nat

Tokens == 1..MaxTokens
NoToken == 0

VARIABLES
    token,      \* none, live (revokedAt is null) or revoked, of each token
    family,     \* family of each token stored
    lapsed,     \* how many, the oldest ones, are past their expiresAt
    issued,     \* how many tokens have been stored
    cookie,     \* what the browser sends
    line,       \* what each request does next
    sent,       \* the token it came with
    fresh,      \* the token its answer carries
    raced,      \* families of which two requests were under way together
    over,       \* families whose reuse was detected or whose live token was logged out
    disturbed,  \* since the last login that was alone, requests overlapped or were lost
    losses

tokenVars == <<token, family, lapsed, issued, cookie, line, sent, fresh, raced, over,
               disturbed, losses>>
stored == <<token, family, issued>>
browser == <<cookie, disturbed, losses>>

------------------------------------------------------------------------------
TokenInit ==
    /\ token = [t \in Tokens |-> "none"]
    /\ family = [t \in Tokens |-> NoToken]
    /\ lapsed = 0 /\ issued = 0 /\ cookie = NoToken
    /\ line = [c \in Calls |-> "idle"]
    /\ sent = [c \in Calls |-> NoToken]
    /\ fresh = [c \in Calls |-> NoToken]
    /\ raced = {} /\ over = {} /\ disturbed = FALSE /\ losses = 0

Resume(c, l) == line' = [line EXCEPT ![c] = l]
NoCalls == \A c \in Calls : line[c] = "idle"
FamilyOf(c) == IF sent[c] = NoToken THEN NoToken ELSE family[sent[c]]

\* A request leaves the browser with the cookie of that moment.
Leave(c, l, t) ==
    /\ line[c] = "idle"
    /\ Resume(c, l)
    /\ sent' = [sent EXCEPT ![c] = t]
    /\ raced' = raced \union {FamilyOf(d) : d \in {d \in Calls :
                      t # NoToken /\ sent[d] # NoToken /\ FamilyOf(d) = family[t]}}
    /\ UNCHANGED <<stored, lapsed, cookie, fresh, over, losses>>

\* login, up to the password's being right: generateTokens comes next.
StartLogin(c) == Leave(c, "issue", NoToken) /\ disturbed' = ~NoCalls

StartRefresh(c) ==
    /\ cookie # NoToken
    /\ Leave(c, "find", cookie) /\ disturbed' = (disturbed \/ ~NoCalls)

StartLogout(c) == Leave(c, "logout", cookie) /\ disturbed' = (disturbed \/ ~NoCalls)

EndCall(c) ==
    /\ Resume(c, "idle")
    /\ sent' = [sent EXCEPT ![c] = NoToken]
    /\ fresh' = [fresh EXCEPT ![c] = NoToken]

\* findUnique by hash, the reuse check and the expiration check of refresh.
FindToken(c) ==
    /\ line[c] = "find"
    /\ \/ token[sent[c]] = "revoked" /\ Resume(c, "burn") /\ UNCHANGED <<sent, fresh>>
       \/ token[sent[c]] = "live" /\ sent[c] <= lapsed /\ EndCall(c)
       \/ token[sent[c]] = "live" /\ sent[c] > lapsed
          /\ Resume(c, "revoke") /\ UNCHANGED <<sent, fresh>>
    /\ UNCHANGED <<stored, lapsed, browser, raced, over>>

\* updateMany over the family, then 401.
BurnFamily(c) ==
    /\ line[c] = "burn"
    /\ token' = [t \in Tokens |-> IF token[t] # "none" /\ family[t] = FamilyOf(c)
                                  THEN "revoked" ELSE token[t]]
    /\ over' = over \union {FamilyOf(c)}
    /\ EndCall(c)
    /\ UNCHANGED <<family, issued, lapsed, browser, raced>>

\* Mutant of RevokeUsed: the used token stays valid.
KeepUsed(c) ==
    /\ line[c] = "revoke"
    /\ Resume(c, "issue")
    /\ UNCHANGED <<stored, lapsed, browser, sent, fresh, raced, over>>

\* Rotation: the used token is revoked.
RevokeUsed(c) ==
    /\ line[c] = "revoke"
    /\ token' = [token EXCEPT ![sent[c]] = "revoked"]
    /\ Resume(c, "issue")
    /\ UNCHANGED <<family, issued, lapsed, browser, sent, fresh, raced, over>>

\* generateTokens: of the family of the token used, or of a new one for a login.
IssueToken(c) ==
    /\ line[c] = "issue" /\ issued < MaxTokens
    /\ issued' = issued + 1
    /\ token' = [token EXCEPT ![issued + 1] = "live"]
    /\ family' = [family EXCEPT ![issued + 1] =
                      IF sent[c] = NoToken THEN issued + 1 ELSE FamilyOf(c)]
    /\ fresh' = [fresh EXCEPT ![c] = issued + 1]
    /\ Resume(c, "answer")
    /\ UNCHANGED <<lapsed, browser, sent, raced, over>>

\* Mutant of SetCookie: the answer of a refresh does not set the cookie.
KeepCookie(c) ==
    /\ line[c] = "answer"
    /\ cookie' = IF sent[c] = NoToken THEN fresh[c] ELSE cookie
    /\ EndCall(c)
    /\ UNCHANGED <<stored, lapsed, disturbed, losses, raced, over>>

\* The answer of a login or refresh reaches the browser.
SetCookie(c) ==
    /\ line[c] = "answer"
    /\ cookie' = fresh[c]
    /\ EndCall(c)
    /\ UNCHANGED <<stored, lapsed, disturbed, losses, raced, over>>

\* logout finds the token, if it came with one, and revokes it; nothing is checked
\* in between, and no other code deletes it.
RevokeAtLogout(c) ==
    /\ line[c] = "logout"
    /\ IF sent[c] = NoToken THEN UNCHANGED <<token, over>>
       ELSE /\ token' = [token EXCEPT ![sent[c]] = "revoked"]
            /\ over' = IF token[sent[c]] = "live" THEN over \union {FamilyOf(c)} ELSE over
    /\ Resume(c, "clear")
    /\ UNCHANGED <<family, issued, lapsed, browser, sent, fresh, raced>>

\* clearCookie reaches the browser.
ClearCookie(c) ==
    /\ line[c] = "clear"
    /\ cookie' = NoToken
    /\ EndCall(c)
    /\ UNCHANGED <<stored, lapsed, disturbed, losses, raced, over>>

\* A query throws, the server dies, or the answer is lost.  What a failing query
\* may have written is the action above followed by this one.
LoseCall(c) ==
    /\ losses < MaxLosses /\ losses' = losses + 1
    /\ line[c] # "idle" /\ EndCall(c)
    /\ disturbed' = TRUE
    /\ UNCHANGED <<stored, lapsed, cookie, raced, over>>

\* Seven days pass for a token; the browser drops the cookie at about that time.
TokenLapses ==
    /\ lapsed < issued /\ lapsed' = lapsed + 1
    /\ UNCHANGED <<stored, browser, line, sent, fresh, raced, over>>

CookieLapses ==
    /\ cookie # NoToken /\ cookie <= lapsed
    /\ cookie' = NoToken
    /\ UNCHANGED <<stored, lapsed, line, sent, fresh, raced, over, disturbed, losses>>

CallStep(c) ==
    \/ StartLogin(c) \/ StartRefresh(c) \/ StartLogout(c)
    \/ FindToken(c) \/ BurnFamily(c) \/ RevokeUsed(c) \/ IssueToken(c) \/ SetCookie(c)
    \/ RevokeAtLogout(c) \/ ClearCookie(c) \/ LoseCall(c)

TokenNext == TokenLapses \/ CookieLapses \/ \E c \in Calls : CallStep(c)

TokenSpec == TokenInit /\ [][TokenNext]_tokenVars

------------------------------------------------------------------------------
Lines == {"idle", "find", "burn", "revoke", "issue", "answer", "logout", "clear"}

\* Every variable has its type.
TokenTypeOK ==
    /\ token \in [Tokens -> {"none", "live", "revoked"}]
    /\ family \in [Tokens -> Tokens \union {NoToken}]
    /\ issued \in 0..MaxTokens /\ lapsed \in 0..MaxTokens
    /\ cookie \in Tokens \union {NoToken}
    /\ line \in [Calls -> Lines]
    /\ sent \in [Calls -> Tokens \union {NoToken}]
    /\ fresh \in [Calls -> Tokens \union {NoToken}]
    /\ raced \subseteq Tokens /\ over \subseteq Tokens
    /\ disturbed \in BOOLEAN /\ losses \in 0..MaxLosses

\* A family has at most one live token, and none once a logout came with that token
\* or its reuse was detected, wherever its requests were cut short: unless two
\* requests of it were under way together.  Then both may have found the token live
\* and issue one each, and one past its check issues into a revoked family.  (A logout
\* with a token that is revoked already leaves a live one of its family alone.)
FamilyHasOneToken ==
    \A t, u \in Tokens :
        /\ token[t] = "live" /\ token[u] = "live" /\ family[t] = family[u]
        /\ family[t] \notin raced
        => t = u /\ family[t] \notin over

\* Whatever came before it, once a login was alone, and for as long as the requests
\* after it neither overlap nor are lost, the browser's cookie is not one that has
\* been revoked: the session goes on.
SessionContinues == NoCalls /\ ~disturbed /\ cookie # NoToken => token[cookie] = "live"
==============================================================================
