------------------------- MODULE RefreshTokensProofs -------------------------
(***************************************************************************)
(* Proofs about RefreshTokens: for any number of requests and tokens, a     *)
(* family that was not raced for has at most one live token, and none once  *)
(* it is over; and a browser whose requests neither overlap nor are lost    *)
(* keeps a live one in its cookie.                                          *)
(***************************************************************************)
EXTENDS RefreshTokens, TLAPS

\* What is in use has been stored: tokens are numbered as they are stored, and a
\* family is the number of its first token.
StoredOnly ==
    /\ \A t \in Tokens : token[t] # "none" <=> t <= issued
    /\ \A t \in Tokens : t <= issued => family[t] \in 1..issued
    /\ cookie <= issued
    /\ \A c \in Calls : sent[c] <= issued /\ fresh[c] <= issued
    /\ \A f \in over : f <= issued

\* A request that asks about a token came with one, and one that is over with none.
SentAlong ==
    \A c \in Calls :
        /\ line[c] = "idle" => sent[c] = NoToken
        /\ line[c] \in {"find", "burn", "revoke"} => sent[c] # NoToken

\* A family that was not raced for is in the hands of one request at most.
OneCallToAFamily ==
    \A c, d \in Calls :
        c # d /\ sent[c] # NoToken /\ sent[d] # NoToken /\ FamilyOf(c) = FamilyOf(d)
            => FamilyOf(c) \in raced

\* That request has checked the only live token before it revokes it, and issues
\* another one only when there is none.
RotationInHand ==
    \A c \in Calls : sent[c] # NoToken /\ FamilyOf(c) \notin raced =>
        /\ line[c] = "revoke" => token[sent[c]] = "live" /\ FamilyOf(c) \notin over
        /\ line[c] = "issue" =>
            /\ FamilyOf(c) \notin over
            /\ \A t \in Tokens : family[t] = FamilyOf(c) => token[t] # "live"

TokenInv == TokenTypeOK /\ StoredOnly /\ SentAlong
FamilyInv == TokenInv /\ OneCallToAFamily /\ RotationInHand /\ FamilyHasOneToken

LEMMA InitFamilyInv == TokenInit => FamilyInv
  <1> SUFFICES ASSUME TokenInit PROVE FamilyInv
    OBVIOUS
  <1> USE TokenAssumption DEF TokenInit, Tokens, NoToken
  <1>1. TokenTypeOK
    <2>1. disturbed \in BOOLEAN
      BY Zenon
    <2>2. token \in [Tokens -> {"none", "live", "revoked"}] /\ family \in [Tokens -> Tokens \union {NoToken}]
      OBVIOUS
    <2>3. line \in [Calls -> Lines]
      BY DEF Lines
    <2>4. sent \in [Calls -> Tokens \union {NoToken}] /\ fresh \in [Calls -> Tokens \union {NoToken}]
      OBVIOUS
    <2>5. issued \in 0..MaxTokens /\ lapsed \in 0..MaxTokens /\ cookie \in Tokens \union {NoToken}
          /\ losses \in 0..MaxLosses
      OBVIOUS
    <2> QED
      BY <2>1, <2>2, <2>3, <2>4, <2>5 DEF TokenTypeOK
  <1>2. StoredOnly /\ SentAlong
    BY DEF StoredOnly, SentAlong
  <1>3. OneCallToAFamily /\ RotationInHand /\ FamilyHasOneToken
    BY DEF OneCallToAFamily, RotationInHand, FamilyHasOneToken
  <1> QED
    BY <1>1, <1>2, <1>3 DEF FamilyInv, TokenInv

\* The family of a stored token is one of the tokens stored.
LEMMA FamilyIsStored ==
    ASSUME TokenInv, NEW c \in Calls, sent[c] # NoToken
    PROVE  sent[c] \in 1..issued /\ sent[c] \in Tokens /\ FamilyOf(c) \in 1..issued
           /\ FamilyOf(c) \in Tokens /\ FamilyOf(c) = family[sent[c]]
  BY TokenAssumption DEF TokenInv, TokenTypeOK, StoredOnly, FamilyOf, Tokens, NoToken

LEMMA CallKeepsTokenInv ==
    ASSUME TokenInv, NEW c \in Calls, CallStep(c)
    PROVE  TokenInv'
  <1> USE TokenAssumption DEF Tokens, NoToken, Resume, EndCall
  <1>1. ASSUME NEW l \in {"issue", "find", "logout"}, NEW t \in Tokens \union {NoToken},
               t <= issued, Leave(c, l, t), disturbed' \in BOOLEAN, l = "find" => t # NoToken
        PROVE  TokenInv'
    <2>1. raced' \subseteq Tokens
      BY <1>1, FamilyIsStored DEF Leave, TokenInv, TokenTypeOK
    <2>2. TokenTypeOK'
      BY <1>1, <2>1 DEF Leave, TokenInv, TokenTypeOK, Lines, stored
    <2>3. StoredOnly' /\ SentAlong'
      BY <1>1 DEF Leave, TokenInv, TokenTypeOK, StoredOnly, SentAlong, stored
    <2> QED
      BY <2>2, <2>3 DEF TokenInv
  <1>2. CASE StartLogin(c) \/ StartRefresh(c) \/ StartLogout(c)
    <2>1. disturbed' \in BOOLEAN
      BY <1>2, Zenon DEF StartLogin, StartRefresh, StartLogout, TokenInv, TokenTypeOK
    <2>2. cookie \in Tokens \union {NoToken} /\ cookie <= issued /\ 0 <= issued
      BY DEF TokenInv, TokenTypeOK, StoredOnly
    <2>3. \E l \in {"issue", "find", "logout"}, t \in Tokens \union {NoToken} :
              t <= issued /\ Leave(c, l, t) /\ (l = "find" => t # NoToken)
      BY <1>2, <2>2 DEF StartLogin, StartRefresh, StartLogout
    <2> QED
      BY <1>1, <2>1, <2>3
  <1>3. CASE FindToken(c)
    <2>1. TokenTypeOK'
      BY <1>3 DEF FindToken, stored, browser, TokenInv, TokenTypeOK, Lines
    <2>2. StoredOnly' /\ SentAlong'
      BY <1>3 DEF FindToken, stored, browser, TokenInv, TokenTypeOK, StoredOnly, SentAlong
    <2> QED
      BY <2>1, <2>2 DEF TokenInv
  <1>4. CASE BurnFamily(c)
    <2>1. TokenTypeOK'
      BY <1>4, FamilyIsStored DEF BurnFamily, browser, TokenInv, TokenTypeOK, Lines, SentAlong
    <2>2. StoredOnly' /\ SentAlong'
      BY <1>4, FamilyIsStored DEF BurnFamily, browser, TokenInv, TokenTypeOK, StoredOnly, SentAlong
    <2> QED
      BY <2>1, <2>2 DEF TokenInv
  <1>5. CASE RevokeUsed(c)
    <2>1. TokenTypeOK'
      BY <1>5, FamilyIsStored DEF RevokeUsed, browser, TokenInv, TokenTypeOK, Lines, SentAlong
    <2>2. StoredOnly' /\ SentAlong'
      BY <1>5, FamilyIsStored DEF RevokeUsed, browser, TokenInv, TokenTypeOK, StoredOnly, SentAlong
    <2> QED
      BY <2>1, <2>2 DEF TokenInv
  <1>6. CASE IssueToken(c)
    <2>1. TokenTypeOK'
      BY <1>6, FamilyIsStored DEF IssueToken, browser, TokenInv, TokenTypeOK, Lines, SentAlong
    <2>a. issued' = issued + 1 /\ issued \in Nat /\ issued + 1 \in Tokens
      BY <1>6 DEF IssueToken, TokenInv, TokenTypeOK
    <2>b. family'[issued + 1] \in 1..(issued + 1)
      BY <1>6, <2>a, FamilyIsStored DEF IssueToken, TokenInv, TokenTypeOK
    <2>c. \A t \in Tokens : t <= issued => token'[t] = token[t] /\ family'[t] = family[t]
      BY <1>6, <2>a DEF IssueToken, TokenInv, TokenTypeOK
    <2>d. \A t \in Tokens : t > issued + 1 => token'[t] = token[t]
      BY <1>6, <2>a DEF IssueToken, TokenInv, TokenTypeOK
    <2>e. token'[issued + 1] = "live"
      BY <1>6, <2>a DEF IssueToken, TokenInv, TokenTypeOK
    <2>f. cookie' <= issued' /\ (\A f \in over' : f <= issued')
          /\ \A d \in Calls : sent'[d] <= issued' /\ fresh'[d] <= issued'
      BY <1>6, <2>a DEF IssueToken, browser, TokenInv, TokenTypeOK, StoredOnly
    <2>g. \A t \in Tokens : (token'[t] # "none" <=> t <= issued') /\ (t <= issued' => family'[t] \in 1..issued')
      BY <2>a, <2>b, <2>c, <2>d, <2>e DEF TokenInv, StoredOnly
    <2>2. StoredOnly' /\ SentAlong'
      BY <1>6, <2>f, <2>g DEF IssueToken, browser, TokenInv, TokenTypeOK, StoredOnly, SentAlong
    <2> QED
      BY <2>1, <2>2 DEF TokenInv
  <1>7. CASE SetCookie(c)
    <2>1. TokenTypeOK'
      BY <1>7 DEF SetCookie, stored, TokenInv, TokenTypeOK, Lines
    <2>2. StoredOnly' /\ SentAlong'
      BY <1>7 DEF SetCookie, stored, TokenInv, TokenTypeOK, StoredOnly, SentAlong
    <2> QED
      BY <2>1, <2>2 DEF TokenInv
  <1>8. CASE RevokeAtLogout(c)
    <2>1. CASE sent[c] = NoToken
      BY <1>8, <2>1 DEF RevokeAtLogout, browser, TokenInv, TokenTypeOK, Lines, StoredOnly, SentAlong
    <2>2. CASE sent[c] # NoToken
      <3>1. sent[c] \in 1..issued /\ sent[c] \in Tokens /\ FamilyOf(c) \in 1..issued
            /\ FamilyOf(c) \in Tokens
        BY <2>2, FamilyIsStored
      <3>2. token' = [token EXCEPT ![sent[c]] = "revoked"] /\ over' \in {over, over \union {FamilyOf(c)}}
        BY <1>8, <2>2 DEF RevokeAtLogout
      <3>3. TokenTypeOK'
        BY <1>8, <3>1, <3>2 DEF RevokeAtLogout, browser, TokenInv, TokenTypeOK, Lines
      <3>4. StoredOnly' /\ SentAlong'
        BY <1>8, <3>1, <3>2 DEF RevokeAtLogout, browser, TokenInv, TokenTypeOK, StoredOnly, SentAlong
      <3> QED
        BY <3>3, <3>4 DEF TokenInv
    <2> QED
      BY <2>1, <2>2
  <1>9. CASE ClearCookie(c)
    <2>1. TokenTypeOK'
      BY <1>9 DEF ClearCookie, stored, TokenInv, TokenTypeOK, Lines
    <2>2. StoredOnly' /\ SentAlong'
      BY <1>9 DEF ClearCookie, stored, TokenInv, TokenTypeOK, StoredOnly, SentAlong
    <2> QED
      BY <2>1, <2>2 DEF TokenInv
  <1>10. CASE LoseCall(c)
    <2>1. TokenTypeOK'
      BY <1>10 DEF LoseCall, stored, TokenInv, TokenTypeOK, Lines
    <2>2. StoredOnly' /\ SentAlong'
      BY <1>10 DEF LoseCall, stored, TokenInv, TokenTypeOK, StoredOnly, SentAlong
    <2> QED
      BY <2>1, <2>2 DEF TokenInv
  <1> QED
    BY <1>2, <1>3, <1>4, <1>5, <1>6, <1>7, <1>8, <1>9, <1>10 DEF CallStep

LEMMA NextKeepsTokenInv == TokenInv /\ [TokenNext]_tokenVars => TokenInv'
  <1> SUFFICES ASSUME TokenInv, [TokenNext]_tokenVars PROVE TokenInv'
    OBVIOUS
  <1>1. CASE TokenLapses \/ CookieLapses
    BY <1>1, TokenAssumption DEF TokenLapses, CookieLapses, stored, browser, TokenInv, TokenTypeOK,
                                 StoredOnly, SentAlong, NoToken
  <1>2. CASE UNCHANGED tokenVars
    BY <1>2 DEF tokenVars, TokenInv, TokenTypeOK, StoredOnly, SentAlong
  <1> QED
    BY <1>1, <1>2, CallKeepsTokenInv DEF TokenNext

\* What is true of the requests and tokens of a family stays true when the step
\* concerns other requests and tokens.
LEMMA LeaveKeepsFamilies ==
    ASSUME FamilyInv, TokenInv', NEW c \in Calls, NEW l \in {"issue", "find", "logout"},
           NEW t \in Tokens \union {NoToken}, Leave(c, l, t), l = "issue" => t = NoToken
    PROVE  FamilyInv'
  <1> USE DEF FamilyInv, Leave, stored
  <1>1. \A d \in Calls \ {c} : sent'[d] = sent[d] /\ line'[d] = line[d] /\ FamilyOf(d)' = FamilyOf(d)
    BY DEF TokenInv, TokenTypeOK, FamilyOf, Resume
  <1>2. sent'[c] = t /\ line'[c] = l /\ sent[c] = NoToken
    BY DEF TokenInv, TokenTypeOK, SentAlong, Resume
  <1>3. t # NoToken => FamilyOf(c)' = family[t]
    BY <1>2 DEF FamilyOf
  <1>4. OneCallToAFamily'
    <2>1. ASSUME NEW d \in Calls, d # c, t # NoToken, sent[d] # NoToken, FamilyOf(d) = family[t]
          PROVE  family[t] \in raced'
      BY <2>1
    <2> QED
      BY <1>1, <1>2, <1>3, <2>1 DEF OneCallToAFamily
  <1>5. RotationInHand'
    BY <1>1, <1>2 DEF RotationInHand
  <1>6. FamilyHasOneToken'
    BY DEF FamilyHasOneToken
  <1> QED
    BY <1>4, <1>5, <1>6

\* A request that ends is out of everybody's way.
LEMMA EndKeepsFamilies ==
    ASSUME FamilyInv, TokenInv', NEW c \in Calls, EndCall(c),
           UNCHANGED <<token, family, raced, over>>
    PROVE  FamilyInv'
  <1> USE DEF FamilyInv
  <1>1. /\ sent'[c] = NoToken
        /\ \A d \in Calls \ {c} : sent'[d] = sent[d] /\ line'[d] = line[d] /\ FamilyOf(d)' = FamilyOf(d)
    BY DEF EndCall, Resume, TokenInv, TokenTypeOK, FamilyOf
  <1>2. OneCallToAFamily'
    BY <1>1 DEF OneCallToAFamily
  <1>3. RotationInHand'
    BY <1>1 DEF RotationInHand
  <1>4. FamilyHasOneToken'
    BY DEF FamilyHasOneToken
  <1> QED
    BY <1>2, <1>3, <1>4

LEMMA FindKeepsFamilies ==
    ASSUME FamilyInv, TokenInv', NEW c \in Calls, FindToken(c)
    PROVE  FamilyInv'
  <1> USE DEF FamilyInv
  <1>1. CASE EndCall(c)
    BY <1>1, EndKeepsFamilies DEF FindToken, stored
  <1>2. ASSUME Resume(c, "burn") \/ (token[sent[c]] = "live" /\ Resume(c, "revoke")), UNCHANGED <<sent, fresh>>
        PROVE  FamilyInv'
    <2>1. \A d \in Calls : FamilyOf(d)' = FamilyOf(d)
      BY <1>2 DEF FindToken, stored, FamilyOf
    <2>2. OneCallToAFamily' /\ FamilyHasOneToken'
      BY <1>2, <2>1 DEF FindToken, stored, OneCallToAFamily, FamilyHasOneToken
    <2>3. sent[c] \in Tokens /\ FamilyOf(c) = family[sent[c]]
      BY FamilyIsStored DEF FindToken, TokenInv, SentAlong
    <2>4. token[sent[c]] = "live" /\ FamilyOf(c) \notin raced => FamilyOf(c) \notin over
      \* A family that is over has no live token that could be found.
      BY <2>3 DEF FamilyHasOneToken
    <2>5. \A d \in Calls \ {c} : line'[d] = line[d]
      BY <1>2 DEF Resume, TokenInv, TokenTypeOK
    <2>6. line'[c] = "burn" \/ (token[sent[c]] = "live" /\ line'[c] = "revoke")
      BY <1>2 DEF Resume, TokenInv, TokenTypeOK
    <2>7. RotationInHand'
      BY <1>2, <2>1, <2>4, <2>5, <2>6 DEF RotationInHand, FindToken, stored
    <2> QED
      BY <2>2, <2>7
  <1> QED
    BY <1>1, <1>2 DEF FindToken

\* Revoking tokens of a family that was not raced for concerns no other request.
LEMMA OthersKeepFamilies ==
    ASSUME FamilyInv, NEW c \in Calls, sent[c] # NoToken,
           NEW d \in Calls, d # c, sent[d] # NoToken, FamilyOf(d) \notin raced
    PROVE  FamilyOf(d) # FamilyOf(c)
  BY DEF FamilyInv, OneCallToAFamily

LEMMA BurnKeepsFamilies ==
    ASSUME FamilyInv, TokenInv', NEW c \in Calls, BurnFamily(c)
    PROVE  FamilyInv'
  <1> USE DEF FamilyInv
  <1>1. sent[c] # NoToken
    BY DEF BurnFamily, TokenInv, SentAlong
  <1>2. /\ sent'[c] = NoToken
        /\ \A d \in Calls \ {c} : sent'[d] = sent[d] /\ line'[d] = line[d] /\ FamilyOf(d)' = FamilyOf(d)
    BY DEF BurnFamily, EndCall, Resume, TokenInv, TokenTypeOK, FamilyOf
  <1>3. \A t \in Tokens : /\ token'[t] = "live" => token[t] = "live" /\ family[t] # FamilyOf(c)
                          /\ family[t] # FamilyOf(c) => token'[t] = token[t]
    BY DEF BurnFamily, TokenInv, TokenTypeOK
  <1>4. family' = family /\ raced' = raced /\ over' = over \union {FamilyOf(c)}
    BY DEF BurnFamily
  <1>5. OneCallToAFamily'
    BY <1>2, <1>4 DEF OneCallToAFamily
  <1>6. RotationInHand'
    <2> SUFFICES ASSUME NEW d \in Calls, sent'[d] # NoToken, FamilyOf(d)' \notin raced'
                 PROVE  /\ line'[d] = "revoke" => token'[sent'[d]] = "live" /\ FamilyOf(d)' \notin over'
                        /\ line'[d] = "issue" =>
                            /\ FamilyOf(d)' \notin over'
                            /\ \A t \in Tokens : family'[t] = FamilyOf(d)' => token'[t] # "live"
      BY DEF RotationInHand
    <2>1. d # c /\ sent[d] # NoToken /\ FamilyOf(d) \notin raced /\ FamilyOf(d) # FamilyOf(c)
      BY <1>1, <1>2, <1>4, OthersKeepFamilies
    <2>2. sent[d] \in Tokens /\ FamilyOf(d) = family[sent[d]]
      BY <2>1, FamilyIsStored
    <2> QED
      BY <1>2, <1>3, <1>4, <2>1, <2>2 DEF RotationInHand
  <1>7. FamilyHasOneToken'
    BY <1>3, <1>4 DEF FamilyHasOneToken
  <1> QED
    BY <1>5, <1>6, <1>7

\* Rotation, first half: the token in hand was the only live one.
LEMMA RevokeKeepsFamilies ==
    ASSUME FamilyInv, TokenInv', NEW c \in Calls, RevokeUsed(c)
    PROVE  FamilyInv'
  <1> USE DEF FamilyInv
  <1>1. sent[c] # NoToken
    BY DEF RevokeUsed, TokenInv, SentAlong
  <1>2. sent[c] \in Tokens /\ FamilyOf(c) = family[sent[c]]
    BY <1>1, FamilyIsStored
  <1>3. /\ sent' = sent /\ family' = family /\ raced' = raced /\ over' = over
        /\ \A d \in Calls : FamilyOf(d)' = FamilyOf(d)
        /\ line[c] = "revoke" /\ line'[c] = "issue" /\ \A d \in Calls \ {c} : line'[d] = line[d]
    BY DEF RevokeUsed, Resume, TokenInv, TokenTypeOK, FamilyOf
  <1>4. token'[sent[c]] = "revoked" /\ \A t \in Tokens \ {sent[c]} : token'[t] = token[t]
    BY <1>2 DEF RevokeUsed, TokenInv, TokenTypeOK
  <1>5. OneCallToAFamily' /\ FamilyHasOneToken'
    BY <1>3, <1>4 DEF OneCallToAFamily, FamilyHasOneToken
  <1>6. FamilyOf(c) \notin raced =>
            FamilyOf(c) \notin over /\ \A t \in Tokens : family[t] = FamilyOf(c) => token'[t] # "live"
    BY <1>1, <1>2, <1>3, <1>4 DEF RotationInHand, FamilyHasOneToken
  <1>7. RotationInHand'
    <2> SUFFICES ASSUME NEW d \in Calls, d # c, sent[d] # NoToken, FamilyOf(d) \notin raced
                 PROVE  /\ line[d] = "revoke" => token'[sent[d]] = "live" /\ FamilyOf(d) \notin over
                        /\ line[d] = "issue" =>
                            /\ FamilyOf(d) \notin over
                            /\ \A t \in Tokens : family[t] = FamilyOf(d) => token'[t] # "live"
      BY <1>1, <1>3, <1>6 DEF RotationInHand
    <2>1. FamilyOf(d) # FamilyOf(c)
      BY <1>1, OthersKeepFamilies
    <2>2. sent[d] \in Tokens /\ FamilyOf(d) = family[sent[d]]
      BY FamilyIsStored
    <2> QED
      BY <1>2, <1>4, <2>1, <2>2 DEF RotationInHand
  <1> QED
    BY <1>5, <1>7

\* Rotation, second half, or a login: the family had no live token, or no token.
LEMMA IssueKeepsFamilies ==
    ASSUME FamilyInv, TokenInv', NEW c \in Calls, IssueToken(c)
    PROVE  FamilyInv'
  <1> USE TokenAssumption DEF FamilyInv
  <1> DEFINE new == issued + 1
             f == IF sent[c] = NoToken THEN new ELSE FamilyOf(c)
  <1>1. issued \in Nat /\ new \in Tokens
    BY DEF IssueToken, TokenInv, TokenTypeOK, Tokens
  <1>2. /\ token'[new] = "live" /\ family'[new] = f /\ raced' = raced /\ over' = over /\ sent' = sent
        /\ \A t \in Tokens \ {new} : token'[t] = token[t] /\ family'[t] = family[t]
        /\ line[c] = "issue" /\ line'[c] = "answer" /\ \A d \in Calls \ {c} : line'[d] = line[d]
    BY <1>1 DEF IssueToken, Resume, TokenInv, TokenTypeOK
  <1>3. \A d \in Calls : sent[d] # NoToken =>
            /\ FamilyOf(d)' = FamilyOf(d) /\ FamilyOf(d) \in 1..issued
            /\ sent[d] \in Tokens \ {new} /\ FamilyOf(d) = family[sent[d]]
    <2> TAKE d \in Calls
    <2> HAVE sent[d] # NoToken
    <2>1. sent[d] \in 1..issued /\ sent[d] \in Tokens /\ FamilyOf(d) \in 1..issued
          /\ FamilyOf(d) = family[sent[d]]
      BY FamilyIsStored
    <2> QED
      BY <1>1, <1>2, <2>1 DEF FamilyOf
  <1>4. OneCallToAFamily'
    BY <1>2, <1>3 DEF OneCallToAFamily
  <1>5. f \notin raced => f \notin over /\ \A t \in Tokens \ {new} : family[t] = f => token[t] # "live"
    <2>1. CASE sent[c] = NoToken
      \* Nothing stored is of the family numbered new.
      BY <1>1, <2>1 DEF TokenInv, TokenTypeOK, StoredOnly
    <2>2. CASE sent[c] # NoToken
      BY <1>2, <2>2 DEF RotationInHand
    <2> QED
      BY <2>1, <2>2
  <1>6. FamilyHasOneToken'
    BY <1>2, <1>5 DEF FamilyHasOneToken
  <1>7. RotationInHand'
    <2> SUFFICES ASSUME NEW d \in Calls, d # c, sent[d] # NoToken, FamilyOf(d) \notin raced
                 PROVE  /\ line[d] = "revoke" => token'[sent[d]] = "live" /\ FamilyOf(d) \notin over
                        /\ line[d] = "issue" =>
                            /\ FamilyOf(d) \notin over
                            /\ \A t \in Tokens : family'[t] = FamilyOf(d) => token'[t] # "live"
      BY <1>2, <1>3 DEF RotationInHand
    <2>1. f # FamilyOf(d)
      BY <1>1, <1>3, OthersKeepFamilies
    <2> QED
      BY <1>2, <1>3, <2>1 DEF RotationInHand
  <1> QED
    BY <1>4, <1>6, <1>7

\* Logout: the family has no live token left, or had lost the one it came with.
LEMMA LogoutKeepsFamilies ==
    ASSUME FamilyInv, TokenInv', NEW c \in Calls, RevokeAtLogout(c)
    PROVE  FamilyInv'
  <1> USE DEF FamilyInv
  <1>1. /\ sent' = sent /\ family' = family /\ raced' = raced
        /\ \A d \in Calls : FamilyOf(d)' = FamilyOf(d)
        /\ line'[c] = "clear" /\ \A d \in Calls \ {c} : line'[d] = line[d]
    BY DEF RevokeAtLogout, Resume, TokenInv, TokenTypeOK, FamilyOf
  <1>2. OneCallToAFamily'
    BY <1>1 DEF OneCallToAFamily
  <1>3. CASE sent[c] = NoToken
    <2>1. token' = token /\ over' = over
      BY <1>3 DEF RevokeAtLogout
    <2>2. RotationInHand' /\ FamilyHasOneToken'
      BY <1>1, <1>3, <2>1 DEF RotationInHand, FamilyHasOneToken
    <2> QED
      BY <1>2, <2>2
  <1>4. CASE sent[c] # NoToken
    <2>1. sent[c] \in Tokens /\ FamilyOf(c) = family[sent[c]]
      BY <1>4, FamilyIsStored
    <2>2. token'[sent[c]] = "revoked" /\ \A t \in Tokens \ {sent[c]} : token'[t] = token[t]
      BY <1>4, <2>1 DEF RevokeAtLogout, TokenInv, TokenTypeOK
    <2>3. over' = IF token[sent[c]] = "live" THEN over \union {FamilyOf(c)} ELSE over
      BY <1>4 DEF RevokeAtLogout
    <2>4. FamilyHasOneToken'
      BY <1>1, <2>1, <2>2, <2>3 DEF FamilyHasOneToken
    <2>5. RotationInHand'
      <3> SUFFICES ASSUME NEW d \in Calls, d # c, sent[d] # NoToken, FamilyOf(d) \notin raced
                   PROVE  /\ line[d] = "revoke" => token'[sent[d]] = "live" /\ FamilyOf(d) \notin over'
                          /\ line[d] = "issue" =>
                              /\ FamilyOf(d) \notin over'
                              /\ \A t \in Tokens : family[t] = FamilyOf(d) => token'[t] # "live"
        BY <1>1 DEF RotationInHand
      <3>1. FamilyOf(d) # FamilyOf(c)
        BY <1>4, OthersKeepFamilies
      <3>2. sent[d] \in Tokens /\ FamilyOf(d) = family[sent[d]]
        BY FamilyIsStored
      <3> QED
        BY <2>1, <2>2, <2>3, <3>1, <3>2 DEF RotationInHand
    <2> QED
      BY <1>2, <2>4, <2>5
  <1> QED
    BY <1>3, <1>4

LEMMA NextKeepsFamilyInv == FamilyInv /\ [TokenNext]_tokenVars => FamilyInv'
  <1> SUFFICES ASSUME FamilyInv, [TokenNext]_tokenVars PROVE FamilyInv'
    OBVIOUS
  <1>1. TokenInv'
    BY NextKeepsTokenInv DEF FamilyInv
  <1>2. CASE TokenLapses \/ CookieLapses \/ UNCHANGED tokenVars
    BY <1>1, <1>2 DEF TokenLapses, CookieLapses, tokenVars, stored, browser, FamilyInv,
                      OneCallToAFamily, RotationInHand, FamilyHasOneToken, FamilyOf
  <1>3. ASSUME NEW c \in Calls, CallStep(c) PROVE FamilyInv'
    <2>1. CASE StartLogin(c) \/ StartRefresh(c) \/ StartLogout(c)
      <3>1. cookie \in Tokens \union {NoToken} /\ NoToken \in Tokens \union {NoToken}
        BY DEF FamilyInv, TokenInv, TokenTypeOK
      <3> QED
        BY <1>1, <2>1, <3>1, LeaveKeepsFamilies DEF StartLogin, StartRefresh, StartLogout
    <2>2. CASE FindToken(c)
      BY <1>1, <2>2, FindKeepsFamilies
    <2>3. CASE BurnFamily(c)
      BY <1>1, <2>3, BurnKeepsFamilies
    <2>4. CASE RevokeUsed(c)
      BY <1>1, <2>4, RevokeKeepsFamilies
    <2>5. CASE IssueToken(c)
      BY <1>1, <2>5, IssueKeepsFamilies
    <2>6. CASE RevokeAtLogout(c)
      BY <1>1, <2>6, LogoutKeepsFamilies
    <2>7. CASE SetCookie(c) \/ ClearCookie(c) \/ LoseCall(c)
      BY <1>1, <2>7, EndKeepsFamilies DEF SetCookie, ClearCookie, LoseCall, stored
    <2> QED
      BY <1>3, <2>1, <2>2, <2>3, <2>4, <2>5, <2>6, <2>7 DEF CallStep
  <1> QED
    BY <1>2, <1>3 DEF TokenNext

LEMMA FamilyInvHolds == TokenSpec => []FamilyInv
  BY InitFamilyInv, NextKeepsFamilyInv, PTL DEF TokenSpec

\* For any number of requests, tokens and lost answers: a family that no two requests
\* held at the same time has one live token at most, and none after its reuse was
\* detected or its live token was logged out.
THEOREM FamiliesHaveOneToken == TokenSpec => []FamilyHasOneToken
  BY FamilyInvHolds, PTL DEF FamilyInv

\* Every variable keeps its type, and every token in use has been stored.
THEOREM TokensAreTyped == TokenSpec => []TokenInv
  BY FamilyInvHolds, PTL DEF FamilyInv

------------------------------------------------------------------------------
(***************************************************************************)
(* The session of the browser.                                              *)
(***************************************************************************)
\* As long as nothing was disturbed one request is under way at most: a refresh that
\* looks for its token finds it live, and an answer brings a live one.
SessionInv == ~disturbed =>
    /\ \A c, d \in Calls : line[c] # "idle" /\ line[d] # "idle" => c = d
    /\ NoCalls /\ cookie # NoToken => token[cookie] = "live"
    /\ \A c \in Calls :
        /\ line[c] # "burn"
        /\ line[c] = "find" => token[sent[c]] = "live" /\ cookie \in {NoToken, sent[c]}
        /\ line[c] = "answer" => fresh[c] \in Tokens /\ token[fresh[c]] = "live"

\* A request that leaves alone takes a cookie that is live.
LEMMA LeaveKeepsSession ==
    ASSUME TokenInv, TokenInv', SessionInv, NEW c \in Calls, ~disturbed',
           StartLogin(c) \/ StartRefresh(c) \/ StartLogout(c)
    PROVE  SessionInv'
  <1> USE DEF TokenInv, TokenTypeOK, Tokens, NoToken
  <1>1. NoCalls /\ (~StartLogin(c) => ~disturbed)
    BY Zenon DEF StartLogin, StartRefresh, StartLogout
  <1>2. PICK l, t : /\ l \in {"issue", "find", "logout"}
                     /\ Leave(c, l, t) /\ (l = "find" => StartRefresh(c) /\ t = cookie)
    BY DEF StartLogin, StartRefresh, StartLogout
  <1>3. /\ line'[c] = l /\ sent'[c] = t /\ UNCHANGED <<token, cookie>>
        /\ \A d \in Calls \ {c} : line'[d] = "idle"
    BY <1>1, <1>2 DEF Leave, Resume, NoCalls, stored
  <1>4. l = "find" => cookie # NoToken /\ token[cookie] = "live"
    <2> SUFFICES ASSUME l = "find" PROVE cookie # NoToken /\ token[cookie] = "live"
      OBVIOUS
    <2>1. cookie # NoToken /\ line'[c] = "find"
      BY <1>2, <1>3 DEF StartRefresh
    <2>2. ~disturbed
      BY <1>1, <1>2, <2>1 DEF StartLogin, Leave, Resume
    <2> QED
      BY <1>1, <2>1, <2>2 DEF SessionInv
  <1>5. ~NoCalls'
    BY <1>2, <1>3 DEF NoCalls
  <1> QED
    BY <1>2, <1>3, <1>4, <1>5 DEF SessionInv

LEMMA CallKeepsSession ==
    ASSUME TokenInv, TokenInv', SessionInv, NEW c \in Calls, CallStep(c), ~disturbed'
    PROVE  SessionInv'
  <1> USE TokenAssumption DEF TokenInv, TokenTypeOK, Tokens, NoToken
  <1>1. CASE StartLogin(c) \/ StartRefresh(c) \/ StartLogout(c)
    BY <1>1, LeaveKeepsSession
  <1>2. CASE LoseCall(c)
    BY <1>2 DEF LoseCall
  <1>3. CASE ~\/ StartLogin(c) \/ StartRefresh(c) \/ StartLogout(c) \/ LoseCall(c)
    <2>1. disturbed' = disturbed /\ line[c] # "idle" /\ \A d \in Calls \ {c} : line'[d] = line[d]
      BY <1>3 DEF CallStep, FindToken, BurnFamily, RevokeUsed, IssueToken, SetCookie,
                  RevokeAtLogout, ClearCookie, EndCall, Resume, browser
    <2>2. ~disturbed /\ \A d \in Calls \ {c} : line'[d] = "idle"
      BY <2>1 DEF SessionInv
    <2>3. CASE FindToken(c)
      <3>1. token[sent[c]] = "live" /\ cookie \in {NoToken, sent[c]}
        BY <2>2, <2>3 DEF FindToken, SessionInv
      <3>2. UNCHANGED <<token, cookie>> /\ line'[c] \in {"idle", "revoke"}
        BY <2>3, <3>1 DEF FindToken, EndCall, Resume, stored, browser
      <3> QED
        BY <2>2, <3>1, <3>2 DEF SessionInv
    <2>4. CASE BurnFamily(c)
      BY <2>2, <2>4 DEF BurnFamily, SessionInv
    <2>5. CASE RevokeUsed(c)
      <3>1. line'[c] = "issue"
        BY <2>5 DEF RevokeUsed, Resume
      <3> QED
        BY <2>2, <3>1 DEF SessionInv, NoCalls
    <2>6. CASE IssueToken(c)
      <3>1. line'[c] = "answer" /\ fresh'[c] \in Tokens /\ token'[fresh'[c]] = "live"
        BY <2>6 DEF IssueToken, Resume
      <3> QED
        BY <2>2, <3>1 DEF SessionInv, NoCalls
    <2>7. CASE SetCookie(c)
      <3>1. line'[c] = "idle" /\ cookie' = fresh[c] /\ token' = token /\ token[fresh[c]] = "live"
        BY <2>2, <2>7 DEF SetCookie, EndCall, Resume, stored, SessionInv
      <3> QED
        BY <2>2, <3>1 DEF SessionInv
    <2>8. CASE RevokeAtLogout(c)
      <3>1. line'[c] = "clear"
        BY <2>8 DEF RevokeAtLogout, Resume
      <3> QED
        BY <2>2, <3>1 DEF SessionInv, NoCalls
    <2>9. CASE ClearCookie(c)
      <3>1. line'[c] = "idle" /\ cookie' = NoToken
        BY <2>9 DEF ClearCookie, EndCall, Resume
      <3> QED
        BY <2>2, <3>1 DEF SessionInv
    <2> QED
      BY <1>3, <2>3, <2>4, <2>5, <2>6, <2>7, <2>8, <2>9 DEF CallStep
  <1> QED
    BY <1>1, <1>2, <1>3

LEMMA NextKeepsSession == FamilyInv /\ SessionInv /\ [TokenNext]_tokenVars => SessionInv'
  <1> SUFFICES ASSUME FamilyInv, SessionInv, [TokenNext]_tokenVars, ~disturbed' PROVE SessionInv'
    BY DEF SessionInv
  <1>1. TokenInv /\ TokenInv'
    BY NextKeepsTokenInv DEF FamilyInv
  <1>2. CASE TokenLapses
    BY <1>2 DEF TokenLapses, stored, browser, SessionInv, NoCalls
  <1>3. CASE CookieLapses
    BY <1>3 DEF CookieLapses, stored, SessionInv, NoCalls
  <1>4. CASE UNCHANGED tokenVars
    BY <1>4 DEF tokenVars, SessionInv, NoCalls
  <1> QED
    BY <1>1, <1>2, <1>3, <1>4, CallKeepsSession DEF TokenNext

\* For any number of requests, tokens and lost answers: once a login was alone, and
\* while the requests after it neither overlap nor are lost, the browser never holds a
\* revoked token, so its session goes on.
THEOREM SessionGoesOn == TokenSpec => []SessionContinues
  <1>1. TokenInit => FamilyInv /\ SessionInv
    BY InitFamilyInv DEF TokenInit, SessionInv
  <1>2. FamilyInv /\ SessionInv /\ [TokenNext]_tokenVars => (FamilyInv /\ SessionInv)'
    BY NextKeepsFamilyInv, NextKeepsSession
  <1>3. SessionInv => SessionContinues
    BY DEF SessionInv, SessionContinues
  <1> QED
    BY <1>1, <1>2, <1>3, PTL DEF TokenSpec
==============================================================================
