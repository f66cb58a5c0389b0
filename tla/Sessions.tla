------------------------------ MODULE Sessions ------------------------------
(***************************************************************************)
(* The sessions of one user: the refresh tokens kept in the User document  *)
(* (modules/auth/services/tokenService.ts), the login, refresh and logout  *)
(* handlers (authController.ts), the cookie jar of each browser, and the   *)
(* tabs, which start at most one refresh at a time                         *)
(* (frontend/src/services/baseQueryWithReauth.ts).                         *)
(*                                                                         *)
(* The services read the whole document, change the array in memory and    *)
(* save it.  Mongoose guards such a save with the version of the document  *)
(* (__v) when it replaces the array, and throws VersionError if somebody   *)
(* has saved in between; the $push of a login is not guarded.              *)
(***************************************************************************)
EXTENDS Integers, FiniteSets

CONSTANTS
  Browsers,   \* cookie jars
  Tabs,       \* the tabs of the application
  BrowserOf,  \* BrowserOf[t]: the browser tab t lives in
  LoggedIn,   \* the browsers that hold a session at the beginning
  Requests    \* the requests that the tabs send

ASSUME SessionsAssumption ==
  /\ BrowserOf \in [Tabs -> Browsers]
  /\ LoggedIn \subseteq Browsers
  /\ IsFiniteSet(Browsers)

VARIABLES
  tokens,     \* User.refreshTokens; tokens are numbered as they are issued
  version,    \* User.__v
  issued,     \* the tokens issued so far
  jar,        \* jar[b]: the refreshToken cookie of browser b
  kind,       \* kind[r]: the endpoint that request r calls
  tab,        \* tab[r]: the tab that sent it
  sent,       \* sent[r]: the cookie that came with it
  seen,       \* seen[r]: the tokens and version of the document r has read
  stage,      \* stage[r]: what the handler of r does next
  answer,     \* answer[r]: how it was answered
  made,       \* made[r]: the token that r issued
  disturbed   \* requests have overlapped, or an answer was lost (history)

document    == <<tokens, version, issued>>
request     == <<kind, tab, sent>>
sessionVars == <<document, jar, request, seen, stage, answer, made, disturbed>>

NoToken  == 0
Kind     == {"login", "refresh", "logout"}
Handling == {"read", "write", "reread", "rewrite", "reply"}
Answer   == {"none", "ok", "reuse", "invalid", "out", "missing"}
-----------------------------------------------------------------------------
SessionsInit ==
  /\ \E first \in [LoggedIn -> 1..Cardinality(LoggedIn)] :
       /\ \A a, b \in LoggedIn : first[a] = first[b] => a = b
       /\ jar = [b \in Browsers |-> IF b \in LoggedIn THEN first[b]
                                    ELSE NoToken]
  /\ issued = Cardinality(LoggedIn)
  /\ tokens = 1..issued
  /\ version = 0
  /\ kind = [r \in Requests |-> "login"]
  /\ tab \in {[r \in Requests |-> t] : t \in Tabs}
  /\ sent = [r \in Requests |-> NoToken]
  /\ seen = [r \in Requests |-> [tokens |-> {}, version |-> 0]]
  /\ stage = [r \in Requests |-> "new"]
  /\ answer = [r \in Requests |-> "none"]
  /\ made = [r \in Requests |-> NoToken]
  /\ disturbed = FALSE

\* tryRefreshSession: a tab shares the refresh it has under way.
Refreshing(t) ==
  \E r \in Requests : tab[r] = t /\ kind[r] = "refresh" /\ stage[r] \in Handling

\* A tab calls an endpoint; the browser adds its cookie.  Without a cookie,
\* refresh is refused and logout has only cookies to clear.
Send(r, t, k) ==
  LET cookie == jar[BrowserOf[t]]
  IN  /\ stage[r] = "new"
      /\ k = "refresh" => ~ Refreshing(t)
      /\ kind' = [kind EXCEPT ![r] = k]
      /\ tab' = [tab EXCEPT ![r] = t]
      /\ sent' = [sent EXCEPT ![r] = cookie]
      /\ IF k # "login" /\ cookie = NoToken
         THEN /\ stage' = [stage EXCEPT ![r] = "reply"]
              /\ answer' = [answer EXCEPT ![r] = IF k = "logout" THEN "out"
                                                 ELSE "missing"]
         ELSE stage' = [stage EXCEPT ![r] = "read"] /\ UNCHANGED answer
      /\ disturbed' = (disturbed \/ \E s \in Requests : stage[s] \in Handling)
      /\ UNCHANGED <<document, jar, seen, made>>

\* User.findById (validateUser's findOne for a login).
ReadUser(r) ==
  /\ stage[r] \in {"read", "reread"}
  /\ seen' = [seen EXCEPT ![r] = [tokens |-> tokens, version |-> version]]
  /\ stage' = [stage EXCEPT ![r] = IF @ = "read" THEN "write" ELSE "rewrite"]
  /\ UNCHANGED <<document, jar, request, answer, made, disturbed>>

\* user.save of an array that was replaced: by this version, or VersionError.
MutCurrent(r) == TRUE
Current(r) == version = seen[r].version
MutSaveTokens(new) == tokens' = tokens /\ version' = version + 1
SaveTokens(new) == tokens' = new /\ version' = version + 1

Reply(r, a) ==
  /\ stage' = [stage EXCEPT ![r] = "reply"]
  /\ answer' = [answer EXCEPT ![r] = a]

\* loginController: push a new token and save.
Login(r) ==
  /\ stage[r] = "write" /\ kind[r] = "login"
  /\ issued' = issued + 1
  /\ made' = [made EXCEPT ![r] = issued']
  /\ SaveTokens(tokens \cup {issued'})
  /\ Reply(r, "ok")
  /\ UNCHANGED <<jar, request, seen, disturbed>>

\* rotateRefreshToken, a known token: it gives way to a new one.
Rotated(r) == seen[r].tokens \ {sent[r]}
Rotate(r) ==
  /\ stage[r] = "write" /\ kind[r] = "refresh"
  /\ sent[r] \in seen[r].tokens
  /\ Current(r)
  /\ issued' = issued + 1
  /\ made' = [made EXCEPT ![r] = issued']
  /\ SaveTokens(Rotated(r) \cup {issued'})
  /\ Reply(r, "ok")
  /\ UNCHANGED <<jar, request, seen, disturbed>>

\* rotateRefreshToken throws: the token is unknown, in which case it tries to
\* revoke all, or the save of a known one met a newer version.
RotateFails(r) ==
  /\ stage[r] = "write" /\ kind[r] = "refresh"
  /\ IF sent[r] \in seen[r].tokens THEN ~ Current(r) /\ UNCHANGED document
     ELSE IF Current(r) THEN SaveTokens({}) /\ UNCHANGED issued
     ELSE UNCHANGED document
  /\ stage' = [stage EXCEPT ![r] = "reread"]
  /\ UNCHANGED <<jar, request, seen, answer, made, disturbed>>

\* The catch of refreshController, for whatever error: revokeRefreshToken of
\* every token, and "Refresh token reuse detected"; if that throws as well,
\* "Invalid refresh token" and the cookies stay.
RevokeAll(r) ==
  /\ stage[r] = "rewrite"
  /\ IF Current(r)
     THEN SaveTokens({}) /\ UNCHANGED issued /\ Reply(r, "reuse")
     ELSE UNCHANGED document /\ Reply(r, "invalid")
  /\ UNCHANGED <<jar, request, seen, made, disturbed>>

\* logoutController: revokeRefreshToken of the one token, errors ignored.
Logout(r) ==
  /\ stage[r] = "write" /\ kind[r] = "logout"
  /\ IF Current(r) THEN SaveTokens(seen[r].tokens \ {sent[r]}) /\ UNCHANGED issued
     ELSE UNCHANGED document
  /\ Reply(r, "out")
  /\ UNCHANGED <<jar, request, seen, made, disturbed>>

\* The answer reaches the browser, which stores or clears its cookie.
Deliver(r) ==
  /\ stage[r] = "reply"
  /\ stage' = [stage EXCEPT ![r] = "ended"]
  /\ jar' = [jar EXCEPT ![BrowserOf[tab[r]]] =
               IF answer[r] = "ok" THEN made[r]
               ELSE IF answer[r] \in {"reuse", "out"} THEN NoToken ELSE @]
  /\ UNCHANGED <<document, request, seen, answer, made, disturbed>>

\* The answer is lost, or the tab is closed.
Lose(r) ==
  /\ stage[r] = "reply"
  /\ stage' = [stage EXCEPT ![r] = "ended"]
  /\ disturbed' = TRUE
  /\ UNCHANGED <<document, jar, request, seen, answer, made>>

Handle(r) ==
  \/ ReadUser(r) \/ Login(r) \/ Rotate(r) \/ RotateFails(r) \/ RevokeAll(r)
  \/ Logout(r) \/ Deliver(r) \/ Lose(r)

Idle == (\A r \in Requests : stage[r] = "ended") /\ UNCHANGED sessionVars

SessionsNext ==
  \/ \E r \in Requests : \/ \E t \in Tabs, k \in Kind : Send(r, t, k)
                         \/ Handle(r)
  \/ Idle

SessionsSpec == SessionsInit /\ [][SessionsNext]_sessionVars
-----------------------------------------------------------------------------
(* Properties *)

\* Type correctness; only issued tokens are stored.
SessionsTypeOK ==
  /\ issued \in Nat
  /\ tokens \subseteq 1..issued
  /\ version \in Nat
  /\ jar \in [Browsers -> 0..issued]
  /\ kind \in [Requests -> Kind]
  /\ tab \in [Requests -> Tabs]
  /\ sent \in [Requests -> 0..issued]
  /\ seen \in [Requests -> [tokens : SUBSET (1..issued), version : Nat]]
  /\ stage \in [Requests -> {"new", "ended"} \cup Handling]
  /\ answer \in [Requests -> Answer]
  /\ made \in [Requests -> 0..issued]
  /\ disturbed \in BOOLEAN

\* A refresh token is exchanged for a new one at most once, however many tabs
\* present it at the same time ("verifies the cookie and rotates").
Exchanged(r) == kind[r] = "refresh" /\ answer[r] = "ok"
ExchangedOnce ==
  \A r, s \in Requests :
    Exchanged(r) /\ Exchanged(s) /\ sent[r] = sent[s] => r = s

\* A token that was exchanged is never accepted again.
SpentIsDead == \A r \in Requests : Exchanged(r) => sent[r] \notin tokens

\* A token that was removed, by a logout, an exchange or a revocation, never
\* comes back: no handler writes back a list that it read before.
DeadStaysDead == [][\A t \in tokens' : t \in tokens \/ t > issued]_sessionVars

\* As long as requests do not overlap and no answer is lost, nobody is turned
\* away: no alarm is raised, every browser holds a token that is accepted, and
\* a logout "invalidates tokens in the database and clears cookies".
OrderlyUseIsSafe ==
  ~ disturbed =>
    /\ \A r \in Requests : answer[r] \notin {"reuse", "invalid"}
    /\ (\A r \in Requests : stage[r] \notin Handling) =>
         \A b \in Browsers : jar[b] # NoToken => jar[b] \in tokens
    /\ \A r \in Requests : answer[r] = "out" => sent[r] \notin tokens

\* Whoever has read the current version has read the current tokens, and nobody
\* has read a version that is yet to come: the check of a save is a
\* compare-and-swap.
VersionGuards ==
  \A r \in Requests :
    stage[r] \in {"write", "rewrite"} =>
      /\ seen[r].version <= version
      /\ Current(r) => seen[r].tokens = tokens

\* No request is answered before its handler has replied.
AnswersCome ==
  \A r \in Requests :
    stage[r] \in {"new", "read", "write", "reread", "rewrite"} => answer[r] = "none"

\* The inductive invariant: what the two properties about tokens rest on.
SessionInv ==
  SessionsTypeOK /\ VersionGuards /\ AnswersCome /\ SpentIsDead /\ ExchangedOnce

\* While requests take turns: one is handled at a time; it carries the cookie
\* that its browser still holds, which is good unless it is a login, and has
\* read what is stored; a new token is nobody's until the answer arrives.
Holds(r) == jar[BrowserOf[tab[r]]]
TakesItsTurn(r) ==
  /\ stage[r] \notin {"reread", "rewrite"} /\ answer[r] \notin {"reuse", "invalid"}
  /\ stage[r] \in {"read", "write"} =>
       sent[r] = Holds(r) /\ (kind[r] # "login" => sent[r] \in tokens)
  /\ stage[r] = "write" => Current(r)
  /\ answer[r] = "out" => sent[r] \notin tokens
  /\ stage[r] = "reply" =>
       CASE answer[r] = "ok" -> made[r] \in tokens /\ \A b \in Browsers : jar[b] # made[r]
         [] answer[r] = "out" -> TRUE
         [] OTHER -> Holds(r) = NoToken
OneAtATime ==
  \A r, s \in Requests : stage[r] \in Handling /\ stage[s] \in Handling => r = s

\* No two browsers hold the same token, and a browser holds a good one, or is
\* about to be given another or none.
JarsGood ==
  /\ \A a, b \in Browsers : jar[a] = jar[b] /\ jar[a] # NoToken => a = b
  /\ \A b \in Browsers : jar[b] # NoToken =>
       \/ jar[b] \in tokens
       \/ \E r \in Requests : /\ stage[r] = "reply" /\ answer[r] \in {"ok", "out"}
                              /\ BrowserOf[tab[r]] = b

InTurn ==
  ~ disturbed => OneAtATime /\ JarsGood /\ \A r \in Requests : TakesItsTurn(r)
=============================================================================
