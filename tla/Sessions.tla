------------------------------- MODULE Sessions -------------------------------
(***************************************************************************)
(* A user's sessions: the tabs of one browser, the /auth endpoints, and    *)
(* the refresh tokens.  The tabs share the cookies of the browser; access  *)
(* tokens and the promise of the refresh in flight belong to a tab.        *)
(*                                                                         *)
(* A request is split where the server awaits the database, because a      *)
(* request of another tab may run there.  A cookie is what the browser     *)
(* attaches when the request is sent, and changes when an answer arrives.  *)
(***************************************************************************)
EXTENDS RefreshTokens, FiniteSets

CONSTANTS
  Tabs,
  Calls,        \* API calls (and page loads) of the tabs, each used again and again
  TabOf,        \* the tab of each call
  NoCall,
  Faults        \* which of FaultKinds may happen

FaultKinds == {"server",      \* a statement of the API fails, or the process dies
               "network",     \* an answer does not reach the browser
               "expiry"}      \* refresh tokens reach the end of their life

ASSUME SessionsAssumption ==
  /\ TabOf \in [Calls -> Tabs]
  /\ NoCall \notin Calls
  /\ Faults \subseteq FaultKinds

VARIABLES
  jar,          \* the mou_rt cookie
  marker,       \* the moulinator_session cookie
  access,       \* access token in the memory of each tab
  inFlight,     \* refreshInFlight of each tab: the call that started it
  call,         \* where each call is
  cookie,       \* the token its /auth/refresh presented
  answer,       \* the token in the Set-Cookie of the answer
  out, outCookie,     \* the logout request of each tab
  login, loginAnswer, \* the login (or signup) request of each tab
  lost,         \* an answer that would have changed the cookie was lost
  spentBy       \* history: the tabs that have rotated each token

tabVars    == <<jar, marker, access, inFlight>>
callVars   == <<call, cookie, answer>>
logoutVars == <<out, outCookie>>
loginVars  == <<login, loginAnswer>>
ghostVars  == <<lost, spentBy>>
vars == <<storeVars, tabVars, callVars, logoutVars, loginVars, ghostVars>>

CallState == {
  "idle",
  "sent", "stale",     \* with a good access token; with an old one or none
  "awaits",            \* the promise of another call
  "verify", "rotate", "commit",    \* its own /auth/refresh, in the API
  "renewed", "refused",            \* the answer on its way
  "retry"}             \* sent once more, with the new access token

OutState   == {"idle", "verify", "read", "revoke", "done", "failed"}
LoginState == {"idle", "issue", "done"}
Access     == {"none", "fresh", "old"}

\* Past its verification, a request is about a row.
RequestTypeOK ==
  /\ \A c \in Calls : call[c] \in {"rotate", "commit", "renewed"} => cookie[c] \in Rows
  /\ \A c \in Calls : call[c] = "renewed" => answer[c] \in Rows
  /\ \A b \in Tabs  : out[b] \in {"read", "revoke"} => outCookie[b] \in Rows
  /\ \A b \in Tabs  : login[b] = "done" => loginAnswer[b] \in Rows

TypeOK ==
  /\ StoreTypeOK
  /\ jar      \in Token \union {NoToken}
  /\ marker   \in BOOLEAN
  /\ access   \in [Tabs -> Access]
  /\ inFlight \in [Tabs -> Calls \union {NoCall}]
  /\ call     \in [Calls -> CallState]
  /\ cookie   \in [Calls -> Token \union {NoToken}]
  /\ answer   \in [Calls -> Token \union {NoToken}]
  /\ out         \in [Tabs -> OutState]
  /\ outCookie   \in [Tabs -> Token \union {NoToken}]
  /\ login       \in [Tabs -> LoginState]
  /\ loginAnswer \in [Tabs -> Token \union {NoToken}]
  /\ lost    \in BOOLEAN
  /\ spentBy \in [Token -> SUBSET Tabs]
  /\ RequestTypeOK

Init ==
  /\ StoreInit
  /\ jar = NoToken /\ marker = FALSE
  /\ access   = [b \in Tabs |-> "none"]
  /\ inFlight = [b \in Tabs |-> NoCall]
  /\ call     = [c \in Calls |-> "idle"]
  /\ cookie   = [c \in Calls |-> NoToken]
  /\ answer   = [c \in Calls |-> NoToken]
  /\ out         = [b \in Tabs |-> "idle"]
  /\ outCookie   = [b \in Tabs |-> NoToken]
  /\ login       = [b \in Tabs |-> "idle"]
  /\ loginAnswer = [b \in Tabs |-> NoToken]
  /\ lost    = FALSE
  /\ spentBy = [t \in Token |-> {}]

CallsOf(b) == {c \in Calls : TabOf[c] = b}

\* Bound: whatever is under way still finds a row to insert.
RowLeft ==
  Cardinality({c \in Calls : call[c] \in {"sent", "stale", "verify", "rotate", "commit"}})
    + Cardinality({b \in Tabs : login[b] = "issue"}) + issued < MaxTokens

Step(c, from, to) == call[c] = from /\ call' = [call EXCEPT ![c] = to]

SetTokens(b) == access' = [access EXCEPT ![b] = "fresh"] /\ marker' = TRUE
Clear(b)     == access' = [access EXCEPT ![b] = "none"]  /\ marker' = FALSE

-----------------------------------------------------------------------------
(***************************************************************************)
(* The web client: calls through authMiddleware, and tryRefresh.           *)
(***************************************************************************)
Quiet(b) ==
  /\ \A c \in CallsOf(b) : call[c] = "idle"
  /\ out[b] = "idle" /\ login[b] = "idle"

\* A page behind middleware.ts: it has an access token or the marker.
SendCall(c) ==
  /\ RowLeft
  /\ access[TabOf[c]] # "none" \/ marker
  /\ Step(c, "idle", IF access[TabOf[c]] = "fresh" THEN "sent" ELSE "stale")
  /\ UNCHANGED <<storeVars, tabVars, cookie, answer, logoutVars, loginVars, ghostVars>>

CallAnswered(c) ==
  /\ \E from \in {"sent", "retry"} : Step(c, from, "idle")
  /\ UNCHANGED <<storeVars, tabVars, cookie, answer, logoutVars, loginVars, ghostVars>>

CallLost(c) ==
  /\ "network" \in Faults
  /\ \E from \in {"sent", "stale", "retry"} : Step(c, from, "idle")
  /\ UNCHANGED <<storeVars, tabVars, cookie, answer, logoutVars, loginVars, ghostVars>>

\* refreshMe() takes any failure of GET /me for the end of the session.
MeFails(c) ==
  /\ Faults \intersect {"server", "network"} # {}
  /\ \E from \in {"sent", "stale", "retry"} : Step(c, from, "idle")
  /\ Clear(TabOf[c])
  /\ UNCHANGED <<storeVars, jar, inFlight, cookie, answer, logoutVars, loginVars, ghostVars>>

\* Mistake: every 401 starts a refresh of its own.
RefreshAlone(c, from) ==
  LET b == TabOf[c] IN
  /\ Step(c, from, "verify")
  /\ inFlight' = [inFlight EXCEPT ![b] = c]
  /\ cookie'   = [cookie EXCEPT ![c] = jar]

\* tryRefresh(): the first call of a tab sends the request, the others share it.
TryRefresh(c, from) ==
  LET b == TabOf[c] IN
  IF inFlight[b] = NoCall
    THEN /\ Step(c, from, "verify")
         /\ inFlight' = [inFlight EXCEPT ![b] = c]
         /\ cookie'   = [cookie EXCEPT ![c] = jar]
    ELSE /\ Step(c, from, "awaits")
         /\ UNCHANGED <<inFlight, cookie>>

\* authMiddleware.onResponse with a 401.
CallDenied(c) ==
  /\ TryRefresh(c, "stale")
  /\ UNCHANGED <<storeVars, jar, marker, access, answer, logoutVars, loginVars, ghostVars>>

\* refreshMe() of AuthProvider, as a page loads.
Bootstrap(c) ==
  /\ RowLeft
  /\ access[TabOf[c]] = "none" /\ marker
  /\ TryRefresh(c, "idle")
  /\ UNCHANGED <<storeVars, jar, marker, access, answer, logoutVars, loginVars, ghostVars>>

Reload(b) ==
  /\ Quiet(b) /\ access[b] # "none"
  /\ access' = [access EXCEPT ![b] = "none"]
  /\ UNCHANGED <<storeVars, jar, marker, inFlight, callVars, logoutVars, loginVars, ghostVars>>

\* An access token lives 15 minutes; calls on their way carry it too.
AccessExpires(b) ==
  /\ access[b] = "fresh"
  /\ access' = [access EXCEPT ![b] = "old"]
  /\ call'   = [c \in Calls |->
                  IF TabOf[c] = b /\ call[c] = "sent" THEN "stale" ELSE call[c]]
  /\ UNCHANGED <<storeVars, jar, marker, inFlight, cookie, answer, logoutVars,
                 loginVars, ghostVars>>

\* Mistake: only the call that sent the request hears of the outcome.
SettleOne(c, to) ==
  /\ inFlight' = [inFlight EXCEPT ![TabOf[c]] = NoCall]
  /\ cookie'   = [cookie EXCEPT ![c] = NoToken]
  /\ answer'   = [answer EXCEPT ![c] = NoToken]
  /\ call' = [call EXCEPT ![c] = to]

\* The promise resolves: refreshInFlight is reset, and every caller goes on.
Settle(c, to) ==
  /\ inFlight' = [inFlight EXCEPT ![TabOf[c]] = NoCall]
  /\ cookie'   = [cookie EXCEPT ![c] = NoToken]
  /\ answer'   = [answer EXCEPT ![c] = NoToken]
  /\ call' = [d \in Calls |->
                IF d = c \/ (TabOf[d] = TabOf[c] /\ call[d] = "awaits")
                  THEN to ELSE call[d]]

\* Mistake: the answer brings an access token and no new cookie.
KeepCookie(c) ==
  /\ call[c] = "renewed"
  /\ SetTokens(TabOf[c])
  /\ Settle(c, "retry")
  /\ UNCHANGED <<storeVars, jar, logoutVars, loginVars, ghostVars>>

RefreshOk(c) ==
  /\ call[c] = "renewed"
  /\ jar' = answer[c]
  /\ SetTokens(TabOf[c])
  /\ Settle(c, "retry")
  /\ UNCHANGED <<storeVars, logoutVars, loginVars, ghostVars>>

RefreshFailed(c) ==
  /\ call[c] = "refused"
  /\ Clear(TabOf[c])
  /\ Settle(c, "idle")
  /\ UNCHANGED <<storeVars, jar, logoutVars, loginVars, ghostVars>>

RefreshLost(c) ==
  /\ "network" \in Faults
  /\ call[c] \in {"verify", "renewed", "refused"}
  /\ Clear(TabOf[c])
  /\ Settle(c, "idle")
  /\ lost' = (lost \/ call[c] = "renewed")
  /\ UNCHANGED <<storeVars, jar, logoutVars, loginVars, spentBy>>

-----------------------------------------------------------------------------
(***************************************************************************)
(* POST /auth/refresh: AuthService.refresh.                                *)
(***************************************************************************)
Refreshing == UNCHANGED <<tabVars, cookie, logoutVars, loginVars, lost>>

Verify(c) ==
  /\ Step(c, "verify", IF Verifies(cookie[c]) THEN "rotate" ELSE "refused")
  /\ UNCHANGED <<storeVars, answer, spentBy>> /\ Refreshing

RotateReads(c) ==
  /\ Step(c, "rotate", "commit")
  /\ ~ Refuses(cookie[c])
  /\ UNCHANGED <<storeVars, answer, spentBy>> /\ Refreshing

RotateRefuses(c) ==
  /\ Step(c, "rotate", "refused")
  /\ Refuse(cookie[c])
  /\ UNCHANGED <<answer, spentBy>> /\ Refreshing

RotateCommits(c) ==
  /\ Step(c, "commit", "renewed")
  /\ Rotate(cookie[c])
  /\ answer'  = [answer  EXCEPT ![c] = issued + 1]
  /\ spentBy' = [spentBy EXCEPT ![cookie[c]] = @ \union {TabOf[c]}]
  /\ Refreshing

\* A failed statement; auth.refresh is audited after the commit.
RefreshThrows(c) ==
  /\ "server" \in Faults
  /\ \E from \in {"verify", "rotate", "commit", "renewed"} : Step(c, from, "refused")
  /\ lost' = (lost \/ call[c] = "renewed")
  /\ UNCHANGED <<storeVars, tabVars, cookie, answer, logoutVars, loginVars, spentBy>>

-----------------------------------------------------------------------------
(***************************************************************************)
(* POST /auth/logout, and logout() of AuthProvider.                        *)
(***************************************************************************)
LoggingOut == UNCHANGED <<inFlight, callVars, loginVars, spentBy>>

OutStep(b, from, to) == out[b] = from /\ out' = [out EXCEPT ![b] = to]

ForgetLogout(b) == outCookie' = [outCookie EXCEPT ![b] = NoToken]

SendLogout(b) ==
  /\ access[b] # "none"
  /\ OutStep(b, "idle", "verify")
  /\ outCookie' = [outCookie EXCEPT ![b] = jar]
  /\ UNCHANGED <<storeVars, jar, marker, access, lost>> /\ LoggingOut

LogoutVerifies(b) ==
  /\ OutStep(b, "verify", IF Verifies(outCookie[b]) THEN "read" ELSE "done")
  /\ UNCHANGED <<storeVars, outCookie, jar, marker, access, lost>> /\ LoggingOut

\* Mistake: the early return inverted.
LogoutMisreads(b) ==
  /\ OutStep(b, "read", IF revoked[outCookie[b]] THEN "revoke" ELSE "done")
  /\ UNCHANGED <<storeVars, outCookie, jar, marker, access, lost>> /\ LoggingOut

\* revoke() reads the row outside its transaction.
LogoutReads(b) ==
  /\ OutStep(b, "read", IF revoked[outCookie[b]] THEN "done" ELSE "revoke")
  /\ UNCHANGED <<storeVars, outCookie, jar, marker, access, lost>> /\ LoggingOut

LogoutRevokes(b) ==
  /\ OutStep(b, "revoke", "done")
  /\ Revoke(outCookie[b])
  /\ UNCHANGED <<outCookie, jar, marker, access, lost>> /\ LoggingOut

LogoutThrows(b) ==
  /\ "server" \in Faults
  /\ \E from \in {"verify", "read", "revoke", "done"} : OutStep(b, from, "failed")
  /\ lost' = (lost \/ out[b] = "done")
  /\ UNCHANGED <<storeVars, outCookie, jar, marker, access>> /\ LoggingOut

\* 204 clears the cookie; the client clears its own state in any case.
LogoutAnswered(b) ==
  /\ OutStep(b, "done", "idle")
  /\ jar' = NoToken
  /\ Clear(b) /\ ForgetLogout(b)
  /\ UNCHANGED <<storeVars, lost>> /\ LoggingOut

LogoutGivenUp(b) ==
  /\ \/ OutStep(b, "failed", "idle")
     \/ "network" \in Faults /\ \E from \in {"verify", "done"} : OutStep(b, from, "idle")
  /\ lost' = (lost \/ out[b] = "done")
  /\ Clear(b) /\ ForgetLogout(b)
  /\ UNCHANGED <<storeVars, jar>> /\ LoggingOut

-----------------------------------------------------------------------------
(***************************************************************************)
(* POST /auth/login with a good password, and /auth/signup.                *)
(***************************************************************************)
LoggingIn == UNCHANGED <<inFlight, callVars, logoutVars, ghostVars>>

LoginStep(b, from, to) == login[b] = from /\ login' = [login EXCEPT ![b] = to]

ForgetLogin(b) == loginAnswer' = [loginAnswer EXCEPT ![b] = NoToken]

SendLogin(b) ==
  /\ RowLeft /\ Quiet(b) /\ access[b] = "none"
  /\ LoginStep(b, "idle", "issue")
  /\ UNCHANGED <<storeVars, loginAnswer, jar, marker, access>> /\ LoggingIn

LoginIssues(b) ==
  /\ LoginStep(b, "issue", "done")
  /\ Issue
  /\ loginAnswer' = [loginAnswer EXCEPT ![b] = issued + 1]
  /\ UNCHANGED <<jar, marker, access>> /\ LoggingIn

LoginAnswered(b) ==
  /\ LoginStep(b, "done", "idle")
  /\ jar' = loginAnswer[b]
  /\ SetTokens(b) /\ ForgetLogin(b)
  /\ UNCHANGED storeVars /\ LoggingIn

\* The row is not inserted in a transaction with its audit entry: it stays.
LoginFails(b) ==
  /\ Faults \intersect {"server", "network"} # {}
  /\ \E from \in {"issue", "done"} : LoginStep(b, from, "idle")
  /\ ForgetLogin(b)
  /\ UNCHANGED <<storeVars, jar, marker, access>> /\ LoggingIn

TokenExpires(t) ==
  /\ "expiry" \in Faults
  /\ Expire(t)
  /\ UNCHANGED <<tabVars, callVars, logoutVars, loginVars, ghostVars>>

-----------------------------------------------------------------------------
Client(c) ==
  \/ SendCall(c) \/ CallAnswered(c) \/ CallLost(c) \/ CallDenied(c)
  \/ MeFails(c) \/ Bootstrap(c) \/ RefreshOk(c) \/ RefreshFailed(c) \/ RefreshLost(c)

Refresh(c) ==
  \/ Verify(c) \/ RotateReads(c) \/ RotateRefuses(c) \/ RotateCommits(c)
  \/ RefreshThrows(c)

Tab(b) == Reload(b) \/ AccessExpires(b)

Logout(b) ==
  \/ SendLogout(b) \/ LogoutVerifies(b) \/ LogoutReads(b) \/ LogoutRevokes(b)
  \/ LogoutThrows(b) \/ LogoutAnswered(b) \/ LogoutGivenUp(b)

Login(b) ==
  SendLogin(b) \/ LoginIssues(b) \/ LoginAnswered(b) \/ LoginFails(b)

Next ==
  \/ \E c \in Calls : Client(c) \/ Refresh(c)
  \/ \E b \in Tabs : Tab(b) \/ Logout(b) \/ Login(b)
  \/ \E t \in Token : TokenExpires(t)

(***************************************************************************)
(* Requests are processed and answered, or fail; users and clocks owe      *)
(* nothing.                                                                *)
(***************************************************************************)
CallContinues(c) ==
  \/ CallAnswered(c) \/ CallDenied(c) \/ RefreshOk(c) \/ RefreshFailed(c)
  \/ Refresh(c)

Fairness == \A c \in Calls : WF_vars(CallContinues(c))

Spec == Init /\ [][Next]_vars /\ Fairness

-----------------------------------------------------------------------------
(***************************************************************************)
(* A logout answered 204 leaves the token it presented unusable, whatever  *)
(* rotation of it was under way: docs/phase-1-backend-crud.md:156.         *)
(***************************************************************************)
LogoutRevokesToken ==
  \A b \in Tabs : out[b] = "done" => ~ Verifies(outCookie[b])

(***************************************************************************)
(* Tabs that refresh, log out and log in at the same time never leave the  *)
(* browser with a token that has been exchanged: the next refresh would    *)
(* present it and count as a reuse.  Such a token stays in the jar only    *)
(* until the answer with its successor arrives, unless that answer is lost.*)
(* (Nothing is said of a token that was revoked and not exchanged: a reuse *)
(* detection that commits what it does revokes the token in the jar too.)  *)
(***************************************************************************)
CookieCurrent ==
  jar # NoToken /\ Reused(jar) =>
    lost \/ \E c \in Calls : call[c] = "renewed" /\ cookie[c] = jar

(***************************************************************************)
(* What sharing one promise per tab is for: a refresh is never refused     *)
(* because its own tab has already spent the token (another tab, which     *)
(* shares the cookie but not the promise, may have).                       *)
(***************************************************************************)
NeverRefusedByOwnTab ==
  \A c \in Calls :
    call[c] = "refused" /\ cookie[c] # NoToken =>
      lost \/ TabOf[c] \notin spentBy[cookie[c]]

(***************************************************************************)
(* Every API call is answered, or its tab logged out, in the end: no call  *)
(* waits for ever on a refresh that another call has started.              *)
(***************************************************************************)
CallsSettle == \A c \in Calls : call[c] # "idle" ~> call[c] = "idle"

(***************************************************************************)
(* services.ts:154: a rotation that is refused as a reuse has revoked      *)
(* every session of the user.                                              *)
(***************************************************************************)
ReuseEndsSessions ==
  [][\A c \in Calls :
       RotateRefuses(c) /\ Reused(cookie[c]) => \A t \in Rows : revoked'[t]]_vars
=============================================================================
