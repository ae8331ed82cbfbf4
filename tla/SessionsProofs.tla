---------------------------- MODULE SessionsProofs ----------------------------
(***************************************************************************)
(* Theorems about Sessions, for any number of tabs, calls and tokens.      *)
(***************************************************************************)
EXTENDS Sessions, TLAPS

LEMMA TokenSets ==
  ASSUME StoreTypeOK
  PROVE  /\ Token = {n \in Nat : 0 < n /\ n <= MaxTokens}
         /\ Rows  = {n \in Nat : 0 < n /\ n <= issued}
         /\ Rows \subseteq Token
         /\ NoToken \notin Token
         /\ issued \in Nat /\ MaxTokens \in Nat /\ issued <= MaxTokens
  BY TokensAssumption DEF StoreTypeOK, Token, Rows, NoToken

LEMMA InitType == Init => TypeOK
  <1> SUFFICES ASSUME Init PROVE TypeOK
    OBVIOUS
  <1>1. StoreTypeOK
    BY TokensAssumption DEF Init, StoreInit, StoreTypeOK
  <1>2. QED
    BY <1>1, SessionsAssumption
       DEF Init, TypeOK, RequestTypeOK, Access, CallState, OutState, LoginState

LEMMA StoreTypeStep ==
  ASSUME StoreTypeOK, NEW t \in Token, Issue \/ Rotate(t) \/ Revoke(t) \/ Expire(t)
  PROVE  StoreTypeOK' /\ issued <= issued'
  <1>1. issued' \in 0 .. MaxTokens /\ issued <= issued'
    BY TokenSets DEF StoreTypeOK, Issue, Rotate, Revoke, Expire, Insert
  <1>2. CASE Issue \/ Revoke(t) \/ Expire(t)
    BY <1>1, <1>2 DEF StoreTypeOK, Issue, Revoke, Expire
  <1>3. CASE Rotate(t)
    <2>1. issued + 1 \in Token
      BY <1>3, TokenSets DEF Rotate, Insert, StoreTypeOK
    <2>2. QED
      BY <1>1, <1>3, <2>1 DEF StoreTypeOK, Rotate
  <1>4. QED
    BY <1>2, <1>3

(***************************************************************************)
(* The parts of TypeOK.  Each group of actions disturbs a few of them.     *)
(***************************************************************************)
TabTypeOK ==
  /\ jar \in Token \union {NoToken} /\ marker \in BOOLEAN
  /\ access   \in [Tabs -> Access]
  /\ inFlight \in [Tabs -> Calls \union {NoCall}]

CallTypeOK ==
  /\ call   \in [Calls -> CallState]
  /\ cookie \in [Calls -> Token \union {NoToken}]
  /\ answer \in [Calls -> Token \union {NoToken}]
  /\ \A c \in Calls : call[c] \in {"rotate", "commit", "renewed"} => cookie[c] \in Rows
  /\ \A c \in Calls : call[c] = "renewed" => answer[c] \in Rows

EntryTypeOK ==
  /\ out         \in [Tabs -> OutState]
  /\ outCookie   \in [Tabs -> Token \union {NoToken}]
  /\ login       \in [Tabs -> LoginState]
  /\ loginAnswer \in [Tabs -> Token \union {NoToken}]
  /\ \A b \in Tabs  : out[b] \in {"read", "revoke"} => outCookie[b] \in Rows
  /\ \A b \in Tabs  : login[b] = "done" => loginAnswer[b] \in Rows

GhostTypeOK == lost \in BOOLEAN /\ spentBy \in [Token -> SUBSET Tabs]

LEMMA TypeParts ==
  /\ TypeOK  <=> StoreTypeOK /\ TabTypeOK /\ CallTypeOK /\ EntryTypeOK /\ GhostTypeOK
  /\ TypeOK' <=> StoreTypeOK' /\ TabTypeOK' /\ CallTypeOK' /\ EntryTypeOK' /\ GhostTypeOK'
  BY DEF TypeOK, RequestTypeOK, TabTypeOK, CallTypeOK, EntryTypeOK, GhostTypeOK

\* Rows are never deleted, so a part that refers to them survives any step
\* that leaves its own variables alone.
LEMMA PartsKept ==
  ASSUME TypeOK, StoreTypeOK', issued <= issued'
  PROVE  /\ \A t \in Rows : t \in Rows'
         /\ UNCHANGED tabVars => TabTypeOK'
         /\ UNCHANGED callVars => CallTypeOK'
         /\ UNCHANGED <<logoutVars, loginVars>> => EntryTypeOK'
         /\ UNCHANGED ghostVars => GhostTypeOK'
  <1>1. \A t \in Rows : t \in Rows'
    BY TokenSets, TypeParts DEF Rows, StoreTypeOK
  <1>2. QED
    BY <1>1, TypeParts DEF tabVars, callVars, logoutVars, loginVars, ghostVars,
       TabTypeOK, CallTypeOK, EntryTypeOK, GhostTypeOK

LEMMA StoreKept ==
  ASSUME TypeOK, UNCHANGED storeVars
  PROVE  StoreTypeOK' /\ issued <= issued' /\ Rows' = Rows
  BY TokenSets, TypeParts DEF StoreTypeOK, storeVars, Rows

LEMMA ClientType ==
  ASSUME TypeOK, NEW c \in Calls, Client(c)
  PROVE  TypeOK'
  <1>1. TabOf[c] \in Tabs
    BY SessionsAssumption
  <1>2. UNCHANGED <<storeVars, logoutVars, loginVars>>
    BY DEF Client, SendCall, CallAnswered, CallLost, MeFails, CallDenied, Bootstrap,
       RefreshOk, RefreshFailed, RefreshLost
  <1>3. StoreTypeOK' /\ EntryTypeOK' /\ Rows' = Rows
    BY <1>2, StoreKept, PartsKept
  <1>4. CASE SendCall(c) \/ CallAnswered(c) \/ CallLost(c) \/ MeFails(c)
    <2>1. CallTypeOK'
      BY <1>3, <1>4, TypeParts DEF SendCall, CallAnswered, CallLost, MeFails, Step,
         CallTypeOK, CallState
    <2>2. TabTypeOK' /\ GhostTypeOK'
      BY <1>1, <1>4, TypeParts DEF SendCall, CallAnswered, CallLost, MeFails, Clear,
         TabTypeOK, GhostTypeOK, Access, tabVars, ghostVars
    <2>3. QED
      BY <1>3, <2>1, <2>2, TypeParts
  <1>5. CASE CallDenied(c) \/ Bootstrap(c)
    <2>1. CallTypeOK'
      BY <1>3, <1>5, TypeParts DEF CallDenied, Bootstrap, TryRefresh, Step,
         CallTypeOK, TabTypeOK, CallState
    <2>2. TabTypeOK' /\ GhostTypeOK'
      BY <1>1, <1>5, TypeParts DEF CallDenied, Bootstrap, TryRefresh,
         TabTypeOK, GhostTypeOK, ghostVars
    <2>3. QED
      BY <1>3, <2>1, <2>2, TypeParts
  <1>6. CASE RefreshOk(c) \/ RefreshFailed(c) \/ RefreshLost(c)
    <2>1. \E to \in {"retry", "idle"} : Settle(c, to)
      BY <1>6 DEF RefreshOk, RefreshFailed, RefreshLost
    <2>2. CallTypeOK'
      BY <1>3, <2>1, TypeParts DEF Settle, CallTypeOK, CallState
    <2>3. inFlight' \in [Tabs -> Calls \union {NoCall}]
      BY <2>1, TypeParts DEF Settle, TabTypeOK
    <2>4. TabTypeOK' /\ GhostTypeOK'
      BY <1>1, <1>6, <2>3, TypeParts DEF RefreshOk, RefreshFailed, RefreshLost, SetTokens,
         Clear, TabTypeOK, CallTypeOK, GhostTypeOK, Access, ghostVars
    <2>5. QED
      BY <1>3, <2>2, <2>4, TypeParts
  <1>7. QED
    BY <1>4, <1>5, <1>6 DEF Client

LEMMA RefreshType ==
  ASSUME TypeOK, NEW c \in Calls, Refresh(c)
  PROVE  TypeOK'
  <1>1. UNCHANGED <<tabVars, logoutVars, loginVars>>
    BY DEF Refresh, Verify, RotateReads, RotateRefuses, RotateCommits, RefreshThrows,
       Refreshing
  <1>2. CASE ~ RotateCommits(c)
    <2>1. UNCHANGED storeVars
      BY <1>2 DEF Refresh, Verify, RotateReads, RotateRefuses, RefreshThrows, Refuse
    <2>2. CallTypeOK'
      BY <1>2, <2>1, StoreKept, TypeParts
         DEF Refresh, Verify, RotateReads, RotateRefuses, RefreshThrows, Step, Verifies,
         Refreshing, CallTypeOK, CallState
    <2>3. GhostTypeOK'
      BY <1>2, TypeParts DEF Refresh, Verify, RotateReads, RotateRefuses, RefreshThrows,
         Refreshing, GhostTypeOK
    <2>4. QED
      BY <1>1, <2>1, <2>2, <2>3, StoreKept, PartsKept, TypeParts
  <1>3. CASE RotateCommits(c)
    <2>1. cookie[c] \in Token /\ issued + 1 \in Token
      BY <1>3, TokenSets, TypeParts
         DEF RotateCommits, Rotate, Insert, Step, CallTypeOK, StoreTypeOK
    <2>2. StoreTypeOK' /\ issued <= issued' /\ issued' = issued + 1
      BY <1>3, <2>1, StoreTypeStep, TypeParts DEF RotateCommits, Rotate, Insert
    <2>3. issued + 1 \in Rows' /\ \A t \in Rows : t \in Rows'
      BY <2>1, <2>2, PartsKept, TokenSets DEF Rows, Token
    <2>4. CallTypeOK'
      BY <1>3, <2>1, <2>3, TypeParts
         DEF RotateCommits, Refreshing, Step, CallTypeOK, CallState
    <2>5. GhostTypeOK'
      BY <1>3, TypeParts, SessionsAssumption DEF RotateCommits, Refreshing, GhostTypeOK
    <2>6. QED
      BY <1>1, <2>2, <2>4, <2>5, PartsKept, TypeParts
  <1>4. QED
    BY <1>2, <1>3

LEMMA TabType ==
  ASSUME TypeOK, NEW b \in Tabs, Tab(b)
  PROVE  TypeOK'
  <1>1. UNCHANGED <<storeVars, logoutVars, loginVars, ghostVars>>
    BY DEF Tab, Reload, AccessExpires
  <1>2. TabTypeOK'
    BY TypeParts DEF Tab, Reload, AccessExpires, TabTypeOK, Access
  <1>3. CallTypeOK'
    BY <1>1, StoreKept, TypeParts DEF Tab, Reload, AccessExpires, CallTypeOK, CallState,
       callVars
  <1>4. QED
    BY <1>1, <1>2, <1>3, StoreKept, PartsKept, TypeParts

LEMMA LogoutType ==
  ASSUME TypeOK, NEW b \in Tabs, Logout(b)
  PROVE  TypeOK'
  <1>1. UNCHANGED <<callVars, loginVars>> /\ UNCHANGED <<inFlight, spentBy>>
    BY DEF Logout, SendLogout, LogoutVerifies, LogoutReads, LogoutRevokes, LogoutThrows,
       LogoutAnswered, LogoutGivenUp, LoggingOut
  <1>2. StoreTypeOK' /\ issued <= issued' /\ Rows' = Rows
    <2>1. CASE LogoutRevokes(b)
      <3>1. outCookie[b] \in Token
        BY <2>1, TokenSets, TypeParts DEF LogoutRevokes, OutStep, EntryTypeOK
      <3>2. QED
        BY <2>1, <3>1, StoreTypeStep, TypeParts DEF LogoutRevokes, Revoke, Rows
    <2>2. CASE ~ LogoutRevokes(b)
      BY <2>2, StoreKept DEF Logout, SendLogout, LogoutVerifies, LogoutReads, LogoutThrows,
         LogoutAnswered, LogoutGivenUp
    <2>3. QED
      BY <2>1, <2>2
  <1>3. TabTypeOK' /\ GhostTypeOK'
    BY <1>1, TypeParts DEF Logout, SendLogout, LogoutVerifies, LogoutReads, LogoutRevokes,
       LogoutThrows, LogoutAnswered, LogoutGivenUp, Clear, TabTypeOK, GhostTypeOK, Access
  <1>4. outCookie' \in [Tabs -> Token \union {NoToken}] /\ out' \in [Tabs -> OutState]
    BY TypeParts DEF Logout, SendLogout, LogoutVerifies, LogoutReads, LogoutRevokes,
       LogoutThrows, LogoutAnswered, LogoutGivenUp, ForgetLogout, OutStep, EntryTypeOK,
       TabTypeOK, OutState
  <1>5. \A d \in Tabs : out'[d] \in {"read", "revoke"} => outCookie'[d] \in Rows
    BY TypeParts DEF Logout, SendLogout, LogoutVerifies, LogoutReads, LogoutRevokes,
       LogoutThrows, LogoutAnswered, LogoutGivenUp, ForgetLogout, OutStep, EntryTypeOK,
       Verifies
  <1>6. EntryTypeOK'
    BY <1>1, <1>2, <1>4, <1>5, TypeParts DEF EntryTypeOK, loginVars
  <1>7. QED
    BY <1>1, <1>2, <1>3, <1>6, PartsKept, TypeParts

LEMMA LoginType ==
  ASSUME TypeOK, NEW b \in Tabs, Login(b)
  PROVE  TypeOK'
  <1>1. UNCHANGED <<callVars, logoutVars, ghostVars>> /\ UNCHANGED inFlight
    BY DEF Login, SendLogin, LoginIssues, LoginAnswered, LoginFails, LoggingIn
  <1>2. CASE ~ LoginIssues(b)
    <2>1. UNCHANGED storeVars
      BY <1>2 DEF Login, SendLogin, LoginAnswered, LoginFails
    <2>2. EntryTypeOK'
      BY <1>1, <1>2, <2>1, StoreKept, TypeParts
         DEF Login, SendLogin, LoginAnswered, LoginFails, LoginStep, ForgetLogin,
         EntryTypeOK, LoginState, logoutVars
    <2>3. TabTypeOK'
      BY <1>1, <1>2, TypeParts
         DEF Login, SendLogin, LoginAnswered, LoginFails, SetTokens, TabTypeOK, Access,
         EntryTypeOK
    <2>4. QED
      BY <1>1, <2>1, <2>2, <2>3, StoreKept, PartsKept, TypeParts
  <1>3. CASE LoginIssues(b)
    <2>1. issued + 1 \in Token
      BY <1>3, TokenSets, TypeParts DEF LoginIssues, Issue, Insert, StoreTypeOK
    <2>2. StoreTypeOK' /\ issued <= issued' /\ issued' = issued + 1
      BY <1>3, <2>1, StoreTypeStep, TypeParts DEF LoginIssues, Issue, Insert
    <2>3. issued + 1 \in Rows' /\ \A t \in Rows : t \in Rows'
      BY <2>1, <2>2, PartsKept, TokenSets DEF Rows, Token
    <2>4. EntryTypeOK'
      BY <1>1, <1>3, <2>1, <2>3, TypeParts
         DEF LoginIssues, LoginStep, EntryTypeOK, LoginState, logoutVars
    <2>5. TabTypeOK'
      BY <1>1, <1>3, TypeParts DEF LoginIssues, TabTypeOK
    <2>6. QED
      BY <1>1, <2>2, <2>4, <2>5, PartsKept, TypeParts
  <1>4. QED
    BY <1>2, <1>3

LEMMA TypeStep == TypeOK /\ [Next]_vars => TypeOK'
  <1> SUFFICES ASSUME TypeOK, [Next]_vars PROVE TypeOK'
    OBVIOUS
  <1>1. ASSUME NEW t \in Token, TokenExpires(t) PROVE TypeOK'
    <2>1. StoreTypeOK' /\ issued <= issued'
      BY <1>1, StoreTypeStep, TypeParts DEF TokenExpires
    <2>2. QED
      BY <1>1, <2>1, PartsKept, TypeParts DEF TokenExpires
  <1>2. CASE UNCHANGED vars
    BY <1>2, StoreKept, PartsKept, TypeParts DEF vars
  <1>3. QED
    BY <1>1, <1>2, ClientType, RefreshType, TabType, LogoutType, LoginType DEF Next

(***************************************************************************)
(* Every variable keeps its type; a request that has passed its            *)
(* verification is about an existing row of refresh_tokens.                *)
(***************************************************************************)
THEOREM SessionsTyped == Spec => []TypeOK
  BY InitType, TypeStep, PTL DEF Spec

-----------------------------------------------------------------------------
(***************************************************************************)
(* The rows are written by a rotation, a logout, a login and the clock,    *)
(* and each of them writes a row that exists.                              *)
(***************************************************************************)
StoreStep ==
  \/ UNCHANGED storeVars
  \/ Issue
  \/ \E t \in Rows : Rotate(t) \/ Revoke(t) \/ Expire(t)

LEMMA StoreSteps == TypeOK /\ [Next]_vars => StoreStep
  <1> SUFFICES ASSUME TypeOK, [Next]_vars PROVE StoreStep
    OBVIOUS
  <1>1. ASSUME NEW c \in Calls, Client(c) PROVE StoreStep
    BY <1>1 DEF StoreStep, Client, SendCall, CallAnswered, CallLost, MeFails, CallDenied,
       Bootstrap, RefreshOk, RefreshFailed, RefreshLost
  <1>2. ASSUME NEW c \in Calls, Refresh(c) PROVE StoreStep
    <2>1. CASE RotateCommits(c)
      BY <2>1 DEF StoreStep, RotateCommits, Step, TypeOK, RequestTypeOK
    <2>2. CASE ~ RotateCommits(c)
      BY <1>2, <2>2 DEF StoreStep, Refresh, Verify, RotateReads, RotateRefuses,
         RefreshThrows, Refuse
    <2>3. QED
      BY <2>1, <2>2
  <1>3. ASSUME NEW b \in Tabs, Tab(b) PROVE StoreStep
    BY <1>3 DEF StoreStep, Tab, Reload, AccessExpires
  <1>4. ASSUME NEW b \in Tabs, Logout(b) PROVE StoreStep
    <2>1. CASE LogoutRevokes(b)
      BY <2>1 DEF StoreStep, LogoutRevokes, OutStep, TypeOK, RequestTypeOK
    <2>2. CASE ~ LogoutRevokes(b)
      BY <1>4, <2>2 DEF StoreStep, Logout, SendLogout, LogoutVerifies, LogoutReads,
         LogoutThrows, LogoutAnswered, LogoutGivenUp
    <2>3. QED
      BY <2>1, <2>2
  <1>5. ASSUME NEW b \in Tabs, Login(b) PROVE StoreStep
    BY <1>5 DEF StoreStep, Login, SendLogin, LoginIssues, LoginAnswered, LoginFails
  <1>6. ASSUME NEW t \in Token, TokenExpires(t) PROVE StoreStep
    BY <1>6 DEF StoreStep, TokenExpires, Expire
  <1>7. CASE UNCHANGED vars
    BY <1>7 DEF vars, StoreStep
  <1>8. QED
    BY <1>1, <1>2, <1>3, <1>4, <1>5, <1>6, <1>7 DEF Next

LEMMA ChainsStep == TypeOK /\ ChainsEnd /\ StoreStep => ChainsEnd'
  <1> SUFFICES ASSUME TypeOK, ChainsEnd, StoreStep PROVE ChainsEnd'
    OBVIOUS
  <1>1. StoreTypeOK
    BY TypeParts
  <1> USE TokenSets, <1>1
  <1>2. CASE UNCHANGED storeVars
    BY <1>2 DEF storeVars, ChainsEnd, Valid, Reused, Rows
  <1>3. CASE Issue
    BY <1>3 DEF Issue, Insert, ChainsEnd, Valid, Reused, Rows, StoreTypeOK
  <1>4. ASSUME NEW t \in Rows, Rotate(t) PROVE ChainsEnd'
    BY <1>4 DEF Rotate, Insert, ChainsEnd, Valid, Reused, Rows, StoreTypeOK, NoToken
  <1>5. ASSUME NEW t \in Rows, Revoke(t) \/ Expire(t) PROVE ChainsEnd'
    BY <1>5 DEF Revoke, Expire, ChainsEnd, Valid, Reused, Rows, StoreTypeOK
  <1>6. QED
    BY <1>2, <1>3, <1>4, <1>5 DEF StoreStep

(***************************************************************************)
(* Whatever order the rotations of one token commit in, and although the   *)
(* pointer of the first is overwritten, replaced_by leads from a revoked   *)
(* row to a newer one: a chain of rotations has an end and no cycle.       *)
(***************************************************************************)
THEOREM RotationChainsEnd == Spec => []ChainsEnd
  <1>1. Init => ChainsEnd
    BY TokensAssumption DEF Init, StoreInit, ChainsEnd, Valid, Reused
  <1>2. QED
    BY <1>1, SessionsTyped, StoreSteps, ChainsStep, PTL DEF Spec

-----------------------------------------------------------------------------
(***************************************************************************)
(* Why a logout ends its session: the cookies of the browser and of its    *)
(* logouts come from answers, so they name rows that exist; and a row that *)
(* exists and is not valid never becomes valid again.                      *)
(***************************************************************************)
CookiesIssued ==
  /\ jar \in Rows \union {NoToken}
  /\ \A b \in Tabs : outCookie[b] \in Rows \union {NoToken}

LogoutInv == CookiesIssued /\ LogoutRevokesToken

LEMMA SpentStaysSpent ==
  ASSUME TypeOK, StoreStep
  PROVE  \A t \in Rows \union {NoToken} :
           t \in (Rows \union {NoToken})' /\ (Verifies(t)' => Verifies(t))
  <1>1. StoreTypeOK
    BY TypeParts
  <1>2. ASSUME NEW t \in Rows, Rotate(t) \/ Revoke(t) \/ Expire(t)
        PROVE  /\ issued <= issued'
               /\ \A s \in Rows : Valid(s)' => Valid(s)
    BY <1>1, <1>2, TokenSets DEF Rotate, Insert, Revoke, Expire, StoreTypeOK, Valid
  <1>3. CASE UNCHANGED storeVars \/ Issue
    BY <1>1, <1>3, TokenSets DEF Issue, Insert, storeVars, Rows, NoToken, Verifies, Valid
  <1>4. CASE \E t \in Rows : Rotate(t) \/ Revoke(t) \/ Expire(t)
    <2>1. issued <= issued' /\ \A s \in Rows : Valid(s)' => Valid(s)
      BY <1>2, <1>4
    <2>2. issued' \in Nat
      BY <1>1, <1>4, TokenSets DEF Rotate, Insert, Revoke, Expire
    <2>3. QED
      BY <1>1, <2>1, <2>2, TokenSets DEF Rows, NoToken, Verifies
  <1>5. QED
    BY <1>3, <1>4 DEF StoreStep

LEMMA LogoutInvStep == TypeOK /\ LogoutInv /\ [Next]_vars => LogoutInv'
  <1> SUFFICES ASSUME TypeOK, LogoutInv, [Next]_vars PROVE LogoutInv'
    OBVIOUS
  <1>1. StoreStep
    BY StoreSteps
  <1>2. \A t \in Rows \union {NoToken} :
          t \in (Rows \union {NoToken})' /\ (Verifies(t)' => Verifies(t))
    BY <1>1, SpentStaysSpent
  <1>3. ASSUME out' = out, outCookie' = outCookie, jar' \in Rows \union {NoToken}
        PROVE  LogoutInv'
    BY <1>2, <1>3 DEF LogoutInv, CookiesIssued, LogoutRevokesToken, Verifies, Valid
  <1>4. ASSUME NEW c \in Calls, Client(c) PROVE LogoutInv'
    <2>1. out' = out /\ outCookie' = outCookie
      BY <1>4 DEF Client, SendCall, CallAnswered, CallLost, MeFails, CallDenied, Bootstrap,
         RefreshOk, RefreshFailed, RefreshLost, logoutVars
    <2>2. jar' = jar \/ (call[c] = "renewed" /\ jar' = answer[c])
      BY <1>4 DEF Client, SendCall, CallAnswered, CallLost, MeFails, CallDenied, Bootstrap,
         RefreshOk, RefreshFailed, RefreshLost, tabVars
    <2>3. QED
      BY <1>3, <2>1, <2>2 DEF LogoutInv, CookiesIssued, TypeOK, RequestTypeOK
  <1>5. ASSUME NEW c \in Calls, Refresh(c) PROVE LogoutInv'
    BY <1>3, <1>5 DEF Refresh, Verify, RotateReads, RotateRefuses, RotateCommits,
       RefreshThrows, Refreshing, tabVars, logoutVars, LogoutInv, CookiesIssued
  <1>6. ASSUME NEW b \in Tabs, Tab(b) PROVE LogoutInv'
    BY <1>3, <1>6 DEF Tab, Reload, AccessExpires, logoutVars, LogoutInv, CookiesIssued
  <1>7. ASSUME NEW b \in Tabs, Logout(b) PROVE LogoutInv'
    <2>1. CookiesIssued'
      BY <1>2, <1>7 DEF LogoutInv, CookiesIssued, Logout, SendLogout, LogoutVerifies,
         LogoutReads, LogoutRevokes, LogoutThrows, LogoutAnswered, LogoutGivenUp,
         ForgetLogout, TypeOK
    <2>2. \A d \in Tabs \ {b} : out'[d] = out[d] /\ outCookie'[d] = outCookie[d]
      BY <1>7 DEF Logout, SendLogout, LogoutVerifies, LogoutReads, LogoutRevokes,
         LogoutThrows, LogoutAnswered, LogoutGivenUp, ForgetLogout, OutStep, TypeOK
    <2>3. out'[b] = "done" => outCookie'[b] = outCookie[b] /\ ~ Verifies(outCookie[b])'
      <3>1. CASE LogoutVerifies(b)
        BY <3>1, <1>2 DEF LogoutVerifies, OutStep, TypeOK, LogoutInv, CookiesIssued
      <3>2. CASE LogoutReads(b)
        <4>1. out'[b] = "done" => revoked[outCookie[b]] /\ outCookie[b] \in Rows
          BY <3>2 DEF LogoutReads, OutStep, TypeOK, RequestTypeOK
        <4>2. UNCHANGED <<outCookie, revoked>>
          BY <3>2 DEF LogoutReads, storeVars
        <4>3. QED
          BY <4>1, <4>2 DEF Verifies, Valid
      <3>3. CASE LogoutRevokes(b)
        <4>1. outCookie[b] \in Token
          BY <3>3, TokenSets, TypeParts DEF LogoutRevokes, OutStep, TypeOK, RequestTypeOK
        <4>2. revoked'[outCookie[b]] /\ outCookie' = outCookie
          BY <3>3, <4>1, TypeParts DEF LogoutRevokes, Revoke, StoreTypeOK
        <4>3. QED
          BY <4>2 DEF Verifies, Valid
      <3>4. CASE SendLogout(b) \/ LogoutThrows(b) \/ LogoutAnswered(b) \/ LogoutGivenUp(b)
        BY <3>4 DEF SendLogout, LogoutThrows, LogoutAnswered, LogoutGivenUp, OutStep, TypeOK
      <3>5. QED
        BY <1>7, <3>1, <3>2, <3>3, <3>4 DEF Logout
    <2>4. \A d \in Tabs \ {b} : out'[d] = "done" => ~ Verifies(outCookie[d])'
      BY <1>2, <2>2 DEF LogoutInv, CookiesIssued, LogoutRevokesToken
    <2>5. QED
      BY <2>1, <2>2, <2>3, <2>4 DEF LogoutInv, LogoutRevokesToken, Verifies, Valid
  <1>8. ASSUME NEW b \in Tabs, Login(b) PROVE LogoutInv'
    <2>1. out' = out /\ outCookie' = outCookie
      BY <1>8 DEF Login, SendLogin, LoginIssues, LoginAnswered, LoginFails, LoggingIn,
         logoutVars
    <2>2. jar' = jar \/ (login[b] = "done" /\ jar' = loginAnswer[b])
      BY <1>8 DEF Login, SendLogin, LoginIssues, LoginAnswered, LoginFails, LoginStep
    <2>3. QED
      BY <1>3, <2>1, <2>2 DEF LogoutInv, CookiesIssued, TypeOK, RequestTypeOK
  <1>9. ASSUME NEW t \in Token, TokenExpires(t) PROVE LogoutInv'
    BY <1>3, <1>9 DEF TokenExpires, tabVars, logoutVars, LogoutInv, CookiesIssued
  <1>10. CASE UNCHANGED vars
    BY <1>3, <1>10 DEF vars, tabVars, logoutVars, LogoutInv, CookiesIssued
  <1>11. QED
    BY <1>4, <1>5, <1>6, <1>7, <1>8, <1>9, <1>10 DEF Next

(***************************************************************************)
(* A logout that has been answered 204 leaves the token it presented       *)
(* unusable, whatever rotations, logins and other logouts ran beside it,   *)
(* although revoke() reads the row before the transaction that writes it.  *)
(***************************************************************************)
THEOREM LogoutEndsSession == Spec => []LogoutRevokesToken
  <1>1. Init => LogoutInv
    BY DEF Init, LogoutInv, CookiesIssued, LogoutRevokesToken
  <1>2. LogoutInv => LogoutRevokesToken
    BY DEF LogoutInv
  <1>3. QED
    BY <1>1, <1>2, SessionsTyped, LogoutInvStep, PTL DEF Spec
-----------------------------------------------------------------------------
(***************************************************************************)
(* Where a token can be.  It is seen once it has reached the jar, and from *)
(* there a request; before that one answer carries it, on its way to the   *)
(* browser, and nobody can spend it.                                       *)
(***************************************************************************)
Seen(t) ==
  \/ jar = t \/ revoked[t] \/ spentBy[t] # {}
  \/ \E c \in Calls : cookie[c] = t
  \/ \E b \in Tabs  : outCookie[b] = t

InAnswer(t) ==
  \/ \E c \in Calls : call[c] = "renewed" /\ answer[c] = t
  \/ \E b \in Tabs  : login[b] = "done" /\ loginAnswer[b] = t

UnseenAnswers ==
  \A t \in Token : (Seen(t) => t \in Rows) /\ ~(Seen(t) /\ InAnswer(t))

OneAnswer ==
  /\ \A c, d \in Calls :
       call[c] = "renewed" /\ call[d] = "renewed" /\ answer[c] = answer[d] => c = d
  /\ \A b, d \in Tabs :
       login[b] = "done" /\ login[d] = "done" /\ loginAnswer[b] = loginAnswer[d] => b = d
  /\ \A c \in Calls, b \in Tabs :
       call[c] = "renewed" /\ login[b] = "done" => answer[c] # loginAnswer[b]

TokensInv == UnseenAnswers /\ OneAnswer

AnswersKept ==
  /\ \A c \in Calls : call'[c] = "renewed" => call[c] = "renewed" /\ answer'[c] = answer[c]
  /\ \A b \in Tabs : login'[b] = "done" => login[b] = "done" /\ loginAnswer'[b] = loginAnswer[b]

\* A step that neither makes an answer nor brings one: tokens go from the jar
\* into requests, or are forgotten.
Passes ==
  /\ jar' \in {jar, NoToken}
  /\ \A c \in Calls : cookie'[c] \in {cookie[c], jar, NoToken}
  /\ \A b \in Tabs  : outCookie'[b] \in {outCookie[b], jar, NoToken}
  /\ \A t \in Token : revoked'[t] => revoked[t] \/ \E b \in Tabs : outCookie[b] = t
  /\ UNCHANGED <<issued, spentBy>>
  /\ AnswersKept

LEMMA TokenSteps ==
  ASSUME TypeOK, [Next]_vars
  PROVE  \/ Passes
         \/ \E c \in Calls : RotateCommits(c) \/ RefreshOk(c)
         \/ \E b \in Tabs  : LoginIssues(b) \/ LoginAnswered(b)
  <1> USE DEF Passes, AnswersKept
  <1>1. ASSUME NEW c \in Calls, Client(c), ~ RefreshOk(c) PROVE Passes
    <2>1. UNCHANGED <<storeVars, jar, spentBy, logoutVars, loginVars>>
      BY <1>1 DEF Client, SendCall, CallAnswered, CallLost, MeFails, CallDenied, Bootstrap,
         RefreshFailed, RefreshLost, tabVars, ghostVars
    <2>2. CASE SendCall(c) \/ CallAnswered(c) \/ CallLost(c) \/ MeFails(c)
      BY <2>1, <2>2 DEF SendCall, CallAnswered, CallLost, MeFails, Step, TypeOK, storeVars,
         logoutVars, loginVars
    <2>3. CASE CallDenied(c) \/ Bootstrap(c)
      BY <2>1, <2>3 DEF CallDenied, Bootstrap, TryRefresh, Step, TypeOK, storeVars,
         logoutVars, loginVars
    <2>4. CASE RefreshFailed(c) \/ RefreshLost(c)
      <3>1. Settle(c, "idle")
        BY <2>4 DEF RefreshFailed, RefreshLost
      <3>2. /\ \A d \in Calls : cookie'[d] \in {cookie[d], NoToken}
            /\ \A d \in Calls : call'[d] = "renewed" => call[d] = "renewed" /\ d # c
            /\ \A d \in Calls : d # c => answer'[d] = answer[d]
        BY <3>1 DEF Settle, TypeOK
      <3>3. QED
        BY <2>1, <3>2 DEF storeVars, logoutVars, loginVars
    <2>5. QED
      BY <1>1, <2>2, <2>3, <2>4 DEF Client
  <1>2. ASSUME NEW c \in Calls, Refresh(c), ~ RotateCommits(c) PROVE Passes
    <2>1. UNCHANGED <<storeVars, jar, cookie, answer, spentBy, logoutVars, loginVars>>
      BY <1>2 DEF Refresh, Verify, RotateReads, RotateRefuses, RefreshThrows, Refuse,
         Refreshing, tabVars
    <2>2. \A d \in Calls : call'[d] = "renewed" => call[d] = "renewed"
      BY <1>2 DEF Refresh, Verify, RotateReads, RotateRefuses, RefreshThrows, Step, TypeOK
    <2>3. QED
      BY <2>1, <2>2 DEF storeVars, logoutVars, loginVars
  <1>3. ASSUME NEW b \in Tabs, Tab(b) PROVE Passes
    BY <1>3 DEF Tab, Reload, AccessExpires, TypeOK, storeVars, callVars, logoutVars,
       loginVars, ghostVars
  <1>4. ASSUME NEW b \in Tabs, Logout(b) PROVE Passes
    <2>1. UNCHANGED <<callVars, loginVars, spentBy>> /\ UNCHANGED issued
      BY <1>4 DEF Logout, SendLogout, LogoutVerifies, LogoutReads, LogoutRevokes,
         LogoutThrows, LogoutAnswered, LogoutGivenUp, LoggingOut, Revoke, storeVars
    <2>2. /\ jar' \in {jar, NoToken}
          /\ \A d \in Tabs : outCookie'[d] \in {outCookie[d], jar, NoToken}
      BY <1>4 DEF Logout, SendLogout, LogoutVerifies, LogoutReads, LogoutRevokes,
         LogoutThrows, LogoutAnswered, LogoutGivenUp, ForgetLogout, TypeOK
    <2>3. \A t \in Token : revoked'[t] => revoked[t] \/ outCookie[b] = t
      BY <1>4 DEF Logout, SendLogout, LogoutVerifies, LogoutReads, LogoutRevokes,
         LogoutThrows, LogoutAnswered, LogoutGivenUp, Revoke, TypeOK, StoreTypeOK, storeVars
    <2>4. QED
      BY <2>1, <2>2, <2>3 DEF callVars, loginVars
  <1>5. ASSUME NEW b \in Tabs, Login(b), ~ LoginIssues(b), ~ LoginAnswered(b) PROVE Passes
    BY <1>5 DEF Login, SendLogin, LoginFails, LoginStep, ForgetLogin, LoggingIn, TypeOK,
       storeVars, callVars, logoutVars, ghostVars
  <1>6. ASSUME NEW t \in Token, TokenExpires(t) PROVE Passes
    BY <1>6 DEF TokenExpires, Expire, tabVars, callVars, logoutVars, loginVars, ghostVars
  <1>7. CASE UNCHANGED vars
    BY <1>7 DEF vars, storeVars, tabVars, callVars, logoutVars, loginVars, ghostVars
  <1>8. QED
    BY <1>1, <1>2, <1>3, <1>4, <1>5, <1>6, <1>7 DEF Next, Client, Refresh, Login

LEMMA TokensInvStep ==
  ASSUME TypeOK, TokensInv, LogoutInv, ChainsEnd, [Next]_vars
  PROVE  TokensInv'
  <1> USE DEF TokensInv
  <1>1. /\ StoreTypeOK /\ \A t \in Token : t \notin Rows => ~ revoked[t]
        /\ TypeOK' /\ \A t \in Rows : t \in Rows'
    <2>1. TypeOK' /\ StoreTypeOK /\ StoreStep
      BY TypeStep, TypeParts, StoreSteps
    <2>2. \A t \in Rows : t \in Rows'
      BY <2>1, SpentStaysSpent, TokenSets
    <2>3. QED
      BY <2>1, <2>2 DEF ChainsEnd, Valid
  <1>2. CASE Passes
    <2>1. \A t \in Token : Seen(t)' => Seen(t)
      BY <1>1, <1>2, TokenSets DEF Passes, Seen
    <2>2. \A t \in Token : InAnswer(t)' => InAnswer(t)
      BY <1>2 DEF Passes, AnswersKept, InAnswer
    <2>3. UnseenAnswers'
      BY <1>1, <2>1, <2>2 DEF UnseenAnswers
    <2>4. OneAnswer'
      BY <1>2 DEF Passes, AnswersKept, OneAnswer
    <2>5. QED
      BY <2>3, <2>4
  <1>3. ASSUME NEW c \in Calls, RotateCommits(c) PROVE TokensInv'
    <2> DEFINE new == issued + 1
    <2>1. /\ new \in Token /\ new \notin Rows /\ new \in Rows'
          /\ cookie[c] \in Token
      BY <1>1, <1>3, TokenSets DEF RotateCommits, Rotate, Insert, Step, Rows, Token, TypeOK,
         RequestTypeOK
    <2>2. /\ UNCHANGED <<jar, cookie, outCookie, login, loginAnswer>>
          /\ revoked' = [revoked EXCEPT ![cookie[c]] = TRUE]
          /\ spentBy' = [spentBy EXCEPT ![cookie[c]] = @ \union {TabOf[c]}]
          /\ call' = [call EXCEPT ![c] = "renewed"]
          /\ answer' = [answer EXCEPT ![c] = new]
      BY <1>3 DEF RotateCommits, Rotate, Step, Refreshing, tabVars, logoutVars, loginVars
    <2> HIDE DEF new
    <2>3. \A t \in Token : Seen(t)' => Seen(t)
      BY <1>1, <2>1, <2>2 DEF Seen, TypeOK, StoreTypeOK
    <2>4. \A t \in Token : InAnswer(t)' => InAnswer(t) \/ t = new
      BY <2>2 DEF InAnswer, TypeOK
    <2>5. UnseenAnswers'
      BY <1>1, <2>1, <2>3, <2>4 DEF UnseenAnswers
    <2>6. /\ \A d \in Calls : call[d] = "renewed" => answer[d] # new
          /\ \A b \in Tabs : login[b] = "done" => loginAnswer[b] # new
      BY <2>1 DEF TypeOK, RequestTypeOK
    <2>7. OneAnswer'
      BY <2>2, <2>6 DEF OneAnswer, TypeOK
    <2>8. QED
      BY <2>5, <2>7
  <1>4. ASSUME NEW b \in Tabs, LoginIssues(b) PROVE TokensInv'
    <2> DEFINE new == issued + 1
    <2>1. new \in Token /\ new \notin Rows /\ new \in Rows'
      BY <1>1, <1>4, TokenSets DEF LoginIssues, Issue, Insert, Rows, Token
    <2>2. /\ UNCHANGED <<jar, cookie, outCookie, call, answer, revoked, spentBy>>
          /\ login' = [login EXCEPT ![b] = "done"]
          /\ loginAnswer' = [loginAnswer EXCEPT ![b] = new]
      BY <1>4 DEF LoginIssues, Issue, LoginStep, LoggingIn, callVars, logoutVars, ghostVars
    <2> HIDE DEF new
    <2>3. \A t \in Token : Seen(t)' => Seen(t)
      BY <2>2 DEF Seen
    <2>4. \A t \in Token : InAnswer(t)' => InAnswer(t) \/ t = new
      BY <2>2 DEF InAnswer, TypeOK
    <2>5. UnseenAnswers'
      BY <1>1, <2>1, <2>3, <2>4 DEF UnseenAnswers
    <2>6. /\ \A d \in Calls : call[d] = "renewed" => answer[d] # new
          /\ \A d \in Tabs : login[d] = "done" => loginAnswer[d] # new
      BY <2>1 DEF TypeOK, RequestTypeOK
    <2>7. OneAnswer'
      BY <2>2, <2>6 DEF OneAnswer, TypeOK
    <2>8. QED
      BY <2>5, <2>7
  <1>5. ASSUME NEW c \in Calls, RefreshOk(c) PROVE TokensInv'
    <2> DEFINE new == answer[c]
    <2>1. /\ call[c] = "renewed" /\ new \in Rows /\ jar' = new
          /\ UNCHANGED <<issued, revoked, spentBy, outCookie, login, loginAnswer>>
          /\ \A d \in Calls : cookie'[d] \in {cookie[d], NoToken}
          /\ \A d \in Calls : call'[d] = "renewed" =>
               call[d] = "renewed" /\ d # c /\ answer'[d] = answer[d]
      BY <1>5 DEF RefreshOk, Settle, TypeOK, RequestTypeOK, storeVars, logoutVars, loginVars,
         ghostVars
    <2>2. \A t \in Token : Seen(t)' => Seen(t) \/ t = new
      BY <1>1, <2>1, TokenSets DEF Seen
    <2>3. \A t \in Token : InAnswer(t)' => InAnswer(t) /\ t # new
      BY <2>1 DEF InAnswer, OneAnswer
    <2>4. UnseenAnswers'
      BY <1>1, <2>1, <2>2, <2>3 DEF UnseenAnswers
    <2>5. OneAnswer'
      BY <2>1 DEF OneAnswer
    <2>6. QED
      BY <2>4, <2>5
  <1>6. ASSUME NEW b \in Tabs, LoginAnswered(b) PROVE TokensInv'
    <2> DEFINE new == loginAnswer[b]
    <2>1. /\ login[b] = "done" /\ new \in Rows /\ jar' = new
          /\ UNCHANGED <<issued, revoked, spentBy, cookie, outCookie, call, answer>>
          /\ \A d \in Tabs : login'[d] = "done" =>
               login[d] = "done" /\ d # b /\ loginAnswer'[d] = loginAnswer[d]
      BY <1>6 DEF LoginAnswered, LoginStep, ForgetLogin, LoggingIn, TypeOK, RequestTypeOK,
         storeVars, callVars, logoutVars, ghostVars
    <2>2. \A t \in Token : Seen(t)' => Seen(t) \/ t = new
      BY <2>1 DEF Seen
    <2>3. \A t \in Token : InAnswer(t)' => InAnswer(t) /\ t # new
      BY <2>1 DEF InAnswer, OneAnswer
    <2>4. UnseenAnswers'
      BY <1>1, <2>1, <2>2, <2>3 DEF UnseenAnswers
    <2>5. OneAnswer'
      BY <2>1 DEF OneAnswer
    <2>6. QED
      BY <2>4, <2>5
  <1>7. QED
    BY <1>2, <1>3, <1>4, <1>5, <1>6, TokenSteps

-----------------------------------------------------------------------------
LEMMA TokensStart == Init => TokensInv /\ LogoutInv /\ ChainsEnd
  <1> SUFFICES ASSUME Init PROVE TokensInv /\ LogoutInv /\ ChainsEnd
    OBVIOUS
  <1> USE TokensAssumption DEF Init, StoreInit
  <1>1. TokensInv
    BY DEF TokensInv, UnseenAnswers, OneAnswer, Seen, InAnswer, Token, NoToken
  <1>2. LogoutInv
    BY DEF LogoutInv, CookiesIssued, LogoutRevokesToken
  <1>3. ChainsEnd
    BY DEF ChainsEnd, Valid, Reused
  <1>4. QED
    BY <1>1, <1>2, <1>3

LEMMA ChainsAlways == TypeOK /\ ChainsEnd /\ [Next]_vars => ChainsEnd'
  BY StoreSteps, ChainsStep

-----------------------------------------------------------------------------
(***************************************************************************)
(* What one promise per tab gives.  OneRefresh: a tab has one refresh      *)
(* under way, that of the call which inFlight names.  JarReplaced: a token *)
(* that a tab has spent leaves the jar with the answer of that refresh.    *)
(* PresentsUnspent: so the tab presents no token that it has spent.        *)
(***************************************************************************)
Refreshes == {"verify", "rotate", "commit", "renewed", "refused"}

OneRefresh ==
  \A c \in Calls : call[c] \in Refreshes => inFlight[TabOf[c]] = c

JarReplaced ==
  \A t \in Token : \A b \in spentBy[t] :
    lost \/ jar # t \/ \E c \in CallsOf(b) : call[c] = "renewed" /\ cookie[c] = t

PresentsUnspent ==
  \A c \in Calls :
    call[c] \in Refreshes \ {"renewed"} /\ cookie[c] # NoToken =>
      lost \/ TabOf[c] \notin spentBy[cookie[c]]

OwnTabInv == OneRefresh /\ JarReplaced /\ PresentsUnspent

\* A step that starts no refresh and brings no token.
LEMMA OwnTabKept ==
  ASSUME TypeOK, OwnTabInv, jar' \in {jar, NoToken}, spentBy' = spentBy, lost => lost',
         \A c \in Calls :
           /\ call'[c] \in Refreshes => /\ call[c] \in Refreshes
                                        /\ cookie'[c] = cookie[c]
                                        /\ inFlight'[TabOf[c]] = inFlight[TabOf[c]]
                                        /\ call'[c] # "renewed" => call[c] # "renewed" \/ lost'
           /\ call[c] = "renewed" => lost' \/ (call'[c] = "renewed" /\ cookie'[c] = cookie[c])
  PROVE  OwnTabInv'
  <1>1. OneRefresh'
    BY DEF OwnTabInv, OneRefresh
  <1>2. JarReplaced'
    BY DEF OwnTabInv, JarReplaced, CallsOf, Token, NoToken
  <1>3. PresentsUnspent'
    BY DEF OwnTabInv, PresentsUnspent
  <1>4. QED
    BY <1>1, <1>2, <1>3 DEF OwnTabInv

LEMMA OwnTabStep ==
  ASSUME TypeOK, TokensInv, LogoutInv, OwnTabInv, [Next]_vars
  PROVE  OwnTabInv'
  <1>0. StoreTypeOK /\ \A c \in Calls : TabOf[c] \in Tabs
    BY TypeParts, SessionsAssumption
  <1>1. ASSUME NEW c \in Calls, SendCall(c) \/ CallAnswered(c) \/ CallLost(c) \/ MeFails(c)
        PROVE  OwnTabInv'
    <2>1. UNCHANGED <<jar, spentBy, lost, inFlight, cookie>>
      BY <1>1 DEF SendCall, CallAnswered, CallLost, MeFails, tabVars, ghostVars
    <2>2. /\ call[c] \notin Refreshes /\ call'[c] \notin Refreshes
          /\ \A d \in Calls : d # c => call'[d] = call[d]
      BY <1>1 DEF SendCall, CallAnswered, CallLost, MeFails, Step, Refreshes, TypeOK
    <2>3. QED
      BY <2>1, <2>2, OwnTabKept DEF Refreshes
  <1>2. ASSUME NEW c \in Calls, CallDenied(c) \/ Bootstrap(c) PROVE OwnTabInv'
    <2> DEFINE b == TabOf[c]
    <2>1. UNCHANGED <<jar, spentBy, lost>> /\ call[c] \notin Refreshes
      BY <1>2 DEF CallDenied, Bootstrap, TryRefresh, Step, ghostVars, Refreshes
    <2>2. \A d \in Calls : d # c => call'[d] = call[d]
      BY <1>2 DEF CallDenied, Bootstrap, TryRefresh, Step, TypeOK
    <2>3. CASE inFlight[b] # NoCall
      <3>1. UNCHANGED <<inFlight, cookie>> /\ call'[c] \notin Refreshes
        BY <1>2, <2>3 DEF CallDenied, Bootstrap, TryRefresh, Step, TypeOK, Refreshes
      <3>2. QED
        BY <2>1, <2>2, <3>1, OwnTabKept DEF Refreshes
    <2>4. CASE inFlight[b] = NoCall
      <3>1. /\ call'[c] = "verify"
            /\ inFlight' = [inFlight EXCEPT ![b] = c]
            /\ cookie'   = [cookie EXCEPT ![c] = jar]
        BY <1>2, <2>4 DEF CallDenied, Bootstrap, TryRefresh, Step, TypeOK
      <3>2. \A d \in CallsOf(b) : call[d] \notin Refreshes
        BY <2>4, SessionsAssumption DEF OwnTabInv, OneRefresh, CallsOf
      <3>3. OneRefresh'
        BY <1>0, <2>2, <3>1, <3>2 DEF OwnTabInv, OneRefresh, CallsOf, TypeOK
      <3>4. \A d \in Calls : d # c => cookie'[d] = cookie[d]
        BY <3>1 DEF TypeOK
      <3>5. JarReplaced'
        BY <2>1, <2>2, <3>4 DEF OwnTabInv, JarReplaced, CallsOf, Refreshes
      <3>6. jar # NoToken => lost \/ b \notin spentBy[jar]
        BY <3>2 DEF OwnTabInv, JarReplaced, TypeOK, Refreshes
      <3>7. PresentsUnspent'
        BY <2>1, <2>2, <3>1, <3>4, <3>6 DEF OwnTabInv, PresentsUnspent, TypeOK
      <3>8. QED
        BY <3>3, <3>5, <3>7 DEF OwnTabInv
    <2>5. QED
      BY <2>3, <2>4
  <1>3. ASSUME NEW c \in Calls, NEW to \in {"retry", "idle"}, Settle(c, to),
               call[c] \in Refreshes
        PROVE  /\ OneRefresh'
               /\ \A d \in Calls : call'[d] \in Refreshes =>
                    d # c /\ call'[d] = call[d] /\ cookie'[d] = cookie[d]
               /\ \A d \in Calls : call[d] = "renewed" /\ d # c =>
                    call'[d] = "renewed" /\ cookie'[d] = cookie[d]
    <2>1. \A d \in Calls : call'[d] \in Refreshes =>
            d # c /\ call'[d] = call[d] /\ cookie'[d] = cookie[d]
      BY <1>3 DEF Settle, TypeOK, Refreshes
    <2>2. \A d \in Calls : call[d] = "renewed" /\ d # c =>
            call'[d] = "renewed" /\ cookie'[d] = cookie[d]
      BY <1>3 DEF Settle, TypeOK
    <2>3. \A d \in Calls : call'[d] \in Refreshes => TabOf[d] # TabOf[c]
      BY <1>3, <2>1 DEF OwnTabInv, OneRefresh
    <2>4. QED
      BY <1>0, <1>3, <2>1, <2>2, <2>3 DEF OwnTabInv, OneRefresh, Settle, TypeOK
  <1>4. ASSUME NEW c \in Calls, RefreshFailed(c) \/ RefreshLost(c) PROVE OwnTabInv'
    <2>1. /\ Settle(c, "idle") /\ call[c] \in Refreshes
          /\ UNCHANGED <<jar, spentBy>> /\ (lost => lost')
          /\ call[c] = "renewed" => lost'
      <3>1. CASE RefreshFailed(c)
        BY <3>1 DEF RefreshFailed, ghostVars, Refreshes
      <3>2. CASE RefreshLost(c)
        BY <3>2 DEF RefreshLost, Refreshes
      <3>3. QED
        BY <1>4, <3>1, <3>2
    <2>2. JarReplaced'
      BY <1>3, <2>1 DEF OwnTabInv, JarReplaced, CallsOf
    <2>3. PresentsUnspent'
      BY <1>3, <2>1 DEF OwnTabInv, PresentsUnspent
    <2>4. QED
      BY <1>3, <2>1, <2>2, <2>3 DEF OwnTabInv
  <1>5. ASSUME NEW c \in Calls, RefreshOk(c) PROVE OwnTabInv'
    <2>1. /\ Settle(c, "retry") /\ call[c] \in Refreshes
          /\ jar' = answer[c] /\ UNCHANGED <<spentBy, lost>>
      BY <1>5 DEF RefreshOk, ghostVars, Refreshes
    <2>2. InAnswer(answer[c]) /\ answer[c] \in Token
      BY <1>0, <1>5, TokenSets DEF RefreshOk, InAnswer, TypeOK, RequestTypeOK
    <2>3. spentBy[answer[c]] = {}
      BY <2>2 DEF TokensInv, UnseenAnswers, Seen
    <2>4. JarReplaced'
      BY <2>1, <2>3 DEF JarReplaced
    <2>5. PresentsUnspent'
      BY <1>3, <2>1 DEF OwnTabInv, PresentsUnspent
    <2>6. QED
      BY <1>3, <2>1, <2>4, <2>5 DEF OwnTabInv
  <1>6. ASSUME NEW c \in Calls, Refresh(c), ~ RotateCommits(c) PROVE OwnTabInv'
    <2>1. UNCHANGED <<jar, inFlight, cookie, spentBy>>
      BY <1>6 DEF Refresh, Verify, RotateReads, RotateRefuses, RefreshThrows, Refreshing,
         tabVars
    <2>2. /\ call[c] \in Refreshes /\ call'[c] # "renewed"
          /\ \A d \in Calls : d # c => call'[d] = call[d]
      BY <1>6 DEF Refresh, Verify, RotateReads, RotateRefuses, RefreshThrows, Step, Refreshes,
         TypeOK
    <2>3. (lost => lost') /\ (call[c] = "renewed" => lost')
      <3>1. CASE RefreshThrows(c)
        BY <3>1 DEF RefreshThrows
      <3>2. CASE ~ RefreshThrows(c)
        BY <1>6, <3>2 DEF Refresh, Verify, RotateReads, RotateRefuses, Refreshing, Step
      <3>3. QED
        BY <3>1, <3>2
    <2>4. QED
      BY <2>1, <2>2, <2>3, OwnTabKept
  <1>7. ASSUME NEW c \in Calls, RotateCommits(c) PROVE OwnTabInv'
    <2>1. /\ UNCHANGED <<jar, inFlight, cookie, lost>>
          /\ call[c] = "commit" /\ call' = [call EXCEPT ![c] = "renewed"]
          /\ spentBy' = [spentBy EXCEPT ![cookie[c]] = @ \union {TabOf[c]}]
          /\ cookie[c] \in Token
      BY <1>0, <1>7, TokenSets DEF RotateCommits, Step, Refreshing, tabVars, TypeOK,
         RequestTypeOK
    <2>2. OneRefresh'
      BY <2>1 DEF OwnTabInv, OneRefresh, Refreshes, TypeOK
    <2>3. JarReplaced'
      BY <2>1 DEF OwnTabInv, JarReplaced, CallsOf, TypeOK
    <2>4. \A d \in Calls : call[d] \in Refreshes /\ TabOf[d] = TabOf[c] => d = c
      BY <2>1 DEF OwnTabInv, OneRefresh, Refreshes
    <2>5. \A d \in Calls : call'[d] \in Refreshes \ {"renewed"} =>
            call[d] \in Refreshes \ {"renewed"} /\ TabOf[d] # TabOf[c]
      BY <2>1, <2>4 DEF TypeOK
    <2>6. PresentsUnspent'
      BY <2>1, <2>5 DEF OwnTabInv, PresentsUnspent, TypeOK
    <2>7. QED
      BY <2>2, <2>3, <2>6 DEF OwnTabInv
  <1>8. ASSUME NEW b \in Tabs, Tab(b) PROVE OwnTabInv'
    <2>1. UNCHANGED <<jar, inFlight, cookie, spentBy, lost>>
      BY <1>8 DEF Tab, Reload, AccessExpires, callVars, ghostVars
    <2>2. \A c \in Calls : call'[c] = call[c] \/ {call[c], call'[c]} \subseteq {"sent", "stale"}
      BY <1>8 DEF Tab, Reload, AccessExpires, callVars, TypeOK
    <2>3. QED
      BY <2>1, <2>2, OwnTabKept DEF Refreshes
  <1>9. ASSUME NEW b \in Tabs, Logout(b) PROVE OwnTabInv'
    <2>1. UNCHANGED <<inFlight, call, cookie, spentBy>> /\ jar' \in {jar, NoToken}
      BY <1>9 DEF Logout, SendLogout, LogoutVerifies, LogoutReads, LogoutRevokes,
         LogoutThrows, LogoutAnswered, LogoutGivenUp, LoggingOut, callVars
    <2>2. lost => lost'
      <3>1. CASE LogoutThrows(b) \/ LogoutGivenUp(b)
        BY <3>1 DEF LogoutThrows, LogoutGivenUp
      <3>2. CASE ~ (LogoutThrows(b) \/ LogoutGivenUp(b))
        BY <1>9, <3>2 DEF Logout, SendLogout, LogoutVerifies, LogoutReads, LogoutRevokes,
           LogoutAnswered
      <3>3. QED
        BY <3>1, <3>2
    <2>3. QED
      BY <2>1, <2>2, OwnTabKept DEF Refreshes
  <1>10. ASSUME NEW b \in Tabs, Login(b), ~ LoginAnswered(b) PROVE OwnTabInv'
    <2>1. UNCHANGED <<jar, inFlight, call, cookie, spentBy, lost>>
      BY <1>10 DEF Login, SendLogin, LoginIssues, LoginFails, LoggingIn, callVars, ghostVars
    <2>2. QED
      BY <2>1, OwnTabKept DEF Refreshes
  <1>11. ASSUME NEW b \in Tabs, LoginAnswered(b) PROVE OwnTabInv'
    <2>1. /\ jar' = loginAnswer[b]
          /\ UNCHANGED <<inFlight, call, cookie, spentBy, lost>>
      BY <1>11 DEF LoginAnswered, LoggingIn, callVars, ghostVars
    <2>2. InAnswer(loginAnswer[b]) /\ loginAnswer[b] \in Token
      BY <1>0, <1>11, TokenSets DEF LoginAnswered, LoginStep, InAnswer, TypeOK, RequestTypeOK
    <2>3. spentBy[loginAnswer[b]] = {}
      BY <2>2 DEF TokensInv, UnseenAnswers, Seen
    <2>4. QED
      BY <2>1, <2>3 DEF OwnTabInv, OneRefresh, JarReplaced, PresentsUnspent
  <1>12. CASE (\E t \in Token : TokenExpires(t)) \/ UNCHANGED vars
    <2>1. UNCHANGED <<jar, inFlight, call, cookie, spentBy, lost>>
      BY <1>12 DEF TokenExpires, vars, tabVars, callVars, ghostVars
    <2>2. QED
      BY <2>1, OwnTabKept DEF Refreshes
  <1>13. QED
    BY <1>1, <1>2, <1>4, <1>5, <1>6, <1>7, <1>8, <1>9, <1>10, <1>11, <1>12
       DEF Next, Client, Refresh, Login

LEMMA OwnTabAlways ==
  Spec => [](TypeOK /\ LogoutInv /\ ChainsEnd /\ TokensInv /\ OwnTabInv)
  <1>1. Init => OwnTabInv
    BY DEF Init, OwnTabInv, OneRefresh, JarReplaced, PresentsUnspent, Refreshes
  <1>2. QED
    BY <1>1, SessionsTyped, TokensStart, LogoutInvStep, ChainsAlways, TokensInvStep, OwnTabStep,
       PTL DEF Spec

(***************************************************************************)
(* A refresh is never refused because its own tab has spent the token: of  *)
(* the calls of a tab one refreshes and the others share its promise.      *)
(***************************************************************************)
THEOREM OwnTabRefused == Spec => []NeverRefusedByOwnTab
  <1>1. OwnTabInv => NeverRefusedByOwnTab
    BY DEF OwnTabInv, PresentsUnspent, NeverRefusedByOwnTab, Refreshes
  <1>2. QED
    BY <1>1, OwnTabAlways, PTL

-----------------------------------------------------------------------------
\* A token is exchanged only by a rotation, which some tab has asked for.
ExchangedIsSpent == \A t \in Token : Reused(t) => spentBy[t] # {}

LEMMA ExchangedStep ==
  ASSUME TypeOK, ExchangedIsSpent, [Next]_vars
  PROVE  ExchangedIsSpent'
  <1> USE DEF ExchangedIsSpent, Reused
  <1>1. ASSUME NEW c \in Calls, RotateCommits(c) PROVE ExchangedIsSpent'
    BY <1>1, TypeParts DEF RotateCommits, Rotate, TypeOK, StoreTypeOK
  <1>2. CASE UNCHANGED <<replacedBy, spentBy>>
    BY <1>2
  <1>3. ASSUME NEW c \in Calls, Client(c) \/ (Refresh(c) /\ ~ RotateCommits(c))
        PROVE  UNCHANGED <<replacedBy, spentBy>>
    BY <1>3 DEF Client, SendCall, CallAnswered, CallLost, MeFails, CallDenied, Bootstrap,
       RefreshOk, RefreshFailed, RefreshLost, Refresh, Verify, RotateReads, RotateRefuses,
       Refuse, RefreshThrows, storeVars, ghostVars
  <1>4. ASSUME NEW b \in Tabs, Tab(b) \/ Logout(b) \/ Login(b)
        PROVE  UNCHANGED <<replacedBy, spentBy>>
    <2>1. CASE Tab(b) \/ Login(b)
      BY <2>1 DEF Tab, Reload, AccessExpires, Login, SendLogin, LoginIssues, LoginAnswered,
         LoginFails, LoggingIn, Issue, storeVars, ghostVars
    <2>2. CASE Logout(b)
      BY <2>2 DEF Logout, SendLogout, LogoutVerifies, LogoutReads, LogoutRevokes, LogoutThrows,
         LogoutAnswered, LogoutGivenUp, LoggingOut, Revoke, storeVars
    <2>3. QED
      BY <1>4, <2>1, <2>2
  <1>5. CASE (\E t \in Token : TokenExpires(t)) \/ UNCHANGED vars
    BY <1>2, <1>5 DEF TokenExpires, Expire, vars, storeVars, ghostVars
  <1>6. QED
    BY <1>1, <1>2, <1>3, <1>4, <1>5 DEF Next

(***************************************************************************)
(* Tabs that refresh, log out and log in at the same time never leave the  *)
(* browser with a token that has been exchanged, unless the answer with    *)
(* its successor was lost: each tab that has spent the token in the jar    *)
(* has that answer on its way.                                             *)
(***************************************************************************)
THEOREM JarIsCurrent == Spec => []CookieCurrent
  <1>1. Init => ExchangedIsSpent
    BY TokensAssumption DEF Init, StoreInit, ExchangedIsSpent, Reused
  <1>2. TypeOK /\ OwnTabInv /\ ExchangedIsSpent => CookieCurrent
    BY DEF TypeOK, OwnTabInv, JarReplaced, ExchangedIsSpent, CookieCurrent, CallsOf
  <1>3. QED
    BY <1>1, <1>2, ExchangedStep, OwnTabAlways, PTL DEF Spec
=============================================================================
