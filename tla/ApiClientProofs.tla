--------------------------- MODULE ApiClientProofs ---------------------------
(***************************************************************************)
(* Proofs about ApiClient, for every number of tabs, requests, calls and   *)
(* tokens, with or without faults: a browser uses the server as            *)
(* AuthSession says, no request waits without a refresh, and no page is    *)
(* sent to /login for nothing.                                             *)
(***************************************************************************)
EXTENDS AuthSessionProofs

(* The browser holds a token it was given.                                 *)
CookieIssued == cookie \in Tokens => ~Unused(cookie)

(* A slot without a call has nothing left of the last one.                 *)
IdleIsEmpty == \A h \in Calls : call[h].step = "idle" => call[h] = Idle

(* A tab is refreshing exactly while one call, and no other, does it.      *)
Refreshes(h) ==
  \/ call[h].step \in RefreshSteps \cup {"refused", "failed"}
  \/ call[h].step = "pair" /\ call[h].token # NoToken

TabsRefresh ==
  /\ \A b \in Tabs :
       /\ failedQueue[b] # {} => isRefreshing[b]
       /\ isRefreshing[b] => \E h \in Calls : caller[h] = b /\ Refreshes(h)
  /\ \A h \in Calls : Refreshes(h) /\ caller[h] \in Tabs =>
       /\ isRefreshing[caller[h]]
       /\ \A g \in Calls : Refreshes(g) /\ caller[g] = caller[h] => g = h

(* The queue of a tab is made of its requests that wait.                   *)
Waiters ==
  \A q \in Reqs :
    /\ \A b \in Tabs : q \in failedQueue[b] <=> b = TabOf[q] /\ req[q].step = "queued"
    /\ req[q].step = "refreshing" => isRefreshing[TabOf[q]]

(* The end of a login is known to have a reason.                           *)
Excused(t) == origin[t] \in excused

(* A token that was given out can be exchanged, now or when the refresh    *)
(* under way has named its successor, or its login has ended.              *)
Exchangeable(t) ==
  \/ t \in sessions \ expired
  \/ recent[t] # NoToken
  \/ \E h \in Calls : call[h].step \in {"create", "writeRecent"} /\ call[h].token = t

(* What a call knows of the token it presents.                             *)
CallReason(h) ==
  LET t == call[h].token IN
  /\ call[h].step \in {"findSession", "deleteOld"} =>
       Excused(t) \/ t \in sessions \ expired
  /\ call[h].step \in {"deleteExpired", "lookAgain"} \cup LogoutSteps => Excused(t)
  /\ call[h].step \in {"refused", "failed"} /\ t # NoToken => Excused(t)
  /\ call[h].step \in RefreshSteps =>
       \A g \in Calls : call[g].step \in RefreshSteps /\ call[g].token = t =>
         g = h \/ Excused(t)

Reasons ==
  /\ \A t \in expired : ~Unused(t)
  /\ \A t \in Tokens : Unused(t) \/ Excused(t) \/ Exchangeable(t)
  /\ \A h \in Calls : CallReason(h)

ClientInv ==
  /\ SessionInv
  /\ ClientTypeOK
  /\ CookieIssued
  /\ IdleIsEmpty
  /\ TabsRefresh
  /\ Waiters
  /\ Reasons

-----------------------------------------------------------------------------
(* The browser and the server                                              *)

(* Every step of the browser is a request the server may get, the answer   *)
(* to one, or no step of the server.                                       *)
LEMMA ServerSide ==
  ASSUME ClientTypeOK, CookieIssued, [ClientNext]_vars
  PROVE  [Next]_serverVars
<1>1. ASSUME NEW q \in Reqs, Send(q) \/ Serve(q) PROVE UNCHANGED serverVars
  BY <1>1 DEF Send, Serve, serverVars
<1>2. ASSUME NEW q \in Reqs, Unauthorized(q) PROVE [Next]_serverVars
  <2>1. CASE FailAgain(q) \/ WaitForRefresh(q)
    BY <2>1 DEF FailAgain, WaitForRefresh, serverVars
  <2>2. ASSUME NEW h \in Calls, StartRefresh(q, h) PROVE Next
    BY <2>2 DEF StartRefresh, ClientTypeOK, CookieIssued, Next, Presents
  <2> QED BY <1>2, <2>1, <2>2 DEF Unauthorized
<1>3. ASSUME NEW h \in Calls, ServerStep(h) \/ ServerFails(h) PROVE Next
  BY <1>3 DEF ServerStep, ServerFails, Next
<1>4. ASSUME NEW h \in Calls,
             \/ Refreshed(h) \/ RefreshRefused(h) \/ RefreshLost(h)
             \/ SignedIn(h) \/ LoggedOut(h) \/ Discard(h)
      PROVE  Next
  BY <1>4 DEF Refreshed, RefreshRefused, RefreshLost, RefreshFails, SignedIn, LoggedOut,
              Discard, Next
<1>5. ASSUME NEW h \in Calls, NEW b \in Tabs, SignIn(b, h) \/ Logout(b, h) PROVE Next
  BY <1>5 DEF SignIn, Logout, ClientTypeOK, CookieIssued, Next, Presents
<1>6. ASSUME NEW b \in Tabs, Visit(b) \/ Reload(b) PROVE UNCHANGED serverVars
  BY <1>6 DEF Visit, Reload, serverVars
<1>7. ASSUME NEW t \in Tokens, Time(t) PROVE Next
  BY <1>7 DEF Time, Next
<1>8. CASE UNCHANGED vars
  BY <1>8 DEF vars, serverVars
<1> QED BY <1>1, <1>2, <1>3, <1>4, <1>5, <1>6, <1>7, <1>8 DEF ClientNext

(* A token that was given out keeps its login.                             *)
LEMMA OriginKept ==
  ASSUME SessionInv, [Next]_serverVars, NEW t \in Tokens, ~Unused(t)
  PROVE  origin'[t] = origin[t] /\ ~Unused(t)'
<1>1. [Chain!Next]_<<Live, origin>>
  BY SessionStep
<1> QED
  BY <1>1 DEF Chain!Next, Chain!Login, Chain!End, Chain!Rotate, Chain!Unused, Unused,
              SessionInv, TypeOK

(* What an answer, a step of the server and a new request do to a call.    *)
LEMMA AnsweredMoves ==
  ASSUME TypeOK, NEW h \in Calls, Answered(h)
  PROVE  /\ call[h].step \in Answers /\ call[h].new \in MaybeToken
         /\ call'[h] = Idle
         /\ \A g \in Calls : g # h => call'[g] = call[g]
         /\ UNCHANGED <<sessions, expired, origin, recent, denied, outdated>>
BY DEF Answered, TypeOK, CallRecords

(* A step of a request touches no other, and leaves it a request.         *)
LEMMA HandledMoves ==
  ASSUME SessionInv, NEW h \in Calls, Handle(h) \/ Fail(h)
  PROVE  /\ call'[h].token = call[h].token /\ call[h].token \in Tokens
         /\ \A g \in Calls : g # h => call'[g] = call[g]
         /\ Refreshes(h) <=> Refreshes(h)'
         /\ call'[h].step # "idle"
<1>1. call \in [Calls -> CallRecords] /\ call[h].step \in RefreshSteps \cup LogoutSteps
  BY DEF SessionInv, TypeOK, Handle, LookRecent, FindSession, DeleteExpired, DeleteOld,
         LookAgain, CreateNew, WriteRecent, LogoutDelete, LogoutDeny, Fail, At,
         RefreshSteps, LogoutSteps
<1>2. call[h].token \in Tokens
  BY <1>1 DEF SessionInv, TokensIssued
<1>3. \A g \in Calls : g # h => call'[g] = call[g]
  BY <1>1 DEF Handle, LookRecent, FindSession, DeleteExpired, DeleteOld, LookAgain,
         CreateNew, WriteRecent, LogoutDelete, LogoutDeny, Fail, Goto, AnswerPair
<1>4. call'[h].token = call[h].token
  BY <1>1 DEF Handle, LookRecent, FindSession, DeleteExpired, DeleteOld, LookAgain,
         CreateNew, WriteRecent, LogoutDelete, LogoutDeny, Fail, Goto, AnswerPair,
         CallRecords
<1>5. \/ /\ call[h].step \in RefreshSteps
         /\ call'[h].step \in RefreshSteps \cup {"pair", "refused", "failed"}
      \/ /\ call[h].step \in LogoutSteps
         /\ call'[h].step \in LogoutSteps \cup {"loggedOut", "logoutFailed"}
  BY <1>1 DEF Handle, LookRecent, FindSession, DeleteExpired, DeleteOld, LookAgain,
         CreateNew, WriteRecent, LogoutDelete, LogoutDeny, Fail, Goto, AnswerPair,
         CallRecords, At, RefreshSteps, LogoutSteps
<1>6. Refreshes(h) <=> Refreshes(h)'
  BY <1>2, <1>4, <1>5, AuthAssumption DEF Refreshes, RefreshSteps, LogoutSteps
<1>7. call'[h].step # "idle"
  BY <1>5 DEF RefreshSteps, LogoutSteps
<1> QED BY <1>2, <1>3, <1>4, <1>6, <1>7

(* A login begins in an empty slot.                                        *)
LEMMA LoginMoves ==
  ASSUME TypeOK, NEW h \in Calls, Login(h)
  PROVE  /\ call[h].step = "idle"
         /\ call'[h].step = "pair" /\ call'[h].token = call[h].token
         /\ \A g \in Calls : g # h => call'[g] = call[g]
BY DEF Login, AnswerPair, At, TypeOK, CallRecords

(* A slot is emptied when its answer has been given.                       *)
LEMMA IdleStep ==
  ASSUME SessionInv, IdleIsEmpty, [Next]_serverVars
  PROVE  IdleIsEmpty'
<1>0. TypeOK
  BY DEF SessionInv
<1>1. ASSUME NEW h \in Calls, Handle(h) \/ Fail(h) PROVE IdleIsEmpty'
  <2>1. call'[h].step # "idle" /\ \A g \in Calls : g # h => call'[g] = call[g]
    BY <1>1, HandledMoves
  <2> QED BY <2>1 DEF IdleIsEmpty, Idle
<1>2. ASSUME NEW h \in Calls, Login(h) \/ Answered(h) PROVE IdleIsEmpty'
  BY <1>0, <1>2, LoginMoves, AnsweredMoves DEF IdleIsEmpty, Idle
<1>3. ASSUME NEW h \in Calls, NEW t \in MaybeToken, Presents(h, t) PROVE IdleIsEmpty'
  BY <1>0, <1>3 DEF Presents, BeginRefresh, BeginLogout, Begin, IdleIsEmpty, Idle, TypeOK
<1>4. CASE UNCHANGED call
  BY <1>4 DEF IdleIsEmpty, Idle
<1> QED
  BY <1>1, <1>2, <1>3, <1>4
     DEF Next, SessionExpires, AccessExpires, RecentExpires, serverVars

-----------------------------------------------------------------------------
(* The requests keep their type, whatever happens to a set of them.        *)
LEMMA ReqType ==
  ASSUME req \in [Reqs -> ReqRecords], NEW Q,
         \/ UNCHANGED req
         \/ \E s \in ReqSteps : Settle(Q, s)
         \/ \E pair \in MaybeToken : Resend(Q, pair)
         \/ \E q \in Reqs, k \in ReqRecords : req' = [req EXCEPT ![q] = k]
  PROVE  req' \in [Reqs -> ReqRecords]
<1>1. ASSUME NEW s \in ReqSteps, NEW q \in Reqs
      PROVE  [req[q] EXCEPT !.step = s] \in ReqRecords
  BY DEF ReqRecords
<1>2. ASSUME NEW pair \in MaybeToken
      PROVE  [step |-> "sent", retry |-> TRUE, access |-> pair] \in ReqRecords
  BY DEF ReqRecords, ReqSteps
<1>3. ASSUME NEW s \in ReqSteps, Settle(Q, s) PROVE req' \in [Reqs -> ReqRecords]
  BY <1>1, <1>3 DEF Settle
<1>4. ASSUME NEW pair \in MaybeToken, Resend(Q, pair) PROVE req' \in [Reqs -> ReqRecords]
  BY <1>2, <1>4 DEF Resend
<1> QED BY <1>3, <1>4

(* Every step keeps the types.                                             *)
LEMMA ClientTypeStep ==
  ASSUME SessionInv, ClientTypeOK, CookieIssued, [ClientNext]_vars
  PROVE  ClientTypeOK'
<1> USE ClientAssumption DEF ClientTypeOK
<1>0. /\ \A h \in Calls : call[h].new \in MaybeToken
      /\ \A t \in Tokens : ~Unused(t) => origin[t] \in Tokens
      /\ \A h \in Calls : call[h].token \in Tokens => ~Unused(call[h].token)
      /\ \A h \in Calls : call[h].token \in MaybeToken
  BY DEF SessionInv, TypeOK, CallRecords, TokensIssued
<1>1. req' \in [Reqs -> ReqRecords]
  <2>1. ASSUME NEW q \in Reqs, Send(q) PROVE req' \in [Reqs -> ReqRecords]
    <3>1. [req[q] EXCEPT !.step = "sent", !.access = cookie] \in ReqRecords
      BY DEF ReqRecords, ReqSteps
    <3>2. req' = [req EXCEPT ![q] = [req[q] EXCEPT !.step = "sent", !.access = cookie]]
      BY <2>1 DEF Send
    <3> QED BY <3>1, <3>2
  <2>2. ASSUME NEW q \in Reqs, Unauthorized(q) PROVE req' \in [Reqs -> ReqRecords]
    <3>1. ASSUME NEW s \in {"queued", "refreshing"}
          PROVE  [req[q] EXCEPT !.step = s, !.retry = TRUE] \in ReqRecords
      BY DEF ReqRecords, ReqSteps
    <3>2. \/ Settle({q}, "failed")
          \/ \E s \in {"queued", "refreshing"} :
               req' = [req EXCEPT ![q] = [req[q] EXCEPT !.step = s, !.retry = TRUE]]
      BY <2>2 DEF Unauthorized, FailAgain, WaitForRefresh, StartRefresh
    <3> QED BY <3>1, <3>2, ReqType DEF ReqSteps
  <2>3. ASSUME NEW q \in Reqs, Serve(q) PROVE req' \in [Reqs -> ReqRecords]
    BY <2>3, ReqType DEF Serve, ReqSteps
  <2>4. ASSUME NEW h \in Calls,
               Refreshed(h) \/ RefreshRefused(h) \/ RefreshLost(h)
        PROVE  req' \in [Reqs -> ReqRecords]
    BY <1>0, <2>4, ReqType DEF Refreshed, RefreshRefused, RefreshLost, RefreshFails, ReqSteps
  <2>5. ASSUME NEW b \in Tabs, Reload(b) PROVE req' \in [Reqs -> ReqRecords]
    BY <2>5, ReqType DEF Reload, ReqSteps
  <2>6. CASE UNCHANGED req
    BY <2>6
  <2> QED
    BY <2>1, <2>2, <2>3, <2>4, <2>5, <2>6
       DEF ClientNext, ServerStep, ServerFails, SignedIn, LoggedOut, Discard, clientVars,
           SignIn, Logout, Visit, Time, vars
<1>2. excused' \subseteq Tokens
  <2>1. ASSUME NEW t \in Tokens, Time(t) PROVE excused' \subseteq Tokens
    BY <1>0, <2>1, LiveMembers
       DEF Time, SessionExpires, RecentExpires, clientVars, SessionInv, TokensIssued,
           RecentIsSuccessor
  <2>2. ASSUME NEW h \in Calls, ServerStep(h) \/ ServerFails(h)
        PROVE  excused' \subseteq Tokens
    <3>1. call[h].token \in Tokens /\ origin[call[h].token] \in Tokens
      BY <1>0, <2>2, HandledMoves DEF ServerStep, ServerFails
    <3> QED BY <2>2, <3>1, AuthAssumption DEF ServerStep, ServerFails, LoginOf
  <2>3. LoginOf(cookie) \subseteq Tokens
    <3>1. CASE cookie \in Tokens
      BY <1>0, <3>1 DEF LoginOf, CookieIssued
    <3> QED BY <3>1 DEF LoginOf, MaybeToken
  <2>4. ASSUME NEW q \in Reqs, NEW h \in Calls, StartRefresh(q, h)
        PROVE  excused' \subseteq Tokens
    BY <2>3, <2>4 DEF StartRefresh
  <2>5. ASSUME NEW b \in Tabs, NEW h \in Calls, Logout(b, h)
        PROVE  excused' \subseteq Tokens
    BY <2>3, <2>5 DEF Logout
  <2>6. CASE UNCHANGED excused
    BY <2>6
  <2> QED
    BY <2>1, <2>2, <2>4, <2>5, <2>6
       DEF ClientNext, Send, Serve, Unauthorized, FailAgain, WaitForRefresh, Refreshed,
           RefreshRefused, RefreshLost, SignedIn, LoggedOut, Discard, clientVars, SignIn,
           Visit, Reload, vars
<1> DEFINE OK == /\ cookie' \in MaybeToken
                 /\ page' \in [Tabs -> {"app", "login"}]
                 /\ isRefreshing' \in [Tabs -> BOOLEAN]
                 /\ failedQueue' \in [Tabs -> SUBSET Reqs]
                 /\ caller' \in [Calls -> Tabs \cup {NoTab}]
<1>3. ASSUME NEW q \in Reqs, WaitForRefresh(q) PROVE OK
  BY <1>3 DEF WaitForRefresh
<1>4. ASSUME NEW q \in Reqs, NEW h \in Calls, StartRefresh(q, h) PROVE OK
  BY <1>4 DEF StartRefresh
<1>5. ASSUME NEW h \in Calls, Refreshed(h) PROVE OK
  BY <1>0, <1>5 DEF Refreshed
<1>6. ASSUME NEW h \in Calls, RefreshFails(h) PROVE OK
  BY <1>6 DEF RefreshFails
<1>7. ASSUME NEW h \in Calls, SignedIn(h) \/ LoggedOut(h) PROVE OK
  BY <1>0, <1>7 DEF SignedIn, LoggedOut, MaybeToken
<1>8. ASSUME NEW b \in Tabs, NEW h \in Calls, SignIn(b, h) \/ Logout(b, h) PROVE OK
  BY <1>8 DEF SignIn, Logout
<1>9. ASSUME NEW b \in Tabs, Visit(b) \/ Reload(b) PROVE OK
  BY <1>9 DEF Visit, Reload
<1>10. ASSUME UNCHANGED <<cookie, page, isRefreshing, failedQueue, caller>> PROVE OK
  BY <1>10
<1>11. OK
  BY <1>3, <1>4, <1>5, <1>6, <1>7, <1>8, <1>9, <1>10
     DEF ClientNext, Send, Serve, Unauthorized, FailAgain, ServerStep, ServerFails,
         RefreshRefused, RefreshLost, Discard, clientVars, Time, vars
<1> QED BY <1>1, <1>2, <1>11

(* The browser takes its cookies from answers only.                        *)
LEMMA CookieStep ==
  ASSUME SessionInv, ClientTypeOK, CookieIssued, [ClientNext]_vars
  PROVE  CookieIssued'
<1>1. [Next]_serverVars
  BY ServerSide
<1>2. \/ cookie' = cookie
      \/ cookie' = NoToken
      \/ \E h \in Calls : call[h].step = "pair" /\ cookie' = call[h].new
  BY DEF ClientNext, Send, Serve, Unauthorized, FailAgain, WaitForRefresh, StartRefresh,
         ServerStep, ServerFails, Refreshed, RefreshRefused, RefreshLost, RefreshFails,
         SignedIn, LoggedOut, Discard, clientVars, SignIn, Logout, Visit, Reload, Time,
         vars, At
<1>3. cookie' \in Tokens => ~Unused(cookie')
  BY <1>2, AuthAssumption DEF CookieIssued, SessionInv, TokensIssued, At
<1> QED BY <1>1, <1>3, OriginKept DEF CookieIssued, Unused

-----------------------------------------------------------------------------
(* One refresh of a tab at a time                                          *)

(* A step that changes neither tabs nor callers, and makes no refresh of a *)
(* call, or of a call that nobody waits for.                               *)
LEMMA TabsKept ==
  ASSUME TabsRefresh, UNCHANGED <<isRefreshing, failedQueue>>,
         \A h \in Calls : \/ caller'[h] = caller[h] /\ (Refreshes(h) <=> Refreshes(h)')
                          \/ ~Refreshes(h)' /\ (Refreshes(h) => caller[h] \notin Tabs)
  PROVE  TabsRefresh'
<1>1. ASSUME NEW b \in Tabs
      PROVE  /\ failedQueue'[b] # {} => isRefreshing'[b]
             /\ isRefreshing'[b] => \E h \in Calls : caller'[h] = b /\ Refreshes(h)'
  BY DEF TabsRefresh
<1>2. ASSUME NEW h \in Calls, Refreshes(h)', caller'[h] \in Tabs
      PROVE  /\ isRefreshing'[caller'[h]]
             /\ \A g \in Calls : Refreshes(g)' /\ caller'[g] = caller'[h] => g = h
  BY <1>2 DEF TabsRefresh
<1> QED BY <1>1, <1>2 DEF TabsRefresh, Refreshes

(* A refresh begins when there is none, and ends with its tab's queue.     *)
LEMMA TabsStep ==
  ASSUME SessionInv, ClientTypeOK, IdleIsEmpty, TabsRefresh, [ClientNext]_vars
  PROVE  TabsRefresh'
<1> USE ClientAssumption, AuthAssumption
<1>0. /\ isRefreshing \in [Tabs -> BOOLEAN] /\ failedQueue \in [Tabs -> SUBSET Reqs]
      /\ caller \in [Calls -> Tabs \cup {NoTab}]
      /\ cookie \in MaybeToken /\ TypeOK
  BY DEF ClientTypeOK, SessionInv
<1>1. ASSUME NEW h \in Calls, ServerStep(h) \/ ServerFails(h) PROVE TabsRefresh'
  <2>1. \A g \in Calls : caller'[g] = caller[g] /\ (Refreshes(g) <=> Refreshes(g)')
    BY <1>1, HandledMoves DEF ServerStep, ServerFails, Refreshes
  <2> QED BY <1>1, <2>1, TabsKept DEF ServerStep, ServerFails
<1>2. ASSUME NEW h \in Calls, Answered(h), caller[h] \notin Tabs \/ ~Refreshes(h),
             \A g \in Calls : g # h => caller'[g] = caller[g],
             UNCHANGED <<isRefreshing, failedQueue>>
      PROVE  TabsRefresh'
  <2>1. /\ \A g \in Calls : g # h =>
             caller'[g] = caller[g] /\ (Refreshes(g) <=> Refreshes(g)')
        /\ ~Refreshes(h)'
    BY <1>0, <1>2, AnsweredMoves DEF Refreshes, Idle, RefreshSteps
  <2> QED BY <1>2, <2>1, TabsKept
<1>3. ASSUME NEW h \in Calls, SignedIn(h) \/ LoggedOut(h) \/ Discard(h)
      PROVE  TabsRefresh'
  BY <1>0, <1>2, <1>3
     DEF SignedIn, LoggedOut, Discard, clientVars, At, Refreshes, RefreshSteps
(* The tab's one refresh ends.                                             *)
<1>4. ASSUME NEW h \in Calls, NEW b, b = caller[h], b \in Tabs, Answered(h), Refreshes(h),
             caller' = [caller EXCEPT ![h] = NoTab],
             failedQueue' = [failedQueue EXCEPT ![b] = {}],
             isRefreshing' = [isRefreshing EXCEPT ![b] = FALSE]
      PROVE  TabsRefresh'
  <2>1. /\ \A g \in Calls : g # h =>
             caller'[g] = caller[g] /\ (Refreshes(g) <=> Refreshes(g)')
        /\ ~Refreshes(h)' /\ caller'[h] = NoTab
    BY <1>0, <1>4, AnsweredMoves DEF Refreshes, Idle, RefreshSteps
  <2>2. \A g \in Calls : Refreshes(g) /\ caller[g] = b => g = h
    BY <1>4 DEF TabsRefresh
  <2>3. ASSUME NEW a \in Tabs
        PROVE  /\ failedQueue'[a] # {} => isRefreshing'[a]
               /\ isRefreshing'[a] => \E g \in Calls : caller'[g] = a /\ Refreshes(g)'
    BY <1>0, <1>4, <2>1 DEF TabsRefresh
  <2>4. ASSUME NEW g \in Calls, Refreshes(g)', caller'[g] \in Tabs
        PROVE  /\ isRefreshing'[caller'[g]]
               /\ \A k \in Calls : Refreshes(k)' /\ caller'[k] = caller'[g] => k = g
    BY <1>0, <1>4, <2>1, <2>2, <2>4 DEF TabsRefresh
  <2> QED BY <2>3, <2>4 DEF TabsRefresh, Refreshes
<1>5. ASSUME NEW h \in Calls, Refreshed(h) \/ RefreshRefused(h) \/ RefreshLost(h)
      PROVE  TabsRefresh'
  <2>1. Refreshes(h)
    BY <1>5 DEF Refreshed, RefreshRefused, RefreshLost, Refreshes, At
  <2>2. caller[h] \in Tabs
    BY <1>0, <1>5 DEF Refreshed, RefreshRefused, RefreshLost, RefreshFails
  <2> QED BY <1>4, <1>5, <2>1, <2>2 DEF Refreshed, RefreshRefused, RefreshLost, RefreshFails
<1>6. ASSUME NEW q \in Reqs, Unauthorized(q) PROVE TabsRefresh'
  <2>1. CASE FailAgain(q)
    BY <2>1 DEF FailAgain, serverVars, TabsRefresh, Refreshes
  <2>2. CASE WaitForRefresh(q)
    BY <1>0, <2>2 DEF WaitForRefresh, serverVars, TabsRefresh, Refreshes
  <2>3. ASSUME NEW h \in Calls, StartRefresh(q, h), ~isRefreshing[TabOf[q]] PROVE TabsRefresh'
    <3> DEFINE b == TabOf[q]
    <3>1. b \in Tabs /\ isRefreshing' = [isRefreshing EXCEPT ![b] = TRUE]
          /\ caller' = [caller EXCEPT ![h] = b] /\ failedQueue' = failedQueue
      BY <2>3 DEF StartRefresh
    <3>2. /\ ~Refreshes(h) /\ Refreshes(h)'
          /\ \A g \in Calls : g # h =>
             caller'[g] = caller[g] /\ (Refreshes(g) <=> Refreshes(g)')
      <4>1. PICK s \in {"refused", "lookRecent"} : Begin(h, s, cookie)
        BY <2>3 DEF StartRefresh, BeginRefresh
      <4>2. /\ call[h].step = "idle" /\ call'[h].step = s
            /\ \A g \in Calls : g # h => call'[g] = call[g]
        BY <1>0, <4>1 DEF Begin, At, TypeOK
      <4> QED BY <1>0, <3>1, <4>2 DEF Refreshes, RefreshSteps
    <3>3. \A g \in Calls : Refreshes(g) => caller[g] # b
      BY <2>3, <3>1 DEF TabsRefresh
    <3> HIDE DEF b
    <3>4. ASSUME NEW a \in Tabs
          PROVE  /\ failedQueue'[a] # {} => isRefreshing'[a]
                 /\ isRefreshing'[a] => \E g \in Calls : caller'[g] = a /\ Refreshes(g)'
      BY <1>0, <3>1, <3>2 DEF TabsRefresh
    <3>5. ASSUME NEW g \in Calls, Refreshes(g)', caller'[g] \in Tabs
          PROVE  /\ isRefreshing'[caller'[g]]
                 /\ \A k \in Calls : Refreshes(k)' /\ caller'[k] = caller'[g] => k = g
      BY <1>0, <3>1, <3>2, <3>3, <3>5 DEF TabsRefresh
    <3> QED BY <3>4, <3>5 DEF TabsRefresh, Refreshes
  <2> QED BY <1>6, <2>1, <2>2, <2>3 DEF Unauthorized
(* A new call that refreshes nothing.                                      *)
<1>7. ASSUME NEW h \in Calls, NEW b \in Tabs, SignIn(b, h) \/ Logout(b, h)
      PROVE  TabsRefresh'
  <2>1. /\ ~Refreshes(h) /\ ~Refreshes(h)'
        /\ \A g \in Calls : g # h =>
             caller'[g] = caller[g] /\ (Refreshes(g) <=> Refreshes(g)')
        /\ UNCHANGED <<isRefreshing, failedQueue>>
    <3>1. CASE Logout(b, h)
      <4>1. PICK s \in {"loggedOut", "logoutDelete"} : Begin(h, s, cookie)
        BY <3>1 DEF Logout, BeginLogout
      <4>2. /\ call[h].step = "idle" /\ call'[h].step = s
            /\ \A g \in Calls : g # h => call'[g] = call[g]
        BY <1>0, <4>1 DEF Begin, At, TypeOK
      <4> QED BY <1>0, <3>1, <4>2 DEF Logout, Refreshes, RefreshSteps
    <3>2. CASE SignIn(b, h)
      <4>1. /\ call[h].step = "idle" /\ call[h].token = NoToken
            /\ call'[h].token = NoToken /\ call'[h].step = "pair"
            /\ \A g \in Calls : g # h => call'[g] = call[g]
        BY <1>0, <3>2, LoginMoves DEF SignIn, IdleIsEmpty, Idle
      <4> QED BY <1>0, <3>2, <4>1 DEF SignIn, Refreshes, RefreshSteps
    <3> QED BY <1>7, <3>1, <3>2
  <2> QED BY <2>1, TabsKept
<1>8. ASSUME NEW b \in Tabs, Reload(b) PROVE TabsRefresh'
  <2>1. /\ \A g \in Calls : /\ caller'[g] = IF caller[g] = b THEN NoTab ELSE caller[g]
                            /\ Refreshes(g) <=> Refreshes(g)'
        /\ failedQueue' = [failedQueue EXCEPT ![b] = {}]
        /\ isRefreshing' = [isRefreshing EXCEPT ![b] = FALSE]
    BY <1>8 DEF Reload, serverVars, Refreshes
  <2>2. ASSUME NEW a \in Tabs
        PROVE  /\ failedQueue'[a] # {} => isRefreshing'[a]
               /\ isRefreshing'[a] => \E g \in Calls : caller'[g] = a /\ Refreshes(g)'
    BY <1>0, <2>1 DEF TabsRefresh
  <2>3. ASSUME NEW g \in Calls, Refreshes(g)', caller'[g] \in Tabs
        PROVE  /\ isRefreshing'[caller'[g]]
               /\ \A k \in Calls : Refreshes(k)' /\ caller'[k] = caller'[g] => k = g
    BY <1>0, <2>1, <2>3 DEF TabsRefresh
  <2> QED BY <2>2, <2>3 DEF TabsRefresh, Refreshes
<1>9. CASE UNCHANGED <<isRefreshing, failedQueue, caller, call>>
  BY <1>9 DEF TabsRefresh, Refreshes
<1> QED
  BY <1>1, <1>3, <1>5, <1>6, <1>7, <1>8, <1>9
     DEF ClientNext, Send, Serve, Visit, Time, SessionExpires, AccessExpires,
         RecentExpires, clientVars, serverVars, vars

(* Whoever joins the queue waits, and an answer sends all of it away.      *)
LEMMA WaitersStep ==
  ASSUME SessionInv, ClientTypeOK, Waiters, [ClientNext]_vars
  PROVE  Waiters'
<1>0. /\ isRefreshing \in [Tabs -> BOOLEAN] /\ failedQueue \in [Tabs -> SUBSET Reqs]
      /\ req \in [Reqs -> ReqRecords] /\ \A q \in Reqs : TabOf[q] \in Tabs
  BY ClientAssumption DEF ClientTypeOK
<1>1. ASSUME NEW q \in Reqs, UNCHANGED <<isRefreshing, failedQueue>>,
             \A r \in Reqs : r # q => req'[r] = req[r],
             req[q].step \notin {"queued", "refreshing"},
             req'[q].step \notin {"queued", "refreshing"}
      PROVE  Waiters'
  BY <1>0, <1>1 DEF Waiters
<1>2. ASSUME NEW q \in Reqs, Send(q) \/ Serve(q) \/ (FailAgain(q) /\ Unauthorized(q))
      PROVE  Waiters'
  <2>1. /\ UNCHANGED <<isRefreshing, failedQueue>>
        /\ req[q].step \in {"idle", "sent", "unauthorized"}
    BY <1>2 DEF Send, Serve, FailAgain, Unauthorized
  <2>2. \/ Settle({q}, "done") \/ Settle({q}, "failed") \/ Settle({q}, "unauthorized")
        \/ req' = [req EXCEPT ![q] = [req[q] EXCEPT !.step = "sent", !.access = cookie]]
    BY <1>2 DEF Send, Serve, FailAgain
  <2>3. /\ \A r \in Reqs : r # q => req'[r] = req[r]
        /\ req'[q].step \in {"done", "failed", "unauthorized", "sent"}
    BY <1>0, <2>2 DEF Settle, ReqRecords
  <2> QED BY <1>1, <2>1, <2>3
<1>3. ASSUME NEW q \in Reqs, Unauthorized(q), WaitForRefresh(q) PROVE Waiters'
  <2>1. /\ \A r \in Reqs : r # q => req'[r] = req[r]
        /\ req[q].step = "unauthorized" /\ req'[q].step = "queued"
        /\ failedQueue' = [failedQueue EXCEPT ![TabOf[q]] = @ \cup {q}]
        /\ UNCHANGED isRefreshing
    BY <1>0, <1>3 DEF WaitForRefresh, Unauthorized, ReqRecords
  <2> QED BY <1>0, <2>1 DEF Waiters
<1>4. ASSUME NEW q \in Reqs, NEW h \in Calls, Unauthorized(q), StartRefresh(q, h)
      PROVE  Waiters'
  <2>1. /\ \A r \in Reqs : r # q => req'[r] = req[r]
        /\ req[q].step = "unauthorized" /\ req'[q].step = "refreshing"
        /\ isRefreshing' = [isRefreshing EXCEPT ![TabOf[q]] = TRUE]
        /\ UNCHANGED failedQueue
    BY <1>0, <1>4 DEF StartRefresh, Unauthorized, ReqRecords
  <2> QED BY <1>0, <2>1 DEF Waiters
(* What an answer, or a reload, does to the requests of its tab.           *)
<1>5. ASSUME NEW b \in Tabs,
             failedQueue' = [failedQueue EXCEPT ![b] = {}],
             isRefreshing' = [isRefreshing EXCEPT ![b] = FALSE],
             \A r \in Reqs : IF TabOf[r] = b
                               THEN req'[r].step \notin {"queued", "refreshing"}
                               ELSE req'[r] = req[r]
      PROVE  Waiters'
  BY <1>0, <1>5 DEF Waiters
<1>6. ASSUME NEW b \in Tabs, NEW Q, Q = failedQueue[b] \cup RefreshingOf(b),
             \/ \E s \in {"done", "failed"} : Settle(Q, s)
             \/ \E pair \in MaybeToken : Resend(Q, pair)
      PROVE  \A r \in Reqs : IF TabOf[r] = b
                               THEN req'[r].step \notin {"queued", "refreshing"}
                               ELSE req'[r] = req[r]
  <2>1. \A r \in Reqs :
          r \in Q <=> TabOf[r] = b /\ req[r].step \in {"queued", "refreshing"}
    BY <1>0, <1>6 DEF Waiters, RefreshingOf, ReqsOf
  <2>2. \A r \in Reqs : IF r \in Q THEN req'[r].step \in {"done", "failed", "sent"}
                                   ELSE req'[r] = req[r]
    BY <1>0, <1>6 DEF Settle, Resend, ReqRecords
  <2> QED BY <2>1, <2>2
<1>7. ASSUME NEW h \in Calls, Refreshed(h) \/ RefreshRefused(h) \/ RefreshLost(h)
      PROVE  Waiters'
  <2>1. PICK b \in Tabs : b = caller[h]
    BY <1>7 DEF Refreshed, RefreshRefused, RefreshLost, RefreshFails, ClientTypeOK
  <2>2. call[h].new \in MaybeToken
    BY DEF SessionInv, TypeOK, CallRecords
  <2>3. /\ failedQueue' = [failedQueue EXCEPT ![b] = {}]
        /\ isRefreshing' = [isRefreshing EXCEPT ![b] = FALSE]
        /\ \/ Settle(failedQueue[b] \cup RefreshingOf(b), "failed")
           \/ Resend(failedQueue[b] \cup RefreshingOf(b), call[h].new)
    BY <1>7, <2>1 DEF Refreshed, RefreshRefused, RefreshLost, RefreshFails
  <2> QED BY <1>5, <1>6, <2>2, <2>3
<1>8. ASSUME NEW b \in Tabs, Reload(b) PROVE Waiters'
  <2>1. \A r \in Reqs : IF TabOf[r] = b THEN req'[r].step \in {"idle", "failed"}
                                        ELSE req'[r] = req[r]
    BY <1>0, <1>8 DEF Reload, Settle, ReqsOf, ReqRecords
  <2> QED BY <1>5, <1>8, <2>1 DEF Reload
<1>9. CASE UNCHANGED <<isRefreshing, failedQueue, req>>
  BY <1>9 DEF Waiters
<1> QED
  BY <1>2, <1>3, <1>4, <1>7, <1>8, <1>9
     DEF ClientNext, Unauthorized, ServerStep, ServerFails, SignedIn, LoggedOut, Discard,
         SignIn, Logout, Visit, Time, clientVars, vars

-----------------------------------------------------------------------------
(* The reasons of the ends                                                 *)

(* A call moves: what it takes away it replaces, or it says why not.       *)
LEMMA ReasonsKept ==
  ASSUME SessionInv, SessionInv', Reasons, NEW h \in Calls,
         \A g \in Calls : g # h => call'[g] = call[g],
         \A t \in Tokens : ~Unused(t) => origin'[t] = origin[t],
         excused \subseteq excused',
         \A t \in expired' : ~Unused(t)',
         \A t \in Tokens : Unused(t) => Unused(t)' \/ t \in sessions' \ expired',
         \A t \in sessions \ expired :
           \/ t \in sessions' \ expired' \/ Excused(t)'
           \/ /\ call[h].step = "deleteOld" /\ call[h].token = t
              /\ call'[h].step = "create" /\ call'[h].token = t,
         \A t \in Tokens : recent[t] # NoToken => recent'[t] # NoToken \/ Excused(t)',
         \A t \in Tokens : call[h].step \in {"create", "writeRecent"} /\ call[h].token = t =>
           \/ Excused(t)' \/ recent'[t] # NoToken
           \/ call'[h].step = "writeRecent" /\ call'[h].token = t,
         CallReason(h)'
  PROVE  Reasons'
<1>1. ASSUME NEW t \in Tokens PROVE Unused(t)' \/ Excused(t)' \/ Exchangeable(t)'
  <2>1. CASE Unused(t) \/ Excused(t) \/ t \in sessions \ expired \/ recent[t] # NoToken
    BY <2>1 DEF Exchangeable, Unused, Excused
  <2>2. ASSUME NEW g \in Calls, call[g].step \in {"create", "writeRecent"}, call[g].token = t
        PROVE  Excused(t)' \/ Exchangeable(t)'
    BY <2>2 DEF Exchangeable, Excused
  <2> QED BY <2>1, <2>2 DEF Reasons, Exchangeable
<1>2. ASSUME NEW g \in Calls, g # h, call[g].token \in Tokens PROVE CallReason(g)'
  <2> DEFINE t == call[g].token
  <2>1. /\ call'[g] = call[g] /\ ~Unused(t)
        /\ CallReason(g) /\ (Excused(t) => Excused(t)')
    BY <1>2 DEF Reasons, SessionInv, TokensIssued, Excused
  <2>2. call[g].step \in {"findSession", "deleteOld"} =>
          Excused(t)' \/ t \in sessions' \ expired'
    <3>1. CASE call[h].step = "deleteOld" /\ call[h].token = t
      BY <2>1, <3>1 DEF CallReason, RefreshSteps
    <3>2. CASE ~(call[h].step = "deleteOld" /\ call[h].token = t)
      BY <2>1, <3>2 DEF CallReason
    <3> QED BY <3>1, <3>2
  <2>3. ASSUME call[g].step \in RefreshSteps, NEW k \in Calls,
               call'[k].step \in RefreshSteps, call'[k].token = t
        PROVE  k = g \/ Excused(t)'
    <3>1. CASE k = h
      BY <2>1, <2>3, <3>1 DEF CallReason, Excused
    <3>2. CASE k # h
      BY <2>1, <2>3, <3>2 DEF CallReason
    <3> QED BY <3>1, <3>2
  <2> QED BY <2>1, <2>2, <2>3 DEF CallReason, Excused
<1>3. ASSUME NEW g \in Calls, g # h, call[g].token \notin Tokens PROVE CallReason(g)'
  <2>1. call'[g] = call[g] /\ CallReason(g) /\ call[g].token = NoToken
        /\ call[g].step \notin RefreshSteps \cup LogoutSteps
    BY <1>3 DEF Reasons, SessionInv, TokensIssued, TypeOK, CallRecords, MaybeToken
  <2> QED BY <2>1 DEF CallReason, RefreshSteps, LogoutSteps
<1> QED BY <1>1, <1>2, <1>3 DEF Reasons

(* The steps of the server.                                                *)
LEMMA HandleReasons ==
  ASSUME SessionInv, SessionInv', Reasons, NEW h \in Calls, ServerStep(h),
         \A t \in Tokens : ~Unused(t) => origin'[t] = origin[t],
         excused \subseteq excused'
  PROVE  Reasons'
<1>0. PICK t \in Tokens : t = call[h].token
  BY HandledMoves DEF ServerStep
<1>1. /\ call'[h].token = t /\ call[h].token = t
      /\ \A g \in Calls : g # h => call'[g] = call[g]
      /\ call \in [Calls -> CallRecords] /\ sessions \subseteq Tokens
      /\ recent \in [Tokens -> MaybeToken] /\ origin \in [Tokens -> MaybeToken]
      /\ origin' \in [Tokens -> MaybeToken]
  BY <1>0, HandledMoves DEF ServerStep, SessionInv, TypeOK
<1>2. /\ ~Unused(t) /\ CallReason(h) /\ origin'[t] = origin[t]
      /\ \A x \in Tokens : Excused(x) /\ ~Unused(x) => Excused(x)'
  BY <1>0, <1>1 DEF SessionInv, TokensIssued, Reasons, Excused, ServerStep
<1>3. RedisMissed(h) => Excused(t)'
  BY <1>1, <1>2, AuthAssumption DEF ServerStep, LoginOf, Excused
<1>4. expired' = expired
  BY DEF ServerStep, Handle, LookRecent, FindSession, DeleteExpired, DeleteOld, LookAgain,
         CreateNew, WriteRecent, LogoutDelete, LogoutDeny
<1>5. \A x \in expired' : ~Unused(x)'
  BY <1>4 DEF Reasons, SessionInv, TypeOK, Unused
<1>6. call[h].step \in RefreshSteps =>
        \A g \in Calls : call'[g].step \in RefreshSteps /\ call'[g].token = t =>
          g = h \/ Excused(t)'
  BY <1>1, <1>2 DEF CallReason
(* A step that only looks.                                                 *)
<1>7. ASSUME UNCHANGED <<sessions, origin, recent>>,
             call[h].step \notin {"create", "writeRecent"}, CallReason(h)'
      PROVE  Reasons'
  BY <1>1, <1>4, <1>5, <1>7, ReasonsKept DEF Unused
<1>8. CASE LookRecent(h)
  <2>1. /\ UNCHANGED <<sessions, origin, recent>> /\ call[h].step = "lookRecent"
        /\ \/ call'[h].step = "pair"
           \/ call'[h].step = "findSession" /\ (recent[t] # NoToken => RedisMissed(h))
    BY <1>1, <1>8 DEF LookRecent, At, Goto, AnswerPair, CallRecords, RedisMissed
  <2>2. ASSUME call'[h].step = "findSession" PROVE t \in sessions' \ expired' \/ Excused(t)'
    <3>1. Excused(t) \/ Exchangeable(t)
      BY <1>2 DEF Reasons
    <3>2. ASSUME NEW g \in Calls, call[g].step \in {"create", "writeRecent"}, call[g].token = t
          PROVE  Excused(t)
      BY <1>1, <1>2, <2>1, <3>2 DEF CallReason, RefreshSteps
    <3> QED BY <1>2, <1>3, <1>4, <2>1, <2>2, <3>1, <3>2 DEF Exchangeable
  <2>3. CallReason(h)'
    BY <1>1, <1>6, <2>1, <2>2 DEF CallReason, RefreshSteps, LogoutSteps, Excused
  <2> QED BY <1>7, <2>1, <2>3
<1>9. CASE FindSession(h)
  <2>1. /\ UNCHANGED <<sessions, origin, recent>> /\ call[h].step = "findSession"
        /\ \/ call'[h].step = "refused" /\ t \notin sessions
           \/ call'[h].step = "deleteExpired" /\ t \in expired
           \/ call'[h].step = "deleteOld" /\ t \in sessions \ expired
    BY <1>1, <1>9 DEF FindSession, At, Goto, CallRecords
  <2>2. Excused(t)' \/ t \in sessions \ expired
    BY <1>1, <1>2, <2>1 DEF CallReason
  <2>3. CallReason(h)'
    BY <1>1, <1>4, <1>6, <2>1, <2>2 DEF CallReason, RefreshSteps, LogoutSteps, Excused
  <2> QED BY <1>7, <2>1, <2>3
<1>10. CASE LookAgain(h)
  <2>1. /\ UNCHANGED <<sessions, origin, recent>> /\ call[h].step = "lookAgain"
        /\ call'[h].step \in {"pair", "refused"}
    BY <1>1, <1>10 DEF LookAgain, At, Goto, AnswerPair, CallRecords
  <2>2. CallReason(h)'
    BY <1>1, <1>2, <2>1 DEF CallReason, RefreshSteps, LogoutSteps, Excused
  <2> QED BY <1>7, <2>1, <2>2
<1>11. CASE LogoutDeny(h)
  <2>1. /\ UNCHANGED <<sessions, origin, recent>> /\ call[h].step = "logoutDeny"
        /\ call'[h].step = "loggedOut"
    BY <1>1, <1>11 DEF LogoutDeny, At, Goto, CallRecords
  <2>2. CallReason(h)'
    BY <1>1, <2>1 DEF CallReason, RefreshSteps, LogoutSteps, Excused
  <2> QED BY <1>7, <2>1, <2>2
(* A session is deleted: it is going to be replaced, or its login is over. *)
<1>12. CASE DeleteOld(h) \/ DeleteExpired(h) \/ LogoutDelete(h)
  <2>1. /\ UNCHANGED <<origin, recent>> /\ sessions' = sessions \ {t}
        /\ \/ call[h].step = "deleteOld" /\ call'[h].step = "create" /\ t \in sessions
           \/ call[h].step = "deleteOld" /\ call'[h].step = "lookAgain" /\ t \notin sessions
           \/ call[h].step = "deleteExpired" /\ call'[h].step = "refused"
           \/ call[h].step = "logoutDelete" /\ call'[h].step = "logoutDeny"
    BY <1>1, <1>12 DEF DeleteOld, DeleteExpired, LogoutDelete, At, Goto, CallRecords
  <2>2. call'[h].step = "create" \/ Excused(t)'
    BY <1>1, <1>2, <2>1 DEF CallReason, LogoutSteps
  <2>3. CallReason(h)'
    BY <1>1, <1>6, <2>1, <2>2 DEF CallReason, RefreshSteps, LogoutSteps, Excused
  <2>4. \A x \in sessions \ expired :
          \/ x \in sessions' \ expired' \/ Excused(x)'
          \/ /\ call[h].step = "deleteOld" /\ call[h].token = x
             /\ call'[h].step = "create" /\ call'[h].token = x
    BY <1>1, <1>4, <2>1, <2>2
  <2> QED BY <1>1, <1>5, <2>1, <2>3, <2>4, ReasonsKept DEF Unused
<1>13. CASE CreateNew(h)
  <2>1. PICK new \in Tokens :
          /\ Unused(new) /\ sessions' = sessions \cup {new} /\ UNCHANGED recent
          /\ origin' = [origin EXCEPT ![new] = origin[t]]
          /\ call[h].step = "create" /\ call'[h].step = "writeRecent"
    BY <1>1, <1>13 DEF CreateNew, At, CallRecords
  <2>2. new \notin expired
    BY <2>1 DEF Reasons
  <2>3. \A x \in Tokens : Unused(x) => Unused(x)' \/ x \in sessions' \ expired'
    BY <1>1, <1>4, <2>1, <2>2 DEF Unused
  <2>4. CallReason(h)'
    BY <1>1, <1>6, <2>1 DEF CallReason, RefreshSteps, LogoutSteps, Excused
  <2> QED BY <1>1, <1>4, <1>5, <2>1, <2>3, <2>4, ReasonsKept
<1>14. CASE WriteRecent(h)
  <2>1. /\ UNCHANGED <<sessions, origin>>
        /\ recent' = [recent EXCEPT ![t] = call[h].new] \/ UNCHANGED recent
        /\ call[h].step = "writeRecent" /\ call'[h].step = "pair"
        /\ recent'[t] = NoToken => RedisMissed(h)
    BY <1>1, <1>14 DEF WriteRecent, At, Goto, CallRecords, RedisMissed
  <2>2. call[h].new # NoToken
    BY <2>1, AuthAssumption DEF SessionInv, RecentIsSuccessor, At
  <2>3. CallReason(h)'
    BY <1>1, <2>1 DEF CallReason, RefreshSteps, LogoutSteps, Excused
  <2>4. \A x \in Tokens : recent[x] # NoToken => recent'[x] # NoToken
    BY <1>1, <2>1, <2>2
  <2> QED BY <1>1, <1>3, <1>4, <1>5, <2>1, <2>3, <2>4, ReasonsKept DEF Unused
<1> QED
  BY <1>8, <1>9, <1>10, <1>11, <1>12, <1>13, <1>14 DEF ServerStep, Handle

(* A handler that fails.                                                   *)
LEMMA FailReasons ==
  ASSUME SessionInv, SessionInv', Reasons, NEW h \in Calls, ServerFails(h)
  PROVE  Reasons'
<1>0. PICK t \in Tokens : t = call[h].token
  BY HandledMoves DEF ServerFails
<1>1. /\ call'[h].token = t /\ call[h].token = t /\ ~Unused(t)
      /\ \A g \in Calls : g # h => call'[g] = call[g]
      /\ call'[h].step \in {"failed", "logoutFailed"}
      /\ UNCHANGED <<sessions, expired, origin, recent>>
  BY <1>0, HandledMoves
     DEF ServerFails, Fail, Goto, SessionInv, TypeOK, CallRecords, TokensIssued
<1>2. excused' = excused \cup {origin[t]}
  BY <1>1, AuthAssumption DEF ServerFails, LoginOf
<1>3. Excused(t)'
  BY <1>1, <1>2 DEF Excused
<1>4. CallReason(h)'
  BY <1>1, <1>3 DEF CallReason, RefreshSteps, LogoutSteps, Excused
<1>5. \A x \in expired' : ~Unused(x)'
  BY <1>1 DEF Reasons, Unused
<1> QED BY <1>1, <1>2, <1>3, <1>4, <1>5, ReasonsKept DEF Unused

(* The client has its answer.                                              *)
LEMMA AnswerReasons ==
  ASSUME SessionInv, SessionInv', Reasons, NEW h \in Calls, Answered(h), UNCHANGED excused
  PROVE  Reasons'
<1>1. /\ call[h].step \in Answers /\ call'[h].step = "idle"
      /\ \A g \in Calls : g # h => call'[g] = call[g]
      /\ UNCHANGED <<sessions, expired, origin, recent>>
  BY AnsweredMoves DEF SessionInv, Idle
<1>2. CallReason(h)'
  BY <1>1 DEF CallReason, RefreshSteps, LogoutSteps
<1>3. \A x \in expired' : ~Unused(x)'
  BY <1>1 DEF Reasons, Unused
<1> QED BY <1>1, <1>2, <1>3, ReasonsKept DEF Unused, Answers

(* A refresh begins: no other of the same tab is under way, and one of     *)
(* another tab with the same token is a reason.                            *)
LEMMA RefreshReasons ==
  ASSUME SessionInv, SessionInv', ClientTypeOK, TabsRefresh, CookieIssued, Reasons,
         NEW q \in Reqs, NEW h \in Calls, StartRefresh(q, h), ~isRefreshing[TabOf[q]]
  PROVE  Reasons'
<1> DEFINE b == TabOf[q]
<1>0. b \in Tabs /\ ~isRefreshing[b]
  BY ClientAssumption
<1>1. /\ call[h].step = "idle" /\ call'[h].token = cookie
      /\ call'[h].step = IF cookie = NoToken THEN "refused" ELSE "lookRecent"
      /\ \A g \in Calls : g # h => call'[g] = call[g]
      /\ UNCHANGED <<sessions, expired, origin, recent>>
      /\ excused' = excused \cup IF Contended(b, cookie) THEN LoginOf(cookie) ELSE {}
  BY DEF StartRefresh, BeginRefresh, Begin, At, SessionInv, TypeOK
<1>2. ASSUME NEW g \in Calls, g # h, cookie # NoToken, call[g].step \in RefreshSteps,
             call[g].token = cookie
      PROVE  origin[cookie] \in excused'
  <2>1. caller[g] # b
    BY <1>0, <1>2 DEF TabsRefresh, Refreshes
  <2>2. Contended(b, cookie)
    BY <1>2, <2>1 DEF Contended
  <2> QED BY <1>1, <1>2, <2>2 DEF LoginOf
<1>3. CallReason(h)'
  BY <1>1, <1>2 DEF CallReason, Excused, RefreshSteps, LogoutSteps
<1>4. \A x \in expired' : ~Unused(x)'
  BY <1>1 DEF Reasons, Unused
<1> QED BY <1>1, <1>3, <1>4, ReasonsKept DEF Unused

(* A login and a logout.                                                   *)
LEMMA SignReasons ==
  ASSUME SessionInv, SessionInv', ClientTypeOK, CookieIssued, Reasons,
         NEW h \in Calls, NEW b \in Tabs, SignIn(b, h) \/ Logout(b, h)
  PROVE  Reasons'
<1>0. \A x \in expired : ~Unused(x)
  BY DEF Reasons
<1>1. CASE SignIn(b, h)
  <2>1. PICK t \in Tokens :
          /\ Unused(t) /\ sessions' = sessions \cup {t}
          /\ origin' = [origin EXCEPT ![t] = t]
          /\ call[h].step = "idle" /\ call'[h].step = "pair"
          /\ \A g \in Calls : g # h => call'[g] = call[g]
          /\ UNCHANGED <<expired, recent, excused>>
    <3>1. TypeOK /\ Login(h) /\ UNCHANGED excused
      BY <1>1 DEF SignIn, SessionInv
    <3>2. PICK t \in Tokens :
            /\ Unused(t) /\ sessions' = sessions \cup {t}
            /\ origin' = [origin EXCEPT ![t] = t]
      BY <3>1 DEF Login
    <3>3. UNCHANGED <<expired, recent>>
      BY <3>1 DEF Login
    <3> QED BY <3>1, <3>2, <3>3, LoginMoves
  <2>2. CallReason(h)'
    BY <2>1 DEF CallReason, RefreshSteps, LogoutSteps
  <2>3. /\ \A x \in Tokens : ~Unused(x) => origin'[x] = origin[x]
        /\ \A x \in Tokens : Unused(x) => Unused(x)' \/ x \in sessions' \ expired'
        /\ \A x \in expired' : ~Unused(x)'
    BY <1>0, <2>1, AuthAssumption DEF Unused, SessionInv, TypeOK
  <2> QED BY <2>1, <2>2, <2>3, ReasonsKept
<1>2. CASE Logout(b, h)
  <2>1. /\ call[h].step = "idle" /\ call'[h].step = "logoutDelete"
        /\ call'[h].token = cookie /\ cookie # NoToken
        /\ \A g \in Calls : g # h => call'[g] = call[g]
        /\ UNCHANGED <<sessions, expired, origin, recent>>
        /\ excused' = excused \cup {origin[cookie]}
    BY <1>2 DEF Logout, BeginLogout, Begin, At, LoginOf, SessionInv, TypeOK
  <2>2. CallReason(h)'
    BY <2>1 DEF CallReason, RefreshSteps, LogoutSteps, Excused
  <2>3. \A x \in expired' : ~Unused(x)'
    BY <1>0, <2>1 DEF Unused
  <2> QED BY <2>1, <2>2, <2>3, ReasonsKept DEF Unused
<1> QED BY <1>1, <1>2

(* What time takes away, it gives as the reason.                           *)
LEMMA TimeReasons ==
  ASSUME SessionInv, Reasons, NEW t \in Tokens, Time(t)
  PROVE  Reasons'
<1>1. /\ UNCHANGED <<sessions, origin, call>>
      /\ \A x \in Tokens : Excused(x) => Excused(x)'
      /\ \A x : x \in expired' => x \in expired \/ (x = t /\ t \in sessions /\ Excused(t)')
      /\ \A x \in Tokens : recent[x] # NoToken => recent'[x] # NoToken \/ Excused(x)'
  BY DEF Time, SessionExpires, AccessExpires, RecentExpires, clientVars, Excused,
         SessionInv, TypeOK
<1>2. \A x \in expired' : ~Unused(x)'
  BY <1>1, LiveMembers DEF Reasons, SessionInv, TokensIssued, Unused
<1>3. \A x \in Tokens : Unused(x)' \/ Excused(x)' \/ Exchangeable(x)'
  BY <1>1 DEF Reasons, Exchangeable, Unused
<1>4. ASSUME NEW h \in Calls PROVE CallReason(h)'
  <2>1. CallReason(h) /\ call'[h] = call[h]
    BY <1>1 DEF Reasons
  <2>2. CASE call[h].token \in Tokens
    BY <1>1, <2>1, <2>2 DEF CallReason, Excused
  <2>3. CASE call[h].token \notin Tokens
    <3>1. call[h].token = NoToken /\ call[h].step \notin RefreshSteps \cup LogoutSteps
      BY <2>3 DEF SessionInv, TokensIssued, TypeOK, CallRecords, MaybeToken
    <3> QED BY <2>1, <3>1 DEF CallReason, RefreshSteps, LogoutSteps
  <2> QED BY <2>2, <2>3
<1> QED BY <1>2, <1>3, <1>4 DEF Reasons

(* The reasons are inductive.                                              *)
LEMMA ReasonsStep ==
  ASSUME ClientInv, SessionInv', [ClientNext]_vars
  PROVE  Reasons'
<1> USE DEF ClientInv
<1>1. ASSUME NEW q \in Reqs, FailAgain(q) \/ WaitForRefresh(q)
      PROVE  UNCHANGED <<serverVars, excused>>
  BY <1>1 DEF FailAgain, WaitForRefresh
<1>2. ASSUME NEW q \in Reqs, NEW h \in Calls, StartRefresh(q, h), ~isRefreshing[TabOf[q]]
      PROVE  Reasons'
  BY <1>2, RefreshReasons
<1>3. ASSUME NEW h \in Calls,
             \/ Refreshed(h) \/ RefreshRefused(h) \/ RefreshLost(h)
             \/ SignedIn(h) \/ LoggedOut(h) \/ Discard(h)
      PROVE  Reasons'
  BY <1>3, AnswerReasons
     DEF Refreshed, RefreshRefused, RefreshLost, RefreshFails, SignedIn, LoggedOut, Discard,
         clientVars
<1>4. ASSUME NEW h \in Calls, ServerStep(h) PROVE Reasons'
  <2>1. \A t \in Tokens : ~Unused(t) => origin'[t] = origin[t]
    BY OriginKept, ServerSide
  <2>2. excused \subseteq excused'
    BY <1>4 DEF ServerStep
  <2> QED BY <1>4, <2>1, <2>2, HandleReasons
<1>5. ASSUME UNCHANGED <<serverVars, excused>> PROVE Reasons'
  BY <1>5 DEF serverVars, Reasons, Exchangeable, CallReason, Excused, Unused
<1> QED
  BY <1>1, <1>2, <1>3, <1>4, <1>5, FailReasons, SignReasons, TimeReasons
     DEF ClientNext, Send, Serve, Unauthorized, Visit, Reload, vars, clientVars

-----------------------------------------------------------------------------
(* Theorems                                                                *)

(* The browsers start at /login, without cookies.                          *)
LEMMA ClientInvInit == ClientInit => ClientInv
<1> SUFFICES ASSUME ClientInit PROVE ClientInv
  OBVIOUS
<1>1. SessionInv
  BY SessionInit DEF ClientInit
<1>2. ClientTypeOK /\ CookieIssued
  BY AuthAssumption
     DEF ClientInit, ClientTypeOK, CookieIssued, ReqRecords, ReqSteps, MaybeToken
<1>3. \A h \in Calls : call[h] = Idle
  BY DEF ClientInit, Init
<1>4. IdleIsEmpty /\ TabsRefresh /\ Waiters
  BY <1>3 DEF ClientInit, IdleIsEmpty, TabsRefresh, Waiters, Refreshes, Idle, RefreshSteps
<1>5. Reasons
  BY <1>3 DEF ClientInit, Init, Reasons, Unused, CallReason, Idle, RefreshSteps, LogoutSteps
<1> QED BY <1>1, <1>2, <1>4, <1>5 DEF ClientInv

(* The invariant is inductive.                                             *)
LEMMA ClientInvStep == ClientInv /\ [ClientNext]_vars => ClientInv'
<1> SUFFICES ASSUME ClientInv, [ClientNext]_vars PROVE ClientInv'
  OBVIOUS
<1> USE DEF ClientInv
<1>1. [Next]_serverVars
  BY ServerSide
<1>2. SessionInv' /\ IdleIsEmpty'
  BY <1>1, SessionStep, IdleStep
<1>3. ClientTypeOK' /\ CookieIssued' /\ TabsRefresh' /\ Waiters'
  BY ClientTypeStep, CookieStep, TabsStep, WaitersStep
<1>4. Reasons'
  BY <1>2, ReasonsStep
<1> QED BY <1>2, <1>3, <1>4

(* What the browsers and the server know of each other, in every reachable *)
(* state.                                                                  *)
THEOREM ClientInvariance == ClientSafety => []ClientInv
BY ClientInvInit, ClientInvStep, PTL DEF ClientSafety

(* The tabs of a browser use the server as AuthSession says that clients   *)
(* do (client.ts:74-140), so that what is proved of it holds with them.    *)
THEOREM ClientUsesServer == ClientSafety => Spec
<1>1. ClientInv /\ [ClientNext]_vars => [Next]_serverVars
  BY ServerSide DEF ClientInv
<1> QED BY <1>1, ClientInvariance, PTL DEF ClientSafety, ClientInit, Spec

(* The queue of a tab holds its waiting requests, each once and no other,  *)
(* and they wait for a refresh that is under way: no order of answers,     *)
(* errors, lost answers and reloads leaves one behind (client.ts:50-58,    *)
(* 96-140).                                                                *)
THEOREM QueueServed == ClientSafety => []QueueIsServed
<1>1. ASSUME ClientInv, NEW b \in Tabs
      PROVE  failedQueue[b] = {q \in ReqsOf(b) : req[q].step = "queued"}
  <2>1. failedQueue[b] \subseteq Reqs
    BY <1>1 DEF ClientInv, ClientTypeOK
  <2> QED BY <1>1, <2>1 DEF ClientInv, Waiters, ReqsOf
<1>2. ASSUME ClientInv, NEW b \in Tabs, failedQueue[b] \cup RefreshingOf(b) # {}
      PROVE  \E h \in Calls : caller[h] = b /\ call[h].step \notin LogoutSteps \cup {"idle"}
  <2>1. isRefreshing[b]
    BY <1>2 DEF ClientInv, TabsRefresh, Waiters, RefreshingOf, ReqsOf
  <2> QED BY <1>2, <2>1 DEF ClientInv, TabsRefresh, Refreshes, RefreshSteps, LogoutSteps
<1>3. ClientInv => QueueIsServed
  BY <1>1, <1>2 DEF QueueIsServed
<1> QED BY <1>3, ClientInvariance, PTL

(* A page is sent to /login only when its session has a reason to be over: *)
(* the refreshes of one tab, an answer that was lost and a refresh that is *)
(* repeated are none (client.ts:74-90, auth.controller.ts:131-203).        *)
THEOREM LoginForAReason == ClientSafety => LoginHasReason
<1>1. ASSUME ClientInv, NEW h \in Calls, RefreshRefused(h)
      PROVE  call[h].token = NoToken \/ origin[call[h].token] \in excused
  BY <1>1 DEF ClientInv, Reasons, CallReason, Excused, RefreshRefused
<1>2. ClientInv => [\A h \in Calls : RefreshRefused(h) /\ caller[h] # NoTab =>
                      call[h].token = NoToken \/ origin[call[h].token] \in excused]_vars
  BY <1>1
<1> QED BY <1>2, ClientInvariance, PTL DEF LoginHasReason, ClientSafety
=============================================================================
