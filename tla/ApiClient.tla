------------------------------ MODULE ApiClient ------------------------------
(***************************************************************************)
(* The API client of the web application, lib/api/client.ts, over          *)
(* AuthSession. The tabs of one browser share its cookies; isRefreshing    *)
(* and failedQueue belong to the module, hence to a tab. A request that is *)
(* answered 401 waits for one refresh of its tab and is sent once more.    *)
(***************************************************************************)
EXTENDS AuthSession

CONSTANTS
  Tabs, NoTab,
  Reqs,            \* the requests of the pages; each is made once
  TabOf,           \* the tab a request belongs to
  MaxLogins        \* bound on the logins of a behaviour

ASSUME ClientAssumption ==
  /\ NoTab \notin Tabs
  /\ TabOf \in [Reqs -> Tabs]
  /\ MaxLogins \in Nat

VARIABLES
  cookie,          \* the pair in the browser's HttpOnly cookies
  page,            \* "app" or "login", of each tab
  isRefreshing,
  failedQueue,
  req,
  caller,          \* the tab that waits for the answer of a call
  excused          \* history: the logins whose end has a known reason

clientVars == <<cookie, page, isRefreshing, failedQueue, req, caller, excused>>
vars == <<serverVars, clientVars>>

(* "queued": in failedQueue. "refreshing": its interceptor performs the    *)
(* refresh. "done" and "failed" are settled.                               *)
ReqSteps == {"idle", "sent", "unauthorized", "queued", "refreshing", "done", "failed"}
ReqRecords == [step : ReqSteps, retry : BOOLEAN, access : MaybeToken]
Settled == {"done", "failed"}

ClientTypeOK ==
  /\ cookie \in MaybeToken
  /\ page \in [Tabs -> {"app", "login"}]
  /\ isRefreshing \in [Tabs -> BOOLEAN]
  /\ failedQueue \in [Tabs -> SUBSET Reqs]
  /\ req \in [Reqs -> ReqRecords]
  /\ caller \in [Calls -> Tabs \cup {NoTab}]
  /\ excused \subseteq Tokens

ClientInit ==
  /\ Init
  /\ cookie = NoToken
  /\ page = [b \in Tabs |-> "login"]
  /\ isRefreshing = [b \in Tabs |-> FALSE]
  /\ failedQueue = [b \in Tabs |-> {}]
  /\ req = [q \in Reqs |-> [step |-> "idle", retry |-> FALSE, access |-> NoToken]]
  /\ caller = [h \in Calls |-> NoTab]
  /\ excused = {}

ReqsOf(b) == {q \in Reqs : TabOf[q] = b}
LoginOf(t) == IF t = NoToken THEN {} ELSE {origin[t]}
Logins == {t \in Tokens : origin[t] = t}

Resend(Q, pair) ==
  req' = [q \in Reqs |-> IF q \in Q
            THEN [step |-> "sent", retry |-> TRUE, access |-> pair] ELSE req[q]]
Settle(Q, step) ==
  req' = [q \in Reqs |-> IF q \in Q THEN [req[q] EXCEPT !.step = step] ELSE req[q]]

-----------------------------------------------------------------------------
(* Requests. The cookies go with a request when it is sent.                *)

Send(q) ==
  /\ req[q].step = "idle"
  /\ page[TabOf[q]] = "app"
  /\ req' = [req EXCEPT ![q].step = "sent", ![q].access = cookie]
  /\ UNCHANGED <<serverVars, cookie, page, isRefreshing, failedQueue, caller, excused>>

(* requireAuth answers 401 to any token when the denylist's query throws.  *)
(* Bound: while no other request and no call is under way.                 *)
DenylistThrows(q) ==
  /\ FaultsAllowed
  /\ \A h \in Calls : At(h, "idle")
  /\ \A p \in Reqs \ {q} : req[p].step \in Settled \cup {"idle"}

Serve(q) ==
  /\ req[q].step = "sent"
  /\ \/ Admits(req[q].access) /\ Settle({q}, "done")
     \/ /\ Refuses(req[q].access) \/ DenylistThrows(q)
        /\ Settle({q}, "unauthorized")
  /\ UNCHANGED <<serverVars, cookie, page, isRefreshing, failedQueue, caller, excused>>

(* Another tab's refresh of the same token is at the server. Whoever loses *)
(* the race for the session may be refused.                                *)
Contended(b, t) ==
  \E h \in Calls : /\ call[h].step \in RefreshSteps
                   /\ call[h].token = t
                   /\ caller[h] # b

FailAgain(q) ==
  /\ req[q].retry
  /\ Settle({q}, "failed")
  /\ UNCHANGED <<serverVars, cookie, page, isRefreshing, failedQueue, caller, excused>>

WaitForRefresh(q) ==
  /\ ~req[q].retry /\ isRefreshing[TabOf[q]]
  /\ req' = [req EXCEPT ![q].step = "queued", ![q].retry = TRUE]
  /\ failedQueue' = [failedQueue EXCEPT ![TabOf[q]] = @ \cup {q}]
  /\ UNCHANGED <<serverVars, cookie, page, isRefreshing, caller, excused>>

StartRefresh(q, h) ==
  LET b == TabOf[q] IN
  /\ BeginRefresh(h, cookie)
  /\ caller' = [caller EXCEPT ![h] = b]
  /\ req' = [req EXCEPT ![q].step = "refreshing", ![q].retry = TRUE]
  /\ isRefreshing' = [isRefreshing EXCEPT ![b] = TRUE]
  /\ excused' = excused \cup IF Contended(b, cookie) THEN LoginOf(cookie) ELSE {}
  /\ UNCHANGED <<cookie, page, failedQueue>>

(* The response interceptor on a 401.                                      *)
Unauthorized_EachRefreshes(q) ==
  /\ req[q].step = "unauthorized"
  /\ \/ FailAgain(q)
     \/ ~req[q].retry /\ \E h \in Calls : StartRefresh(q, h)

Unauthorized(q) ==
  /\ req[q].step = "unauthorized"
  /\ \/ FailAgain(q)
     \/ WaitForRefresh(q)
     \/ /\ ~req[q].retry /\ ~isRefreshing[TabOf[q]]
        /\ \E h \in Calls : StartRefresh(q, h)

-----------------------------------------------------------------------------
(* Answers                                                                 *)

RefreshingOf(b) == {q \in ReqsOf(b) : req[q].step = "refreshing"}

(* The answer of the refresh: the browser takes the cookies, processQueue  *)
(* resolves the waiting requests and the first one is sent again.          *)
Refreshed_KeepsQueue(h) ==
  LET b == caller[h] IN
  /\ At(h, "pair") /\ call[h].token # NoToken /\ b # NoTab
  /\ Answered(h)
  /\ caller' = [caller EXCEPT ![h] = NoTab]
  /\ cookie' = call[h].new
  /\ Resend(failedQueue[b] \cup RefreshingOf(b), call[h].new)
  /\ isRefreshing' = [isRefreshing EXCEPT ![b] = FALSE]
  /\ UNCHANGED <<page, failedQueue, excused>>

Refreshed(h) ==
  LET b == caller[h] IN
  /\ At(h, "pair") /\ call[h].token # NoToken /\ b # NoTab
  /\ Answered(h)
  /\ caller' = [caller EXCEPT ![h] = NoTab]
  /\ cookie' = call[h].new
  /\ Resend(failedQueue[b] \cup RefreshingOf(b), call[h].new)
  /\ failedQueue' = [failedQueue EXCEPT ![b] = {}]
  /\ isRefreshing' = [isRefreshing EXCEPT ![b] = FALSE]
  /\ UNCHANGED <<page, excused>>

(* Whatever the error, the waiting requests are rejected and the page goes *)
(* to /login. The script cannot remove the HttpOnly cookies.               *)
RefreshFails_ForgetsQueue(h) ==
  LET b == caller[h] IN
  /\ b # NoTab
  /\ Answered(h)
  /\ caller' = [caller EXCEPT ![h] = NoTab]
  /\ Settle(RefreshingOf(b), "failed")
  /\ failedQueue' = [failedQueue EXCEPT ![b] = {}]
  /\ isRefreshing' = [isRefreshing EXCEPT ![b] = FALSE]
  /\ page' = [page EXCEPT ![b] = "login"]
  /\ UNCHANGED cookie

RefreshFails(h) ==
  LET b == caller[h] IN
  /\ b # NoTab
  /\ Answered(h)
  /\ caller' = [caller EXCEPT ![h] = NoTab]
  /\ Settle(failedQueue[b] \cup RefreshingOf(b), "failed")
  /\ failedQueue' = [failedQueue EXCEPT ![b] = {}]
  /\ isRefreshing' = [isRefreshing EXCEPT ![b] = FALSE]
  /\ page' = [page EXCEPT ![b] = "login"]
  /\ UNCHANGED cookie

RefreshRefused(h) ==
  /\ call[h].step \in {"refused", "failed"}
  /\ RefreshFails(h)
  /\ UNCHANGED excused

(* The answer is lost: the browser keeps the old cookies.                  *)
RefreshLost(h) ==
  /\ FaultsAllowed
  /\ At(h, "pair") /\ call[h].token # NoToken
  /\ RefreshFails(h)
  /\ UNCHANGED excused

(* proxy.ts: a page opened with an access token that still verifies goes   *)
(* to the dashboard; the denylist is not consulted.                        *)
Visit(b) ==
  /\ page[b] = "login"
  /\ cookie \in Tokens \ outdated
  /\ page' = [page EXCEPT ![b] = "app"]
  /\ UNCHANGED <<serverVars, cookie, isRefreshing, failedQueue, req, caller, excused>>

SignIn(b, h) ==
  /\ page[b] = "login"
  /\ b \notin {caller[g] : g \in Calls}
  /\ Cardinality(Logins) < MaxLogins
  /\ Login(h)
  /\ caller' = [caller EXCEPT ![h] = b]
  /\ UNCHANGED <<cookie, page, isRefreshing, failedQueue, req, excused>>

SignedIn(h) ==
  /\ At(h, "pair") /\ call[h].token = NoToken
  /\ Answered(h)
  /\ caller' = [caller EXCEPT ![h] = NoTab]
  /\ cookie' = call[h].new
  /\ page' = [page EXCEPT ![caller[h]] = "app"]
  /\ UNCHANGED <<isRefreshing, failedQueue, req, excused>>

(* Bound: one logout at a time.                                            *)
LoggingOut == \E g \in Calls :
  call[g].step \in LogoutSteps \cup {"loggedOut", "logoutFailed"}

Logout(b, h) ==
  /\ page[b] = "app" /\ cookie # NoToken
  /\ ~LoggingOut
  /\ BeginLogout(h, cookie)
  /\ caller' = [caller EXCEPT ![h] = b]
  /\ excused' = excused \cup LoginOf(cookie)
  /\ UNCHANGED <<cookie, page, isRefreshing, failedQueue, req>>

LoggedOut(h) ==
  /\ call[h].step \in {"loggedOut", "logoutFailed"} /\ caller[h] # NoTab
  /\ Answered(h)
  /\ caller' = [caller EXCEPT ![h] = NoTab]
  /\ cookie' = IF At(h, "loggedOut") THEN NoToken ELSE cookie
  /\ UNCHANGED <<page, isRefreshing, failedQueue, req, excused>>

(* The page is reloaded: its requests and its refresh are forgotten, the   *)
(* server goes on with them and nobody takes the answers. Bound: only      *)
(* while it refreshes; without a refresh a reload loses requests only.     *)
Reload(b) ==
  LET mine == {h \in Calls : caller[h] = b} IN
  /\ FaultsAllowed
  /\ page[b] = "app" /\ isRefreshing[b]
  /\ caller' = [h \in Calls |-> IF h \in mine THEN NoTab ELSE caller[h]]
  /\ Settle({q \in ReqsOf(b) : req[q].step # "idle"}, "failed")
  /\ failedQueue' = [failedQueue EXCEPT ![b] = {}]
  /\ isRefreshing' = [isRefreshing EXCEPT ![b] = FALSE]
  /\ UNCHANGED <<serverVars, cookie, page, excused>>

Discard(h) ==
  /\ caller[h] = NoTab
  /\ Answered(h)
  /\ UNCHANGED clientVars

-----------------------------------------------------------------------------
(* The server's own steps. A login is excused when a fault may have lost   *)
(* it: Redis was not there when it was needed, or the handler threw.       *)

RedisMissed(h) ==
  LET t == call[h].token IN
  \/ /\ call[h].step \in {"lookRecent", "lookAgain"}
     /\ recent[t] # NoToken /\ call'[h].step # "pair"
  \/ At(h, "writeRecent") /\ recent'[t] = NoToken

ServerStep(h) ==
  /\ Handle(h)
  /\ excused' = excused \cup IF RedisMissed(h) THEN LoginOf(call[h].token) ELSE {}
  /\ UNCHANGED <<cookie, page, isRefreshing, failedQueue, req, caller>>

ServerFails(h) ==
  /\ Fail(h)
  /\ excused' = excused \cup LoginOf(call[h].token)
  /\ UNCHANGED <<cookie, page, isRefreshing, failedQueue, req, caller>>

(* A call and its answer take less than the 15 seconds of the grace cache, *)
(* and far less than the life of an access token. A browser that still has *)
(* the old token after 15 seconds has lost the answer and is too late. (Of *)
(* a token that nobody presents any more no expiry is ever noticed.)       *)
InUse(t) == \E h \in Calls : t \in {call[h].token, call[h].new}
Presented(t) == t = cookie \/ \E q \in Reqs : req[q].step = "sent" /\ req[q].access = t

Time(t) ==
  \/ /\ t = cookie \/ InUse(t)
     /\ SessionExpires(t)
     /\ excused' = excused \cup {origin[t]}
     /\ UNCHANGED <<cookie, page, isRefreshing, failedQueue, req, caller>>
  \/ Presented(t) /\ ~InUse(t) /\ AccessExpires(t) /\ UNCHANGED clientVars
  \/ /\ t = cookie /\ ~InUse(t) /\ RecentExpires(t)
     /\ excused' = excused \cup {origin[t]}
     /\ UNCHANGED <<cookie, page, isRefreshing, failedQueue, req, caller>>

ClientNext ==
  \/ \E q \in Reqs : Send(q) \/ Serve(q) \/ Unauthorized(q)
  \/ \E h \in Calls :
       \/ ServerStep(h) \/ ServerFails(h)
       \/ Refreshed(h) \/ RefreshRefused(h) \/ RefreshLost(h)
       \/ SignedIn(h) \/ LoggedOut(h) \/ Discard(h)
       \/ \E b \in Tabs : SignIn(b, h) \/ Logout(b, h)
  \/ \E b \in Tabs : Visit(b) \/ Reload(b)
  \/ \E t \in Tokens : Time(t)

(* The server answers, the network delivers and the tab's event loop runs. *)
(* Nothing obliges a user to log in or out, or a token to expire.          *)
ClientFairness ==
  /\ \A q \in Reqs : WF_vars(Serve(q) \/ Unauthorized(q))
  /\ \A h \in Calls :
       WF_vars(ServerStep(h) \/ Refreshed(h) \/ RefreshRefused(h) \/ SignedIn(h)
               \/ LoggedOut(h) \/ Discard(h))

ClientSafety == ClientInit /\ [][ClientNext]_vars
ClientSpec == ClientSafety /\ ClientFairness

-----------------------------------------------------------------------------
(* Properties                                                              *)

(* Every request of a page settles: it is answered, or rejected by the     *)
(* refresh it waits for; processQueue forgets none (client.ts:50-58).      *)
RequestsSettle ==
  \A q \in Reqs : req[q].step = "sent" ~> req[q].step \in Settled

(* The queue of a tab holds the requests that wait in it and no others, so *)
(* that none is sent again twice or forgotten, and whoever waits there, or *)
(* has begun the refresh, waits for one that is under way                  *)
(* (client.ts:50-58, 96-140).                                              *)
QueueIsServed ==
  \A b \in Tabs :
    /\ failedQueue[b] = {q \in ReqsOf(b) : req[q].step = "queued"}
    /\ failedQueue[b] \cup RefreshingOf(b) # {} =>
         \E h \in Calls : caller[h] = b /\ call[h].step \notin LogoutSteps \cup {"idle"}

(* A page is sent to /login only when its session has ended: by a logout,  *)
(* by expiry, by a fault of the server, or by a race with another page's   *)
(* refresh. The refreshes of one tab never cost it its session             *)
(* (client.ts:74-90), and an answer that was lost is given again within    *)
(* the 15 seconds (auth.controller.ts:134-146).                            *)
LoginHasReason ==
  [][\A h \in Calls :
       RefreshRefused(h) /\ caller[h] # NoTab
         => call[h].token = NoToken \/ origin[call[h].token] \in excused]_vars

(* "If this refresh token was already refreshed in the last 15 seconds,    *)
(* return the cached token pair instead of throwing an error or logging    *)
(* out" (auth.controller.ts:132-133): a refresh is refused only when the   *)
(* login has ended.                                                        *)
ConcurrencyAbsorbed ==
  \A h \in Calls :
    At(h, "refused") /\ call[h].token # NoToken => ~Alive(call[h].token)
=============================================================================
