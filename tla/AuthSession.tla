----------------------------- MODULE AuthSession -----------------------------
(***************************************************************************)
(* The sessions of auth.controller.ts: login, refresh with the rotation of *)
(* the refresh token and the grace cache of 15 seconds, logout with the    *)
(* denylist, and requireAuth. A call is a request the server handles; it   *)
(* gives way at every await. A token stands for the pair of access and     *)
(* refresh token that the server hands out together.                       *)
(***************************************************************************)
EXTENDS Naturals, FiniteSets

CONSTANTS
  Tokens, NoToken,
  Calls,           \* the requests the server handles at one time
  FaultsAllowed    \* may Redis be down, or a handler throw or die?

ASSUME AuthAssumption ==
  /\ NoToken \notin Tokens
  /\ FaultsAllowed \in BOOLEAN

VARIABLES
  sessions,    \* Postgres: the RefreshSession table, unique on token
  expired,     \* the sessions whose expiresAt has passed
  origin,      \* history: the login a token descends from
  recent,      \* Redis: recent_refresh:<old token>, the pair it was replaced by
  denied,      \* Redis: denylist:<access token>
  outdated,    \* the access tokens whose exp has passed
  call

serverVars == <<sessions, expired, origin, recent, denied, outdated, call>>

RefreshSteps == {"lookRecent", "findSession", "deleteExpired", "deleteOld",
                 "lookAgain", "create", "writeRecent"}
LogoutSteps  == {"logoutDelete", "logoutDeny"}
Answers      == {"pair", "refused", "failed", "loggedOut", "logoutFailed"}
Steps        == {"idle"} \cup RefreshSteps \cup LogoutSteps \cup Answers

MaybeToken == Tokens \cup {NoToken}
CallRecords == [step : Steps, token : MaybeToken, new : MaybeToken]

Idle == [step |-> "idle", token |-> NoToken, new |-> NoToken]

Unused(t) == origin[t] = NoToken
At(h, step) == call[h].step = step

Init ==
  /\ sessions = {}
  /\ expired = {}
  /\ origin = [t \in Tokens |-> NoToken]
  /\ recent = [t \in Tokens |-> NoToken]
  /\ denied = {}
  /\ outdated = {}
  /\ call = [h \in Calls |-> Idle]

Begin(h, step, t) ==
  /\ At(h, "idle")
  /\ call' = [call EXCEPT ![h] = [step |-> step, token |-> t, new |-> NoToken]]

Goto(h, step) == call' = [call EXCEPT ![h].step = step]
AnswerPair(h, t) == call' = [call EXCEPT ![h].step = "pair", ![h].new = t]

(* requireAuth, for a request that carries the access token t. Without     *)
(* Redis the denylist is not consulted; what happens when its query throws *)
(* is in ApiClient.                                                        *)
Admits(t) ==
  /\ t \in Tokens \ outdated
  /\ ~Unused(t)
  /\ t \notin denied \/ FaultsAllowed
Refuses(t) == t = NoToken \/ t \in denied \cup outdated

-----------------------------------------------------------------------------
(* Login                                                                   *)

Login(h) ==
  /\ At(h, "idle")
  /\ \E t \in Tokens :
       /\ Unused(t)
       /\ sessions' = sessions \cup {t}
       /\ origin' = [origin EXCEPT ![t] = t]
       /\ AnswerPair(h, t)
  /\ UNCHANGED <<expired, recent, denied, outdated>>

-----------------------------------------------------------------------------
(* Refresh                                                                 *)

BeginRefresh(h, t) ==
  /\ Begin(h, IF t = NoToken THEN "refused" ELSE "lookRecent", t)
  /\ UNCHANGED <<sessions, expired, origin, recent, denied, outdated>>

(* "If this refresh token was already refreshed in the last 15 seconds,    *)
(* return the cached token pair"; skipped while Redis is not ready.        *)
LookRecent(h) ==
  LET cached == recent[call[h].token] IN
  /\ At(h, "lookRecent")
  /\ \/ cached # NoToken /\ AnswerPair(h, cached)
     \/ (cached = NoToken \/ FaultsAllowed) /\ Goto(h, "findSession")
  /\ UNCHANGED <<sessions, expired, origin, recent, denied, outdated>>

FindSession(h) ==
  LET t == call[h].token IN
  /\ At(h, "findSession")
  /\ \/ t \notin sessions /\ Goto(h, "refused")
     \/ t \in sessions \cap expired /\ Goto(h, "deleteExpired")
     \/ t \in sessions \ expired /\ Goto(h, "deleteOld")
  /\ UNCHANGED <<sessions, expired, origin, recent, denied, outdated>>

DeleteExpired(h) ==
  /\ At(h, "deleteExpired")
  /\ sessions' = sessions \ {call[h].token}
  /\ Goto(h, "refused")
  /\ UNCHANGED <<expired, origin, recent, denied, outdated>>

(* deleteMany of the old session: its count tells the winner.              *)
DeleteOld_IgnoresCount(h) ==
  /\ At(h, "deleteOld")
  /\ sessions' = sessions \ {call[h].token}
  /\ Goto(h, "create")
  /\ UNCHANGED <<expired, origin, recent, denied, outdated>>

DeleteOld(h) ==
  /\ At(h, "deleteOld")
  /\ sessions' = sessions \ {call[h].token}
  /\ Goto(h, IF call[h].token \in sessions THEN "create" ELSE "lookAgain")
  /\ UNCHANGED <<expired, origin, recent, denied, outdated>>

LookAgain_Creates(h) ==
  LET cached == recent[call[h].token] IN
  /\ At(h, "lookAgain")
  /\ IF cached # NoToken THEN AnswerPair(h, cached) ELSE Goto(h, "create")
  /\ UNCHANGED <<sessions, expired, origin, recent, denied, outdated>>

LookAgain(h) ==
  LET cached == recent[call[h].token] IN
  /\ At(h, "lookAgain")
  /\ \/ cached # NoToken /\ AnswerPair(h, cached)
     \/ (cached = NoToken \/ FaultsAllowed) /\ Goto(h, "refused")
  /\ UNCHANGED <<sessions, expired, origin, recent, denied, outdated>>

CreateNew(h) ==
  /\ At(h, "create")
  /\ \E t \in Tokens :
       /\ Unused(t)
       /\ sessions' = sessions \cup {t}
       /\ origin' = [origin EXCEPT ![t] = origin[call[h].token]]
       /\ call' = [call EXCEPT ![h].step = "writeRecent", ![h].new = t]
  /\ UNCHANGED <<expired, recent, denied, outdated>>

(* A write that fails is swallowed.                                        *)
WriteRecent_UnderNew(h) ==
  /\ At(h, "writeRecent")
  /\ recent' = [recent EXCEPT ![call[h].new] = call[h].new]
  /\ Goto(h, "pair")
  /\ UNCHANGED <<sessions, expired, origin, denied, outdated>>

WriteRecent(h) ==
  /\ At(h, "writeRecent")
  /\ \/ recent' = [recent EXCEPT ![call[h].token] = call[h].new]
     \/ FaultsAllowed /\ UNCHANGED recent
  /\ Goto(h, "pair")
  /\ UNCHANGED <<sessions, expired, origin, denied, outdated>>

-----------------------------------------------------------------------------
(* Logout: delete the session of the cookie, then deny its access token    *)
(* for the rest of its life.                                               *)

BeginLogout(h, t) ==
  /\ Begin(h, IF t = NoToken THEN "loggedOut" ELSE "logoutDelete", t)
  /\ UNCHANGED <<sessions, expired, origin, recent, denied, outdated>>

LogoutDelete(h) ==
  /\ At(h, "logoutDelete")
  /\ sessions' = sessions \ {call[h].token}
  /\ Goto(h, "logoutDeny")
  /\ UNCHANGED <<expired, origin, recent, denied, outdated>>

LogoutDeny(h) ==
  /\ At(h, "logoutDeny")
  /\ \/ denied' = denied \cup ({call[h].token} \ outdated)
     \/ FaultsAllowed /\ UNCHANGED denied
  /\ Goto(h, "loggedOut")
  /\ UNCHANGED <<sessions, expired, origin, recent, outdated>>

-----------------------------------------------------------------------------
(* A query throws, or the process ends: the client gets an error.          *)
Fail(h) ==
  /\ FaultsAllowed
  /\ call[h].step \in RefreshSteps \cup LogoutSteps
  /\ Goto(h, IF call[h].step \in LogoutSteps THEN "logoutFailed" ELSE "failed")
  /\ UNCHANGED <<sessions, expired, origin, recent, denied, outdated>>

(* The client has the answer.                                              *)
Answered(h) ==
  /\ call[h].step \in Answers
  /\ call' = [call EXCEPT ![h] = Idle]
  /\ UNCHANGED <<sessions, expired, origin, recent, denied, outdated>>

Handle(h) ==
  \/ LookRecent(h) \/ FindSession(h) \/ DeleteExpired(h) \/ DeleteOld(h)
  \/ LookAgain(h) \/ CreateNew(h) \/ WriteRecent(h)
  \/ LogoutDelete(h) \/ LogoutDeny(h)

(* Time: 15 days of a session, 15 minutes of an access token, 15 seconds   *)
(* of an entry of the grace cache.                                         *)
SessionExpires(t) ==
  /\ t \in sessions \ expired
  /\ expired' = expired \cup {t}
  /\ UNCHANGED <<sessions, origin, recent, denied, outdated, call>>

AccessExpires(t) ==
  /\ t \notin outdated
  /\ ~Unused(t)
  /\ outdated' = outdated \cup {t}
  /\ UNCHANGED <<sessions, expired, origin, recent, denied, call>>

RecentExpires(t) ==
  /\ recent[t] # NoToken
  /\ recent' = [recent EXCEPT ![t] = NoToken]
  /\ UNCHANGED <<sessions, expired, origin, denied, outdated, call>>

(* A client presents any token it was given, however old.                  *)
Presents(h, t) == BeginRefresh(h, t) \/ BeginLogout(h, t)

Next ==
  \/ \E h \in Calls :
       \/ Login(h) \/ Handle(h) \/ Fail(h) \/ Answered(h)
       \/ \E t \in MaybeToken :
            /\ t \in Tokens => ~Unused(t)
            /\ Presents(h, t)
  \/ \E t \in Tokens : SessionExpires(t) \/ AccessExpires(t) \/ RecentExpires(t)

Spec == Init /\ [][Next]_serverVars

-----------------------------------------------------------------------------
(* Properties                                                              *)

(* The tokens that can still be rotated: those with a session, and those   *)
(* whose session a refresh has deleted and is about to replace.            *)
Rotating == {h \in Calls : call[h].step = "create"}
Live == sessions \cup {call[h].token : h \in Rotating}

Chain == INSTANCE SessionChain WITH live <- Live, origin <- origin

(* The controller implements the abstract chain of tokens: whatever the    *)
(* interleaving of refreshes, logouts and faults, a rotation replaces one  *)
(* live token by one new one.                                              *)
ChainSpec == Chain!Spec

TypeOK ==
  /\ sessions \subseteq Tokens
  /\ expired \subseteq Tokens
  /\ origin \in [Tokens -> MaybeToken]
  /\ recent \in [Tokens -> MaybeToken]
  /\ denied \subseteq Tokens
  /\ outdated \subseteq Tokens
  /\ call \in [Calls -> CallRecords]

(* A login has at most one live token, also while refreshes with the same  *)
(* token are under way at the same time (auth.controller.ts:163-184).      *)
OneLiveToken ==
  \A s, t \in Live : origin[s] = origin[t] => s = t

(* The token a refresh has deleted is its alone.                           *)
RotatesAlone ==
  \A g \in Rotating :
    /\ call[g].token \notin sessions
    /\ \A h \in Rotating : call[h].token = call[g].token => g = h

(* The grace cache hands out only a token of the same login, and never     *)
(* for a token that is still live: who presents an old token gets its      *)
(* successor, not a second session.                                        *)
RecentIsSuccessor ==
  /\ \A t \in Tokens : recent[t] # NoToken =>
       /\ t \notin Live /\ ~Unused(t)
       /\ origin[recent[t]] = origin[t]
  /\ \A h \in Calls : At(h, "writeRecent") =>
       /\ call[h].token \notin Live
       /\ call[h].new \in Tokens
       /\ origin[call[h].new] = origin[call[h].token]

(* Only tokens the server has issued are live, presented or handed out.    *)
TokensIssued ==
  /\ \A t \in Live : ~Unused(t)
  /\ \A h \in Calls : call[h].token \in Tokens => ~Unused(call[h].token)
  /\ \A h \in Calls : call[h].step \in RefreshSteps \cup LogoutSteps =>
       call[h].token \in Tokens
  /\ \A h \in Calls : At(h, "pair") =>
       call[h].new \in Tokens /\ ~Unused(call[h].new)
  /\ \A t \in Tokens : ~Unused(t) => origin[t] \in Tokens /\ ~Unused(origin[t])

SessionInv ==
  /\ TypeOK
  /\ TokensIssued
  /\ RotatesAlone
  /\ OneLiveToken
  /\ RecentIsSuccessor

(* A login that has ended, by logout or by expiry, stays ended: no refresh *)
(* that was under way brings a session of it back.                         *)
Alive(t) == \E s \in Live : origin[s] = origin[t]
EndedStaysEnded ==
  [][\A t \in Tokens : ~Unused(t) /\ ~Alive(t) => ~Alive(t)']_serverVars
=============================================================================
