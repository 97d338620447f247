-------------------------- MODULE AuthSessionProofs --------------------------
(***************************************************************************)
(* Proofs about AuthSession, for every set of tokens and concurrent        *)
(* requests, with or without faults, and about its use by ApiClient.       *)
(***************************************************************************)
EXTENDS ApiClient, TLAPS

(* Every step keeps the types.                                              *)
LEMMA TypeStep ==
  ASSUME TypeOK, TokensIssued, [Next]_serverVars
  PROVE  TypeOK'
<1>0. \A h \in Calls :
        call[h].step \in RefreshSteps \cup LogoutSteps => call[h].token \in Tokens
  BY DEF TokensIssued
<1> USE AuthAssumption DEF TypeOK, At, Goto, AnswerPair, Begin, Idle,
        CallRecords, MaybeToken, Steps, RefreshSteps, LogoutSteps, Answers
<1>1. ASSUME NEW h \in Calls, Login(h) \/ Answered(h) \/ Fail(h) PROVE TypeOK'
  BY <1>1 DEF Login, Answered, Fail
<1>2. ASSUME NEW h \in Calls, LookRecent(h) PROVE TypeOK'
  BY <1>2 DEF LookRecent
<1>3. ASSUME NEW h \in Calls, FindSession(h) PROVE TypeOK'
  BY <1>3 DEF FindSession
<1>4. ASSUME NEW h \in Calls, DeleteExpired(h) \/ DeleteOld(h) \/ LogoutDelete(h)
      PROVE TypeOK'
  BY <1>4 DEF DeleteExpired, DeleteOld, LogoutDelete
<1>5. ASSUME NEW h \in Calls, LookAgain(h) PROVE TypeOK'
  BY <1>5 DEF LookAgain
<1>6. ASSUME NEW h \in Calls, CreateNew(h) PROVE TypeOK'
  <2>1. PICK t \in Tokens :
          /\ sessions' = sessions \cup {t}
          /\ origin' = [origin EXCEPT ![t] = origin[call[h].token]]
          /\ call' = [call EXCEPT ![h].step = "writeRecent", ![h].new = t]
          /\ UNCHANGED <<expired, recent, denied, outdated>>
    BY <1>6 DEF CreateNew
  <2>2. call[h].token \in Tokens
    BY <1>0, <1>6 DEF CreateNew
  <2>3. [call[h] EXCEPT !.step = "writeRecent", !.new = t] \in CallRecords
    OBVIOUS
  <2>4. call' = [call EXCEPT ![h] = [call[h] EXCEPT !.step = "writeRecent", !.new = t]]
    BY <2>1
  <2>5. call' \in [Calls -> CallRecords]
    BY <2>3, <2>4
  <2> QED BY <2>1, <2>2, <2>5
<1>7. ASSUME NEW h \in Calls, WriteRecent(h) PROVE TypeOK'
  BY <1>0, <1>7 DEF WriteRecent
<1>8. ASSUME NEW h \in Calls, LogoutDeny(h) PROVE TypeOK'
  BY <1>0, <1>8 DEF LogoutDeny
<1>9. ASSUME NEW h \in Calls, NEW t \in MaybeToken, Presents(h, t) PROVE TypeOK'
  BY <1>9 DEF Presents, BeginRefresh, BeginLogout
<1>10. ASSUME NEW t \in Tokens,
              SessionExpires(t) \/ AccessExpires(t) \/ RecentExpires(t)
       PROVE TypeOK'
  BY <1>10 DEF SessionExpires, AccessExpires, RecentExpires
<1>11. CASE UNCHANGED serverVars
  BY <1>11 DEF serverVars
<1> QED
  BY <1>1, <1>2, <1>3, <1>4, <1>5, <1>6, <1>7, <1>8, <1>9, <1>10, <1>11
     DEF Next, Handle
-----------------------------------------------------------------------------
(* Who is live, before and after a step.                                   *)
LEMMA LiveMembers ==
  /\ \A x : x \in Live <=>
       x \in sessions \/ \E g \in Calls : call[g].step = "create" /\ call[g].token = x
  /\ \A x : x \in Live' <=>
       x \in sessions' \/ \E g \in Calls : call'[g].step = "create" /\ call'[g].token = x
BY DEF Live, Rotating

(* The two sides of RotatesAlone, by the calls that rotate a token.       *)
LEMMA Alone ==
  /\ RotatesAlone <=>
       \A g \in Calls : call[g].step = "create" =>
         /\ call[g].token \notin sessions
         /\ \A k \in Calls : call[k].step = "create" /\ call[k].token = call[g].token
              => g = k
  /\ RotatesAlone' <=>
       \A g \in Calls : call'[g].step = "create" =>
         /\ call'[g].token \notin sessions'
         /\ \A k \in Calls : call'[k].step = "create" /\ call'[k].token = call'[g].token
              => g = k
BY DEF RotatesAlone, Rotating

(* A login adds one token, of a chain of its own.                          *)
LEMMA LoginStep ==
  ASSUME SessionInv, TypeOK', NEW h \in Calls, Login(h)
  PROVE  SessionInv' /\ \E t \in Tokens : Chain!Login(t)
<1>0. PICK t \in Tokens :
        /\ Unused(t)
        /\ sessions' = sessions \cup {t}
        /\ origin' = [origin EXCEPT ![t] = t]
        /\ call' = [call EXCEPT ![h].step = "pair", ![h].new = t]
        /\ recent' = recent
  BY DEF Login, AnswerPair
<1>1. /\ Unused(t) /\ sessions' = sessions \cup {t}
      /\ origin' = [origin EXCEPT ![t] = t] /\ recent' = recent
  BY <1>0
<1>2. /\ call[h].step = "idle" /\ call'[h].step = "pair" /\ call'[h].new = t
      /\ call'[h].token = call[h].token
      /\ \A g \in Calls : g # h => call'[g] = call[g]
      /\ \A g \in Calls : call'[g].token = call[g].token
  BY <1>0 DEF Login, At, SessionInv, TypeOK, CallRecords
<1>3. \A g \in Calls : call'[g].step = "create" <=> call[g].step = "create"
  BY <1>2
<1>4. Live' = Live \cup {t}
  <2>1. \A x : x \in Live' <=> x \in Live \/ x = t
    BY <1>1, <1>2, <1>3, LiveMembers
  <2> QED BY <2>1
<1>5. /\ t \notin Live /\ t # NoToken
      /\ \A s \in Tokens : ~Unused(s) => s # t /\ origin'[s] = origin[s] /\ ~Unused(s)'
      /\ ~Unused(t)' /\ origin'[t] = t
  BY <1>1, AuthAssumption DEF SessionInv, TypeOK, TokensIssued, Unused
<1>6. Live \subseteq Tokens
  BY DEF SessionInv, TypeOK, TokensIssued, Live, Rotating, RefreshSteps
<1>7. TokensIssued'
  <2>1. \A s \in Live' : ~Unused(s)'
    BY <1>4, <1>5, <1>6 DEF SessionInv, TokensIssued
  <2>2. \A g \in Calls : call'[g].token \in Tokens => origin'[call'[g].token] # NoToken
    BY <1>2, <1>5 DEF SessionInv, TokensIssued, Unused
  <2>3. \A g \in Calls : call'[g].step \in RefreshSteps \cup LogoutSteps =>
          call'[g].token \in Tokens
    BY <1>2 DEF SessionInv, TokensIssued, RefreshSteps, LogoutSteps
  <2>4. \A g \in Calls : At(g, "pair")' =>
          call'[g].new \in Tokens /\ origin'[call'[g].new] # NoToken
    BY <1>1, <1>2, <1>5 DEF SessionInv, TokensIssued, At, Unused
  <2>5. \A s \in Tokens : ~Unused(s)' => origin'[s] \in Tokens /\ origin'[origin'[s]] # NoToken
    BY <1>1, <1>5 DEF SessionInv, TypeOK, TokensIssued, Unused
  <2> QED BY <2>1, <2>2, <2>3, <2>4, <2>5 DEF TokensIssued, Unused
<1>8. RotatesAlone'
  BY <1>1, <1>2, <1>3, <1>5, Alone, LiveMembers DEF SessionInv
<1>9. OneLiveToken'
  <2>1. \A s \in Live : origin'[s] = origin[s] /\ origin[s] # t
    BY <1>1, <1>5, <1>6 DEF SessionInv, TokensIssued
  <2> QED BY <1>4, <1>5, <2>1 DEF SessionInv, OneLiveToken
<1>10. RecentIsSuccessor'
  <2>1. \A s \in Tokens : recent[s] # NoToken =>
          /\ s # t /\ s \notin Live /\ ~Unused(s)'
          /\ recent[s] # t /\ origin'[recent[s]] = origin'[s]
    BY <1>1, <1>5 DEF SessionInv, RecentIsSuccessor, TypeOK, Unused, MaybeToken
  <2>2. \A g \in Calls : At(g, "writeRecent")' => At(g, "writeRecent") /\ call'[g] = call[g]
    BY <1>2 DEF At
  <2>3. \A g \in Calls : At(g, "writeRecent") =>
          /\ call[g].token \in Tokens /\ ~Unused(call[g].token)
          /\ call[g].token # t /\ call[g].token \notin Live
          /\ call[g].new \in Tokens /\ ~Unused(call[g].new)
          /\ origin[call[g].new] = origin[call[g].token]
    BY <1>5 DEF SessionInv, RecentIsSuccessor, TokensIssued, At, RefreshSteps, Unused
  <2> QED BY <1>1, <1>4, <1>5, <2>1, <2>2, <2>3 DEF RecentIsSuccessor
<1>11. Chain!Login(t)
  BY <1>1, <1>4 DEF Chain!Login, Chain!Unused, Unused
<1> QED BY <1>7, <1>8, <1>9, <1>10, <1>11 DEF SessionInv

(* A rotation hands the place of the deleted token to the new one.         *)
LEMMA CreateStep ==
  ASSUME SessionInv, TypeOK', NEW h \in Calls, CreateNew(h),
         NEW old, old = call[h].token
  PROVE  SessionInv' /\ \E new \in Tokens : old \in Tokens /\ Chain!Rotate(old, new)
<1>0. PICK t \in Tokens :
        /\ Unused(t)
        /\ sessions' = sessions \cup {t}
        /\ origin' = [origin EXCEPT ![t] = origin[old]]
        /\ call' = [call EXCEPT ![h].step = "writeRecent", ![h].new = t]
        /\ recent' = recent
  BY DEF CreateNew
<1>1. /\ Unused(t) /\ sessions' = sessions \cup {t}
      /\ origin' = [origin EXCEPT ![t] = origin[old]] /\ recent' = recent
  BY <1>0
<1>2. /\ call[h].step = "create" /\ call'[h].step = "writeRecent" /\ call'[h].new = t
      /\ \A g \in Calls : g # h => call'[g] = call[g]
      /\ \A g \in Calls : call'[g].token = call[g].token
  BY <1>0 DEF CreateNew, At, SessionInv, TypeOK, CallRecords
<1>3. \A g \in Calls : call'[g].step = "create" <=> g # h /\ call[g].step = "create"
  BY <1>2
<1>4. /\ old \in Tokens /\ ~Unused(old) /\ old \notin sessions /\ old \in Live
      /\ \A g \in Calls : call[g].step = "create" /\ g # h => call[g].token # old
  BY <1>2, Alone, LiveMembers DEF SessionInv, TokensIssued, RefreshSteps
<1>5. /\ t \notin Live /\ t # NoToken /\ t # old
      /\ \A s \in Tokens : ~Unused(s) => s # t /\ origin'[s] = origin[s] /\ ~Unused(s)'
      /\ ~Unused(t)' /\ origin'[t] = origin[old]
  BY <1>1, <1>4, AuthAssumption DEF SessionInv, TypeOK, TokensIssued, Unused
<1>6. Live' = (Live \ {old}) \cup {t}
  <2>1. \A x : x \in Live' <=> (x \in Live /\ x # old) \/ x = t
    BY <1>1, <1>2, <1>3, <1>4, <1>5, LiveMembers
  <2> QED BY <2>1
<1>7. Live \subseteq Tokens
  BY DEF SessionInv, TypeOK, TokensIssued, Live, Rotating, RefreshSteps
<1>8. TokensIssued'
  <2>1. \A s \in Live' : ~Unused(s)'
    BY <1>5, <1>6, <1>7 DEF SessionInv, TokensIssued
  <2>2. \A g \in Calls : call'[g].token \in Tokens => origin'[call'[g].token] # NoToken
    BY <1>2, <1>5 DEF SessionInv, TokensIssued, Unused
  <2>3. \A g \in Calls : call'[g].step \in RefreshSteps \cup LogoutSteps =>
          call'[g].token \in Tokens
    BY <1>2, <1>4 DEF SessionInv, TokensIssued
  <2>4. \A g \in Calls : At(g, "pair")' =>
          call'[g].new \in Tokens /\ origin'[call'[g].new] # NoToken
    BY <1>1, <1>2, <1>5 DEF SessionInv, TokensIssued, At, Unused
  <2>5. \A s \in Tokens : ~Unused(s)' => origin'[s] \in Tokens /\ origin'[origin'[s]] # NoToken
    BY <1>1, <1>4, <1>5 DEF SessionInv, TypeOK, TokensIssued, Unused
  <2> QED BY <2>1, <2>2, <2>3, <2>4, <2>5 DEF TokensIssued, Unused
<1>9. RotatesAlone'
  BY <1>1, <1>2, <1>3, <1>5, Alone, LiveMembers DEF SessionInv
<1>10. OneLiveToken'
  <2>1. \A s \in Live : origin'[s] = origin[s] /\ (origin[s] = origin[old] => s = old)
    BY <1>4, <1>5, <1>7 DEF SessionInv, TokensIssued, OneLiveToken
  <2> QED BY <1>5, <1>6, <2>1 DEF SessionInv, OneLiveToken
<1>11. RecentIsSuccessor'
  <2>1. \A s \in Tokens : recent[s] # NoToken =>
          /\ s # t /\ s \notin Live /\ ~Unused(s)'
          /\ recent[s] # t /\ origin'[recent[s]] = origin'[s]
    BY <1>1, <1>5 DEF SessionInv, RecentIsSuccessor, TypeOK, Unused, MaybeToken
  <2>2. \A g \in Calls : g # h =>
          call'[g] = call[g] /\ (At(g, "writeRecent")' <=> At(g, "writeRecent"))
    BY <1>2 DEF At
  <2>3. \A g \in Calls : At(g, "writeRecent") =>
          /\ call[g].token \in Tokens /\ ~Unused(call[g].token)
          /\ call[g].token # t /\ call[g].token \notin Live
          /\ call[g].new \in Tokens /\ ~Unused(call[g].new)
          /\ origin[call[g].new] = origin[call[g].token]
    BY <1>5 DEF SessionInv, RecentIsSuccessor, TokensIssued, At, RefreshSteps, Unused
  <2>4. /\ call'[h].token \notin Live' /\ call'[h].new \in Tokens
        /\ origin'[call'[h].new] = origin'[call'[h].token]
    BY <1>2, <1>4, <1>5, <1>6
  <2> QED BY <1>1, <1>5, <1>6, <2>1, <2>2, <2>3, <2>4 DEF RecentIsSuccessor
<1>12. Chain!Rotate(old, t)
  BY <1>1, <1>4, <1>6 DEF Chain!Rotate, Chain!Unused, Unused
<1> QED BY <1>4, <1>8, <1>9, <1>10, <1>11, <1>12 DEF SessionInv

(* Deleting the session of a token ends its login, unless a refresh that   *)
(* is about to replace the token does it.                                  *)
LEMMA DeleteStep ==
  ASSUME SessionInv, TypeOK', NEW h \in Calls,
         DeleteOld(h) \/ DeleteExpired(h) \/ LogoutDelete(h),
         NEW t, t = call[h].token
  PROVE  SessionInv' /\ (Live' = Live \/ (t \in Tokens /\ Chain!End(t)))
<1>1. /\ sessions' = sessions \ {t}
      /\ origin' = origin /\ recent' = recent
  BY DEF DeleteOld, DeleteExpired, LogoutDelete
<1>2. /\ \A g \in Calls : g # h => call'[g] = call[g]
      /\ \A g \in Calls : call'[g].token = call[g].token /\ call'[g].new = call[g].new
      /\ call[h].step \in {"deleteOld", "deleteExpired", "logoutDelete"}
      /\ call'[h].step \in {"create", "lookAgain", "refused", "logoutDeny"}
      /\ call'[h].step = "create" => t \in sessions
  BY DEF DeleteOld, DeleteExpired, LogoutDelete, Goto, At, SessionInv, TypeOK, CallRecords
<1>3. t \in Tokens /\ \A x \in Live : x \in Tokens /\ ~Unused(x)
  BY <1>2, LiveMembers DEF SessionInv, TypeOK, TokensIssued, RefreshSteps, LogoutSteps
<1>4. \/ Live' = Live
      \/ Live' = Live \ {t} /\ t \in Live
  <2>1. CASE call'[h].step = "create"
    <3>1. \A x : x \in Live' <=> x \in Live
      BY <1>1, <1>2, <2>1, LiveMembers
    <3> QED BY <3>1
  <2>2. CASE call'[h].step # "create" /\ t \in sessions
    <3>1. \A g \in Calls : call[g].step = "create" => call[g].token # t
      BY <2>2, Alone DEF SessionInv
    <3>2. \A x : x \in Live' <=> x \in Live /\ x # t
      BY <1>1, <1>2, <2>2, <3>1, LiveMembers
    <3> QED BY <2>2, <3>2, LiveMembers
  <2>3. CASE call'[h].step # "create" /\ t \notin sessions
    <3>1. \A x : x \in Live' <=> x \in Live
      BY <1>1, <1>2, <2>3, LiveMembers
    <3> QED BY <3>1
  <2> QED BY <2>1, <2>2, <2>3
<1>5. TokensIssued'
  <2>1. \A x \in Live' : ~Unused(x)'
    BY <1>1, <1>3, <1>4 DEF Unused
  <2>2. \A g \in Calls :
          /\ call'[g].step \in RefreshSteps \cup LogoutSteps => call'[g].token \in Tokens
          /\ At(g, "pair")' => At(g, "pair")
    BY <1>2, <1>3 DEF SessionInv, TokensIssued, At
  <2> QED BY <1>1, <1>2, <2>1, <2>2 DEF SessionInv, TokensIssued, Unused
<1>6. RotatesAlone'
  BY <1>1, <1>2, Alone DEF SessionInv
<1>7. OneLiveToken'
  BY <1>1, <1>4 DEF SessionInv, OneLiveToken
<1>8. RecentIsSuccessor'
  <2>1. \A g \in Calls : At(g, "writeRecent")' => At(g, "writeRecent")
    BY <1>2 DEF At
  <2> QED BY <1>1, <1>2, <1>4, <2>1 DEF SessionInv, RecentIsSuccessor, Unused
<1>9. Live' = Live \/ Chain!End(t)
  BY <1>1, <1>4 DEF Chain!End
<1> QED BY <1>3, <1>5, <1>6, <1>7, <1>8, <1>9 DEF SessionInv

(* The other steps move a request along without touching a session. One    *)
(* that dies between the delete and the create ends its login.             *)
LEMMA QuietStep ==
  ASSUME SessionInv, TypeOK', NEW h \in Calls, sessions' = sessions, origin' = origin,
         \A g \in Calls : g # h => call'[g] = call[g],
         call'[h].step # "create", call'[h].step # "writeRecent",
         call'[h].token \in MaybeToken,
         call'[h].token \in Tokens => ~Unused(call'[h].token),
         call'[h].step \in RefreshSteps \cup LogoutSteps => call'[h].token \in Tokens,
         call'[h].step = "pair" =>
           call'[h].new \in Tokens /\ ~Unused(call'[h].new),
         \A x \in Tokens : recent'[x] # NoToken =>
           \/ recent'[x] = recent[x]
           \/ At(h, "writeRecent") /\ x = call[h].token /\ recent'[x] = call[h].new
  PROVE  SessionInv' /\ (Live' = Live \/ \E t \in Tokens : Chain!End(t))
<1>1. \A x \in Live : x \in Tokens /\ ~Unused(x)
  BY LiveMembers DEF SessionInv, TypeOK, TokensIssued, RefreshSteps
<1>2. \/ Live' = Live
      \/ Live' = Live \ {call[h].token} /\ call[h].token \in Live
  <2>1. CASE call[h].step # "create"
    <3>1. \A x : x \in Live' <=> x \in Live
      BY <2>1, LiveMembers
    <3> QED BY <3>1
  <2>2. CASE call[h].step = "create"
    <3>1. /\ call[h].token \notin sessions
          /\ \A g \in Calls : g # h /\ call[g].step = "create" =>
               call[g].token # call[h].token
      BY <2>2, Alone DEF SessionInv
    <3>2. \A x : x \in Live' <=> x \in Live /\ x # call[h].token
      BY <2>2, <3>1, LiveMembers
    <3> QED BY <2>2, <3>2, LiveMembers
  <2> QED BY <2>1, <2>2
<1>3. TokensIssued'
  <2>1. \A x \in Live' : ~Unused(x)'
    BY <1>1, <1>2 DEF Unused
  <2> QED BY <2>1 DEF SessionInv, TokensIssued, Unused, At
<1>4. RotatesAlone'
  BY Alone DEF SessionInv
<1>5. OneLiveToken'
  BY <1>2 DEF SessionInv, OneLiveToken
<1>6. RecentIsSuccessor'
  <2>1. \A x \in Tokens : recent'[x] # NoToken =>
          /\ x \notin Live /\ ~Unused(x) /\ origin[recent'[x]] = origin[x]
    BY DEF SessionInv, RecentIsSuccessor, TokensIssued, At, RefreshSteps
  <2>2. \A g \in Calls : At(g, "writeRecent")' => call'[g] = call[g] /\ At(g, "writeRecent")
    BY DEF At
  <2> QED BY <1>2, <2>1, <2>2 DEF SessionInv, RecentIsSuccessor, Unused
<1>7. Live' = Live \/ \E t \in Tokens : Chain!End(t)
  BY <1>1, <1>2 DEF Chain!End
<1> QED BY <1>3, <1>4, <1>5, <1>6, <1>7 DEF SessionInv

(* The steps that make and delete no session; a Fail may end a token.     *)
LEMMA QuietSteps ==
  ASSUME SessionInv, TypeOK', NEW h \in Calls,
         \/ LookRecent(h) \/ FindSession(h) \/ LookAgain(h) \/ WriteRecent(h)
         \/ LogoutDeny(h) \/ Fail(h) \/ Answered(h)
         \/ \E t \in MaybeToken : (t \in Tokens => ~Unused(t)) /\ Presents(h, t)
  PROVE  SessionInv' /\ (Live' = Live \/ \E t \in Tokens : Chain!End(t))
<1> USE AuthAssumption DEF At, Goto, AnswerPair, Begin, Idle, RefreshSteps, LogoutSteps,
        Answers, MaybeToken
<1>0. /\ call \in [Calls -> CallRecords]
      /\ call[h].token \in MaybeToken
      /\ call[h].token \in Tokens => ~Unused(call[h].token)
      /\ call[h].step \in RefreshSteps \cup LogoutSteps => call[h].token \in Tokens
      /\ \A x \in Tokens : recent[x] # NoToken =>
           recent[x] \in Tokens /\ ~Unused(recent[x])
  BY DEF SessionInv, TypeOK, TokensIssued, RecentIsSuccessor, CallRecords, Unused
<1>1. CASE LookRecent(h) \/ LookAgain(h)
  <2>1. \/ /\ recent[call[h].token] # NoToken
           /\ call' = [call EXCEPT ![h].step = "pair", ![h].new = recent[call[h].token]]
        \/ \E s \in {"findSession", "refused"} : call' = [call EXCEPT ![h].step = s]
    BY <1>1 DEF LookRecent, LookAgain
  <2>2. call[h].token \in Tokens /\ UNCHANGED <<sessions, origin, recent>>
    BY <1>0, <1>1 DEF LookRecent, LookAgain
  <2>3. /\ \A g \in Calls : g # h => call'[g] = call[g]
        /\ call'[h].token = call[h].token
        /\ \/ call'[h].step = "pair" /\ call'[h].new = recent[call[h].token]
              /\ recent[call[h].token] # NoToken
           \/ call'[h].step \in {"findSession", "refused"}
    BY <1>0, <2>1 DEF CallRecords
  <2> QED BY <1>0, <2>2, <2>3, QuietStep
<1>2. CASE FindSession(h) \/ LogoutDeny(h) \/ Fail(h)
  <2>1. \E s \in {"refused", "deleteExpired", "deleteOld", "loggedOut", "failed",
                   "logoutFailed"} : call' = [call EXCEPT ![h].step = s]
    BY <1>2 DEF FindSession, LogoutDeny, Fail
  <2>2. call[h].token \in Tokens /\ UNCHANGED <<sessions, origin, recent>>
    BY <1>0, <1>2 DEF FindSession, LogoutDeny, Fail
  <2>3. /\ \A g \in Calls : g # h => call'[g] = call[g]
        /\ call'[h].token = call[h].token
        /\ call'[h].step \in {"refused", "deleteExpired", "deleteOld", "loggedOut",
                              "failed", "logoutFailed"}
    BY <1>0, <2>1 DEF CallRecords
  <2> QED BY <1>0, <2>2, <2>3, QuietStep
<1>3. CASE WriteRecent(h)
  <2>1. /\ call' = [call EXCEPT ![h].step = "pair"]
        /\ \/ recent' = [recent EXCEPT ![call[h].token] = call[h].new]
           \/ recent' = recent
        /\ call[h].step = "writeRecent" /\ UNCHANGED <<sessions, origin>>
    BY <1>3 DEF WriteRecent
  <2>2. /\ call[h].token \in Tokens /\ call[h].new \in Tokens /\ ~Unused(call[h].new)
        /\ recent \in [Tokens -> MaybeToken]
    BY <1>0, <2>1 DEF SessionInv, TypeOK, RecentIsSuccessor, Unused
  <2>3. /\ \A g \in Calls : g # h => call'[g] = call[g]
        /\ call'[h].token = call[h].token /\ call'[h].new = call[h].new
        /\ call'[h].step = "pair"
    BY <1>0, <2>1 DEF CallRecords
  <2>4. \A x \in Tokens :
          recent'[x] = recent[x] \/ (x = call[h].token /\ recent'[x] = call[h].new)
    BY <2>1, <2>2
  <2> QED BY <1>0, <2>1, <2>2, <2>3, <2>4, QuietStep
<1>4. CASE Answered(h)
  <2>1. /\ \A g \in Calls : g # h => call'[g] = call[g]
        /\ call'[h].step = "idle" /\ call'[h].token = NoToken
        /\ UNCHANGED <<sessions, origin, recent>>
    BY <1>0, <1>4 DEF Answered
  <2> QED BY <1>0, <2>1, QuietStep
<1>5. ASSUME NEW t \in MaybeToken, t \in Tokens => ~Unused(t), Presents(h, t)
      PROVE  SessionInv' /\ (Live' = Live \/ \E x \in Tokens : Chain!End(x))
  <2>1. /\ \A g \in Calls : g # h => call'[g] = call[g]
        /\ call'[h].token = t
        /\ IF t = NoToken THEN call'[h].step \in {"refused", "loggedOut"}
           ELSE call'[h].step \in {"lookRecent", "logoutDelete"}
        /\ UNCHANGED <<sessions, origin, recent>>
    BY <1>0, <1>5 DEF Presents, BeginRefresh, BeginLogout
  <2> QED BY <1>0, <1>5, <2>1, QuietStep
<1> QED BY <1>1, <1>2, <1>3, <1>4, <1>5

(* Time touches no token but the cache's.                                  *)
LEMMA TimeStep ==
  ASSUME SessionInv, TypeOK', NEW t \in Tokens,
         SessionExpires(t) \/ AccessExpires(t) \/ RecentExpires(t)
  PROVE  SessionInv' /\ Live' = Live
<1>1. /\ UNCHANGED <<sessions, origin, call>>
      /\ \A x \in Tokens : recent'[x] # NoToken => recent'[x] = recent[x]
  BY DEF SessionExpires, AccessExpires, RecentExpires, SessionInv, TypeOK
<1>2. Live' = Live
  BY <1>1 DEF Live, Rotating
<1>3. TokensIssued' /\ OneLiveToken' /\ RotatesAlone'
  BY <1>1, <1>2 DEF SessionInv, TokensIssued, OneLiveToken, RotatesAlone, Rotating,
                    Unused, At
<1>4. RecentIsSuccessor'
  BY <1>1, <1>2 DEF SessionInv, RecentIsSuccessor, Unused, At
<1> QED BY <1>2, <1>3, <1>4 DEF SessionInv

(* The invariant is inductive, and every step maps to a step of the chain. *)
LEMMA SessionStep ==
  ASSUME SessionInv, [Next]_serverVars
  PROVE  SessionInv' /\ [Chain!Next]_<<Live, origin>>
<1>1. TypeOK'
  BY TypeStep DEF SessionInv
<1>2. ASSUME NEW h \in Calls, Login(h)
      PROVE  SessionInv' /\ [Chain!Next]_<<Live, origin>>
  BY <1>1, <1>2, LoginStep DEF Chain!Next
<1>3. ASSUME NEW h \in Calls, CreateNew(h)
      PROVE  SessionInv' /\ [Chain!Next]_<<Live, origin>>
  BY <1>1, <1>3, CreateStep DEF Chain!Next
<1>4. ASSUME NEW h \in Calls, DeleteOld(h) \/ DeleteExpired(h) \/ LogoutDelete(h)
      PROVE  SessionInv' /\ [Chain!Next]_<<Live, origin>>
  <2>1. origin' = origin
    BY <1>4 DEF DeleteOld, DeleteExpired, LogoutDelete
  <2> QED BY <1>1, <1>4, <2>1, DeleteStep DEF Chain!Next
<1>5. ASSUME NEW h \in Calls,
             \/ LookRecent(h) \/ FindSession(h) \/ LookAgain(h) \/ WriteRecent(h)
             \/ LogoutDeny(h) \/ Fail(h) \/ Answered(h)
             \/ \E t \in MaybeToken : (t \in Tokens => ~Unused(t)) /\ Presents(h, t)
      PROVE  SessionInv' /\ [Chain!Next]_<<Live, origin>>
  <2>1. origin' = origin
    BY <1>5 DEF LookRecent, FindSession, LookAgain, WriteRecent, LogoutDeny, Fail,
                Answered, Presents, BeginRefresh, BeginLogout
  <2> QED BY <1>1, <1>5, <2>1, QuietSteps DEF Chain!Next
<1>6. ASSUME NEW t \in Tokens, SessionExpires(t) \/ AccessExpires(t) \/ RecentExpires(t)
      PROVE  SessionInv' /\ [Chain!Next]_<<Live, origin>>
  <2>1. origin' = origin
    BY <1>6 DEF SessionExpires, AccessExpires, RecentExpires
  <2> QED BY <1>1, <1>6, <2>1, TimeStep
<1>7. CASE UNCHANGED serverVars
  <2>1. Live' = Live /\ origin' = origin
    BY <1>7 DEF serverVars, Live, Rotating
  <2> QED
    BY <1>1, <1>7, <2>1 DEF serverVars, SessionInv, TokensIssued, RotatesAlone,
                            OneLiveToken, RecentIsSuccessor, Rotating, Unused, At
<1> QED BY <1>2, <1>3, <1>4, <1>5, <1>6, <1>7 DEF Next, Handle

(* At the start the invariant holds, and the chain starts as well.        *)
LEMMA SessionInit == Init => SessionInv /\ Chain!Init
<1> SUFFICES ASSUME Init PROVE SessionInv /\ Chain!Init
  OBVIOUS
<1>1. Live = {}
  BY LiveMembers DEF Init, Idle
<1>2. TypeOK
  BY DEF Init, TypeOK, Idle, CallRecords, Steps, MaybeToken
<1>3. TokensIssued
  BY <1>1, AuthAssumption
     DEF Init, TokensIssued, Unused, At, Idle, RefreshSteps, LogoutSteps
<1>4. RotatesAlone /\ OneLiveToken /\ RecentIsSuccessor
  BY <1>1 DEF Init, RotatesAlone, Rotating, OneLiveToken, RecentIsSuccessor, At, Idle
<1> QED BY <1>1, <1>2, <1>3, <1>4 DEF SessionInv, Chain!Init, Init

-----------------------------------------------------------------------------
(* In every reachable state a login has at most one live token, a refresh  *)
(* that has deleted a session is alone with its token, and the grace cache *)
(* names successors only (auth.controller.ts:121-219).                     *)
THEOREM SessionInvariance == Spec => []SessionInv
<1>1. Init => SessionInv
  BY SessionInit
<1>2. SessionInv /\ [Next]_serverVars => SessionInv'
  BY SessionStep
<1> QED BY <1>1, <1>2, PTL DEF Spec

(* The auth controller implements the chain of tokens: whatever requests,  *)
(* faults and expiries interleave, a rotation replaces one live token by   *)
(* one token never used before (auth.controller.ts:164-193).               *)
THEOREM SessionRefinement == Spec => ChainSpec
<1>1. Init => Chain!Init
  BY SessionInit
<1>2. SessionInv /\ [Next]_serverVars => [Chain!Next]_<<Live, origin>>
  BY SessionStep
<1> QED BY <1>1, <1>2, SessionInvariance, PTL DEF Spec, ChainSpec, Chain!Spec

(* No step of the chain revives a login that has no live token left.       *)
LEMMA EndedStep ==
  ASSUME SessionInv, SessionInv', [Next]_serverVars, [Chain!Next]_<<Live, origin>>,
         NEW t \in Tokens, ~Unused(t), ~Alive(t)
  PROVE  ~Alive(t)'
<1>1. \A s \in Live : s \in Tokens /\ origin[s] # origin[t]
  BY LiveMembers DEF Alive, SessionInv, TypeOK, TokensIssued, RefreshSteps
<1>2. /\ origin \in [Tokens -> MaybeToken] /\ origin[t] \in Tokens
      /\ origin[origin[t]] # NoToken /\ origin[t] # NoToken
  BY DEF SessionInv, TypeOK, TokensIssued, Unused
<1>3. ASSUME NEW u \in Tokens, Chain!Login(u) PROVE ~Alive(t)'
  <2>1. origin[u] = NoToken /\ Live' = Live \cup {u} /\ origin' = [origin EXCEPT ![u] = u]
    BY <1>3 DEF Chain!Login, Chain!Unused
  <2> QED BY <1>1, <1>2, <2>1 DEF Alive
<1>4. ASSUME NEW u \in Tokens, Chain!End(u) PROVE ~Alive(t)'
  BY <1>1, <1>4 DEF Chain!End, Alive
<1>5. ASSUME NEW old \in Tokens, NEW new \in Tokens, Chain!Rotate(old, new)
      PROVE  ~Alive(t)'
  <2>1. /\ origin[new] = NoToken /\ Live' = (Live \ {old}) \cup {new} /\ old \in Live
        /\ origin' = [origin EXCEPT ![new] = origin[old]]
    BY <1>5 DEF Chain!Rotate, Chain!Unused
  <2> QED BY <1>1, <1>2, <2>1 DEF Alive
<1>6. CASE UNCHANGED <<Live, origin>>
  BY <1>1, <1>6 DEF Alive
<1> QED BY <1>3, <1>4, <1>5, <1>6 DEF Chain!Next

(* A login that was ended stays ended, however late a refresh comes        *)
(* (auth.controller.ts:221-229 against 164-193).                           *)
THEOREM LogoutIsFinal == Spec => EndedStaysEnded
<1>1. SessionInv /\ [Next]_serverVars =>
        [\A t \in Tokens : ~Unused(t) /\ ~Alive(t) => ~Alive(t)']_serverVars
  BY SessionStep, EndedStep
<1> QED BY <1>1, SessionInvariance, PTL DEF Spec, EndedStaysEnded
=============================================================================
