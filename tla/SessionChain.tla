----------------------------- MODULE SessionChain -----------------------------
(***************************************************************************)
(* What the refresh tokens of the auth controller promise: every login     *)
(* starts a chain of tokens of which at most the last one is live. A       *)
(* rotation replaces the live end by a token never used before, and a      *)
(* chain whose end was removed has ended for good. AuthSession implements  *)
(* this module.                                                            *)
(***************************************************************************)
CONSTANTS Tokens, NoToken

VARIABLES
  live,      \* the tokens that can still be rotated
  origin     \* the token of the login a token descends from

Unused(t) == origin[t] = NoToken

Init ==
  /\ live = {}
  /\ origin = [t \in Tokens |-> NoToken]

Login(t) ==
  /\ Unused(t)
  /\ live' = live \cup {t}
  /\ origin' = [origin EXCEPT ![t] = t]

Rotate(old, new) ==
  /\ old \in live
  /\ Unused(new)
  /\ live' = (live \ {old}) \cup {new}
  /\ origin' = [origin EXCEPT ![new] = origin[old]]

End(t) ==
  /\ t \in live
  /\ live' = live \ {t}
  /\ UNCHANGED origin

Next ==
  \/ \E t \in Tokens : Login(t) \/ End(t)
  \/ \E old, new \in Tokens : Rotate(old, new)

Spec == Init /\ [][Next]_<<live, origin>>
=============================================================================
