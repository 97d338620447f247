----------------------------- MODULE MCApiClient -----------------------------
(* Small instances of ApiClient for TLC. *)
EXTENDS ApiClient, TLC

CONSTANTS b1, b2, q1, q2, h1, h2, t1, t2, t3, t4

OneTab  == {b1}
TwoTabs == {b1, b2}
AllInFirst == [q \in Reqs |-> b1]
OneInEach  == [q \in Reqs |-> IF q = q1 THEN b1 ELSE b2]

(* Tokens are random and interchangeable: it is enough to see them issued  *)
(* in one order.                                                           *)
Issue == <<t1, t2, t3, t4>>
TokensInOrder ==
  \A i \in 1..3 :
    {Issue[i], Issue[i + 1]} \subseteq Tokens /\ Unused(Issue[i])
      => Unused(Issue[i + 1])

(* So are the requests of one tab: it is enough to see q1 sent first.      *)
RequestsInOrder == req[q1].step = "idle" => req[q2].step = "idle"
=============================================================================
