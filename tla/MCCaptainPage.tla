---------------------------- MODULE MCCaptainPage ----------------------------
(* CaptainPage on a small instance.                                        *)
EXTENDS CaptainPage

CONSTANTS r1, r2, c1

TwoRides == {r1, r2}
InOrder  == [r \in TwoRides |-> IF r = r1 THEN 1 ELSE 2]
TwoFilters == {"ALL", "COMPLETED"}
Pages      == [f \in TwoFilters |-> IF f = "ALL" THEN 2 ELSE 0]
=============================================================================
