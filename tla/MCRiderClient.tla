---------------------------- MODULE MCRiderClient ----------------------------
(* RiderClient on a small instance: an immediate ride and a reservation.   *)
EXTENDS RiderClient

CONSTANTS r1, r2, p1, c1

TwoRides    == {r1, r2}
Reservation == {r2}
=============================================================================
