---------------------------- MODULE RideLifecycle ----------------------------
(***************************************************************************)
(* What the ride service promises of the Ride table: every ride moves      *)
(* through its lifecycle by single atomic steps, whoever requests them and *)
(* however the requests interleave. RideService implements this module.    *)
(***************************************************************************)
EXTENDS RideRows

CONSTANT Rides

VARIABLE rides

Init == rides = [r \in Rides |-> NoRow]

Move(r, from, to) ==
  /\ rides[r].status \in from
  /\ rides' = [rides EXCEPT ![r] = Advanced(@, to)]

Book(r) ==
  /\ rides[r].status = "NONE"
  /\ \E s \in {"SEARCHING", "SCHEDULED"} :
       rides' = [rides EXCEPT ![r] = Inserted(s)]

Dispatch(r) == Move(r, {"SCHEDULED"}, "SEARCHING")

(* At most one captain ever gets a ride, while it searches for one.        *)
Assign(r, c) ==
  /\ rides[r].status = "SEARCHING"
  /\ rides' = [rides EXCEPT ![r] = AssignedTo(@, c)]

Arrive(r)   == Move(r, ArrivableStatuses, "CAPTAIN_ARRIVED")
Start(r)    == Move(r, StartableStatuses, "IN_PROGRESS")
Complete(r) == Move(r, {"IN_PROGRESS"}, "COMPLETED")
Cancel(r)   == Move(r, CancellableStatuses, "CANCELLED")

Next ==
  \E r \in Rides :
    \/ Book(r)
    \/ Dispatch(r)
    \/ \E c \in Captains : Assign(r, c)
    \/ Arrive(r)
    \/ Start(r)
    \/ Complete(r)
    \/ Cancel(r)

Spec == Init /\ [][Next]_rides
=============================================================================
