---------------------------- MODULE RideProgress ----------------------------
(***************************************************************************)
(* What the pages rely on: the statuses a ride may have one after the      *)
(* other. RideLifecycle, which also says who gets the ride and counts the  *)
(* versions, implements this module; so does the server that the model of  *)
(* the captain's page stands before.                                       *)
(***************************************************************************)
EXTENDS RideRows

CONSTANT Rides

VARIABLE status

Init == status = [r \in Rides |-> "NONE"]

Move(r, from, to) ==
  /\ status[r] \in from
  /\ status' = [status EXCEPT ![r] = to]

Next ==
  \E r \in Rides :
    \/ Move(r, {"NONE"}, "SCHEDULED")
    \/ Move(r, {"NONE", "SCHEDULED"}, "SEARCHING")
    \/ Move(r, {"SEARCHING"}, "CAPTAIN_ASSIGNED")
    \/ Move(r, ArrivableStatuses, "CAPTAIN_ARRIVED")
    \/ Move(r, StartableStatuses, "IN_PROGRESS")
    \/ Move(r, {"IN_PROGRESS"}, "COMPLETED")
    \/ Move(r, CancellableStatuses, "CANCELLED")

Spec == Init /\ [][Next]_status
=============================================================================
