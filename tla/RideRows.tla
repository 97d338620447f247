------------------------------ MODULE RideRows ------------------------------
(***************************************************************************)
(* The Ride table as the ride service sees it: one row per ride with its   *)
(* status, its captain and the version that optimistic concurrency checks. *)
(* The other columns never guard a state change and are left out.          *)
(***************************************************************************)
EXTENDS Naturals

CONSTANTS Captains, NoCaptain      \* NoCaptain is the NULL captainId

ASSUME NoCaptainAssumption == NoCaptain \notin Captains

(* NONE is a ride that has not been inserted yet. CAPTAIN_ARRIVING is in   *)
(* the schema and in the guards; no code sets it.                          *)
RideStatuses ==
  {"NONE", "SCHEDULED", "SEARCHING", "CAPTAIN_ASSIGNED", "CAPTAIN_ARRIVING",
   "CAPTAIN_ARRIVED", "IN_PROGRESS", "COMPLETED", "CANCELLED"}

CaptainStatuses == {"OFFLINE", "AVAILABLE", "ON_RIDE"}

(* Rides a captain is driving.                                             *)
ActiveStatuses ==
  {"CAPTAIN_ASSIGNED", "CAPTAIN_ARRIVING", "CAPTAIN_ARRIVED", "IN_PROGRESS"}

(* allowedCancelStates                                                     *)
CancellableStatuses ==
  {"SCHEDULED", "SEARCHING", "CAPTAIN_ASSIGNED", "CAPTAIN_ARRIVING",
   "CAPTAIN_ARRIVED"}

ArrivableStatuses == {"CAPTAIN_ASSIGNED", "CAPTAIN_ARRIVING"}

StartableStatuses == {"CAPTAIN_ARRIVED", "CAPTAIN_ASSIGNED"}

FinalStatuses == {"COMPLETED", "CANCELLED"}

Rows == [status  : RideStatuses,
         captain : Captains \cup {NoCaptain},
         version : Nat]

NoRow == [status |-> "NONE", captain |-> NoCaptain, version |-> 0]

(* A new row: version has its schema default.                              *)
Inserted(status) == [status |-> status, captain |-> NoCaptain, version |-> 0]

(* data: { status, version }; the captain stays.                           *)
Written(row, status, version) ==
  [status |-> status, captain |-> row.captain, version |-> version]

(* data: { status, version: { increment: 1 } }                             *)
Advanced(row, status) == Written(row, status, row.version + 1)

(* data: { status: CAPTAIN_ASSIGNED, captainId, version: version + 1 }     *)
AssignedTo(row, c) ==
  [status |-> "CAPTAIN_ASSIGNED", captain |-> c, version |-> row.version + 1]
=============================================================================
