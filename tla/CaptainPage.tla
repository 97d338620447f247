----------------------------- MODULE CaptainPage -----------------------------
(***************************************************************************)
(* The captain's page: the cockpit of CaptainClient and the ride history,  *)
(* which is mounted while its tab is chosen.                               *)
(***************************************************************************)
EXTENDS CaptainClient, RideHistory

VARIABLE activeTab

pageVars == <<vars, historyVars, activeTab>>

PageInit == Init /\ Unmounted /\ activeTab = "cockpit"

(* Bound: the history is opened by a captain without a request or a ride,  *)
(* and the cockpit rests while it is open. (The two share no state, and a  *)
(* request or a ride that appears brings the cockpit back.)                *)
AtRest ==
  /\ \A r \in Rides : rides[r] = "NONE"
  /\ toggle = "idle" /\ restore = Restored

OpenHistory ==
  /\ activeTab = "cockpit" /\ AtRest
  /\ activeTab' = "history" /\ Mount
  /\ UNCHANGED vars

CloseHistory ==
  /\ activeTab = "history"
  /\ activeTab' = "cockpit" /\ Unmount
  /\ UNCHANGED vars

PageNext ==
  \/ activeTab = "cockpit" /\ Next /\ UNCHANGED <<historyVars, activeTab>>
  \/ activeTab = "history" /\ HistoryNext /\ UNCHANGED <<vars, activeTab>>
  \/ OpenHistory \/ CloseHistory

PageSpec == PageInit /\ [][PageNext]_pageVars /\ Fairness /\ HistoryFairness
=============================================================================
