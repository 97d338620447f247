----------------------------- MODULE CaptainLink -----------------------------
(***************************************************************************)
(* What the positions of the captains depend on: whether Postgres has the  *)
(* captain AVAILABLE, what the page shows, and its socket. Which request   *)
(* or handler does what, and which answer is lost, is left open here:      *)
(* CaptainSwitch has them one by one and implements this module,           *)
(* CaptainPresence adds the positions to it.                               *)
(***************************************************************************)
EXTENDS Integers

CONSTANTS
  Captains,
  FaultsAllowed    \* may Redis, a query, an answer or a connection fail?

ASSUME LinkAssumption == FaultsAllowed \in BOOLEAN

VARIABLES
  available,       \* Postgres: is the captain's status AVAILABLE?
  online, named,   \* the page: isOnline, and whether it shows a ride
  toggle,          \* setCaptainStatus, between the status and the position
  link,            \* is the page's socket connected?
  ghosts           \* connections that are gone, the server has not noticed

screen == <<online, named>>
socket == <<link, ghosts>>
linkVars == <<available, screen, toggle, socket>>

LinkType ==
  /\ available \in [Captains -> BOOLEAN]
  /\ online \in [Captains -> BOOLEAN] /\ named \in [Captains -> BOOLEAN]
  /\ toggle \in [Captains -> {"idle", "register", "unregister"}]
  /\ link \in [Captains -> BOOLEAN] /\ ghosts \in [Captains -> 0 .. 1]

LinkInit ==
  /\ available = [c \in Captains |-> FALSE]
  /\ online = [c \in Captains |-> FALSE] /\ named = [c \in Captains |-> FALSE]
  /\ toggle = [c \in Captains |-> "idle"]
  /\ link = [c \in Captains |-> FALSE] /\ ghosts = [c \in Captains |-> 0]

(* The page lets its socket go; the server is told, or finds out later.    *)
Close(c) == /\ link' = [link EXCEPT ![c] = FALSE]
            /\ ghosts' = [ghosts EXCEPT ![c] = IF link[c] THEN @ + 1 ELSE @]

(* setCaptainStatus writes the status.                                     *)
WriteStatus(c) ==
  /\ toggle[c] = "idle"
  /\ \/ /\ available' = [available EXCEPT ![c] = TRUE]
        /\ toggle' = [toggle EXCEPT ![c] = "register"]
     \/ /\ available' = [available EXCEPT ![c] = FALSE]
        /\ toggle' = [toggle EXCEPT ![c] = "unregister"]
  /\ UNCHANGED <<screen, socket>>

(* The answer takes the page online or offline, or is lost.                *)
Registered(c) ==
  /\ toggle[c] = "register"
  /\ toggle' = [toggle EXCEPT ![c] = "idle"]
  /\ \E isOnline \in {online[c], TRUE} : online' = [online EXCEPT ![c] = isOnline]
  /\ UNCHANGED <<available, named, socket>>

(* Bound: the server has noticed the captain's last connection to break.   *)
Unregistered(c) ==
  /\ toggle[c] = "unregister" /\ ghosts[c] = 0
  /\ toggle' = [toggle EXCEPT ![c] = "idle"]
  /\ \/ online' = [online EXCEPT ![c] = FALSE] /\ Close(c)
     \/ UNCHANGED <<online, socket>>
  /\ UNCHANGED <<available, named>>

Connect(c) ==
  /\ online[c] /\ ~link[c]
  /\ link' = [link EXCEPT ![c] = TRUE]
  /\ UNCHANGED <<available, screen, toggle, ghosts>>

(* Bound: as in Unregistered.                                              *)
Drop(c) ==
  /\ FaultsAllowed /\ link[c] /\ ghosts[c] = 0
  /\ Close(c)
  /\ UNCHANGED <<available, screen, toggle>>

(* The server's disconnect handler starts.                                 *)
Noticed(c) ==
  /\ ghosts[c] > 0
  /\ ghosts' = [ghosts EXCEPT ![c] = @ - 1]
  /\ UNCHANGED <<available, screen, toggle, link>>

(* The captain accepts a ride, or a disconnect handler sets them OFFLINE.  *)
Withdrawn(c) ==
  /\ available' = [available EXCEPT ![c] = FALSE]
  /\ UNCHANGED <<screen, toggle, socket>>

(* The page shows the ride that was accepted.                              *)
RideShown(c) ==
  /\ named' = [named EXCEPT ![c] = TRUE]
  /\ UNCHANGED <<available, online, toggle, socket>>

(* The end of the ride releases the captain; the page may go on showing it.*)
Released(c) ==
  /\ \E isFree \in {available[c], TRUE} : available' = [available EXCEPT ![c] = isFree]
  /\ \E isShown \in {named[c], FALSE} : named' = [named EXCEPT ![c] = isShown]
  /\ UNCHANGED <<online, toggle, socket>>

(* The page is loaded again. Bound: as in Unregistered.                    *)
Reloaded(c) ==
  /\ ghosts[c] = 0
  /\ \E isOnline \in BOOLEAN, isShown \in BOOLEAN :
       /\ isShown => isOnline
       /\ online' = [online EXCEPT ![c] = isOnline]
       /\ named' = [named EXCEPT ![c] = isShown]
  /\ Close(c)
  /\ UNCHANGED <<available, toggle>>

(* What leaves the positions alone.                                        *)
PageStep(c) ==
  \/ WriteStatus(c) \/ Connect(c) \/ Drop(c)
  \/ Withdrawn(c) \/ RideShown(c) \/ Released(c) \/ Reloaded(c)

LinkNext ==
  \E c \in Captains : PageStep(c) \/ Registered(c) \/ Unregistered(c) \/ Noticed(c)

(* Requests are answered, and the server finds a connection gone by its    *)
(* ping timeout.                                                           *)
LinkSpec ==
  /\ LinkInit /\ [][LinkNext]_linkVars
  /\ \A c \in Captains :
       WF_linkVars(Registered(c)) /\ WF_linkVars(Unregistered(c)) /\ WF_linkVars(Noticed(c))
=============================================================================
