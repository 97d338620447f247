---------------------------- MODULE CaptainSwitch ----------------------------
(***************************************************************************)
(* What the captain's page and the database say of the captain: the switch *)
(* of the page (handleOnlineToggle) and setCaptainStatus by their awaits,  *)
(* the request that accepts a ride, the ride's end, the page's socket, the *)
(* disconnect handler, and the loss of any of the answers.                 *)
(***************************************************************************)
EXTENDS Integers

CONSTANTS
  Captains,
  FaultsAllowed    \* may a query, a request, an answer or a connection fail?

ASSUME SwitchAssumption == FaultsAllowed \in BOOLEAN

VARIABLES
  status, ride,    \* Postgres: the captain's status, and their ride
  online, named,   \* the page: isOnline, and whether it shows a ride
  toggle,          \* the request of the switch, by its awaits
  waiting,         \* does the page still wait for the switch's answer?
  accept,          \* the request to accept a ride
  link,            \* is the page's socket connected?
  ghosts,          \* connections that are gone, the server has not noticed
  leaving,         \* disconnect handlers before their write of the status
  astray           \* history: captains of whom page and database may say
                   \* different things, for a reason the actions name

rows    == <<status, ride>>
screen  == <<online, named>>
switch  == <<toggle, waiting>>
closing == <<ghosts, leaving>>
vars == <<rows, screen, switch, accept, link, closing, astray>>

TypeOK ==
  /\ status \in [Captains -> {"OFFLINE", "AVAILABLE", "ON_RIDE"}]
  /\ ride \in [Captains -> {"none", "driving", "over"}]
  /\ online \in [Captains -> BOOLEAN] /\ named \in [Captains -> BOOLEAN]
  /\ toggle \in [Captains -> {"idle", "on", "off", "available", "offline",
                              "register", "unregister"}]
  /\ waiting \in [Captains -> BOOLEAN]
  /\ accept \in [Captains -> {"idle", "sent", "late", "taken"}]
  /\ link \in [Captains -> BOOLEAN]
  /\ ghosts \in [Captains -> 0 .. 1] /\ leaving \in [Captains -> 0 .. 1]
  /\ astray \subseteq Captains

Init ==
  /\ status = [c \in Captains |-> "OFFLINE"] /\ ride = [c \in Captains |-> "none"]
  /\ online = [c \in Captains |-> FALSE] /\ named = [c \in Captains |-> FALSE]
  /\ toggle = [c \in Captains |-> "idle"] /\ waiting = [c \in Captains |-> FALSE]
  /\ accept = [c \in Captains |-> "idle"] /\ link = [c \in Captains |-> FALSE]
  /\ ghosts = [c \in Captains |-> 0] /\ leaving = [c \in Captains |-> 0]
  /\ astray = {}

Stray(c, apart) == astray' = IF apart THEN astray \cup {c} ELSE astray \ {c}

-----------------------------------------------------------------------------
(* The switch                                                              *)

(* Not while the page shows a ride; one may just be being accepted.        *)
(* Bound: the server is done with the captain's last request.              *)
Toggle(c) ==
  /\ toggle[c] = "idle" /\ ~named[c]
  /\ toggle' = [toggle EXCEPT ![c] = IF online[c] THEN "off" ELSE "on"]
  /\ waiting' = [waiting EXCEPT ![c] = TRUE]
  /\ UNCHANGED <<rows, screen, accept, link, closing, astray>>

Answered(c) == /\ toggle' = [toggle EXCEPT ![c] = "idle"]
               /\ waiting' = [waiting EXCEPT ![c] = FALSE]

ReadStatus_NoCheck(c) ==
  /\ toggle[c] \in {"on", "off"}
  /\ toggle' = [toggle EXCEPT ![c] = IF @ = "on" THEN "available" ELSE "offline"]
  /\ UNCHANGED <<rows, screen, waiting, accept, link, closing, astray>>

ReadStatus_NothingToDo(c) ==
  /\ toggle[c] \in {"on", "off"}
  /\ IF status[c] \in {"ON_RIDE", IF toggle[c] = "on" THEN "AVAILABLE" ELSE "OFFLINE"}
       THEN Answered(c)
       ELSE /\ toggle' = [toggle EXCEPT ![c] = IF @ = "on" THEN "available" ELSE "offline"]
            /\ UNCHANGED waiting
  /\ UNCHANGED <<rows, screen, accept, link, closing, astray>>

(* setCaptainStatus reads the status, and writes it some awaits later. The *)
(* refusal of a captain on a ride leaves the page as it is.                *)
ReadStatus(c) ==
  /\ toggle[c] \in {"on", "off"}
  /\ IF status[c] = "ON_RIDE"
       THEN Answered(c)
       ELSE /\ toggle' = [toggle EXCEPT ![c] = IF @ = "on" THEN "available" ELSE "offline"]
            /\ UNCHANGED waiting
  /\ UNCHANGED <<rows, screen, accept, link, closing, astray>>

(* Whoever was astray is not any more, if the page hears of it: but for a  *)
(* captain whose ride was accepted since the status was read.              *)
UpdateStatus(c) ==
  /\ \/ /\ toggle[c] = "available"
        /\ status' = [status EXCEPT ![c] = "AVAILABLE"]
        /\ toggle' = [toggle EXCEPT ![c] = "register"]
     \/ /\ toggle[c] = "offline"
        /\ status' = [status EXCEPT ![c] = "OFFLINE"]
        /\ toggle' = [toggle EXCEPT ![c] = "unregister"]
  /\ Stray(c, ~waiting[c] \/ ride[c] = "driving")
  /\ UNCHANGED <<ride, screen, waiting, accept, link, closing>>

(* The request is lost, or a query fails, before the status is written.    *)
SwitchFails(c) ==
  /\ FaultsAllowed /\ toggle[c] \in {"on", "off", "available", "offline"}
  /\ Answered(c)
  /\ UNCHANGED <<rows, screen, accept, link, closing, astray>>

(* The connection is lost while the server goes on: the page's catch       *)
(* leaves isOnline as it was.                                              *)
GiveUp(c) ==
  /\ FaultsAllowed /\ waiting[c]
  /\ waiting' = [waiting EXCEPT ![c] = FALSE]
  /\ Stray(c, c \in astray \/ toggle[c] \in {"register", "unregister"})
  /\ UNCHANGED <<rows, screen, toggle, accept, link, closing>>

(* The end of setCaptainStatus, after Redis, and its answer.               *)
Register(c) ==
  /\ toggle[c] = "register"
  /\ online' = [online EXCEPT ![c] = (@ \/ waiting[c])]
  /\ Answered(c)
  /\ UNCHANGED <<rows, named, accept, link, closing, astray>>

(* The page lets its socket go; the server is told, or finds out later.    *)
Close(c) == /\ link' = [link EXCEPT ![c] = FALSE]
            /\ ghosts' = [ghosts EXCEPT ![c] = IF link[c] THEN @ + 1 ELSE @]

Unregister_KeepsSocket(c) ==
  /\ toggle[c] = "unregister" /\ ghosts[c] = 0
  /\ online' = [online EXCEPT ![c] = (@ /\ ~waiting[c])]
  /\ Answered(c)
  /\ UNCHANGED <<rows, named, accept, link, closing, astray>>

(* Bound: the server has noticed the captain's last connection to break.   *)
Unregister(c) ==
  /\ toggle[c] = "unregister" /\ ghosts[c] = 0
  /\ IF waiting[c] THEN online' = [online EXCEPT ![c] = FALSE] /\ Close(c)
                   ELSE UNCHANGED <<online, link, ghosts>>
  /\ Answered(c)
  /\ UNCHANGED <<rows, named, accept, leaving, astray>>

-----------------------------------------------------------------------------
(* The socket                                                              *)

Connect(c) ==
  /\ online[c] /\ ~link[c]
  /\ link' = [link EXCEPT ![c] = TRUE]
  /\ UNCHANGED <<rows, screen, switch, accept, closing, astray>>

(* Bound: as in Unregister.                                                *)
Drop(c) ==
  /\ FaultsAllowed /\ link[c] /\ ghosts[c] = 0
  /\ Close(c)
  /\ UNCHANGED <<rows, screen, switch, accept, leaving, astray>>

(* The disconnect handler, which writes the status some awaits later.      *)
Notice(c) ==
  /\ ghosts[c] > 0 /\ leaving[c] = 0
  /\ ghosts' = [ghosts EXCEPT ![c] = @ - 1]
  /\ leaving' = [leaving EXCEPT ![c] = @ + 1]
  /\ UNCHANGED <<rows, screen, switch, accept, link, astray>>

ResetStatus_Always(c) ==
  /\ leaving[c] > 0
  /\ leaving' = [leaving EXCEPT ![c] = @ - 1]
  /\ status' = [status EXCEPT ![c] = "OFFLINE"]
  /\ Stray(c, c \in astray \/ status[c] = "AVAILABLE")
  /\ UNCHANGED <<ride, screen, switch, accept, link, ghosts>>

(* A page that is still there, or has come back, does not hear of it. The  *)
(* handler's catch swallows an update that fails.                          *)
ResetStatus(c) ==
  /\ leaving[c] > 0
  /\ leaving' = [leaving EXCEPT ![c] = @ - 1]
  /\ \/ /\ status[c] = "AVAILABLE"
        /\ status' = [status EXCEPT ![c] = "OFFLINE"]
        /\ Stray(c, TRUE)
     \/ /\ status[c] # "AVAILABLE" \/ FaultsAllowed
        /\ UNCHANGED <<status, astray>>
  /\ UNCHANGED <<ride, screen, switch, accept, link, ghosts>>

-----------------------------------------------------------------------------
(* The ride                                                                *)

(* The screen shows a request and no ride: also that of a page which is    *)
(* offline, where a reservation can be claimed.                            *)
(* Bound: the server is done with the captain's last request.              *)
AskAccept(c) ==
  /\ accept[c] = "idle" /\ ~named[c]
  /\ accept' = [accept EXCEPT ![c] = "sent"]
  /\ UNCHANGED <<rows, screen, switch, link, closing, astray>>

(* acceptRide, of a page that waits for the answer, or does not any more.  *)
(* It may come between the two halves of the switch.                       *)
(* Bound: one ride at a time, of a captain the last one has released.      *)
Accept(c) ==
  /\ accept[c] \in {"sent", "late"} /\ status[c] = "AVAILABLE" /\ ride[c] = "none"
  /\ status' = [status EXCEPT ![c] = "ON_RIDE"]
  /\ ride' = [ride EXCEPT ![c] = "driving"]
  /\ accept' = [accept EXCEPT ![c] = IF @ = "sent" THEN "taken" ELSE "idle"]
  /\ Stray(c, \/ accept[c] = "late" \/ toggle[c] \in {"available", "offline"}
              \/ c \in astray /\ toggle[c] # "idle")
  /\ UNCHANGED <<screen, switch, link, closing>>

(* The ride is another captain's, or the request is lost.                  *)
AcceptRefused(c) ==
  /\ accept[c] \in {"sent", "late"}
  /\ accept' = [accept EXCEPT ![c] = "idle"]
  /\ UNCHANGED <<rows, screen, switch, link, closing, astray>>

AcceptAnswered(c) ==
  /\ accept[c] = "taken"
  /\ accept' = [accept EXCEPT ![c] = "idle"]
  /\ named' = [named EXCEPT ![c] = TRUE]
  /\ UNCHANGED <<rows, online, switch, link, closing, astray>>

(* The answer is lost, before the ride is taken or after: the page shows   *)
(* no ride.                                                                *)
AcceptUnheard(c) ==
  /\ FaultsAllowed /\ accept[c] \in {"sent", "taken"}
  /\ accept' = [accept EXCEPT ![c] = IF @ = "sent" THEN "late" ELSE "idle"]
  /\ Stray(c, c \in astray \/ accept[c] = "taken")
  /\ UNCHANGED <<rows, screen, switch, link, closing>>

(* The captain completes the ride, or the rider cancels it.                *)
RideEnds(c) ==
  /\ ride[c] = "driving"
  /\ ride' = [ride EXCEPT ![c] = "over"]
  /\ UNCHANGED <<status, screen, switch, accept, link, closing, astray>>

(* Then the captain becomes AVAILABLE, also one who is not ON_RIDE any     *)
(* more; a cancellation leaves one who is OFFLINE. The captain's page      *)
(* hears of its own ride's end, not of a cancellation.                     *)
Release(c) ==
  /\ ride[c] = "over"
  /\ ride' = [ride EXCEPT ![c] = "none"]
  /\ \/ status' = [status EXCEPT ![c] = "AVAILABLE"]
     \/ (status[c] = "OFFLINE" \/ FaultsAllowed) /\ UNCHANGED status
  /\ \E isShown \in {named[c], FALSE} : named' = [named EXCEPT ![c] = isShown]
  /\ Stray(c, \/ c \in astray \/ toggle[c] = "unregister"
              \/ ~online[c] \/ status'[c] # "AVAILABLE")
  /\ UNCHANGED <<online, switch, accept, link, closing>>

(* The page is loaded again, and restores itself from the server: a ride,  *)
(* or an offer, puts it online; otherwise it starts offline. A ride is not *)
(* found when the query fails, or when another of the captain's rides was  *)
(* booked later. The requests under way go on.                             *)
(* Bound: the page restores itself at once; and as in Unregister.          *)
Reload(c) ==
  /\ ghosts[c] = 0
  /\ \E found \in IF ride[c] = "driving" THEN BOOLEAN ELSE {FALSE},
        offer \in IF status[c] = "AVAILABLE" THEN BOOLEAN ELSE {FALSE} :
       /\ online' = [online EXCEPT ![c] = (found \/ offer)]
       /\ named' = [named EXCEPT ![c] = found]
       /\ Stray(c, \/ ride[c] = "driving" /\ ~(found /\ status[c] = "ON_RIDE")
                   \/ status[c] = "AVAILABLE" /\ ~offer)
  /\ waiting' = [waiting EXCEPT ![c] = FALSE]
  /\ accept' = [accept EXCEPT ![c] = CASE @ = "sent"  -> "late"
                                      [] @ = "taken" -> "idle"
                                      [] OTHER       -> @]
  /\ Close(c)
  /\ UNCHANGED <<rows, toggle, leaving>>

Next ==
  \E c \in Captains :
    \/ Toggle(c) \/ ReadStatus(c) \/ UpdateStatus(c) \/ SwitchFails(c) \/ GiveUp(c)
    \/ Register(c) \/ Unregister(c)
    \/ Connect(c) \/ Drop(c) \/ Notice(c) \/ ResetStatus(c)
    \/ AskAccept(c) \/ Accept(c) \/ AcceptRefused(c) \/ AcceptAnswered(c)
    \/ AcceptUnheard(c) \/ RideEnds(c) \/ Release(c) \/ Reload(c)

(* The server works on the switch's requests, and finds a connection gone  *)
(* by its ping timeout. Nobody is bound to touch the switch, to accept, to *)
(* drive or to reconnect.                                                  *)
Fairness ==
  \A c \in Captains :
    /\ WF_vars(ReadStatus(c)) /\ WF_vars(UpdateStatus(c))
    /\ WF_vars(Register(c)) /\ WF_vars(Unregister(c))
    /\ WF_vars(Notice(c)) /\ WF_vars(ResetStatus(c))

Spec == Init /\ [][Next]_vars /\ Fairness

-----------------------------------------------------------------------------
(* Properties                                                              *)

Switching(c, step) == waiting[c] /\ toggle[c] = step

(* What the page says is what the database says, at every await of the     *)
(* switch and of an accept, but for the captains astray: an answer was     *)
(* lost or the page reloaded, a ride was accepted between the two halves   *)
(* of the switch, or a disconnect handler or a released ride changed the   *)
(* status behind the page's back. Of all others: who has a ride is ON_RIDE *)
(* and sees it, or is about to; who is AVAILABLE is online, and who is     *)
(* OFFLINE is not, once the switch is answered (captain/page.tsx:121-204,  *)
(* captain.service.ts:27-79, socket.ts:218-245).                           *)
PagesAgree ==
  \A c \in Captains :
    /\ link[c] => online[c]
    /\ waiting[c] => /\ toggle[c] \in {"on", "available", "register"} => ~online[c]
                     /\ toggle[c] \in {"off", "offline", "unregister"} => online[c]
    /\ c \notin astray =>
         /\ ride[c] = "driving" =>
              status[c] = "ON_RIDE" /\ (named[c] \/ accept[c] = "taken")
         /\ status[c] = "AVAILABLE" /\ ~online[c] => Switching(c, "register")
         /\ status[c] = "OFFLINE" /\ online[c] => Switching(c, "unregister")
         /\ Switching(c, "available") \/ Switching(c, "offline") => ride[c] # "driving"
         /\ Switching(c, "register") => status[c] # "OFFLINE"
         /\ Switching(c, "unregister") => status[c] = "OFFLINE"

SwitchInv == TypeOK /\ PagesAgree

(* Nobody who is free to use the switch stays astray: whatever was lost    *)
(* before, one who goes on using it, whose requests get through now and    *)
(* then and whose page hears the answers, has page and database say the    *)
(* same again and again: the server refuses no request because nothing is  *)
(* to change (captain.service.ts:27-34, captain/page.tsx:121-168).         *)
InAgreement(c) == toggle[c] = "idle" /\ (online[c] <=> status[c] = "AVAILABLE")

SwitchRecovers ==
  \A c \in Captains :
    /\ WF_vars(Toggle(c)) /\ SF_vars(ReadStatus(c)) /\ SF_vars(UpdateStatus(c))
    /\ <>[](status[c] # "ON_RIDE" /\ ~named[c])
    /\ <>[][~GiveUp(c) /\ ~Reload(c) /\ ~Drop(c)]_vars
    => []<>InAgreement(c)

(* Seen by the positions, the requests do nothing that CaptainLink does    *)
(* not let them do.                                                        *)
Stage(step) == IF step \in {"register", "unregister"} THEN step ELSE "idle"
Link == INSTANCE CaptainLink WITH
          available <- [c \in Captains |-> status[c] = "AVAILABLE"],
          toggle <- [c \in Captains |-> Stage(toggle[c])]
LinkSpec == Link!LinkSpec
=============================================================================
