---------------------------- MODULE CaptainClient ----------------------------
(***************************************************************************)
(* The captain's cockpit: the store's isOnline, activeRequest and          *)
(* activeRide, the requests the page has under way, the offers on its      *)
(* socket and the poll for a request, over the rows of the rides and of    *)
(* this captain. The server's handlers are single steps here: their own    *)
(* races are RideService's subject.                                        *)
(***************************************************************************)
EXTENDS RideRows

CONSTANTS
  Rides, NoRide,
  CreatedAt,       \* the order in which the rides are inserted
  FaultsAllowed    \* may requests and answers be lost?

ASSUME CockpitAssumption ==
  /\ NoRide \notin Rides
  /\ CreatedAt \in [Rides -> Nat]
  /\ FaultsAllowed \in BOOLEAN

VARIABLES
  rides,     \* the status of each ride
  mine,      \* the rides whose captainId is this captain
  rejected,  \* the rides with a rejection by this captain
  captain,   \* the captain's status in the database
  online, request, ride,   \* the store
  accept,    \* the accept under way; the page is accepting meanwhile
  update,    \* the arrived, start or complete under way
  toggle,    \* the switch's request under way
  rejects,   \* reject requests under way
  restore,   \* getCurrentState under way
  unknown    \* history: rides whose row the page could not learn

server == <<rides, mine, rejected, captain>>
page   == <<online, request, ride>>
calls  == <<accept, update, toggle, rejects>>
vars   == <<server, page, calls, restore, unknown>>

NoView == [ride |-> NoRide, status |-> "NONE"]
View(r, status) == [ride |-> r, status |-> status]
Views  == [ride : Rides \cup {NoRide}, status : RideStatuses]
MaybeRide == Rides \cup {NoRide}

Idle   == [step |-> "idle", view |-> NoView]
Failed == [step |-> "failed", view |-> NoView]
CallStates == [step : {"idle", "sent", "done", "failed"}, view : Views]
ToggleSteps == {"idle", "on", "off"}
Restored  == [step |-> "taken", ride |-> NoView]
Restoring == [step |-> "asked", ride |-> NoView]

TypeOK ==
  /\ rides \in [Rides -> RideStatuses]
  /\ mine \subseteq Rides /\ rejected \subseteq Rides
  /\ captain \in CaptainStatuses
  /\ online \in BOOLEAN /\ request \in MaybeRide /\ ride \in Views
  /\ accept \in CallStates /\ update \in CallStates
  /\ toggle \in ToggleSteps /\ rejects \subseteq Rides
  /\ restore \in [step : {"asked", "read", "taken"}, ride : Views]
  /\ unknown \subseteq Rides

Init ==
  /\ rides = [r \in Rides |-> "NONE"]
  /\ mine = {} /\ rejected = {} /\ captain = "OFFLINE"
  /\ online = FALSE /\ request = NoRide /\ ride = NoView
  /\ accept = Idle /\ update = Idle /\ toggle = "idle" /\ rejects = {}
  /\ restore = Restoring
  /\ unknown = {}

Driving(r) == r \in mine /\ rides[r] \in ActiveStatuses

Show(isOnline, activeRequest, activeRide) ==
  online' = isOnline /\ request' = activeRequest /\ ride' = activeRide

-----------------------------------------------------------------------------
(* The other clients of the server                                         *)

Book(r) ==
  /\ rides[r] = "NONE"
  /\ \A q \in Rides : CreatedAt[q] < CreatedAt[r] => rides[q] # "NONE"
  /\ rides' = [rides EXCEPT ![r] = "SEARCHING"]
  /\ UNCHANGED <<mine, rejected, captain, page, calls, restore, unknown>>

(* Bound: what another captain does with the ride he took is left out.     *)
TakenByOther(r) ==
  /\ rides[r] = "SEARCHING"
  /\ rides' = [rides EXCEPT ![r] = "CAPTAIN_ASSIGNED"]
  /\ UNCHANGED <<mine, rejected, captain, page, calls, restore, unknown>>

(* The rider cancels, or nobody has accepted in time; the page of a        *)
(* captain who drives is told ride:cancelled and does not listen.          *)
Cancelled(r) ==
  /\ rides[r] = "SEARCHING" \/ (Driving(r) /\ rides[r] \in CancellableStatuses)
  /\ rides' = [rides EXCEPT ![r] = "CANCELLED"]
  /\ captain' = IF Driving(r) /\ captain = "ON_RIDE" THEN "AVAILABLE" ELSE captain
  /\ UNCHANGED <<mine, rejected, page, calls, restore, unknown>>

-----------------------------------------------------------------------------
(* What the page reads                                                     *)

(* getCaptainActiveRequest: the newest of the immediate rides he may take. *)
Requestable == {r \in Rides : rides[r] = "SEARCHING" /\ r \notin rejected}
ActiveRequest ==
  IF captain # "AVAILABLE" \/ Requestable = {} THEN NoRide
  ELSE CHOOSE r \in Requestable : \A q \in Requestable : CreatedAt[q] <= CreatedAt[r]

(* The effect of the poll ends, and its answer is dropped, when one of its *)
(* three conditions does: the answer is as good as read when it is taken.  *)
Poll ==
  /\ online /\ ride = NoView /\ request = NoRide
  /\ ActiveRequest # NoRide
  /\ Show(online, ActiveRequest, ride)
  /\ UNCHANGED <<server, calls, restore, unknown>>

(* ride:new, which may have been on its way for long.                      *)
NewRide(r) ==
  /\ online /\ rides[r] # "NONE"
  /\ Show(online, r, ride)
  /\ UNCHANGED <<server, calls, restore, unknown>>

(* getCurrentState: of the captain's rides, /captains/rides puts the       *)
(* newest first, and only that one is looked at.                           *)
NewestOfMine == CHOOSE r \in mine : \A q \in mine : CreatedAt[q] <= CreatedAt[r]

LatestRide_NotArrived ==
  IF mine # {} /\ rides[NewestOfMine] \in ActiveStatuses \ {"CAPTAIN_ARRIVED"}
    THEN View(NewestOfMine, rides[NewestOfMine]) ELSE NoView

LatestRide ==
  IF mine # {} /\ rides[NewestOfMine] \in ActiveStatuses
    THEN View(NewestOfMine, rides[NewestOfMine]) ELSE NoView

ReadRides ==
  /\ restore.step = "asked"
  /\ \E v \in {LatestRide} \cup IF FaultsAllowed THEN {NoView} ELSE {} :
       /\ restore' = [step |-> "read", ride |-> v]
       /\ unknown' = unknown \cup
             {r \in Rides : Driving(r) /\ (v = NoView \/ r # NewestOfMine)}
  /\ UNCHANGED <<server, page, calls>>

(* The request is read as late as the answer is taken.                     *)
Restore ==
  /\ restore.step = "read"
  /\ \E q \in {ActiveRequest} \cup IF FaultsAllowed THEN {NoRide} ELSE {} :
       Show(online \/ restore.ride # NoView \/ q # NoRide,
            IF q # NoRide THEN q ELSE request,
            IF restore.ride # NoView THEN restore.ride ELSE ride)
  /\ restore' = Restored
  /\ UNCHANGED <<server, calls, unknown>>

(* Bound: the captain waits for an answer before the next request, unless  *)
(* the ride he has declined is offered again at once.                      *)
Waiting == accept # Idle \/ update # Idle \/ toggle # "idle" \/ rejects # {}

-----------------------------------------------------------------------------
(* Accepting and declining                                                 *)

(* The card of the offer, with its two buttons.                            *)
OfferShown == request # NoRide /\ ride = NoView

Accept ==
  /\ OfferShown
  /\ accept = Idle /\ update = Idle /\ toggle = "idle" /\ rejects \subseteq {request}
  /\ accept' = [step |-> "sent", view |-> View(request, "SEARCHING")]
  /\ unknown' = IF restore = Restored THEN unknown ELSE unknown \cup {request}
  /\ UNCHANGED <<server, page, update, toggle, rejects, restore>>

(* The answer, or its loss.                                               *)
Answers(view) == {[step |-> "done", view |-> view]} \cup IF FaultsAllowed THEN {Failed} ELSE {}

(* acceptRide. When the answer is lost the page does not know of its ride. *)
AcceptRide ==
  /\ accept.step = "sent"
  /\ LET r == accept.view.ride IN
       IF rides[r] = "SEARCHING" /\ captain = "AVAILABLE" /\ r \notin rejected
         THEN /\ rides' = [rides EXCEPT ![r] = "CAPTAIN_ASSIGNED"]
              /\ mine' = mine \cup {r}
              /\ captain' = "ON_RIDE"
              /\ accept' \in Answers(View(r, "CAPTAIN_ASSIGNED"))
              /\ unknown' = IF accept' = Failed THEN unknown \cup {r} ELSE unknown
         ELSE /\ accept' = Failed
              /\ UNCHANGED <<rides, mine, captain, unknown>>
  /\ UNCHANGED <<rejected, page, update, toggle, rejects, restore>>

AcceptFails ==
  /\ FaultsAllowed /\ accept.step = "sent"
  /\ accept' = Failed
  /\ UNCHANGED <<server, page, update, toggle, rejects, restore, unknown>>

AcceptAnswered_Anyway ==
  /\ accept.step \in {"done", "failed"}
  /\ Show(online, NoRide, View(request, "CAPTAIN_ASSIGNED"))
  /\ accept' = Idle
  /\ UNCHANGED <<server, update, toggle, rejects, restore, unknown>>

AcceptAnswered ==
  /\ accept.step \in {"done", "failed"}
  /\ Show(online, NoRide, IF accept.step = "done" THEN accept.view ELSE ride)
  /\ accept' = Idle
  /\ UNCHANGED <<server, update, toggle, rejects, restore, unknown>>

Decline ==
  /\ OfferShown /\ ~Waiting
  /\ rejects' = rejects \cup {request}
  /\ Show(online, NoRide, ride)
  /\ UNCHANGED <<server, accept, update, toggle, restore, unknown>>

RejectRide(r) ==
  /\ r \in rejects
  /\ rejects' = rejects \ {r}
  /\ rejected' = IF rides[r] = "SEARCHING" THEN rejected \cup {r} ELSE rejected
  /\ UNCHANGED <<rides, mine, captain, page, accept, update, toggle, restore, unknown>>

RejectFails(r) ==
  /\ FaultsAllowed /\ r \in rejects
  /\ rejects' = rejects \ {r}
  /\ UNCHANGED <<server, page, accept, update, toggle, restore, unknown>>

(* The request leaves the screen after fifteen seconds, unless it is being *)
(* accepted.                                                               *)
Expire ==
  /\ request # NoRide /\ accept = Idle
  /\ Show(online, NoRide, ride)
  /\ UNCHANGED <<server, calls, restore, unknown>>

(* The list of reservations is up to 45 seconds old, and one of its two    *)
(* buttons asks for neither the status nor the captain.                    *)
Claim(r) ==
  /\ rides[r] # "NONE"
  /\ Show(online, r, ride)
  /\ UNCHANGED <<server, calls, restore, unknown>>

-----------------------------------------------------------------------------
(* Driving                                                                 *)

NextStatus(status) ==
  CASE status \in ArrivableStatuses -> "CAPTAIN_ARRIVED"
    [] status = "CAPTAIN_ARRIVED"   -> "IN_PROGRESS"
    [] status = "IN_PROGRESS"       -> "COMPLETED"
    [] OTHER                        -> "NONE"

Accepts_Any(status) == RideStatuses

Accepts(status) ==
  CASE status = "CAPTAIN_ARRIVED" -> ArrivableStatuses
    [] status = "IN_PROGRESS"     -> StartableStatuses
    [] status = "COMPLETED"       -> {"IN_PROGRESS"}

Press ==
  /\ NextStatus(ride.status) # "NONE" /\ ~Waiting
  /\ update' = [step |-> "sent", view |-> View(ride.ride, NextStatus(ride.status))]
  /\ UNCHANGED <<server, page, accept, toggle, rejects, restore, unknown>>

(* markArrived, startRide, completeRide.                                   *)
UpdateRide ==
  /\ update.step = "sent"
  /\ LET r == update.view.ride
         status == update.view.status IN
       IF r \in mine /\ rides[r] \in Accepts(status)
         THEN /\ rides' = [rides EXCEPT ![r] = status]
              /\ captain' = IF status = "COMPLETED" THEN "AVAILABLE" ELSE captain
              /\ update' \in Answers(update.view)
              /\ unknown' = IF update' = Failed THEN unknown \cup {r} ELSE unknown
         ELSE /\ update' = Failed
              /\ UNCHANGED <<rides, captain, unknown>>
  /\ UNCHANGED <<mine, rejected, page, accept, toggle, rejects, restore>>

UpdateFails ==
  /\ FaultsAllowed /\ update.step = "sent"
  /\ update' = Failed
  /\ UNCHANGED <<server, page, accept, toggle, rejects, restore, unknown>>

UpdateAnswered_Optimistic ==
  /\ update.step \in {"done", "failed"}
  /\ Show(online, request,
          CASE update.step = "failed"             -> View(ride.ride, NextStatus(ride.status))
            [] update.view.status = "COMPLETED"   -> NoView
            [] OTHER                              -> update.view)
  /\ update' = Idle
  /\ UNCHANGED <<server, accept, toggle, rejects, restore, unknown>>

UpdateAnswered ==
  /\ update.step \in {"done", "failed"}
  /\ Show(online, request,
          CASE update.step = "failed"             -> ride
            [] update.view.status = "COMPLETED"   -> NoView
            [] OTHER                              -> update.view)
  /\ update' = Idle
  /\ UNCHANGED <<server, accept, toggle, rejects, restore, unknown>>

-----------------------------------------------------------------------------
(* The switch. Going offline drops the request on the screen.              *)

SwitchEnabled == ride = NoView /\ toggle = "idle"

Toggle ==
  /\ SwitchEnabled /\ ~Waiting
  /\ toggle' = IF online THEN "off" ELSE "on"
  /\ Show(online, IF online /\ accept = Idle THEN NoRide ELSE request, ride)
  /\ UNCHANGED <<server, accept, update, rejects, restore, unknown>>

(* setCaptainStatus refuses a captain on a ride. (Its check and its write  *)
(* are two steps in RideService.) The answer may be lost.                  *)
SetStatus ==
  /\ toggle # "idle" /\ captain # "ON_RIDE"
  /\ captain' = IF toggle = "on" THEN "AVAILABLE" ELSE "OFFLINE"
  /\ toggle' = "idle"
  /\ \E heard \in {TRUE} \cup IF FaultsAllowed THEN {FALSE} ELSE {} :
       Show(IF heard THEN toggle = "on" ELSE online, request, ride)
  /\ UNCHANGED <<rides, mine, rejected, accept, update, rejects, restore, unknown>>

StatusKept ==
  /\ toggle # "idle" /\ (FaultsAllowed \/ captain = "ON_RIDE")
  /\ toggle' = "idle"
  /\ UNCHANGED <<server, page, accept, update, rejects, restore, unknown>>

(* Bound: no request is on its way to the server when the page is left.    *)
Reload ==
  /\ accept.step # "sent" /\ update.step # "sent" /\ toggle = "idle" /\ rejects = {}
  /\ online' = FALSE /\ request' = NoRide /\ ride' = NoView
  /\ accept' = Idle /\ update' = Idle /\ toggle' = "idle"
  /\ restore' = Restoring
  /\ unknown' = {}
  /\ UNCHANGED <<server, rejects>>

-----------------------------------------------------------------------------
Others == \E r \in Rides : Book(r) \/ TakenByOther(r) \/ Cancelled(r)

Captain == Accept \/ Decline \/ (\E r \in Rides : Claim(r)) \/ Press \/ Toggle \/ Reload

Handlers ==
  \/ AcceptRide \/ UpdateRide \/ SetStatus \/ StatusKept
  \/ ReadRides \/ \E r \in Rides : RejectRide(r)

Faults == AcceptFails \/ UpdateFails \/ \E r \in Rides : RejectFails(r)

Page ==
  \/ Poll \/ Restore \/ AcceptAnswered \/ UpdateAnswered
  \/ Expire \/ \E r \in Rides : NewRide(r)

Next == Others \/ Captain \/ Handlers \/ Faults \/ Page

Fairness ==
  /\ WF_vars(AcceptRide) /\ WF_vars(AcceptAnswered) /\ WF_vars(UpdateAnswered)
  /\ SF_vars(UpdateRide)
  /\ WF_vars(Restore) /\ SF_vars(ReadRides /\ restore'.ride # NoView)
  /\ WF_vars(SetStatus \/ StatusKept) /\ \A r \in Rides : WF_vars(RejectRide(r))
  /\ WF_vars(Expire)

Spec == Init /\ [][Next]_vars /\ Fairness

-----------------------------------------------------------------------------
Unanswered == accept # Idle \/ update # Idle \/ restore # Restored

(* The ride on the screen is one that the database has given to this       *)
(* captain, however late the offer was that he accepted.                   *)
ShownIsMine == ride # NoView => ride.ride \in mine

CaptainInv == TypeOK /\ ShownIsMine

(* Late, repeated and refused requests of the page take no ride out of its *)
(* order: the rides go through the statuses of RideProgress.               *)
Progress == INSTANCE RideProgress WITH status <- rides

RidesProgress == Progress!Spec

(* A captain who is driving sees his ride, in the step it is in, as soon   *)
(* as nothing is under way: unless the answer to an accept or an update    *)
(* was lost, getCurrentState failed or found a newer ride of his, or he    *)
(* accepted before it had answered. Until the next reload nothing else     *)
(* tells the page.                                                         *)
PageKnowsRide ==
  \A r \in Rides \ unknown : Driving(r) /\ ~Unanswered => ride = View(r, rides[r])

OutOfStep == \E r \in Rides : Driving(r) /\ ride # View(r, rides[r])
Overlooked(r) == \E q \in mine : CreatedAt[q] > CreatedAt[r]

(* A captain who presses the button of his ride, and who reloads a page    *)
(* that is out of step with the server, but none that waits for an answer. *)
Diligent ==
  /\ <>[][Reload => restore = Restored /\ ~Waiting]_vars
  /\ SF_vars(Press) /\ SF_vars(Reload /\ OutOfStep)

(* Such a captain's ride ends however many answers are lost, unless a ride *)
(* of his that was booked later hides it from getCurrentState.             *)
RideCanBeFinished ==
  Diligent => \A r \in Rides : Driving(r) ~> ~Driving(r) \/ Overlooked(r)
=============================================================================
