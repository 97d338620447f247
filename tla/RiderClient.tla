----------------------------- MODULE RiderClient -----------------------------
(***************************************************************************)
(* The rider's page: the activeRide of its store, the socket and its       *)
(* events, the poll of /rides/active every five seconds, the sidebar and   *)
(* the list of reservations, over a server that moves the rider's rides    *)
(* through the statuses of RideRows. An event is emitted after the commit  *)
(* it tells of, from a row read in between; the events of two requests may *)
(* overtake each other until they are on the socket, which keeps their     *)
(* order and loses them when it breaks.                                    *)
(***************************************************************************)
EXTENDS RideRows, Sequences, FiniteSets

CONSTANTS
  Rides, NoRide,
  ScheduledRides,  \* the rides that are booked in advance
  Polls,           \* requests for the active ride that are under way together
  MaxEvents,       \* bound on the events between the server and the page,
  MaxMixedEvents,  \* and while the rider has two rides
  FaultsAllowed    \* may the socket break, a poll fail, the page be reloaded?

ASSUME RiderAssumption ==
  /\ NoRide \notin Rides
  /\ ScheduledRides \subseteq Rides
  /\ MaxEvents \in Nat /\ MaxMixedEvents \in Nat
  /\ FaultsAllowed \in BOOLEAN

VARIABLES
  rides,    \* the status of this rider's rides
  created,  \* the immediate rides in the order of their creation
  due,      \* events to be emitted
  inbox,    \* the socket
  view,     \* the store's activeRide
  poll,     \* the answers of the polls that are under way
  answers,  \* answers of createRide and cancelRide that are under way
  missed    \* history: rides whose end the page was not told in order

server == <<rides, created, due>>
vars   == <<server, inbox, view, poll, answers, missed>>

NoView == [ride |-> NoRide, status |-> "NONE"]
Views  == [ride : Rides \cup {NoRide}, status : RideStatuses]
View(r, status) == [ride |-> r, status |-> status]

Kinds  == {"matching", "assigned", "arrived", "started", "completed", "cancelled"}
Ends   == {"completed", "cancelled"}
Events == [kind : Kinds, ride : Rides, status : RideStatuses]
Event(kind, r, status) == [kind |-> kind, ride |-> r, status |-> status]

NoPoll == [status |-> "none", view |-> NoView]
PollStates == [status : {"none", "answer"}, view : Views]

Calls == {"booked", "cancelled"}
Call(kind, r) == [kind |-> kind, ride |-> r]

TypeOK ==
  /\ rides \in [Rides -> RideStatuses]
  /\ created \in Seq(Rides)
  /\ due \subseteq Events
  /\ inbox \in Seq(Events)
  /\ view \in Views
  /\ poll \in [Polls -> PollStates]
  /\ answers \subseteq [kind : Calls, ride : Rides]
  /\ missed \subseteq Rides

Init ==
  /\ rides = [r \in Rides |-> "NONE"]
  /\ created = <<>> /\ due = {} /\ inbox = <<>>
  /\ view = NoView
  /\ poll = [p \in Polls |-> NoPoll]
  /\ answers = {} /\ missed = {}

-----------------------------------------------------------------------------
(* The server                                                              *)

Searching(r) == rides[r] = "SEARCHING"
Ended(r)     == rides[r] \in FinalStatuses
ShownRides   == {r \in Rides : Searching(r) \/ rides[r] \in ActiveStatuses}

(* getActiveRideForRider: a scheduled ride before an immediate one, the    *)
(* newest of these. (The instances have one scheduled ride.)               *)
Answer ==
  LET scheduled == ShownRides \cap ScheduledRides
      places == {i \in 1 .. Len(created) : created[i] \in ShownRides}
      newest == created[CHOOSE i \in places : \A j \in places : j <= i]
      r == IF scheduled # {} THEN CHOOSE s \in scheduled : TRUE ELSE newest
  IN  IF ShownRides = {} THEN NoView ELSE View(r, rides[r])

Pending == Cardinality(due) + Len(inbox)

(* Bound: MaxEvents on their way, or MaxMixedEvents with another ride.     *)
Room(r) ==
  Pending < IF \E q \in Rides \ {r} : rides[q] # "NONE" THEN MaxMixedEvents ELSE MaxEvents

Announce(kind, r) ==
  /\ Room(r)
  /\ due' = due \cup {Event(kind, r, rides'[r])}

(* A page that still has an older answer or event about the ride on its    *)
(* way when the ride ends may hear of it again after the end.              *)
OldNews(r) ==
  \/ \E p \in Polls : poll[p].view.ride = r
  \/ \E e \in due : e.ride = r
  \/ Call("booked", r) \in answers

Move(r, from, to) ==
  /\ rides[r] \in from
  /\ rides' = [rides EXCEPT ![r] = to]
  /\ missed' = IF to \in FinalStatuses /\ OldNews(r) THEN missed \cup {r} ELSE missed
  /\ UNCHANGED created

CaptainMoves(r) ==
  /\ \/ Move(r, {"SEARCHING"}, "CAPTAIN_ASSIGNED") /\ Announce("assigned", r)
     \/ Move(r, ArrivableStatuses, "CAPTAIN_ARRIVED") /\ Announce("arrived", r)
     \/ Move(r, StartableStatuses, "IN_PROGRESS") /\ Announce("started", r)
     \/ Move(r, {"IN_PROGRESS"}, "COMPLETED") /\ Announce("completed", r)
  /\ UNCHANGED <<inbox, view, poll, answers>>

(* The timeout, the last rejection or the captain ends the ride.           *)
ServerCancels(r) ==
  /\ Move(r, CancellableStatuses \ {"SCHEDULED"}, "CANCELLED")
  /\ Announce("cancelled", r)
  /\ UNCHANGED <<inbox, view, poll, answers>>

(* The dispatch of a reservation, and every broadcast to the captains,     *)
(* tells the rider SEARCHING.                                              *)
ServerSearches(r) ==
  /\ \/ Move(r, {"SCHEDULED"}, "SEARCHING")
     \/ Searching(r) /\ UNCHANGED <<rides, created, missed>>
  /\ Announce("matching", r)
  /\ UNCHANGED <<inbox, view, poll, answers>>

(* The row of an event is read again between its commit and its emission;  *)
(* the two events of a search carry it, or say SEARCHING.                  *)
Emit(e) ==
  /\ e \in due
  /\ due' = due \ {e}
  /\ \E s \in {e.status, rides[e.ride]} :
       inbox' = Append(inbox, [e EXCEPT !.status = s])
  /\ UNCHANGED <<rides, created, view, poll, answers, missed>>

-----------------------------------------------------------------------------
(* useRiderSocket: the listeners of the second effect, for all that        *)
(* follows the assignment, are there only while the page shows some ride.  *)

Heard_IgnoresCompleted(e) ==
  CASE e.kind \in {"matching", "assigned"} -> View(e.ride, e.status)
    [] e.kind \in {"arrived", "started"} /\ view # NoView -> View(e.ride, e.status)
    [] e.kind = "cancelled" -> NoView
    [] OTHER -> view

Heard(e) ==
  CASE e.kind \in {"matching", "assigned"} -> View(e.ride, e.status)
    [] e.kind \in {"arrived", "started"} /\ view # NoView -> View(e.ride, e.status)
    [] OTHER -> NoView

Receive ==
  /\ inbox # <<>>
  /\ view' = Heard(Head(inbox))
  /\ inbox' = Tail(inbox)
  /\ UNCHANGED <<server, poll, answers, missed>>

(* The socket breaks and connects again: what was on it, and what was      *)
(* emitted in between, is lost.                                            *)
Break ==
  /\ FaultsAllowed /\ inbox # <<>>
  /\ inbox' = <<>>
  /\ missed' = missed \cup {r \in Rides : \E i \in 1 .. Len(inbox) :
                              inbox[i].ride = r /\ inbox[i].kind \in Ends}
  /\ UNCHANGED <<server, view, poll, answers>>

-----------------------------------------------------------------------------
(* checkActiveRide                                                         *)

Ask(p) ==
  /\ poll[p] = NoPoll
  /\ poll' = [poll EXCEPT ![p] = [status |-> "answer", view |-> Answer]]
  /\ UNCHANGED <<server, inbox, view, answers, missed>>

Polled_NewRideOnly(a) ==
  CASE a # NoView -> IF view.ride # a.ride THEN a ELSE view
    [] a = NoView /\ view.status \in {"SEARCHING", "CANCELLED"} -> NoView
    [] OTHER -> view

Polled_KeepsSearch(a) ==
  CASE a # NoView -> a
    [] a = NoView /\ view.status = "CANCELLED" -> NoView
    [] OTHER -> view

Polled(a) ==
  CASE a # NoView -> a
    [] a = NoView /\ view.status \in {"SEARCHING", "CANCELLED"} -> NoView
    [] OTHER -> view

Take(p) ==
  /\ poll[p].status = "answer"
  /\ view' = Polled(poll[p].view)
  /\ poll' = [poll EXCEPT ![p] = NoPoll]
  /\ UNCHANGED <<server, inbox, answers, missed>>

PollFails(p) ==
  /\ FaultsAllowed /\ poll[p].status = "answer"
  /\ poll' = [poll EXCEPT ![p] = NoPoll]
  /\ UNCHANGED <<server, inbox, view, answers, missed>>

-----------------------------------------------------------------------------
(* The forms, the sidebar and the list of reservations                     *)

(* handleBookRide and handleScheduleRide reach the server, which does not  *)
(* ask whether the rider has a ride already.                               *)
Book(r) ==
  /\ view = NoView \/ r \in ScheduledRides
  /\ rides[r] = "NONE" /\ Room(r)
  /\ IF r \in ScheduledRides
       THEN rides' = [rides EXCEPT ![r] = "SCHEDULED"] /\ UNCHANGED <<created, due, answers>>
       ELSE /\ rides' = [rides EXCEPT ![r] = "SEARCHING"]
            /\ created' = Append(created, r)
            /\ due' = due \cup {Event("matching", r, "SEARCHING")}
            /\ answers' = answers \cup {Call("booked", r)}
  /\ UNCHANGED <<inbox, view, poll, missed>>

(* The answer of createRide: setActiveRide(ride), whatever happened since. *)
Booked(r) ==
  /\ Call("booked", r) \in answers
  /\ answers' = answers \ {Call("booked", r)}
  /\ view' = View(r, "SEARCHING")
  /\ UNCHANGED <<server, inbox, poll, missed>>

(* The server handles the cancellation of the ride in the sidebar or of a  *)
(* reservation, and tells the rider, whichever ride the page shows; one    *)
(* that cannot be cancelled any more is refused.                           *)
Cancel(r) ==
  /\ Move(r, CancellableStatuses, "CANCELLED")
  /\ Announce("cancelled", r)
  /\ \/ view.ride = r /\ answers' = answers \cup {Call("cancelled", r)}
     \/ r \in ScheduledRides /\ UNCHANGED answers
  /\ UNCHANGED <<inbox, view, poll>>

(* await cancelRide, then setActiveRide(null).                             *)
Cancelled(r) ==
  /\ Call("cancelled", r) \in answers
  /\ answers' = answers \ {Call("cancelled", r)}
  /\ view' = NoView
  /\ UNCHANGED <<server, inbox, poll, missed>>

(* The list is up to thirty seconds old: the ride it shows as searching    *)
(* may have moved on.                                                      *)
TrackLiveSearch_AnyRide(r) ==
  /\ r \in ScheduledRides /\ rides[r] # "NONE"
  /\ view' = View(r, "SEARCHING")
  /\ missed' = IF Ended(r) THEN missed \cup {r} ELSE missed
  /\ UNCHANGED <<server, inbox, poll, answers>>

TrackLiveSearch(r) ==
  /\ r \in ScheduledRides /\ rides[r] \notin {"NONE", "SCHEDULED"}
  /\ view' = View(r, "SEARCHING")
  /\ missed' = IF Ended(r) THEN missed \cup {r} ELSE missed
  /\ UNCHANGED <<server, inbox, poll, answers>>

Reload ==
  /\ FaultsAllowed
  /\ view' = NoView
  /\ poll' = [p \in Polls |-> NoPoll]
  /\ inbox' = <<>> /\ answers' = {}
  /\ UNCHANGED <<server, missed>>

-----------------------------------------------------------------------------
ServerStep(r) == CaptainMoves(r) \/ ServerCancels(r) \/ ServerSearches(r)
RiderStep(r)  == Book(r) \/ Booked(r) \/ Cancel(r) \/ Cancelled(r) \/ TrackLiveSearch(r)

Next ==
  \/ \E r \in Rides : ServerStep(r) \/ RiderStep(r)
  \/ \E e \in due : Emit(e)
  \/ Receive \/ Break \/ Reload
  \/ \E p \in Polls : Ask(p) \/ Take(p) \/ PollFails(p)

(* Events are emitted and delivered, requests are answered, a search ends  *)
(* by its timeout, and the page polls for ever: not every poll fails.      *)
Fairness ==
  /\ WF_vars(\E e \in due : Emit(e)) /\ WF_vars(Receive)
  /\ \A r \in Rides : /\ WF_vars(Cancelled(r) \/ Booked(r))
                      /\ SF_vars(Searching(r) /\ ServerCancels(r))
  /\ \A p \in Polls : WF_vars(Ask(p)) /\ SF_vars(Take(p))

Spec == Init /\ [][Next]_vars /\ Fairness

-----------------------------------------------------------------------------
(* What is on the page, and what is on its way to it, is the present or    *)
(* the past of a ride that has been looking for a captain: the page shows  *)
(* no step before the server has taken it, and nothing of a reservation    *)
(* that waits, whichever of the poll, the events, the answers and the list *)
(* wrote activeRide last.                                                  *)
Rank(status) ==
  CASE status = "NONE"              -> 0
    [] status = "SCHEDULED"         -> 1
    [] status = "SEARCHING"         -> 2
    [] status = "CAPTAIN_ASSIGNED"  -> 3
    [] status = "CAPTAIN_ARRIVING"  -> 4
    [] status = "CAPTAIN_ARRIVED"   -> 5
    [] status = "IN_PROGRESS"       -> 6
    [] status \in FinalStatuses     -> 7

Reached(status, r) == Rank(status) \in Rank("SEARCHING") .. Rank(rides[r])

Told(v) == v.ride # NoRide => Reached(v.status, v.ride)

NeverAhead ==
  /\ Told(view)
  /\ \A p \in Polls : Told(poll[p].view)
  /\ \A e \in due : Reached(e.status, e.ride)
  /\ \A i \in 1 .. Len(inbox) : Reached(inbox[i].status, inbox[i].ride)
  /\ \A a \in answers : Reached("SEARCHING", a.ride)

RiderInv == TypeOK /\ NeverAhead

(* The page shows a ride that has ended only as long as the news of its    *)
(* end is still to come and will be heard last, unless that event was lost *)
(* or something older about the ride was on its way when it ended: no      *)
(* poll, answer or event takes the end back.                               *)
IsEndOf(e, r) == e.ride = r /\ e.kind \in Ends

EndOnSocket(r) ==
  \E i \in 1 .. Len(inbox) :
    /\ IsEndOf(inbox[i], r)
    /\ \A j \in i .. Len(inbox) : inbox[j].ride = r => IsEndOf(inbox[j], r)

EndComing(r) == EndOnSocket(r) \/ \E e \in due : IsEndOf(e, r)

EndIsComing ==
  \A r \in Rides : Ended(r) /\ r \notin missed => view.ride # r \/ EndComing(r)

(* Once the rides stop changing, and the rider stops reloading the page    *)
(* and opening a search from the list, the page comes to show the ride     *)
(* that the server calls active, and keeps showing it: late polls, stale   *)
(* answers and lost events are all made good by the next poll.             *)
RiderSeesRide ==
  <>[][FALSE]_rides /\ <>[][~Reload /\ ~\E r \in Rides : TrackLiveSearch(r)]_vars
    => <>[](Answer # NoView => view = Answer)

(* A search that has ended leaves the screen even when its "cancelled"     *)
(* event is lost: the poll's empty answer clears it.                       *)
SearchReleased ==
  \A r \in Rides : Ended(r) ~> view # View(r, "SEARCHING")

(* A ride that has ended leaves the screen, and stays away, unless the     *)
(* event of its end was lost or something older about it was still on its  *)
(* way: for a ride with a captain the poll's empty answer clears nothing.  *)
RideLeavesView ==
  \A r \in Rides : Ended(r) ~> [](r \notin missed => view.ride # r)
=============================================================================
