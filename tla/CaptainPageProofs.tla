-------------------------- MODULE CaptainPageProofs --------------------------
(***************************************************************************)
(* Proofs about CaptainPage, for every number of rides, whatever requests  *)
(* and answers are lost.                                                   *)
(***************************************************************************)
EXTENDS CaptainPage, WellFoundedInduction, TLAPS

-----------------------------------------------------------------------------
(* The server: one ride at a time, taken when it was searching.            *)
ServerOK ==
  /\ \A r \in mine : rides[r] \notin {"NONE", "SEARCHING"}
  /\ \A r \in Rides : Driving(r) =>
       captain = "ON_RIDE" /\ \A q \in Rides : Driving(q) => q = r

(* Of the rides that are booked, and of the captain's, one is the newest.  *)
Newest(S) == S # {} => \E r \in S : \A q \in S : CreatedAt[q] <= CreatedAt[r]
NewestKnown == Newest(mine) /\ Newest({r \in Rides : rides[r] # "NONE"})

(* The page's requests are about rides of the captain's, one at a time.    *)
PageOK ==
  /\ ride # NoView => ride.ride \in mine
  /\ accept.step = "sent" => accept.view.ride \in Rides
  /\ accept.step = "done" => accept.view.ride \in mine
  /\ update.step \in {"sent", "done"} => update.view.ride \in mine
  /\ update.step = "sent" =>
       update.view.status \in {"CAPTAIN_ARRIVED", "IN_PROGRESS", "COMPLETED"}
  /\ update.step = "failed" => update = Failed
  /\ restore.ride # NoView => restore.ride.ride \in mine
  /\ accept = Idle \/ update = Idle
  /\ restore.step = "asked" => restore = Restoring
  /\ restore.step = "taken" => restore = Restored

(* What is done before the page has restored itself is forgotten by it.    *)
Early ==
  restore # Restored =>
    /\ ride # NoView => ride.ride \in unknown
    /\ accept.step \in {"sent", "done"} => accept.view.ride \in unknown
    /\ update.step \in {"sent", "done"} => update.view.ride \in unknown

(* Where the knowledge of the ride is: in an answer, or on the screen.     *)
RideKnown ==
  \A r \in Rides : Driving(r) =>
    /\ accept.step = "done" => accept.view = View(r, rides[r])
    /\ update.step = "done" => update.view = View(r, rides[r])
    /\ r \notin unknown =>
         /\ restore.step = "read" => restore.ride = View(r, rides[r])
         /\ restore.step = "taken" /\ accept.step # "done" /\ update.step # "done"
              => ride = View(r, rides[r])

CockpitInv ==
  /\ TypeOK
  /\ ServerOK
  /\ NewestKnown
  /\ PageOK
  /\ Early
  /\ RideKnown

(* The history: as long as nothing went wrong there is one fetch, for what *)
(* is marked on the screen.                                                *)
HistoryInv ==
  ~disturbed =>
    /\ \A q \in fetches : fetches = {q} /\ q = Shown
    /\ fetches = {} => list \in {Nothing, Shown}

(* The history is mounted while its tab is chosen.                         *)
ClosedIsUnmounted == activeTab = "cockpit" => Unmounted

PageInv == CockpitInv /\ HistoryInv /\ ClosedIsUnmounted

-----------------------------------------------------------------------------
(* What the page is offered and finds is a ride                            *)

(* A part of rides with a newest one has a newest one.                     *)
LEMMA NewestOfPart ==
  ASSUME NEW S \in SUBSET Rides, Newest(S), NEW T \in SUBSET S
  PROVE  Newest(T)
<1> SUFFICES ASSUME T # {} PROVE \E r \in T : \A q \in T : CreatedAt[q] <= CreatedAt[r]
  BY DEF Newest
<1>1. \A r \in Rides : CreatedAt[r] \in Nat
  BY CockpitAssumption
<1>2. PICK s \in S : \A q \in S : CreatedAt[q] <= CreatedAt[s]
  BY DEF Newest
<1> DEFINE D == {CreatedAt[s] - CreatedAt[r] : r \in T}
<1>3. D \subseteq Nat /\ D # {}
  BY <1>1, <1>2
<1>4. PICK d \in D : \A e \in D : ~ (<<e, d>> \in OpToRel(<, Nat))
  BY <1>3, NatLessThanWellFounded, WFMin
<1>5. \A e \in D : ~(e < d)
  BY <1>3, <1>4 DEF OpToRel
<1>6. PICK r \in T : d = CreatedAt[s] - CreatedAt[r]
  BY <1>4
<1>7. ASSUME NEW q \in T PROVE CreatedAt[q] <= CreatedAt[r]
  <2>1. ~(CreatedAt[s] - CreatedAt[q] < CreatedAt[s] - CreatedAt[r])
    BY <1>5, <1>6
  <2> QED BY <1>1, <1>2, <2>1
<1> QED BY <1>7

(* The active request is a ride, or none.                                  *)
LEMMA RequestIsRide ==
  ASSUME NewestKnown
  PROVE  ActiveRequest \in MaybeRide
<1>1. Requestable \in SUBSET {r \in Rides : rides[r] # "NONE"}
  BY DEF Requestable
<1>2. Newest(Requestable)
  BY <1>1, NewestOfPart DEF NewestKnown
<1>3. Requestable # {} =>
        (CHOOSE r \in Requestable : \A q \in Requestable : CreatedAt[q] <= CreatedAt[r])
          \in Requestable
  BY <1>2 DEF Newest
<1> QED BY <1>1, <1>3 DEF ActiveRequest, MaybeRide

(* getCurrentState's ride is one of the captain's, as it is.               *)
LEMMA LatestIsMine ==
  ASSUME NewestKnown, TypeOK
  PROVE  /\ LatestRide \in Views
         /\ LatestRide # NoView =>
              /\ LatestRide = View(NewestOfMine, rides[NewestOfMine])
              /\ NewestOfMine \in mine
<1>1. mine # {} => NewestOfMine \in mine
  BY DEF NewestKnown, Newest, NewestOfMine
<1> QED BY <1>1 DEF LatestRide, Views, View, NoView, TypeOK, RideStatuses

-----------------------------------------------------------------------------
(* Every step keeps the types.                                             *)
LEMMA CockpitTypes ==
  ASSUME TypeOK, NewestKnown, PageOK, Next
  PROVE  TypeOK'
<1> USE CockpitAssumption
<1> USE DEF TypeOK, CallStates, Views, View, NoView, MaybeRide, RideStatuses, CaptainStatuses,
        ToggleSteps, Show, Idle, Failed, Restored, Restoring, calls, server, page
<1>1. CASE Others
  BY <1>1 DEF Others, Book, TakenByOther, Cancelled
<1>2. CASE Accept \/ Decline \/ (\E r \in Rides : Claim(r))
  BY <1>2 DEF Accept, Decline, Claim, OfferShown
<1>3. CASE Press
  <2>1. NextStatus(ride.status) \in RideStatuses
    BY DEF NextStatus
  <2> QED BY <1>3, <2>1 DEF Press
<1>13. CASE Toggle
  BY <1>13 DEF Toggle
<1>14. CASE Reload
  BY <1>14 DEF Reload
<1>4. CASE AcceptRide
  <2> DEFINE r == accept.view.ride
  <2>1. r \in Rides
    BY <1>4 DEF AcceptRide, PageOK
  <2>2. accept' \in CallStates
    BY <1>4, <2>1 DEF AcceptRide, Answers
  <2> QED BY <1>4, <2>1, <2>2 DEF AcceptRide
<1>5. CASE UpdateRide
  BY <1>5 DEF UpdateRide, Answers
<1>6. CASE SetStatus
  <2>1. /\ toggle' = "idle" /\ captain' \in CaptainStatuses
        /\ UNCHANGED <<rides, mine, rejected, accept, update, rejects, restore, unknown>>
    BY <1>6 DEF SetStatus
  <2>2. PICK up \in BOOLEAN : Show(up, request, ride)
    BY <1>6 DEF SetStatus
  <2> QED BY <2>1, <2>2
<1>15. CASE StatusKept
  BY <1>15 DEF StatusKept
<1>16. CASE \E r \in Rides : RejectRide(r)
  BY <1>16 DEF RejectRide
<1>7. CASE ReadRides
  BY <1>7, LatestIsMine DEF ReadRides
<1>8. CASE Faults
  BY <1>8 DEF Faults, AcceptFails, UpdateFails, RejectFails
<1>9. CASE Poll
  BY <1>9, RequestIsRide DEF Poll
<1>10. CASE Restore
  BY <1>10, RequestIsRide DEF Restore
<1>11. CASE AcceptAnswered \/ UpdateAnswered
  BY <1>11 DEF AcceptAnswered, UpdateAnswered
<1>12. CASE Expire \/ \E r \in Rides : NewRide(r)
  BY <1>12 DEF Expire, NewRide
<1> QED
  BY <1>1, <1>2, <1>3, <1>4, <1>5, <1>6, <1>7, <1>8, <1>9, <1>10, <1>11, <1>12,
     <1>13, <1>14, <1>15, <1>16
     DEF Next, Captain, Handlers, Page

-----------------------------------------------------------------------------
(* The steps that change a ride                                            *)

(* What an update that the server accepts does.                            *)
Updated(r, status) ==
  /\ r \in Rides /\ Driving(r)
  /\ status \in ActiveStatuses \cup {"COMPLETED"}
  /\ rides' = [rides EXCEPT ![r] = status]
  /\ captain' = IF status = "COMPLETED" THEN "AVAILABLE" ELSE captain
  /\ mine' = mine
  /\ \/ update' = Failed /\ unknown' = unknown \cup {r}
     \/ update' = [step |-> "done", view |-> View(r, status)] /\ unknown' = unknown

(* An update moves the captain's ride on, or is refused.                   *)
LEMMA UpdateMovesOn ==
  ASSUME TypeOK, PageOK, UpdateRide
  PROVE  \/ Updated(update.view.ride, update.view.status)
         \/ update' = Failed /\ UNCHANGED <<rides, mine, captain, unknown>>
<1> DEFINE r == update.view.ride
           status == update.view.status
<1> SUFFICES ASSUME r \in mine /\ rides[r] \in Accepts(status)
             PROVE  Updated(r, status)
  BY DEF UpdateRide
<1>1. update.step = "sent" /\ r \in Rides
  BY DEF UpdateRide, TypeOK
<1>2. status \in {"CAPTAIN_ARRIVED", "IN_PROGRESS", "COMPLETED"}
  BY <1>1 DEF PageOK
<1>3. rides[r] \in ActiveStatuses
  BY <1>2 DEF Accepts, ArrivableStatuses, StartableStatuses, ActiveStatuses
<1>4. update.view = View(r, status)
  BY DEF TypeOK, CallStates, Views, View
<1>5. /\ rides' = [rides EXCEPT ![r] = status]
      /\ captain' = IF status = "COMPLETED" THEN "AVAILABLE" ELSE captain
      /\ mine' = mine
      /\ update' \in Answers(update.view)
      /\ unknown' = IF update' = Failed THEN unknown \cup {r} ELSE unknown
  BY DEF UpdateRide
<1>6. \/ update' = Failed
      \/ update' = [step |-> "done", view |-> update.view] /\ update' # Failed
  BY <1>5 DEF Answers, Failed
<1> QED BY <1>1, <1>2, <1>3, <1>4, <1>5, <1>6 DEF Updated, Driving, ActiveStatuses

(* Other steps than these leave the rides and who drives them.             *)
LEMMA WhoTouchesRides ==
  ASSUME Next
  PROVE  \/ \E r \in Rides : Book(r) \/ TakenByOther(r) \/ Cancelled(r)
         \/ AcceptRide \/ UpdateRide
         \/ UNCHANGED <<rides, mine>> /\ (UNCHANGED captain \/ captain # "ON_RIDE")
BY DEF Next, Others, Captain, Handlers, Faults, Page,
       Accept, Decline, Claim, Press, Toggle, Reload,
       SetStatus, StatusKept, ReadRides, RejectRide, AcceptFails, UpdateFails, RejectFails,
       Poll, Restore, AcceptAnswered, UpdateAnswered, Expire, NewRide, server

(* What an accept does: the server gives the captain the ride, or not.     *)
LEMMA AcceptTakes ==
  ASSUME TypeOK, PageOK, AcceptRide
  PROVE  \/ /\ accept.view.ride \in Rides /\ rides[accept.view.ride] = "SEARCHING"
            /\ captain = "AVAILABLE" /\ captain' = "ON_RIDE"
            /\ rides' = [rides EXCEPT ![accept.view.ride] = "CAPTAIN_ASSIGNED"]
            /\ mine' = mine \cup {accept.view.ride}
            /\ \/ accept' = Failed /\ unknown' = unknown \cup {accept.view.ride}
               \/ /\ accept' = [step |-> "done",
                                view |-> View(accept.view.ride, "CAPTAIN_ASSIGNED")]
                  /\ unknown' = unknown
         \/ accept' = Failed /\ UNCHANGED <<rides, mine, captain, unknown>>
<1>1. accept.view.ride \in Rides
  BY DEF AcceptRide, PageOK
<1> QED BY <1>1 DEF AcceptRide, Answers, Failed

(* Every step keeps the captain on one ride.                               *)
LEMMA ServerStep ==
  ASSUME TypeOK, PageOK, ServerOK, Next
  PROVE  ServerOK'
<1> USE DEF ServerOK, Driving, ActiveStatuses
<1>1. ASSUME NEW r \in Rides, Book(r) PROVE ServerOK'
  BY <1>1 DEF Book, TypeOK
<1>2. ASSUME NEW r \in Rides, TakenByOther(r) PROVE ServerOK'
  BY <1>2 DEF TakenByOther, TypeOK
<1>3. ASSUME NEW r \in Rides, Cancelled(r) PROVE ServerOK'
  BY <1>3 DEF Cancelled, TypeOK
<1>4. CASE AcceptRide
  BY <1>4, AcceptTakes DEF TypeOK
<1>5. CASE UpdateRide
  BY <1>5, UpdateMovesOn DEF Updated, TypeOK
<1>6. CASE UNCHANGED <<rides, mine>> /\ (UNCHANGED captain \/ captain # "ON_RIDE")
  BY <1>6
<1> QED BY <1>1, <1>2, <1>3, <1>4, <1>5, <1>6, WhoTouchesRides

(* A set with a newest ride keeps one when a ride is added.                *)
LEMMA NewestWith ==
  ASSUME NEW S \in SUBSET Rides, Newest(S), NEW r \in Rides
  PROVE  Newest(S \cup {r})
<1>1. \A q \in Rides : CreatedAt[q] \in Nat
  BY CockpitAssumption
<1>2. CASE S = {}
  BY <1>1, <1>2 DEF Newest
<1>3. CASE S # {}
  <2>1. PICK s \in S : \A q \in S : CreatedAt[q] <= CreatedAt[s]
    BY <1>3 DEF Newest
  <2>2. CASE CreatedAt[s] <= CreatedAt[r]
    BY <1>1, <2>1, <2>2 DEF Newest
  <2>3. CASE CreatedAt[r] <= CreatedAt[s]
    BY <1>1, <2>1, <2>3 DEF Newest
  <2> QED BY <1>1, <2>2, <2>3
<1> QED BY <1>2, <1>3

(* Every step keeps the newest rides known.                                *)
LEMMA NewestStep ==
  ASSUME TypeOK, PageOK, ServerOK, NewestKnown, Next
  PROVE  NewestKnown'
<1> DEFINE Booked == {r \in Rides : rides[r] # "NONE"}
<1>1. ASSUME NEW r \in Rides, Booked' = Booked \cup {r}, mine' = mine \cup {r} \/ mine' = mine
      PROVE  NewestKnown'
  <2>1. Booked \in SUBSET Rides /\ mine \in SUBSET Rides
    BY DEF TypeOK
  <2>2. Newest(Booked) /\ Newest(mine)
    BY DEF NewestKnown
  <2>3. Newest(Booked \cup {r}) /\ Newest(mine \cup {r})
    BY <2>1, <2>2, NewestWith
  <2> HIDE DEF Booked
  <2>4. Newest(Booked)' /\ Newest(mine)'
    BY <1>1, <2>2, <2>3 DEF Newest
  <2> QED BY <2>4 DEF NewestKnown, Booked
<1>2. ASSUME Booked' = Booked, mine' = mine
      PROVE  NewestKnown'
  BY <1>2 DEF NewestKnown, Newest
<1>3. ASSUME NEW r \in Rides, Book(r) PROVE NewestKnown'
  <2>1. Booked' = Booked \cup {r} /\ mine' = mine
    BY <1>3 DEF Book, TypeOK
  <2> QED BY <1>1, <2>1
<1>4. ASSUME NEW r \in Rides, TakenByOther(r) \/ Cancelled(r) PROVE NewestKnown'
  <2>1. Booked' = Booked /\ mine' = mine
    BY <1>4 DEF TakenByOther, Cancelled, Driving, ActiveStatuses, TypeOK
  <2> QED BY <1>2, <2>1
<1>5. CASE AcceptRide
  <2>1. \/ /\ Booked' = Booked \cup {accept.view.ride}
           /\ mine' = mine \cup {accept.view.ride}
           /\ accept.view.ride \in Rides
        \/ Booked' = Booked /\ mine' = mine
    BY <1>5, AcceptTakes DEF TypeOK
  <2> QED BY <1>1, <1>2, <2>1
<1>6. CASE UpdateRide
  <2>1. Booked' = Booked /\ mine' = mine
    BY <1>6, UpdateMovesOn DEF Updated, Driving, ActiveStatuses, TypeOK
  <2> QED BY <1>2, <2>1
<1>7. CASE UNCHANGED <<rides, mine>>
  BY <1>2, <1>7
<1> QED BY <1>3, <1>4, <1>5, <1>6, <1>7, WhoTouchesRides

-----------------------------------------------------------------------------
(* The page                                                                *)

(* Every step keeps the page's requests about his rides.                   *)
LEMMA PageStep ==
  ASSUME TypeOK, ServerOK, NewestKnown, PageOK, Next
  PROVE  PageOK'
<1> USE CockpitAssumption
<1> USE DEF PageOK, Show, Idle, Failed, Restored, Restoring, calls, server, page
<1>1. CASE Others
  BY <1>1 DEF Others, Book, TakenByOther, Cancelled
<1>2. CASE Accept
  BY <1>2 DEF Accept, OfferShown, TypeOK, MaybeRide, View
<1>3. CASE Press
  <2>1. ride # NoView /\ ride.ride \in mine
    BY <1>3 DEF Press, NextStatus, NoView, ArrivableStatuses
  <2>2. NextStatus(ride.status) \in {"CAPTAIN_ARRIVED", "IN_PROGRESS", "COMPLETED"}
    BY <1>3 DEF Press, NextStatus
  <2> QED BY <1>3, <2>1, <2>2 DEF Press, Waiting, View
<1>4. CASE Decline \/ Toggle \/ Reload \/ (\E r \in Rides : Claim(r))
  BY <1>4 DEF Decline, Toggle, Reload, Claim
<1>5. CASE AcceptRide
  <2>1. accept # Idle /\ UNCHANGED <<page, update, restore>>
    BY <1>5 DEF AcceptRide
  <2> QED BY <1>5, <2>1, AcceptTakes DEF View
<1>6. CASE UpdateRide
  <2>1. update # Idle /\ update.step = "sent" /\ UNCHANGED <<page, accept, restore>>
    BY <1>6 DEF UpdateRide
  <2> QED BY <1>6, <2>1, UpdateMovesOn DEF Updated, View
<1>7. CASE SetStatus
  <2>1. UNCHANGED <<ride, accept, update, restore, mine>>
    BY <1>7 DEF SetStatus
  <2> QED BY <2>1
<1>14. CASE StatusKept \/ \E r \in Rides : RejectRide(r)
  BY <1>14 DEF StatusKept, RejectRide
<1>8. CASE ReadRides
  BY <1>8, LatestIsMine DEF ReadRides, View
<1>9. CASE Faults
  BY <1>9 DEF Faults, AcceptFails, UpdateFails, RejectFails
<1>10. CASE Poll \/ Restore
  BY <1>10 DEF Poll, Restore
<1>11. CASE AcceptAnswered
  BY <1>11 DEF AcceptAnswered
<1>12. CASE UpdateAnswered
  BY <1>12 DEF UpdateAnswered
<1>13. CASE Expire \/ \E r \in Rides : NewRide(r)
  BY <1>13 DEF Expire, NewRide
<1> QED
  BY <1>1, <1>2, <1>3, <1>4, <1>5, <1>6, <1>7, <1>8, <1>9, <1>10, <1>11, <1>12, <1>13,
     <1>14 DEF Next, Captain, Handlers, Page

(* Every step keeps what was done too early among the unknown.             *)
LEMMA EarlyStep ==
  ASSUME TypeOK, PageOK, Early, Next
  PROVE  Early'
<1> USE CockpitAssumption
<1> USE DEF Early, Show, Idle, Failed, Restored, Restoring, calls, server, page
<1>1. CASE Others
  BY <1>1 DEF Others, Book, TakenByOther, Cancelled
<1>2. CASE Accept
  BY <1>2 DEF Accept, View
<1>3. CASE Press
  <2>1. ride # NoView
    BY <1>3 DEF Press, NextStatus, NoView, ArrivableStatuses
  <2> QED BY <1>3, <2>1 DEF Press, View
<1>4. CASE Decline \/ Toggle \/ Reload \/ (\E r \in Rides : Claim(r))
  BY <1>4 DEF Decline, Toggle, Reload, Claim
<1>5. CASE AcceptRide
  <2>1. accept.step = "sent" /\ UNCHANGED <<page, update, restore>>
    BY <1>5 DEF AcceptRide
  <2> QED BY <1>5, <2>1, AcceptTakes DEF View
<1>6. CASE UpdateRide
  <2>1. update.step = "sent" /\ UNCHANGED <<page, accept, restore>>
    BY <1>6 DEF UpdateRide
  <2> QED BY <1>6, <2>1, UpdateMovesOn DEF Updated, View
<1>7. CASE SetStatus
  <2>1. UNCHANGED <<ride, accept, update, restore, unknown>>
    BY <1>7 DEF SetStatus
  <2> QED BY <2>1
<1>14. CASE StatusKept \/ \E r \in Rides : RejectRide(r)
  BY <1>14 DEF StatusKept, RejectRide
<1>8. CASE ReadRides
  BY <1>8 DEF ReadRides, PageOK
<1>9. CASE Faults
  BY <1>9 DEF Faults, AcceptFails, UpdateFails, RejectFails
<1>10. CASE Poll \/ Restore
  BY <1>10 DEF Poll, Restore
<1>11. CASE AcceptAnswered
  BY <1>11 DEF AcceptAnswered
<1>12. CASE UpdateAnswered
  BY <1>12 DEF UpdateAnswered
<1>13. CASE Expire \/ \E r \in Rides : NewRide(r)
  BY <1>13 DEF Expire, NewRide
<1> QED
  BY <1>1, <1>2, <1>3, <1>4, <1>5, <1>6, <1>7, <1>8, <1>9, <1>10, <1>11, <1>12, <1>13,
     <1>14 DEF Next, Captain, Handlers, Page

(* What the answer to an update leaves on the screen.                      *)
LEMMA UpdateShown ==
  ASSUME PageOK, UpdateAnswered
  PROVE  /\ update.step = "failed" => ride' = ride
         /\ update.step = "done" /\ update.view.status # "COMPLETED" => ride' = update.view
<1>1. update.step = "failed" => update.view.status # "COMPLETED"
  BY DEF PageOK, Failed, NoView
<1>2. ride' = CASE update.step = "failed"           -> ride
                [] update.view.status = "COMPLETED" -> NoView
                [] OTHER                            -> update.view
  BY DEF UpdateAnswered, Show
<1>3. update.step = "done" => update.step # "failed"
  OBVIOUS
<1> QED BY <1>1, <1>2, <1>3, Zenon

(* Every step keeps the knowledge of the ride that is driven.              *)
LEMMA KnownStep ==
  ASSUME TypeOK, ServerOK, NewestKnown, PageOK, Early, RideKnown, Next
  PROVE  RideKnown'
<1> USE CockpitAssumption
<1> USE DEF RideKnown, Show, Idle, Failed, Restored, Restoring, calls, server, page, Driving
<1>1. CASE Others
  <2>1. ASSUME NEW r \in Rides, Book(r) PROVE RideKnown'
    BY <2>1 DEF Book, ServerOK, TypeOK
  <2>2. ASSUME NEW r \in Rides, TakenByOther(r) PROVE RideKnown'
    BY <2>2 DEF TakenByOther, ServerOK, TypeOK
  <2>3. ASSUME NEW r \in Rides, Cancelled(r) PROVE RideKnown'
    BY <2>3 DEF Cancelled, ActiveStatuses, TypeOK
  <2> QED BY <1>1, <2>1, <2>2, <2>3 DEF Others
<1>2. CASE Accept
  BY <1>2 DEF Accept
<1>3. CASE Press
  BY <1>3 DEF Press, Waiting
<1>4. CASE Decline \/ Toggle \/ (\E r \in Rides : Claim(r))
  BY <1>4 DEF Decline, Toggle, Claim
<1>14. CASE Reload
  BY <1>14 DEF Reload
<1>5. CASE AcceptRide
  <2>1. /\ accept.step = "sent" /\ accept # Idle /\ update = Idle
        /\ UNCHANGED <<page, update, restore>>
    BY <1>5 DEF AcceptRide, PageOK
  <2>2. CASE accept' = Failed /\ UNCHANGED <<rides, mine, captain, unknown>>
    BY <2>1, <2>2
  <2>3. CASE ~ UNCHANGED <<rides, mine, captain, unknown>>
    <3> DEFINE r == accept.view.ride
    <3>1. /\ \A q \in Rides : ~Driving(q)
          /\ \A q \in Rides : q \in mine' /\ rides'[q] \in ActiveStatuses => q = r
          /\ rides'[r] = "CAPTAIN_ASSIGNED"
      BY <1>5, <2>3, AcceptTakes DEF ServerOK, TypeOK
    <3>2. \/ accept' = Failed /\ r \in unknown'
          \/ /\ accept' = [step |-> "done", view |-> View(r, "CAPTAIN_ASSIGNED")]
             /\ unknown' = unknown
      BY <1>5, <2>3, AcceptTakes
    <3>3. restore.step = "read" => r \in unknown
      BY <2>1 DEF Early
    <3> QED BY <2>1, <3>1, <3>2, <3>3
  <2> QED BY <1>5, <2>2, <2>3, AcceptTakes
<1>6. CASE UpdateRide
  <2>1. /\ update.step = "sent" /\ update # Idle /\ accept = Idle
        /\ UNCHANGED <<page, accept, restore>>
    BY <1>6 DEF UpdateRide, PageOK
  <2>2. CASE update' = Failed /\ UNCHANGED <<rides, mine, captain, unknown>>
    BY <2>1, <2>2
  <2>3. CASE Updated(update.view.ride, update.view.status)
    <3> DEFINE r == update.view.ride
               status == update.view.status
    <3>1. /\ \A q \in Rides : q \in mine' /\ rides'[q] \in ActiveStatuses => q = r
          /\ rides'[r] = status
      BY <2>3 DEF Updated, ServerOK, TypeOK
    <3>2. \/ update' = Failed /\ r \in unknown'
          \/ /\ update' = [step |-> "done", view |-> View(r, status)]
             /\ unknown' = unknown
      BY <2>3 DEF Updated
    <3>3. restore.step = "read" => r \in unknown
      BY <2>1 DEF Early
    <3> QED BY <2>1, <3>1, <3>2, <3>3
  <2> QED BY <1>6, <2>2, <2>3, UpdateMovesOn
<1>7. CASE SetStatus \/ StatusKept \/ \E r \in Rides : RejectRide(r)
  BY <1>7 DEF SetStatus, StatusKept, RejectRide
<1>8. CASE ReadRides
  BY <1>8, LatestIsMine DEF ReadRides
<1>9. CASE Faults
  BY <1>9 DEF Faults, AcceptFails, UpdateFails, RejectFails, PageOK
<1>10. CASE Poll
  BY <1>10 DEF Poll
<1>15. CASE Restore
  BY <1>15 DEF Restore, View, NoView
<1>11. CASE AcceptAnswered
  BY <1>11 DEF AcceptAnswered, PageOK
<1>12. CASE UpdateAnswered
  <2>1. /\ accept = Idle /\ UNCHANGED <<server, accept, restore, unknown>>
        /\ update' = Idle /\ update.step \in {"done", "failed"}
    BY <1>12 DEF UpdateAnswered, PageOK
  <2>2. CASE update.step = "failed"
    <3>1. ride' = ride
      BY <1>12, <2>2, UpdateShown
    <3> QED BY <2>1, <2>2, <3>1
  <2>3. CASE update.step = "done"
    <3>1. \A r \in Rides : Driving(r) => update.view = View(r, rides[r])
      BY <2>3
    <3>2. update.view.status # "COMPLETED" => ride' = update.view
      BY <1>12, <2>3, UpdateShown
    <3>3. ASSUME NEW r \in Rides, Driving(r) PROVE update.view.status # "COMPLETED"
      <4>1. update.view.status = rides[r] /\ rides[r] \in ActiveStatuses
        <5>1. r \in mine /\ rides[r] \in ActiveStatuses
          BY <3>3
        <5>2. update.view = [ride |-> r, status |-> rides[r]]
          BY <3>1, <5>1 DEF View
        <5> QED BY <5>1, <5>2
      <4> QED BY <4>1 DEF ActiveStatuses
    <3> QED BY <2>1, <3>1, <3>2, <3>3
  <2> QED BY <2>1, <2>2, <2>3
<1>13. CASE Expire \/ \E r \in Rides : NewRide(r)
  BY <1>13 DEF Expire, NewRide
<1> QED
  BY <1>1, <1>2, <1>3, <1>4, <1>5, <1>6, <1>7, <1>8, <1>9, <1>10, <1>11, <1>12, <1>13,
     <1>14, <1>15 DEF Next, Captain, Handlers, Page

-----------------------------------------------------------------------------
(* The history                                                             *)

(* The effect adds a fetch for what is marked, or does nothing.            *)
LEMMA EffectFetchesShown ==
  ASSUME NEW under, NEW isLoading, Effect(under, isLoading)
  PROVE  \/ /\ Shown' # Shown
            /\ fetches' = under \cup {Shown'}
            /\ disturbed' = (disturbed \/ under # {})
         \/ Shown' = Shown /\ fetches' = under /\ disturbed' = disturbed
BY DEF Effect, FetchHistory, Shown, Fetch

(* An answer to the only fetch, which is for what is marked.               *)
LEMMA AnswerOfShown ==
  ASSUME HistoryInv, FetchEnds, ~disturbed'
  PROVE  ~disturbed /\ fetches' = {} /\ list' = Shown'
<1>1. PICK q \in fetches : FetchAnswered(q)
  BY DEF FetchEnds, FetchFailed
<1>2. ~disturbed
  BY <1>1, EffectFetchesShown DEF FetchAnswered
<1>3. fetches = {q} /\ q = Shown
  BY <1>1, <1>2 DEF HistoryInv
<1>4. Shown' = Shown /\ list' = Shown
  BY <1>1, <1>3 DEF FetchAnswered, Shown, Fetch
<1>5. fetches' = fetches \ {q}
  BY <1>1, <1>4, EffectFetchesShown DEF FetchAnswered
<1> QED BY <1>2, <1>3, <1>4, <1>5

(* Every step of the history keeps its fetch in step with the screen.      *)
LEMMA HistoryStep ==
  ASSUME HistoryInv, HistoryNext
  PROVE  HistoryInv'
<1> SUFFICES ASSUME ~disturbed'
             PROVE  /\ \A q \in fetches' : fetches' = {q} /\ q = Shown'
                    /\ fetches' = {} => list' \in {Nothing, Shown'}
  BY DEF HistoryInv, Nothing, Fetch
<1>1. ASSUME NEW isLoading, Effect(fetches, isLoading), list' = list
      PROVE  /\ \A q \in fetches' : fetches' = {q} /\ q = Shown'
             /\ fetches' = {} => list' \in {Nothing, Shown'}
  <2>1. CASE Shown' = Shown /\ fetches' = fetches /\ disturbed' = disturbed
    BY <1>1, <2>1 DEF HistoryInv
  <2>2. CASE fetches' = fetches \cup {Shown'} /\ disturbed' = (disturbed \/ fetches # {})
    <3>1. fetches = {}
      BY <2>2
    <3> QED BY <2>2, <3>1
  <2> QED BY <1>1, <2>1, <2>2, EffectFetchesShown
<1>2. CASE \E f \in Filters : HandleFilterChange(f)
  BY <1>1, <1>2 DEF HandleFilterChange
<1>3. CASE Turn
  BY <1>1, <1>3 DEF Turn
<1>4. CASE Refresh
  BY <1>4 DEF Refresh, FetchHistory, Shown
<1>5. CASE FetchEnds
  BY <1>5, AnswerOfShown
<1> QED BY <1>2, <1>3, <1>4, <1>5 DEF HistoryNext, Clicks

-----------------------------------------------------------------------------
(* Every reachable state of the page                                       *)

(* In every reachable state the server has the captain on one ride at      *)
(* most, the page's requests speak of rides of the captain's, and what the *)
(* page cannot know of the ride it is driving is in unknown.               *)
THEOREM PageInvariance == PageSpec => []PageInv
<1>1. PageInit => PageInv
  <2>1. Init => TypeOK
    <3> SUFFICES ASSUME Init PROVE TypeOK
      OBVIOUS
    <3> USE CockpitAssumption DEF Init
    <3>1. NoView \in Views
      BY DEF NoView, Views, RideStatuses
    <3>2. accept \in CallStates /\ update \in CallStates
      BY <3>1 DEF Idle, CallStates
    <3>3. restore \in [step : {"asked", "read", "taken"}, ride : Views]
      BY <3>1 DEF Restoring
    <3>4. rides \in [Rides -> RideStatuses]
      BY DEF RideStatuses
    <3> QED BY <3>1, <3>2, <3>3, <3>4 DEF TypeOK, MaybeRide, CaptainStatuses, ToggleSteps
  <2>2. Init => ServerOK /\ NewestKnown /\ PageOK /\ Early /\ RideKnown
    BY DEF Init, ServerOK, NewestKnown, Newest, PageOK, Early, RideKnown, Driving, NoView,
           Idle, Restoring, Restored
  <2>3. Unmounted => HistoryInv
    BY DEF Unmounted, HistoryInv
  <2> QED BY <2>1, <2>2, <2>3 DEF PageInit, CockpitInv, PageInv, ClosedIsUnmounted
<1>2. PageInv /\ [PageNext]_pageVars => PageInv'
  <2> SUFFICES ASSUME CockpitInv, HistoryInv, ClosedIsUnmounted, [PageNext]_pageVars
               PROVE  CockpitInv' /\ HistoryInv' /\ ClosedIsUnmounted'
    BY DEF PageInv
  <2>1. CASE Next /\ UNCHANGED <<historyVars, activeTab>>
    <3>1. CockpitInv'
      BY <2>1, CockpitTypes, ServerStep, NewestStep, PageStep, EarlyStep, KnownStep
         DEF CockpitInv
    <3>2. HistoryInv' /\ ClosedIsUnmounted'
      BY <2>1 DEF historyVars, HistoryInv, Shown, ClosedIsUnmounted, Unmounted
    <3> QED BY <3>1, <3>2
  <2>2. ASSUME UNCHANGED vars PROVE CockpitInv'
    BY <2>2
       DEF vars, server, page, calls, CockpitInv, TypeOK, ServerOK, NewestKnown, Newest,
           PageOK, Early, RideKnown, Driving
  <2>3. CASE activeTab = "history" /\ HistoryNext /\ UNCHANGED <<vars, activeTab>>
    BY <2>2, <2>3, HistoryStep DEF ClosedIsUnmounted
  <2>4. CASE OpenHistory
    BY <2>2, <2>4
       DEF OpenHistory, Mount, HistoryInv, Shown, FirstPage, ClosedIsUnmounted, Unmounted
  <2>5. CASE CloseHistory
    BY <2>2, <2>5 DEF CloseHistory, Unmount, HistoryInv, ClosedIsUnmounted, Unmounted
  <2>6. CASE UNCHANGED pageVars
    BY <2>2, <2>6 DEF pageVars, historyVars, HistoryInv, Shown, ClosedIsUnmounted, Unmounted
  <2> QED BY <2>1, <2>3, <2>4, <2>5, <2>6 DEF PageNext
<1> QED BY <1>1, <1>2, PTL DEF PageSpec

(* Each step of the rides is one of the lifecycle's.                       *)
LEMMA ProgressStep ==
  ASSUME TypeOK, PageOK, Next
  PROVE  [Progress!Next]_rides
<1> USE DEF Progress!Next, Progress!Move
<1>1. ASSUME NEW r \in Rides, Book(r) \/ TakenByOther(r) \/ Cancelled(r)
      PROVE  [Progress!Next]_rides
  BY <1>1 DEF Book, TakenByOther, Cancelled, Progress!CancellableStatuses, CancellableStatuses
<1>2. CASE AcceptRide
  BY <1>2, AcceptTakes
<1>3. CASE UpdateRide
  <2> DEFINE r == update.view.ride
             status == update.view.status
  <2>1. CASE r \in mine /\ rides[r] \in Accepts(status)
    <3>1. /\ r \in Rides /\ rides' = [rides EXCEPT ![r] = status]
          /\ status \in {"CAPTAIN_ARRIVED", "IN_PROGRESS", "COMPLETED"}
      BY <1>3, <2>1 DEF UpdateRide, PageOK, TypeOK
    <3>2. \/ status = "CAPTAIN_ARRIVED" /\ rides[r] \in ArrivableStatuses
          \/ status = "IN_PROGRESS" /\ rides[r] \in StartableStatuses
          \/ status = "COMPLETED" /\ rides[r] = "IN_PROGRESS"
      BY <2>1, <3>1 DEF Accepts
    <3> HIDE DEF r, status
    <3> QED BY <3>1, <3>2 DEF Progress!ArrivableStatuses, Progress!StartableStatuses,
                              ArrivableStatuses, StartableStatuses
  <2> QED BY <1>3, <2>1 DEF UpdateRide
<1> QED BY <1>1, <1>2, <1>3, WhoTouchesRides

(* The rides behind the captain's page go through the lifecycle.           *)
THEOREM CaptainRidesProgress == PageSpec => RidesProgress
<1>1. PageInit => Progress!Init
  BY DEF PageInit, Init, Progress!Init
<1>2. PageInv /\ [PageNext]_pageVars => [Progress!Next]_rides
  BY ProgressStep
     DEF PageInv, CockpitInv, PageNext, OpenHistory, CloseHistory, pageVars, vars, server
<1> QED BY <1>1, <1>2, PageInvariance, PTL DEF PageSpec, RidesProgress, Progress!Spec

(* The ride on the screen is one that the database has given to this       *)
(* captain.                                                                *)
THEOREM OnlyHisRides == PageSpec => []CaptainInv
<1>1. PageInv => CaptainInv
  BY DEF PageInv, CockpitInv, CaptainInv, PageOK, ShownIsMine
<1> QED BY <1>1, PageInvariance, PTL

(* A captain who is driving sees his ride in its step as soon as nothing   *)
(* is under way, but for the rides the page could not learn of.            *)
THEOREM RideOnScreen == PageSpec => []PageKnowsRide
<1>1. PageInv => PageKnowsRide
  BY DEF PageInv, CockpitInv, PageKnowsRide, RideKnown, Unanswered, Idle, Restored
<1> QED BY <1>1, PageInvariance, PTL

(* A history that was never disturbed shows what is marked on it.          *)
THEOREM ListInStep == PageSpec => []HistoryInStep
<1>1. PageInv => HistoryInStep
  BY DEF PageInv, HistoryInv, HistoryInStep
<1> QED BY <1>1, PageInvariance, PTL

(* In such a history no answer fetches anything itself.                    *)
THEOREM AnswersSettle == PageSpec => HistorySettles
<1>1. PageInv => [FetchEnds /\ ~disturbed' => fetches' = {}]_historyVars
  BY AnswerOfShown DEF PageInv
<1> QED BY <1>1, PageInvariance, PTL DEF HistorySettles
=============================================================================
