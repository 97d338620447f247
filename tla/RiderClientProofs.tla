--------------------------- MODULE RiderClientProofs ---------------------------
(***************************************************************************)
(* Proofs about RiderClient, for every number of rides, reservations and   *)
(* polls under way together, whatever is lost or overtaken.                *)
(***************************************************************************)
EXTENDS RiderClient, WellFoundedInduction, TLAPS

(* Every immediate ride that exists has a place in the order of creation.  *)
CreatedListed ==
  \A r \in Rides \ ScheduledRides : rides[r] # "NONE" => \E i \in 1 .. Len(created) : created[i] = r

(* Nothing but the end is on its way about this ride.                      *)
NothingOlder(r) ==
  /\ \A p \in Polls : poll[p].view.ride # r
  /\ \A e \in due : e.ride = r => IsEndOf(e, r)
  /\ Call("booked", r) \notin answers

(* The page does not show the ride and will not hear of it.                *)
Gone(r) == view.ride # r /\ \A i \in 1 .. Len(inbox) : inbox[i].ride # r

(* A ride that has ended is gone, or its end is still to come.             *)
Leaving(r) == NothingOlder(r) /\ (Gone(r) \/ EndComing(r))

EndsLast == \A r \in Rides : Ended(r) /\ r \notin missed => Leaving(r)

PageInv == TypeOK /\ CreatedListed /\ NeverAhead /\ EndsLast

(* The statuses from the search for a captain on.                          *)
Begun == RideStatuses \ {"NONE", "SCHEDULED"}

(* No ride goes back.                                                      *)
RidesGoOn == \A r \in Rides : Rank(rides[r]) <= Rank(rides'[r])

-----------------------------------------------------------------------------
(* The order of the statuses                                               *)

(* The values of Rank.                                                     *)
LEMMA RankOf ==
  /\ Rank("NONE") = 0 /\ Rank("SCHEDULED") = 1 /\ Rank("SEARCHING") = 2
  /\ Rank("CAPTAIN_ASSIGNED") = 3 /\ Rank("CAPTAIN_ARRIVING") = 4
  /\ Rank("CAPTAIN_ARRIVED") = 5 /\ Rank("IN_PROGRESS") = 6
  /\ Rank("COMPLETED") = 7 /\ Rank("CANCELLED") = 7
BY DEF Rank, FinalStatuses

(* Every status has a rank.                                                *)
LEMMA RankIsNat ==
  ASSUME NEW s \in RideStatuses
  PROVE  Rank(s) \in 0 .. 7
BY RankOf DEF RideStatuses

(* A status has been reached from the search on, and not before.           *)
LEMMA BegunRank ==
  ASSUME NEW s \in RideStatuses
  PROVE  Rank("SEARCHING") <= Rank(s) <=> s \in Begun
BY RankOf DEF RideStatuses, Begun

(* What Move may do to a ride.                                             *)
LEMMA MoveGoesOn ==
  ASSUME TypeOK, NEW r \in Rides, NEW from \in SUBSET RideStatuses, NEW to \in RideStatuses,
         Move(r, from, to), \A s \in from : Rank(s) <= Rank(to)
  PROVE  /\ RidesGoOn
         /\ rides' \in [Rides -> RideStatuses]
         /\ missed \subseteq missed' /\ missed' \subseteq Rides
         /\ to \in FinalStatuses => r \in missed' \/ ~OldNews(r)
         /\ created' = created
         /\ rides'[r] = to /\ rides[r] \in from
         /\ \A q \in Rides \ {r} : rides'[q] = rides[q]
<1>1. \A q \in Rides : Rank(rides[q]) \in 0 .. 7
  BY RankIsNat DEF TypeOK
<1> QED BY <1>1 DEF Move, RidesGoOn, TypeOK

-----------------------------------------------------------------------------
(* The answer of the poll                                                  *)

(* Of some places of a sequence one is the last.                           *)
LEMMA LastPlace ==
  ASSUME NEW n \in Nat, NEW S \in SUBSET (1 .. n), S # {}
  PROVE  \E i \in S : \A j \in S : j <= i
<1> DEFINE D == {n - i : i \in S}
<1>1. D \subseteq Nat /\ D # {}
  <2>1. \A i \in S : i \in Int /\ n - i \in Nat
    OBVIOUS
  <2> QED BY <2>1
<1>2. PICK d \in D : \A e \in D : ~ (<<e, d>> \in OpToRel(<, Nat))
  BY <1>1, NatLessThanWellFounded, WFMin
<1>3. \A e \in D : ~(e < d)
  BY <1>1, <1>2 DEF OpToRel
<1>4. PICK i \in S : d = n - i
  BY <1>2
<1>5. ASSUME NEW j \in S PROVE j <= i
  <2>1. ~(n - j < n - i)
    BY <1>3, <1>4
  <2> QED BY <2>1
<1> QED BY <1>5

(* The poll's answer is nothing, or a ride that is shown, as it is.        *)
LEMMA AnswerIsShown ==
  ASSUME TypeOK, CreatedListed
  PROVE  Answer = NoView \/ \E r \in ShownRides : Answer = View(r, rides[r])
<1> DEFINE scheduled == ShownRides \cap ScheduledRides
           places == {i \in 1 .. Len(created) : created[i] \in ShownRides}
           last == CHOOSE i \in places : \A j \in places : j <= i
           r == IF scheduled # {} THEN CHOOSE s \in scheduled : TRUE ELSE created[last]
<1>1. CASE ShownRides = {}
  BY <1>1 DEF Answer
<1>2. CASE ShownRides # {}
  <2>1. Answer = View(r, rides[r])
    BY <1>2 DEF Answer
  <2>2. ASSUME scheduled # {} PROVE r \in ShownRides
    BY <2>2
  <2>3. ASSUME scheduled = {} PROVE r \in ShownRides
    <3>1. PICK q \in ShownRides : q \in Rides \ ScheduledRides /\ rides[q] # "NONE"
      BY <1>2, <2>3 DEF ShownRides, Searching, ActiveStatuses
    <3>2. places # {}
      BY <3>1 DEF CreatedListed
    <3>3. Len(created) \in Nat /\ places \subseteq 1 .. Len(created)
      BY DEF TypeOK
    <3>4. \E i \in places : \A j \in places : j <= i
      BY <3>2, <3>3, LastPlace
    <3>5. last \in places
      BY <3>4
    <3> QED BY <2>3, <3>5
  <2>4. r \in ShownRides
    BY <2>2, <2>3
  <2> QED BY <2>1, <2>4
<1> QED BY <1>1, <1>2

(* It tells nothing that the ride has not reached.                         *)
LEMMA AnswerIsActive ==
  ASSUME TypeOK, CreatedListed
  PROVE  Answer \in Views /\ Told(Answer)
<1>1. CASE Answer = NoView
  BY <1>1 DEF NoView, Views, RideStatuses, Told
<1>2. ASSUME NEW r \in ShownRides, Answer = View(r, rides[r])
      PROVE  Answer \in Views /\ Told(Answer)
  <2>1. r \in Rides /\ rides[r] \in RideStatuses /\ rides[r] \in Begun
    BY DEF ShownRides, Searching, ActiveStatuses, Begun, TypeOK
  <2>2. Rank(rides[r]) \in 0 .. 7 /\ Rank("SEARCHING") \in 0 .. 7
    BY <2>1, RankIsNat, RankOf
  <2> QED BY <1>2, <2>1, <2>2, BegunRank DEF View, Views, Told, Reached
<1> QED BY <1>1, <1>2, AnswerIsShown

-----------------------------------------------------------------------------
(* The steps of the server                                                 *)

(* A move that is announced: an end as an end, unless it is missed.        *)
LEMMA AnnouncedMove ==
  ASSUME TypeOK, NEW r \in Rides, NEW from \in SUBSET (RideStatuses \ FinalStatuses),
         NEW to \in Begun, NEW kind \in Kinds,
         Move(r, from, to), Announce(kind, r),
         \A s \in from : s # "NONE" /\ Rank(s) <= Rank(to),
         to \in FinalStatuses => kind \in Ends
  PROVE  /\ RidesGoOn
         /\ rides' \in [Rides -> RideStatuses]
         /\ missed \subseteq missed' /\ missed' \subseteq Rides
         /\ created' = created /\ rides[r] # "NONE" /\ rides'[r] \in Begun
         /\ ~Ended(r) /\ (Ended(r)' => r \in missed' \/ ~OldNews(r))
         /\ \A q \in Rides \ {r} : rides'[q] = rides[q]
         /\ \E k \in Kinds : /\ due' = due \cup {Event(k, r, rides'[r])}
                             /\ Ended(r)' => k \in Ends
<1>1. to \in RideStatuses /\ from \in SUBSET RideStatuses
  BY DEF Begun
<1>2. \A s \in from : Rank(s) <= Rank(to)
  OBVIOUS
<1>3. /\ RidesGoOn
      /\ rides' \in [Rides -> RideStatuses]
      /\ missed \subseteq missed' /\ missed' \subseteq Rides
      /\ to \in FinalStatuses => r \in missed' \/ ~OldNews(r)
      /\ created' = created
      /\ rides'[r] = to /\ rides[r] \in from
      /\ \A q \in Rides \ {r} : rides'[q] = rides[q]
  BY <1>1, <1>2, MoveGoesOn
<1>4. ~Ended(r) /\ (Ended(r)' <=> to \in FinalStatuses)
  BY <1>3 DEF Ended
<1>5. due' = due \cup {Event(kind, r, rides'[r])}
  BY DEF Announce
<1> QED BY <1>3, <1>4, <1>5

(* Every step of the server takes one ride forward, if any, and announces  *)
(* its end.                                                                *)
LEMMA ServerMovesOn ==
  ASSUME TypeOK, NEW r \in Rides, ServerStep(r)
  PROVE  /\ RidesGoOn
         /\ rides' \in [Rides -> RideStatuses]
         /\ missed \subseteq missed' /\ missed' \subseteq Rides
         /\ created' = created /\ rides[r] # "NONE" /\ rides'[r] \in Begun
         /\ ~Ended(r) /\ (Ended(r)' => r \in missed' \/ ~OldNews(r))
         /\ \A q \in Rides \ {r} : rides'[q] = rides[q]
         /\ \E k \in Kinds : /\ due' = due \cup {Event(k, r, rides'[r])}
                             /\ Ended(r)' => k \in Ends
         /\ UNCHANGED <<inbox, view, poll, answers>>
<1>1. UNCHANGED <<inbox, view, poll, answers>>
  BY DEF ServerStep, CaptainMoves, ServerCancels, ServerSearches
<1> DEFINE from1 == CancellableStatuses \ {"SCHEDULED"}
<1>2. /\ {"SEARCHING"} \in SUBSET (RideStatuses \ FinalStatuses)
      /\ ArrivableStatuses \in SUBSET (RideStatuses \ FinalStatuses)
      /\ StartableStatuses \in SUBSET (RideStatuses \ FinalStatuses)
      /\ {"IN_PROGRESS"} \in SUBSET (RideStatuses \ FinalStatuses)
      /\ from1 \in SUBSET (RideStatuses \ FinalStatuses)
      /\ {"SCHEDULED"} \in SUBSET (RideStatuses \ FinalStatuses)
      /\ {"SEARCHING", "CAPTAIN_ASSIGNED", "CAPTAIN_ARRIVED", "IN_PROGRESS",
          "COMPLETED", "CANCELLED"} \subseteq Begun
  BY DEF RideStatuses, FinalStatuses, ArrivableStatuses, StartableStatuses,
         CancellableStatuses, Begun
<1>3. /\ \A s \in {"SEARCHING"} : s # "NONE" /\ Rank(s) <= Rank("CAPTAIN_ASSIGNED")
      /\ \A s \in {"IN_PROGRESS"} : s # "NONE" /\ Rank(s) <= Rank("COMPLETED")
      /\ \A s \in {"SCHEDULED"} : s # "NONE" /\ Rank(s) <= Rank("SEARCHING")
      /\ \A s \in ArrivableStatuses : s # "NONE" /\ Rank(s) <= Rank("CAPTAIN_ARRIVED")
      /\ \A s \in StartableStatuses : s # "NONE" /\ Rank(s) <= Rank("IN_PROGRESS")
      /\ \A s \in from1 : s # "NONE" /\ Rank(s) <= Rank("CANCELLED")
  BY RankOf DEF ArrivableStatuses, StartableStatuses, CancellableStatuses
<1>4. CASE Move(r, {"SEARCHING"}, "CAPTAIN_ASSIGNED") /\ Announce("assigned", r)
  <2>1. "assigned" \in Kinds /\ "CAPTAIN_ASSIGNED" \in Begun \ FinalStatuses
    BY <1>2 DEF Kinds, FinalStatuses
  <2>2. \A s \in {"SEARCHING"} : s # "NONE" /\ Rank(s) <= Rank("CAPTAIN_ASSIGNED")
    BY <1>3
  <2>3. {"SEARCHING"} \in SUBSET (RideStatuses \ FinalStatuses)
    BY <1>2
  <2> QED BY <1>1, <1>4, <2>1, <2>2, <2>3, AnnouncedMove
<1>5. CASE Move(r, ArrivableStatuses, "CAPTAIN_ARRIVED") /\ Announce("arrived", r)
  <2>1. "arrived" \in Kinds /\ "CAPTAIN_ARRIVED" \in Begun \ FinalStatuses
    BY <1>2 DEF Kinds, FinalStatuses
  <2>2. \A s \in ArrivableStatuses : s # "NONE" /\ Rank(s) <= Rank("CAPTAIN_ARRIVED")
    BY <1>3
  <2>3. ArrivableStatuses \in SUBSET (RideStatuses \ FinalStatuses)
    BY <1>2
  <2> QED BY <1>1, <1>5, <2>1, <2>2, <2>3, AnnouncedMove
<1>6. CASE Move(r, StartableStatuses, "IN_PROGRESS") /\ Announce("started", r)
  <2>1. "started" \in Kinds /\ "IN_PROGRESS" \in Begun \ FinalStatuses
    BY <1>2 DEF Kinds, FinalStatuses
  <2>2. \A s \in StartableStatuses : s # "NONE" /\ Rank(s) <= Rank("IN_PROGRESS")
    BY <1>3
  <2>3. StartableStatuses \in SUBSET (RideStatuses \ FinalStatuses)
    BY <1>2
  <2> QED BY <1>1, <1>6, <2>1, <2>2, <2>3, AnnouncedMove
<1>7. CASE Move(r, {"IN_PROGRESS"}, "COMPLETED") /\ Announce("completed", r)
  <2>1. "completed" \in Kinds /\ "completed" \in Ends /\ "COMPLETED" \in Begun
    BY <1>2 DEF Kinds, Ends
  <2>2. \A s \in {"IN_PROGRESS"} : s # "NONE" /\ Rank(s) <= Rank("COMPLETED")
    BY <1>3
  <2>3. {"IN_PROGRESS"} \in SUBSET (RideStatuses \ FinalStatuses)
    BY <1>2
  <2> QED BY <1>1, <1>7, <2>1, <2>2, <2>3, AnnouncedMove
<1>8. CASE Move(r, from1, "CANCELLED") /\ Announce("cancelled", r)
  <2>1. "cancelled" \in Kinds /\ "cancelled" \in Ends /\ "CANCELLED" \in Begun
    BY <1>2 DEF Kinds, Ends
  <2>2. \A s \in from1 : s # "NONE" /\ Rank(s) <= Rank("CANCELLED")
    BY <1>3
  <2>3. from1 \in SUBSET (RideStatuses \ FinalStatuses)
    BY <1>2
  <2> QED BY <1>1, <1>8, <2>1, <2>2, <2>3, AnnouncedMove
<1>9. CASE Move(r, {"SCHEDULED"}, "SEARCHING") /\ Announce("matching", r)
  <2>1. "matching" \in Kinds /\ "SEARCHING" \in Begun \ FinalStatuses
    BY <1>2 DEF Kinds, FinalStatuses
  <2>2. \A s \in {"SCHEDULED"} : s # "NONE" /\ Rank(s) <= Rank("SEARCHING")
    BY <1>3
  <2>3. {"SCHEDULED"} \in SUBSET (RideStatuses \ FinalStatuses)
    BY <1>2
  <2> QED BY <1>1, <1>9, <2>1, <2>2, <2>3, AnnouncedMove
<1>10. CASE /\ Searching(r) /\ UNCHANGED <<rides, created, missed>>
            /\ Announce("matching", r)
  <2>1. RidesGoOn
    BY <1>10, RankIsNat DEF RidesGoOn, TypeOK
  <2> QED BY <1>1, <1>10, <2>1 DEF Searching, Announce, Kinds, Begun, RideStatuses, Ended,
                                   FinalStatuses, TypeOK
<1> QED BY <1>4, <1>5, <1>6, <1>7, <1>8, <1>9, <1>10
        DEF ServerStep, CaptainMoves, ServerCancels, ServerSearches

(* The rider's cancellation, which the page is told of like any other.     *)
LEMMA CancelMovesOn ==
  ASSUME TypeOK, NEW r \in Rides, Cancel(r)
  PROVE  /\ RidesGoOn
         /\ rides' \in [Rides -> RideStatuses]
         /\ missed \subseteq missed' /\ missed' \subseteq Rides
         /\ created' = created /\ rides[r] # "NONE" /\ rides'[r] = "CANCELLED"
         /\ ~Ended(r) /\ (r \in missed' \/ ~OldNews(r))
         /\ \A q \in Rides \ {r} : rides'[q] = rides[q]
         /\ due' = due \cup {Event("cancelled", r, rides'[r])}
         /\ answers' = answers \/ answers' = answers \cup {Call("cancelled", r)}
         /\ UNCHANGED <<inbox, view, poll>>
<1>1. Move(r, CancellableStatuses, "CANCELLED")
  BY DEF Cancel
<1>2. \A s \in CancellableStatuses : s \in RideStatuses \ {"NONE"} /\ Rank(s) <= Rank("CANCELLED")
  BY RankOf DEF CancellableStatuses, RideStatuses
<1>3. CancellableStatuses \in SUBSET (RideStatuses \ FinalStatuses)
  BY DEF CancellableStatuses, RideStatuses, FinalStatuses
<1>4. "CANCELLED" \in RideStatuses /\ "CANCELLED" \in FinalStatuses
  BY DEF RideStatuses, FinalStatuses
<1>5. /\ RidesGoOn
      /\ rides' \in [Rides -> RideStatuses]
      /\ missed \subseteq missed' /\ missed' \subseteq Rides
      /\ r \in missed' \/ ~OldNews(r)
      /\ created' = created
      /\ rides'[r] = "CANCELLED" /\ rides[r] \in CancellableStatuses
      /\ \A q \in Rides \ {r} : rides'[q] = rides[q]
  BY <1>1, <1>2, <1>3, <1>4, MoveGoesOn
<1>6. rides[r] # "NONE" /\ ~Ended(r)
  BY <1>2, <1>3, <1>5 DEF Ended
<1>7. /\ due' = due \cup {Event("cancelled", r, rides'[r])}
      /\ answers' = answers \/ answers' = answers \cup {Call("cancelled", r)}
      /\ UNCHANGED <<inbox, view, poll>>
  BY DEF Cancel, Announce
<1> QED BY <1>5, <1>6, <1>7

(* A booking puts a ride that was not there into the order.                *)
LEMMA BookAdds ==
  ASSUME TypeOK, NEW r \in Rides, Book(r)
  PROVE  /\ RidesGoOn
         /\ rides' \in [Rides -> RideStatuses]
         /\ rides[r] = "NONE" /\ ~Ended(r)'
         /\ \A q \in Rides \ {r} : rides'[q] = rides[q]
         /\ UNCHANGED <<inbox, view, poll, missed>>
         /\ \/ r \in ScheduledRides /\ UNCHANGED <<created, due, answers>>
            \/ /\ rides'[r] = "SEARCHING"
               /\ created' = Append(created, r)
               /\ due' = due \cup {Event("matching", r, rides'[r])}
               /\ answers' = answers \cup {Call("booked", r)}
<1>1. \A q \in Rides : Rank(rides[q]) \in 0 .. 7
  BY RankIsNat DEF TypeOK
<1>2. CASE r \in ScheduledRides
  <2>1. rides' = [rides EXCEPT ![r] = "SCHEDULED"] /\ rides[r] = "NONE"
    BY <1>2 DEF Book
  <2>2. RidesGoOn
    <3>1. rides[r] = "NONE" /\ rides'[r] = "SCHEDULED"
      BY <2>1 DEF TypeOK
    <3>2. \A q \in Rides \ {r} : rides'[q] = rides[q]
      BY <2>1 DEF TypeOK
    <3> QED BY <1>1, <3>1, <3>2, RankOf DEF RidesGoOn
  <2> QED BY <1>2, <2>1, <2>2 DEF Book, TypeOK, RideStatuses, Ended, FinalStatuses
<1>3. CASE r \notin ScheduledRides
  <2>1. rides' = [rides EXCEPT ![r] = "SEARCHING"] /\ rides[r] = "NONE"
    BY <1>3 DEF Book
  <2>2. RidesGoOn
    <3>1. rides[r] = "NONE" /\ rides'[r] = "SEARCHING"
      BY <2>1 DEF TypeOK
    <3>2. \A q \in Rides \ {r} : rides'[q] = rides[q]
      BY <2>1 DEF TypeOK
    <3> QED BY <1>1, <3>1, <3>2, RankOf DEF RidesGoOn
  <2> QED BY <1>3, <2>1, <2>2 DEF Book, TypeOK, RideStatuses, Ended, FinalStatuses
<1> QED BY <1>2, <1>3

(* No other step touches the rides or their order.                         *)
LEMMA OthersKeepRides ==
  ASSUME Next
  PROVE  \/ \E r \in Rides : ServerStep(r) \/ Book(r) \/ Cancel(r)
         \/ UNCHANGED <<rides, created>>
BY DEF Next, RiderStep, Booked, Cancelled, TrackLiveSearch, Emit, Receive, Break, Reload,
       Ask, Take, PollFails, server

(* No step of the system takes a ride back.                                *)
LEMMA RidesStep ==
  ASSUME TypeOK, Next
  PROVE  RidesGoOn
<1>1. CASE UNCHANGED <<rides, created>>
  BY <1>1, RankIsNat DEF RidesGoOn, TypeOK
<1> QED BY <1>1, OthersKeepRides, ServerMovesOn, BookAdds, CancelMovesOn

(* Every step keeps the order of creation complete.                        *)
LEMMA CreatedStep ==
  ASSUME TypeOK, CreatedListed, Next
  PROVE  CreatedListed'
<1>1. ASSUME created' = created,
             \A q \in Rides \ ScheduledRides : rides'[q] # "NONE" => rides[q] # "NONE"
      PROVE  CreatedListed'
  BY <1>1 DEF CreatedListed
<1>2. ASSUME NEW r \in Rides, ServerStep(r) PROVE CreatedListed'
  BY <1>1, <1>2, ServerMovesOn
<1>3. ASSUME NEW r \in Rides, Cancel(r) PROVE CreatedListed'
  BY <1>1, <1>3, CancelMovesOn
<1>4. ASSUME NEW r \in Rides, Book(r) PROVE CreatedListed'
  <2>1. CASE r \in ScheduledRides /\ UNCHANGED created
    BY <1>1, <1>4, <2>1, BookAdds
  <2>2. CASE created' = Append(created, r)
    <3>1. /\ created \in Seq(Rides) /\ Len(created') = Len(created) + 1
          /\ Len(created) \in Nat /\ created'[Len(created) + 1] = r
          /\ \A i \in 1 .. Len(created) : created'[i] = created[i]
      BY <2>2 DEF TypeOK
    <3>2. ASSUME NEW q \in Rides \ ScheduledRides, rides'[q] # "NONE"
          PROVE  \E i \in 1 .. Len(created') : created'[i] = q
      <4>1. CASE q = r
        BY <3>1, <4>1
      <4>2. CASE q # r
        <5>1. rides[q] # "NONE"
          BY <1>4, <3>2, <4>2, BookAdds
        <5>2. PICK i \in 1 .. Len(created) : created[i] = q
          BY <5>1 DEF CreatedListed
        <5> QED BY <3>1, <5>2
      <4> QED BY <4>1, <4>2
    <3> QED BY <3>2 DEF CreatedListed
  <2> QED BY <1>4, <2>1, <2>2, BookAdds
<1>5. CASE UNCHANGED <<rides, created>>
  BY <1>1, <1>5
<1> QED BY <1>2, <1>3, <1>4, <1>5, OthersKeepRides

-----------------------------------------------------------------------------
(* What the page hears and reads                                           *)

(* A listener shows what its event says, or nothing.                       *)
LEMMA HeardIsTold ==
  ASSUME NEW e \in Events
  PROVE  Heard(e) \in {View(e.ride, e.status), NoView}
BY DEF Heard

(* A poll leaves its answer, what was there, or nothing.                   *)
LEMMA PolledIsTold ==
  ASSUME NEW a
  PROVE  Polled(a) \in {a, view, NoView}
BY DEF Polled

(* What is behind the rides stays behind them.                             *)
LEMMA BehindStays ==
  ASSUME TypeOK, RidesGoOn, rides' \in [Rides -> RideStatuses]
  PROVE  /\ \A s \in RideStatuses, r \in Rides : Reached(s, r) => Reached(s, r)'
         /\ \A v \in Views : Told(v) => Told(v)'
         /\ Told(NoView)'
<1>1. \A s \in RideStatuses : Rank(s) \in 0 .. 7
  BY RankIsNat
<1>2. ASSUME NEW s \in RideStatuses, NEW r \in Rides, Reached(s, r) PROVE Reached(s, r)'
  <2>1. rides[r] \in RideStatuses /\ rides'[r] \in RideStatuses
    BY DEF TypeOK
  <2>2. Rank(rides[r]) <= Rank(rides'[r])
    BY DEF RidesGoOn
  <2> QED BY <1>1, <1>2, <2>1, <2>2, RankOf DEF Reached
<1>3. ASSUME NEW v \in Views, Told(v) PROVE Told(v)'
  BY <1>2, <1>3 DEF Told, Views
<1>4. Told(NoView)'
  BY DEF Told, NoView
<1> QED BY <1>2, <1>3, <1>4

(* Every step keeps the types.                                             *)
LEMMA TypeStep ==
  ASSUME PageInv, Next
  PROVE  TypeOK'
<1> USE DEF PageInv
<1>1. NoView \in Views
  BY DEF NoView, Views, RideStatuses
<1>2. \A q \in Rides, s \in RideStatuses : View(q, s) \in Views
  BY DEF View, Views
<1>3. \A kind \in Kinds, q \in Rides, s \in RideStatuses : Event(kind, q, s) \in Events
  BY DEF Event, Events
<1>4. ASSUME NEW r \in Rides, ServerStep(r) PROVE TypeOK'
  <2>1. PICK k \in Kinds : due' = due \cup {Event(k, r, rides'[r])}
    BY <1>4, ServerMovesOn
  <2>2. rides' \in [Rides -> RideStatuses] /\ due' \subseteq Events
    BY <1>3, <1>4, <2>1, ServerMovesOn DEF TypeOK
  <2> QED BY <1>4, <2>2, ServerMovesOn DEF TypeOK
<1>5. ASSUME NEW r \in Rides, Cancel(r) PROVE TypeOK'
  <2>1. due' \subseteq Events
    BY <1>3, <1>5, CancelMovesOn DEF TypeOK, Kinds
  <2>2. answers' \subseteq [kind : Calls, ride : Rides]
    BY <1>5, CancelMovesOn DEF TypeOK, Call, Calls
  <2> QED BY <1>5, <2>1, <2>2, CancelMovesOn DEF TypeOK
<1>6. ASSUME NEW r \in Rides, Book(r) PROVE TypeOK'
  <2>1. /\ rides' \in [Rides -> RideStatuses] /\ created' \in Seq(Rides)
        /\ due' \subseteq Events
    <3>1. "matching" \in Kinds /\ "SEARCHING" \in RideStatuses
      BY DEF Kinds, RideStatuses
    <3>2. Event("matching", r, "SEARCHING") \in Events
      BY <1>3, <3>1
    <3>3. rides' \in [Rides -> RideStatuses]
      BY <1>6, BookAdds
    <3>4. \/ UNCHANGED <<created, due>>
          \/ /\ created' = Append(created, r)
             /\ due' = due \cup {Event("matching", r, "SEARCHING")}
      BY <1>6, BookAdds
    <3>5. created \in Seq(Rides) /\ due \subseteq Events
      BY DEF TypeOK
    <3> QED BY <3>2, <3>3, <3>4, <3>5
  <2>2. answers' \subseteq [kind : Calls, ride : Rides]
    BY <1>6, BookAdds DEF TypeOK, Call, Calls
  <2> QED BY <1>6, <2>1, <2>2, BookAdds DEF TypeOK
<1>7. ASSUME NEW r \in Rides, Booked(r) \/ Cancelled(r) \/ TrackLiveSearch(r) PROVE TypeOK'
  BY <1>1, <1>2, <1>7 DEF TypeOK, Booked, Cancelled, TrackLiveSearch, server, RideStatuses
<1>8. ASSUME NEW e \in due, Emit(e) PROVE TypeOK'
  <2>1. e \in Events /\ rides[e.ride] \in RideStatuses
    BY DEF TypeOK, Events
  <2>2. PICK s \in RideStatuses : inbox' = Append(inbox, [e EXCEPT !.status = s])
    BY <1>8, <2>1 DEF Emit, Events
  <2>3. [e EXCEPT !.status = s] \in Events
    BY <2>1 DEF Events
  <2> QED BY <1>8, <2>2, <2>3 DEF TypeOK, Emit
<1>9. CASE Receive
  <2>1. Head(inbox) \in Events /\ Tail(inbox) \in Seq(Events)
    BY <1>9 DEF Receive, TypeOK
  <2>2. view' \in Views
    BY <1>1, <1>2, <1>9, <2>1, HeardIsTold DEF Receive, Events
  <2> QED BY <1>9, <2>1, <2>2 DEF TypeOK, Receive, server
<1>10. CASE Break
  BY <1>10 DEF TypeOK, Break, server
<1>13. CASE Reload
  BY <1>1, <1>13 DEF TypeOK, Reload, server, NoPoll, PollStates
<1>11. ASSUME NEW p \in Polls, Ask(p) PROVE TypeOK'
  BY <1>11, AnswerIsActive DEF TypeOK, Ask, server, PollStates
<1>12. ASSUME NEW p \in Polls, Take(p) \/ PollFails(p) PROVE TypeOK'
  <2>1. view' \in {poll[p].view, view, NoView} /\ poll' = [poll EXCEPT ![p] = NoPoll]
    BY <1>12, PolledIsTold DEF Take, PollFails
  <2> QED BY <1>1, <1>12, <2>1 DEF TypeOK, Take, PollFails, server, NoPoll, PollStates
<1> QED BY <1>4, <1>5, <1>6, <1>7, <1>8, <1>9, <1>10, <1>11, <1>12, <1>13
     DEF Next, RiderStep

(* After a step the page, and all on its way, is still behind the rides.   *)
LEMMA AheadStep ==
  ASSUME PageInv, Next, TypeOK'
  PROVE  NeverAhead'
<1> DEFINE Behind(status, r) == Rank(status) \in Rank("SEARCHING") .. Rank(rides'[r])
           Shown(v) == v.ride # NoRide => Behind(v.status, v.ride)
           ViewOK == Shown(view')
           PollsOK == \A p \in Polls : Shown(poll'[p].view)
           DueOK == \A e \in due' : Behind(e.status, e.ride)
           InboxOK == \A i \in 1 .. Len(inbox') : Behind(inbox'[i].status, inbox'[i].ride)
           AnswersOK == \A a \in answers' : Behind("SEARCHING", a.ride)
           AllOK == ViewOK /\ PollsOK /\ DueOK /\ InboxOK /\ AnswersOK
<1> USE DEF PageInv
<1> SUFFICES AllOK
  BY DEF NeverAhead, Told, Reached
<1>1. RidesGoOn /\ rides' \in [Rides -> RideStatuses]
  BY RidesStep DEF TypeOK
<1>2. \A s \in RideStatuses, r \in Rides : Reached(s, r) => Behind(s, r)
  BY <1>1, BehindStays DEF Reached
<1>3. \A v \in Views : Told(v) => Shown(v)
  BY <1>2 DEF Told, Views
<1>4. \A r \in Rides : /\ rides[r] \in Begun => Behind(rides[r], r)
                       /\ rides'[r] \in Begun => Behind(rides'[r], r)
  <2> TAKE r \in Rides
  <2>1. rides[r] \in RideStatuses /\ rides'[r] \in RideStatuses
    BY <1>1 DEF TypeOK
  <2>2. /\ Rank(rides[r]) \in 0 .. 7 /\ Rank(rides'[r]) \in 0 .. 7
        /\ Rank("SEARCHING") \in 0 .. 7 /\ Rank(rides[r]) <= Rank(rides'[r])
    BY <1>1, <2>1, RankIsNat, RankOf DEF RidesGoOn
  <2> QED BY <2>1, <2>2, BegunRank
<1>5. Shown(NoView) /\ Shown(NoPoll.view) /\ Shown(view)
  BY <1>3 DEF NoView, NoPoll, NeverAhead, TypeOK
<1>6. \A p \in Polls : Shown(poll[p].view)
  BY <1>3 DEF NeverAhead, TypeOK, PollStates
<1>7. \A e \in due : Behind(e.status, e.ride)
  BY <1>2 DEF NeverAhead, TypeOK, Events
<1>8. \A i \in 1 .. Len(inbox) : Behind(inbox[i].status, inbox[i].ride)
  <2> TAKE i \in 1 .. Len(inbox)
  <2>1. inbox[i] \in Events
    BY DEF TypeOK
  <2>2. Reached(inbox[i].status, inbox[i].ride)
    BY DEF NeverAhead
  <2> QED BY <1>2, <2>1, <2>2 DEF Events
<1>9. \A a \in answers : Behind("SEARCHING", a.ride)
  BY <1>2 DEF NeverAhead, TypeOK, RideStatuses
<1>10. \A kind \in Kinds, r \in Rides :
         rides'[r] \in Begun => Behind(Event(kind, r, rides'[r]).status, r)
  BY <1>4 DEF Event
<1> HIDE DEF Behind, Shown
<1>11. ASSUME NEW r \in Rides, ServerStep(r) PROVE AllOK
  <2>1. PICK k \in Kinds : due' = due \cup {Event(k, r, rides'[r])}
    BY <1>11, ServerMovesOn
  <2>2. DueOK
    BY <1>7, <1>10, <1>11, <2>1, ServerMovesOn DEF Event
  <2> QED BY <1>5, <1>6, <1>8, <1>9, <1>11, <2>2, ServerMovesOn
<1>12. ASSUME NEW r \in Rides, Cancel(r) PROVE AllOK
  <2>1. DueOK
    BY <1>7, <1>10, <1>12, CancelMovesOn DEF Event, Kinds, Begun, RideStatuses
  <2>2. AnswersOK
    <3>1. Behind("SEARCHING", r)
      BY <1>1, <1>12, CancelMovesOn, RankOf DEF Behind
    <3> QED BY <1>9, <1>12, <3>1, CancelMovesOn DEF Call
  <2> QED BY <1>5, <1>6, <1>8, <1>12, <2>1, <2>2, CancelMovesOn
<1>13. ASSUME NEW r \in Rides, Book(r) PROVE AllOK
  <2>1. DueOK
    BY <1>7, <1>10, <1>13, BookAdds DEF Event, Kinds, Begun, RideStatuses
  <2>2. AnswersOK
    <3>1. rides'[r] = "SEARCHING" => Behind("SEARCHING", r)
      BY RankOf DEF Behind
    <3> QED BY <1>9, <1>13, <3>1, BookAdds DEF Call
  <2> QED BY <1>5, <1>6, <1>8, <1>13, <2>1, <2>2, BookAdds
<1>14. ASSUME NEW r \in Rides, Booked(r) \/ Cancelled(r) PROVE AllOK
  <2>1. Call("booked", r) \in answers => Shown(View(r, "SEARCHING"))
    BY <1>9 DEF Shown, View, Call
  <2> QED BY <1>5, <1>6, <1>7, <1>8, <1>9, <1>14, <2>1 DEF Booked, Cancelled, server
<1>15. ASSUME NEW r \in Rides, TrackLiveSearch(r) PROVE AllOK
  <2>1. rides[r] \in RideStatuses /\ rides[r] \in Begun
    BY <1>15 DEF TrackLiveSearch, TypeOK, Begun
  <2>2. Rank(rides[r]) \in 0 .. 7 /\ Rank("SEARCHING") \in 0 .. 7
    BY <2>1, RankIsNat, RankOf
  <2>3. Reached("SEARCHING", r)
    BY <2>1, <2>2, BegunRank DEF Reached
  <2>4. Shown(View(r, "SEARCHING"))
    BY <1>2, <2>3 DEF Shown, View, RideStatuses
  <2> QED BY <1>6, <1>7, <1>8, <1>9, <1>15, <2>4 DEF TrackLiveSearch, server
<1>16. ASSUME NEW e \in due, Emit(e) PROVE AllOK
  <2>1. e \in Events /\ e.ride \in Rides
    BY DEF TypeOK, Events
  <2>2. PICK s \in {e.status, rides[e.ride]} : inbox' = Append(inbox, [e EXCEPT !.status = s])
    BY <1>16 DEF Emit
  <2>3. Behind(s, e.ride)
    <3>1. Reached(e.status, e.ride) /\ rides[e.ride] \in RideStatuses
      BY <2>1 DEF NeverAhead, TypeOK
    <3>2. Rank("SEARCHING") <= Rank(rides[e.ride])
      BY <2>1, <3>1, RankIsNat, RankOf DEF Reached, Events
    <3> QED BY <1>4, <1>7, <2>1, <2>2, <3>1, <3>2, BegunRank
  <2>4. [e EXCEPT !.status = s].status = s /\ [e EXCEPT !.status = s].ride = e.ride
    BY <2>1 DEF Events
  <2>5. InboxOK
    <3>1. /\ Len(inbox') = Len(inbox) + 1 /\ Len(inbox) \in Nat
          /\ \A i \in 1 .. Len(inbox) : inbox'[i] = inbox[i]
          /\ inbox'[Len(inbox) + 1] = [e EXCEPT !.status = s]
      BY <2>2 DEF TypeOK
    <3>2. ASSUME NEW i \in 1 .. Len(inbox')
          PROVE  Behind(inbox'[i].status, inbox'[i].ride)
      <4>1. CASE i \in 1 .. Len(inbox)
        BY <1>8, <3>1, <4>1
      <4>2. CASE i = Len(inbox) + 1
        BY <2>3, <2>4, <3>1, <4>2
      <4> QED BY <3>1, <4>1, <4>2
    <3> QED BY <3>2
  <2> QED BY <1>5, <1>6, <1>7, <1>9, <1>16, <2>5 DEF Emit
<1>17. CASE Receive
  <2>1. /\ Head(inbox) = inbox[1] /\ Head(inbox) \in Events /\ 1 \in 1 .. Len(inbox)
        /\ Len(inbox') = Len(inbox) - 1 /\ Len(inbox) \in Nat
        /\ \A i \in 1 .. Len(inbox') : i + 1 \in 1 .. Len(inbox) /\ inbox'[i] = inbox[i + 1]
    BY <1>17 DEF Receive, TypeOK
  <2>2. InboxOK
    BY <1>8, <2>1
  <2>3. Shown(View(Head(inbox).ride, Head(inbox).status))
    BY <1>8, <2>1 DEF Shown, View
  <2>4. ViewOK
    BY <1>5, <1>17, <2>1, <2>3, HeardIsTold DEF Receive
  <2> QED BY <1>6, <1>7, <1>9, <1>17, <2>2, <2>4 DEF Receive, server
<1>18. CASE Break
  BY <1>5, <1>6, <1>7, <1>9, <1>18 DEF Break, server
<1>19. CASE Reload
  BY <1>5, <1>7, <1>19 DEF Reload, server
<1>20. ASSUME NEW p \in Polls, Ask(p) PROVE AllOK
  <2>1. Shown(Answer)
    BY <1>3, AnswerIsActive
  <2> QED BY <1>5, <1>6, <1>7, <1>8, <1>9, <1>20, <2>1 DEF Ask, server, TypeOK
<1>21. ASSUME NEW p \in Polls, Take(p) \/ PollFails(p) PROVE AllOK
  <2>1. view' \in {poll[p].view, view, NoView}
    BY <1>21, PolledIsTold DEF Take, PollFails
  <2>2. ViewOK
    BY <1>5, <1>6, <2>1
  <2>3. PollsOK
    BY <1>5, <1>6, <1>21 DEF Take, PollFails, TypeOK
  <2> QED BY <1>7, <1>8, <1>9, <1>21, <2>2, <2>3 DEF Take, PollFails, server
<1> QED
  BY <1>11, <1>12, <1>13, <1>14, <1>15, <1>16, <1>17, <1>18, <1>19, <1>20, <1>21
     DEF Next, RiderStep

-----------------------------------------------------------------------------
(* The end of a ride                                                       *)

(* What is sent joins the socket at its end.                               *)
LEMMA Sent ==
  ASSUME NEW q \in Seq(Events), NEW e \in Events, NEW q2, q2 = Append(q, e)
  PROVE  /\ Len(q) \in Nat /\ Len(q2) = Len(q) + 1
         /\ \A i \in 1 .. Len(q) : i \in 1 .. Len(q2) /\ q2[i] = q[i]
         /\ Len(q2) \in 1 .. Len(q2) /\ q2[Len(q2)] = e
         /\ \A i \in 1 .. Len(q2) : i \in 1 .. Len(q) \/ i = Len(q2)
OBVIOUS

(* What is heard leaves the socket at its head.                            *)
LEMMA Taken ==
  ASSUME NEW q \in Seq(Events), q # <<>>, NEW q2, q2 = Tail(q)
  PROVE  /\ Len(q) \in Nat /\ 1 \in 1 .. Len(q) /\ Head(q) = q[1] /\ q[1] \in Events
         /\ Len(q2) = Len(q) - 1 /\ Len(q2) \in Nat
         /\ \A i \in 1 .. Len(q2) : i + 1 \in 1 .. Len(q) /\ q2[i] = q[i + 1]
         /\ \A i \in 1 .. Len(q) : i # 1 => i - 1 \in 1 .. Len(q2) /\ q2[i - 1] = q[i]
OBVIOUS

(* As long as nothing older joins it, a ride that leaves goes on leaving.  *)
LEMMA LeavingStays ==
  ASSUME NEW r \in Rides, Leaving(r), NothingOlder(r)', UNCHANGED <<inbox, view>>,
         \A e \in due : IsEndOf(e, r) => e \in due'
  PROVE  Leaving(r)'
BY DEF Leaving, Gone, EndComing, EndOnSocket, IsEndOf

(* A ride that ends in this step starts to leave.                          *)
LEMMA EndBegins ==
  ASSUME PageInv, Next, NEW r \in Rides, ~Ended(r), Ended(r)', r \notin missed'
  PROVE  Leaving(r)'
<1> USE DEF PageInv
<1>1. ASSUME NEW q \in Rides, ServerStep(q) PROVE Leaving(r)'
  <2>1. q = r
    BY <1>1, ServerMovesOn DEF Ended
  <2>2. PICK k \in Ends : due' = due \cup {Event(k, r, rides'[r])}
    BY <1>1, <2>1, ServerMovesOn
  <2>3. ~OldNews(r) /\ UNCHANGED <<poll, answers>>
    BY <1>1, <2>1, ServerMovesOn
  <2>4. IsEndOf(Event(k, r, rides'[r]), r)
    BY DEF IsEndOf, Event
  <2>5. NothingOlder(r)'
    BY <2>2, <2>3, <2>4 DEF NothingOlder, OldNews
  <2> QED BY <2>2, <2>4, <2>5 DEF Leaving, EndComing
<1>2. ASSUME NEW q \in Rides, Cancel(q) PROVE Leaving(r)'
  <2>1. q = r
    BY <1>2, CancelMovesOn DEF Ended
  <2>2. ~OldNews(r) /\ UNCHANGED <<inbox, view, poll>>
    BY <1>2, <2>1, CancelMovesOn
  <2>3. Call("booked", r) \notin answers'
    BY <1>2, <2>1, <2>2, CancelMovesOn DEF OldNews, Call
  <2>4. due' = due \cup {Event("cancelled", r, rides'[r])}
    BY <1>2, <2>1, CancelMovesOn
  <2>5. IsEndOf(Event("cancelled", r, rides'[r]), r)
    BY DEF IsEndOf, Event, Ends
  <2>6. NothingOlder(r)'
    BY <2>2, <2>3, <2>4, <2>5 DEF NothingOlder, OldNews
  <2> QED BY <2>4, <2>5, <2>6 DEF Leaving, EndComing
<1>3. ASSUME NEW q \in Rides, Book(q) PROVE FALSE
  BY <1>3, BookAdds DEF Ended
<1>4. CASE UNCHANGED <<rides, created>>
  BY <1>4 DEF Ended
<1> QED BY <1>1, <1>2, <1>3, <1>4, OthersKeepRides

(* A ride that is leaving goes on leaving.                                 *)
LEMMA EndStays ==
  ASSUME PageInv, Next, NEW r \in Rides, Ended(r), Leaving(r), r \notin missed'
  PROVE  Leaving(r)'
<1> USE DEF PageInv
<1>1. NothingOlder(r)
  BY DEF Leaving
<1>2. NoView.ride # r
  BY RiderAssumption DEF NoView
<1>3. ASSUME NEW q \in Rides, ServerStep(q) PROVE Leaving(r)'
  <2>1. PICK k \in Kinds : due' = due \cup {Event(k, q, rides'[q])}
    BY <1>3, ServerMovesOn
  <2>2. q # r /\ UNCHANGED <<inbox, view, poll, answers>>
    BY <1>3, ServerMovesOn
  <2>3. NothingOlder(r)'
    BY <1>1, <2>1, <2>2 DEF NothingOlder, Event, IsEndOf
  <2> QED BY <2>1, <2>2, <2>3, LeavingStays
<1>4. ASSUME NEW q \in Rides, Cancel(q) PROVE Leaving(r)'
  <2>1. q # r /\ UNCHANGED <<inbox, view, poll>>
    BY <1>4, CancelMovesOn
  <2>2. due' = due \cup {Event("cancelled", q, rides'[q])}
    BY <1>4, CancelMovesOn
  <2>3. Call("booked", r) \notin answers'
    BY <1>1, <1>4, CancelMovesOn DEF NothingOlder, Call
  <2>4. NothingOlder(r)'
    BY <1>1, <2>1, <2>2, <2>3 DEF NothingOlder, Event, IsEndOf
  <2> QED BY <2>1, <2>2, <2>4, LeavingStays
<1>5. ASSUME NEW q \in Rides, Book(q) PROVE Leaving(r)'
  <2>1. q # r /\ UNCHANGED <<inbox, view, poll>>
    BY <1>5, BookAdds DEF Ended, FinalStatuses
  <2>2. due' = due \/ due' = due \cup {Event("matching", q, rides'[q])}
    BY <1>5, BookAdds
  <2>3. Call("booked", r) \notin answers'
    BY <1>1, <1>5, <2>1, BookAdds DEF NothingOlder, Call
  <2>4. NothingOlder(r)'
    BY <1>1, <2>1, <2>2, <2>3 DEF NothingOlder, Event, IsEndOf
  <2> QED BY <2>1, <2>2, <2>4, LeavingStays
<1>6. ASSUME NEW e \in due, Emit(e) PROVE Leaving(r)'
  <2>1. e \in Events /\ e.ride \in Rides
    BY DEF TypeOK, Events
  <2>2. PICK s \in RideStatuses : inbox' = Append(inbox, [e EXCEPT !.status = s])
    BY <1>6, <2>1 DEF Emit, TypeOK, Events
  <2> DEFINE sent == [e EXCEPT !.status = s]
  <2>3. sent \in Events /\ sent.ride = e.ride /\ sent.kind = e.kind
    BY <2>1 DEF Events
  <2>4. e.ride = r => IsEndOf(e, r)
    BY <1>1 DEF NothingOlder
  <2>5. sent.ride = r => IsEndOf(sent, r)
    BY <2>3, <2>4 DEF IsEndOf
  <2>6. /\ due' = due \ {e} /\ UNCHANGED <<view, poll, answers>> /\ inbox \in Seq(Events)
        /\ inbox' = Append(inbox, sent)
    BY <1>6, <2>2 DEF Emit, TypeOK
  <2>7. NothingOlder(r)'
    BY <1>1, <2>6 DEF NothingOlder
  <2> HIDE DEF sent
  <2>8. CASE e.ride = r
    <3>1. EndOnSocket(r)'
      <4>1. \A j \in Len(inbox') .. Len(inbox') : j = Len(inbox')
        BY <2>3, <2>6, Sent
      <4> QED BY <2>3, <2>5, <2>6, <2>8, <4>1, Sent DEF EndOnSocket
    <3> QED BY <2>7, <3>1 DEF Leaving, EndComing
  <2>9. CASE e.ride # r
    <3>1. CASE Gone(r)
      BY <2>3, <2>6, <2>7, <2>9, <3>1, Sent DEF Leaving, Gone
    <3>2. CASE EndOnSocket(r)
      <4>1. PICK i \in 1 .. Len(inbox) :
              /\ IsEndOf(inbox[i], r)
              /\ \A j \in i .. Len(inbox) : inbox[j].ride = r => IsEndOf(inbox[j], r)
        BY <3>2 DEF EndOnSocket
      <4>2. ASSUME NEW j \in i .. Len(inbox'), inbox'[j].ride = r
            PROVE  IsEndOf(inbox'[j], r)
        <5>1. j \in 1 .. Len(inbox')
          BY <2>3, <2>6, Sent
        <5>2. j \in 1 .. Len(inbox)
          BY <2>3, <2>6, <2>9, <4>2, <5>1, Sent
        <5> QED BY <2>3, <2>6, <4>1, <4>2, <5>2, Sent
      <4>3. i \in 1 .. Len(inbox') /\ IsEndOf(inbox'[i], r)
        BY <2>3, <2>6, <4>1, Sent
      <4> QED BY <2>7, <4>2, <4>3 DEF Leaving, EndComing, EndOnSocket
    <3>3. CASE \E d \in due : IsEndOf(d, r)
      BY <2>6, <2>7, <2>9, <3>3 DEF Leaving, EndComing, IsEndOf
    <3> QED BY <3>1, <3>2, <3>3 DEF Leaving, EndComing
  <2> QED BY <2>8, <2>9
<1>7. CASE Receive
  <2>1. /\ inbox \in Seq(Events) /\ inbox # <<>> /\ inbox' = Tail(inbox)
        /\ view' = Heard(Head(inbox)) /\ UNCHANGED <<due, poll, answers>>
    BY <1>7 DEF Receive, TypeOK, server
  <2>2. NothingOlder(r)'
    BY <1>1, <2>1 DEF NothingOlder
  <2>3. view'.ride \in {inbox[1].ride, NoView.ride}
    BY <2>1, Taken, HeardIsTold DEF View
  <2>4. inbox[1].kind \in Ends => view' = NoView
    BY <2>1, Taken DEF Heard, Ends
  <2>5. CASE Gone(r)
    BY <1>2, <2>1, <2>2, <2>3, <2>5, Taken DEF Leaving, Gone
  <2>6. CASE EndOnSocket(r)
    <3>1. PICK i \in 1 .. Len(inbox) :
            /\ IsEndOf(inbox[i], r)
            /\ \A j \in i .. Len(inbox) : inbox[j].ride = r => IsEndOf(inbox[j], r)
      BY <2>6 DEF EndOnSocket
    <3>2. CASE i # 1
      <4>1. i - 1 \in 1 .. Len(inbox') /\ IsEndOf(inbox'[i - 1], r)
        BY <2>1, <3>1, <3>2, Taken
      <4>2. ASSUME NEW j \in i - 1 .. Len(inbox'), inbox'[j].ride = r
            PROVE  IsEndOf(inbox'[j], r)
        <5>1. j \in 1 .. Len(inbox') /\ j + 1 \in i .. Len(inbox)
          BY <2>1, <4>1, Taken
        <5> QED BY <2>1, <3>1, <4>2, <5>1, Taken
      <4> QED BY <2>2, <4>1, <4>2 DEF Leaving, EndComing, EndOnSocket
    <3>3. CASE i = 1
      <4>1. view' = NoView
        BY <2>4, <3>1, <3>3 DEF IsEndOf
      <4>2. \A j \in 1 .. Len(inbox') : inbox'[j].ride = r => IsEndOf(inbox'[j], r)
        BY <2>1, <3>1, <3>3, Taken
      <4>3. CASE \E j \in 1 .. Len(inbox') : inbox'[j].ride = r
        <5>1. PICK j \in 1 .. Len(inbox') : inbox'[j].ride = r
          BY <4>3
        <5>2. \A k \in j .. Len(inbox') : k \in 1 .. Len(inbox')
          BY <2>1, Taken
        <5> QED BY <2>2, <4>2, <5>1, <5>2 DEF Leaving, EndComing, EndOnSocket
      <4> QED BY <1>2, <2>2, <4>1, <4>3 DEF Leaving, Gone
    <3> QED BY <3>2, <3>3
  <2>7. CASE \E d \in due : IsEndOf(d, r)
    BY <2>1, <2>2, <2>7 DEF Leaving, EndComing
  <2> QED BY <2>5, <2>6, <2>7 DEF Leaving, EndComing
<1>8. CASE Break
  <2>1. /\ inbox' = <<>> /\ UNCHANGED <<due, view, poll, answers>>
        /\ \A i \in 1 .. Len(inbox) : ~IsEndOf(inbox[i], r)
    BY <1>8 DEF Break, server, IsEndOf
  <2>2. NothingOlder(r)'
    BY <1>1, <2>1 DEF NothingOlder
  <2>3. ~EndOnSocket(r)
    BY <2>1 DEF EndOnSocket
  <2> QED BY <2>1, <2>2, <2>3 DEF Leaving, Gone, EndComing
<1>9. CASE Reload
  <2>1. /\ inbox' = <<>> /\ view' = NoView /\ due' = due /\ answers' = {}
        /\ \A p \in Polls : poll'[p] = NoPoll
    BY <1>9 DEF Reload, server
  <2> QED BY <1>1, <1>2, <2>1 DEF Leaving, NothingOlder, Gone, NoPoll
<1>10. ASSUME NEW p \in Polls, Ask(p) PROVE Leaving(r)'
  <2>1. /\ poll' = [poll EXCEPT ![p] = [status |-> "answer", view |-> Answer]]
        /\ UNCHANGED <<inbox, view, due, answers>>
    BY <1>10 DEF Ask, server
  <2>2. Answer.ride # r
    BY <1>2, AnswerIsShown DEF ShownRides, Searching, Ended, ActiveStatuses, FinalStatuses, View
  <2>3. NothingOlder(r)'
    BY <1>1, <2>1, <2>2 DEF NothingOlder, TypeOK
  <2> QED BY <2>1, <2>3, LeavingStays
<1>11. ASSUME NEW p \in Polls, Take(p) \/ PollFails(p) PROVE Leaving(r)'
  <2>1. /\ view' \in {poll[p].view, view, NoView} /\ poll' = [poll EXCEPT ![p] = NoPoll]
        /\ UNCHANGED <<inbox, due, answers>>
    BY <1>11, PolledIsTold DEF Take, PollFails, server
  <2>2. NothingOlder(r)'
    BY <1>1, <1>2, <2>1 DEF NothingOlder, NoPoll, TypeOK
  <2>3. view.ride # r => view'.ride # r
    BY <1>1, <1>2, <2>1 DEF NothingOlder
  <2> QED BY <2>1, <2>2, <2>3 DEF Leaving, Gone, EndComing, EndOnSocket
<1>12. ASSUME NEW q \in Rides, Booked(q) \/ Cancelled(q) PROVE Leaving(r)'
  <2>1. /\ view' \in {View(q, "SEARCHING"), NoView} /\ answers' \subseteq answers
        /\ UNCHANGED <<inbox, due, poll>>
    BY <1>12 DEF Booked, Cancelled, server
  <2>2. NothingOlder(r)'
    BY <1>1, <2>1 DEF NothingOlder
  <2>3. view'.ride # r
    BY <1>1, <1>2, <1>12 DEF NothingOlder, Booked, Cancelled, View
  <2> QED BY <2>1, <2>2, <2>3 DEF Leaving, Gone, EndComing, EndOnSocket
<1>13. ASSUME NEW q \in Rides, TrackLiveSearch(q) PROVE Leaving(r)'
  <2>1. q # r /\ view' = View(q, "SEARCHING") /\ UNCHANGED <<inbox, due, poll, answers>>
    BY <1>13 DEF TrackLiveSearch, server
  <2>2. NothingOlder(r)'
    BY <1>1, <2>1 DEF NothingOlder
  <2> QED BY <2>1, <2>2 DEF Leaving, Gone, EndComing, EndOnSocket, View
<1> QED
  BY <1>3, <1>4, <1>5, <1>6, <1>7, <1>8, <1>9, <1>10, <1>11, <1>12, <1>13
     DEF Next, RiderStep

(* What has been missed stays missed.                                      *)
LEMMA MissedStays ==
  ASSUME TypeOK, Next
  PROVE  missed \subseteq missed'
<1>1. ASSUME NEW r \in Rides, ServerStep(r) \/ Book(r) \/ Cancel(r)
      PROVE  missed \subseteq missed'
  BY <1>1, ServerMovesOn, BookAdds, CancelMovesOn
<1>2. CASE ~\E r \in Rides : ServerStep(r) \/ Book(r) \/ Cancel(r)
  BY <1>2 DEF Next, RiderStep, Booked, Cancelled, TrackLiveSearch, Emit, Receive, Break,
              Reload, Ask, Take, PollFails
<1> QED BY <1>1, <1>2

(* Every step keeps the ends in order.                                     *)
LEMMA EndsStep ==
  ASSUME PageInv, Next
  PROVE  EndsLast'
<1> SUFFICES ASSUME NEW r \in Rides, Ended(r)', r \notin missed'
             PROVE  Leaving(r)'
  BY DEF EndsLast
<1>1. CASE ~Ended(r)
  BY <1>1, EndBegins
<1>2. CASE Ended(r)
  <2>1. Leaving(r)
    BY <1>2, MissedStays DEF PageInv, EndsLast
  <2> QED BY <1>2, <2>1, EndStays
<1> QED BY <1>1, <1>2

-----------------------------------------------------------------------------
(* Every reachable state of the page                                       *)

(* In every reachable state the types hold, every immediate ride is in the *)
(* order of creation, and nothing on the page or on its way to it is ahead *)
(* of the server.                                                          *)
THEOREM PageInvariance == Spec => []PageInv
<1>1. Init => PageInv
  <2> SUFFICES ASSUME Init PROVE PageInv
    OBVIOUS
  <2> USE RiderAssumption DEF Init
  <2>1. NoView \in Views
    BY DEF NoView, Views, RideStatuses
  <2>2. TypeOK
    BY <2>1 DEF TypeOK, NoPoll, PollStates, RideStatuses
  <2>3. CreatedListed
    BY DEF CreatedListed
  <2>4. NeverAhead
    BY DEF NeverAhead, Told, NoView, NoPoll
  <2>5. EndsLast
    BY DEF EndsLast, Ended, FinalStatuses
  <2> QED BY <2>2, <2>3, <2>4, <2>5 DEF PageInv
<1>2. PageInv /\ [Next]_vars => PageInv'
  <2>1. CASE Next
    BY <2>1, TypeStep, CreatedStep, AheadStep, EndsStep DEF PageInv
  <2>2. CASE UNCHANGED vars
    <3>1. PageInv => TypeOK' /\ CreatedListed' /\ NeverAhead'
      BY <2>2 DEF vars, server, PageInv, TypeOK, CreatedListed, NeverAhead, Told, Reached
    <3>2. PageInv => EndsLast'
      BY <2>2 DEF vars, server, PageInv, EndsLast, Ended, Leaving, NothingOlder, Gone,
                  EndComing, EndOnSocket
    <3> QED BY <3>1, <3>2 DEF PageInv
  <2> QED BY <2>1, <2>2
<1> QED BY <1>1, <1>2, PTL DEF Spec

(* The page shows no step of a ride before the server has taken it,        *)
(* whichever of the poll, the events, the answers and the list wrote it.   *)
THEOREM ShowsThePast == Spec => []RiderInv
<1>1. PageInv => RiderInv
  BY DEF PageInv, RiderInv
<1> QED BY <1>1, PageInvariance, PTL

(* The end of a ride is told last: the page that still shows a ride after  *)
(* its end will hear of that end, and of nothing else about the ride after *)
(* it, unless the news was lost or something older was on its way.         *)
THEOREM EndIsHeardLast == Spec => []EndIsComing
<1>1. PageInv => EndIsComing
  BY DEF PageInv, EndsLast, EndIsComing, Leaving, Gone
<1> QED BY <1>1, PageInvariance, PTL
=============================================================================
