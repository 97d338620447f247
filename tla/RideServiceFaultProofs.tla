------------------------ MODULE RideServiceFaultProofs ------------------------
(***************************************************************************)
(* What RideService keeps as long as nothing dies between two awaits, for  *)
(* every set of rides, captains and requests: a captain is not left        *)
(* ON_RIDE, a search has its timeout, and a ride that was rejected often   *)
(* enough is given up. None of the three holds with faults. For each the   *)
(* faults that break it are named, and it is proved that no other fault    *)
(* does; that it holds without faults is the case in which there are none. *)
(***************************************************************************)
EXTENDS RideServiceProofs, FiniteSetTheorems

(* A request that has ended a captain's ride dies before it releases them. *)
ReleaseLost ==
  \E w \in Slots :
    /\ call[w].step \in ReleaseSteps
    /\ call[w].captain \in Captains
    /\ Abort(w)

(* What dies was to end the search of a ride: its timeout, or the dispatch *)
(* or the request that has still to queue it.                              *)
TimeoutLost ==
  \E r \in Rides :
    /\ rides[r].status = "SEARCHING"
    /\ \/ TimeoutFails(r)
       \/ \E j \in DispatchIds : dispatchJob[r][j] = "active" /\ DispatchFails(r, j)
       \/ \E w \in Slots : At(w, "addTimeout") /\ call[w].ride = r /\ Abort(w)

(* A request dies that has recorded a rejection and not acted on its count.*)
CountLost ==
  \E w \in Slots :
    /\ call[w].step \in {"rejectCount", "rejectCancel"}
    /\ rides[call[w].ride].status = "SEARCHING"
    /\ Abort(w)

(* Without faults none of them happens.                                    *)
LEMMA NoneLost ==
  ASSUME ~FaultsAllowed
  PROVE  ~ReleaseLost /\ ~TimeoutLost /\ ~CountLost
BY DEF ReleaseLost, TimeoutLost, CountLost, Abort, TimeoutFails, DispatchFails

(* A request only moves by one of its own steps, or dies.                  *)
LEMMA OwnStep ==
  ASSUME IndInv, [Next]_vars, NEW w \in Slots
  PROVE  call'[w] = call[w] \/ RequestArrives(w) \/ RequestContinues(w) \/ Abort(w)
<1>1. rides' \in [Rides -> Rows]
  BY RowStep DEF IndInv
<1>2. ASSUME NEW v \in Slots, RequestArrives(v) \/ RequestContinues(v)
      PROVE  OneCallMoves(v)
  BY <1>1, <1>2, ArrivalMoves, ContinuationMoves DEF IndInv
<1>3. CASE \E v \in Slots : RequestArrives(v) \/ RequestContinues(v)
  BY <1>2, <1>3 DEF OneCallMoves
<1>4. ASSUME NEW v \in Slots, Abort(v) PROVE v = w \/ call'[w] = call[w]
  BY <1>4 DEF Abort, Return
<1>5. CASE UNCHANGED call
  BY <1>5
<1> QED BY <1>3, <1>4, <1>5
        DEF Next, vars, Disconnect, JobRuns, TimeoutFires, DispatchMoves,
            DispatchAddsTimeout, SweepHandles, SweepReads, Fault, TimeoutFails,
            DispatchFails, SweepFails

(* A request that dies leaves an idle slot and no other change.            *)
LEMMA Dies ==
  ASSUME TypeOK, NEW w \in Slots, Abort(w)
  PROVE  /\ call'[w].step = "idle"
         /\ UNCHANGED <<rides, captainStatus, rejections, timeoutJob, dispatchJob>>
BY DEF Abort, Return, Idle, TypeOK

(* What a request holds when it stands at an await: a ride, and a captain. *)
LEMMA Standing ==
  ASSUME CallsOK, NEW w \in Slots
  PROVE  /\ call[w].step \notin RidelessSteps => call[w].ride \in Rides
         /\ call[w].step \notin CaptainlessSteps => call[w].captain \in Captains
BY DEF CallsOK, CallOK

-----------------------------------------------------------------------------
(* No captain is left ON_RIDE.                                             *)

(* A request on its way to release a captain stays on it until it does.    *)
LEMMA ReleaserGoesOn ==
  ASSUME IndInv, ~ReleaseLost, [Next]_vars, NEW c \in Captains,
         NEW w \in Releasing(c), captainStatus[c] = "ON_RIDE"
  PROVE  w \in Releasing(c)' \/ captainStatus'[c] = "AVAILABLE"
<1>1. w \in Slots /\ call[w].captain = c /\ call[w].step \in ReleaseSteps /\ c # NoCaptain
  BY NoCaptainAssumption DEF Releasing
<1>2. CASE call'[w] = call[w]
  BY <1>1, <1>2 DEF Releasing
<1>3. CASE RequestArrives(w)
  BY <1>1, <1>3
     DEF RequestArrives, Begin, CreateRide, CreateScheduledRide, CancelReadRide,
         AcceptReadCaptain, ArriveReadRide, StartReadRide, CompleteReadRide,
         RejectReadRide, RecacheReadRide, DriveReadRide, SetStatusRead, At, ReleaseSteps
<1>4. CASE RequestContinues(w)
  <2>1. \/ CancelRemoveJob(w) \/ CancelReadCaptain(w)
        \/ CancelReset(w) \/ CompleteReset(w)
    BY <1>1, <1>4
       DEF ReleaseSteps, RequestContinues, At, AddDispatch, AddTimeout, AcceptReadRide,
           AcceptCheckRejection, AcceptCommit, AcceptCache, AcceptRemoveJob,
           CancelCommit, CancelUncache, ArriveCommit, StartCommit, CompleteCommit,
           DriveCommit, CompleteUncache, RejectUpsert, RejectCount, RejectCancel,
           SetOnline, SetOffline, SetStatusWrite, Recache
  <2>2. CASE CancelRemoveJob(w) \/ CancelReadCaptain(w)
    <3>1. Goto(w, "cancelReadCaptain") \/ Goto(w, "cancelReset")
      BY <1>1, <2>2 DEF CancelRemoveJob, CancelReadCaptain
    <3>2. call'[w].captain = c /\ call'[w].step \in ReleaseSteps
      BY <1>1, <3>1 DEF Goto, Moved, ReleaseSteps, IndInv, TypeOK
    <3> QED BY <1>1, <3>2 DEF Releasing
  <2>3. CASE CancelReset(w) \/ CompleteReset(w)
    BY <1>1, <2>3 DEF CancelReset, CompleteReset, IndInv, TypeOK
  <2> QED BY <2>1, <2>2, <2>3
<1>5. ~Abort(w)
  BY <1>1 DEF ReleaseLost
<1> QED BY <1>1, <1>2, <1>3, <1>4, <1>5, OwnStep

(* A ride that a captain drives is driven on, or ended by a request that   *)
(* then releases the captain.                                              *)
LEMMA DrivenOn ==
  ASSUME IndInv, [Next]_vars, NEW c \in Captains, NEW r \in Driving(c)
  PROVE  r \in Driving(c)' \/ Releasing(c)' # {}
<1> USE DEF IndInv, TypeOK
<1>1. /\ r \in Rides /\ rides[r].captain = c /\ rides[r].status \in ActiveStatuses
      /\ rides[r].status \notin {"NONE", "SCHEDULED", "SEARCHING"}
  BY DEF Driving, ActiveStatuses
<1>2. CASE rides'[r] = rides[r]
  BY <1>1, <1>2 DEF Driving
<1>3. ASSUME NEW w \in Slots, CancelCommit(w) \/ CompleteCommit(w), rides'[r] # rides[r]
      PROVE  w \in Releasing(c)'
  <2>1. /\ call[w].ride = r /\ Unchanged(call[w])
        /\ Proceed(w, "cancelRemoveJob") \/ Proceed(w, "completeReset")
    BY <1>1, <1>3 DEF CancelCommit, CompleteCommit, DriveCommit, Commit
  <2>2. SeenOK(call[w]) /\ call[w].captain = call[w].seen.captain
    BY <1>3 DEF CancelCommit, CompleteCommit, DriveCommit, At, CallsOK, CallOK,
                CommitSteps
  <2>3. call[w].captain = c
    BY <1>1, <2>1, <2>2 DEF Unchanged, SeenOK
  <2>4. call'[w].captain = c /\ call'[w].step \in ReleaseSteps
    BY <2>1, <2>3 DEF Proceed, Moved, ReleaseSteps
  <2> QED BY <2>4 DEF Releasing
<1>4. ASSUME NEW w \in Slots, ArriveCommit(w) \/ StartCommit(w)
      PROVE  r \in Driving(c)'
  <2>1. call[w].ride \in Rides
    BY <1>4, Standing DEF ArriveCommit, StartCommit, DriveCommit, At, RidelessSteps
  <2>2. \/ UNCHANGED rides
        \/ \E status \in ActiveStatuses :
             rides' = [rides EXCEPT ![call[w].ride] =
                         Written(@, status, call[w].seen.version + 1)]
    BY <1>4 DEF ArriveCommit, StartCommit, DriveCommit, Commit, ActiveStatuses
  <2>3. CASE UNCHANGED rides
    BY <1>1, <2>3 DEF Driving
  <2>4. ASSUME NEW status \in ActiveStatuses,
               rides' = [rides EXCEPT ![call[w].ride] =
                           Written(@, status, call[w].seen.version + 1)]
        PROVE  r \in Driving(c)'
    BY <1>1, <2>1, <2>4 DEF Written, Driving
  <2> QED BY <2>2, <2>3, <2>4
<1>5. ASSUME NEW w \in Slots, AcceptCommit(w)
      PROVE  rides'[r] = rides[r]
  BY <1>1, <1>5 DEF AcceptCommit, At, CallsOK, CallOK, SeenStatuses, Unchanged
<1>6. ASSUME NEW w \in Slots, NEW q \in Rides,
             CreateRide(w, q) \/ CreateScheduledRide(w, q)
      PROVE  rides'[r] = rides[r]
  BY <1>1, <1>6 DEF CreateRide, CreateScheduledRide
<1>7. ASSUME NEW w \in Slots, RejectCancel(w)
      PROVE  rides'[r] = rides[r]
  BY <1>1, <1>7 DEF RejectCancel, MoveWhere
<1>8. ASSUME NEW q \in Rides, TimeoutFires(q) \/ \E j \in DispatchIds : DispatchMoves(q, j)
      PROVE  rides'[r] = rides[r]
  BY <1>1, <1>8 DEF TimeoutFires, DispatchMoves, MoveWhere
<1> QED BY <1>2, <1>3, <1>4, <1>5, <1>6, <1>7, <1>8, Writers DEF RideWriters

(* Only an accept makes a captain ON_RIDE, with the ride it takes.         *)
LEMMA OnRideBegins ==
  ASSUME IndInv, [Next]_vars, NEW c \in Captains, captainStatus[c] # "ON_RIDE",
         captainStatus'[c] = "ON_RIDE"
  PROVE  Driving(c)' # {}
<1> USE DEF IndInv, TypeOK
<1>1. ASSUME NEW w \in Slots, AcceptCommit(w) PROVE call[w].ride \in Driving(c)'
  <2>1. call[w].ride \in Rides /\ call[w].captain = c
    BY <1>1, Standing DEF AcceptCommit, At, RidelessSteps
  <2>2. rides' = [rides EXCEPT ![call[w].ride] = AssignedTo(call[w].seen, c)]
    BY <1>1, <2>1 DEF AcceptCommit
  <2> QED BY <2>1, <2>2 DEF Driving, AssignedTo, ActiveStatuses
<1>2. ASSUME NEW w \in Slots,
             CancelReset(w) \/ CompleteReset(w) \/ SetOnline(w) \/ SetOffline(w)
      PROVE  captainStatus'[c] # "ON_RIDE"
  BY <1>2 DEF CancelReset, CompleteReset, SetOnline, SetOffline, SetStatusWrite
<1>3. ASSUME NEW q \in Captains, Disconnect(q)
      PROVE  captainStatus'[c] # "ON_RIDE"
  BY <1>3 DEF Disconnect
<1> QED BY <1>1, <1>2, <1>3, Writers DEF StatusWriters

(* The three cases: made ON_RIDE now, driving before, being released.      *)
LEMMA ReasonStep ==
  ASSUME IndInv, ~ReleaseLost, OnRideHasReason, [Next]_vars
  PROVE  OnRideHasReason'
<1> SUFFICES ASSUME NEW c \in Captains, captainStatus'[c] = "ON_RIDE"
             PROVE  Driving(c)' # {} \/ Releasing(c)' # {}
  BY DEF OnRideHasReason
<1>1. CASE captainStatus[c] # "ON_RIDE"
  BY <1>1, OnRideBegins
<1>2. ASSUME captainStatus[c] = "ON_RIDE", NEW r \in Driving(c)
      PROVE  Driving(c)' # {} \/ Releasing(c)' # {}
  BY <1>2, DrivenOn
<1>3. ASSUME captainStatus[c] = "ON_RIDE", NEW w \in Releasing(c)
      PROVE  Releasing(c)' # {}
  BY <1>3, ReleaserGoesOn
<1> QED BY <1>1, <1>2, <1>3 DEF OnRideHasReason

(* A captain who is ON_RIDE has a ride, or a request that has ended it and *)
(* will set them AVAILABLE (ride.service.ts:341-378, 757-790), until such  *)
(* a request dies: no other crash, failed job or lost write leaves a       *)
(* captain ON_RIDE.                                                        *)
THEOREM OnRideUntilReleaseLost ==
  Spec /\ [][~ReleaseLost]_vars => []OnRideHasReason
<1>1. Init => OnRideHasReason
  BY DEF Init, OnRideHasReason
<1>2. IndInv /\ OnRideHasReason /\ [Next]_vars /\ [~ReleaseLost]_vars => OnRideHasReason'
  <2>1. CASE UNCHANGED vars
    BY <2>1 DEF vars, OnRideHasReason, Driving, Releasing
  <2> QED BY <2>1, ReasonStep
<1> QED BY <1>1, <1>2, Invariance, PTL DEF Spec

(* So without faults no captain is left ON_RIDE.                           *)
THEOREM OnRideReason ==
  ASSUME ~FaultsAllowed
  PROVE  Spec => []OnRideHasReason
<1>1. [~ReleaseLost]_vars
  BY NoneLost
<1> QED BY <1>1, OnRideUntilReleaseLost, PTL

-----------------------------------------------------------------------------
(* A search has its timeout. What queues it, and what takes it away, knows *)
(* how far the ride has got; a ride never goes back.                       *)

Begun(r) == rides[r].status \notin {"NONE", "SCHEDULED"}
Past(r)  == rides[r].status \notin {"NONE", "SCHEDULED", "SEARCHING"}

JobsKnow ==
  \A r \in Rides :
    /\ timeoutJob[r] # "none" => Begun(r)
    /\ timeoutJob[r] = "finished" => Past(r)
    /\ \A j \in DispatchIds : dispatchJob[r][j] = "active" => Begun(r)
    /\ dispatchJob[r]["startMatching"] # "none" => rides[r].status # "NONE"

(* The booking that queues a ride's dispatch is the only one, and the      *)
(* first to do so.                                                         *)
Books(w) ==
  /\ rides[call[w].ride].status # "NONE"
  /\ dispatchJob[call[w].ride]["startMatching"] = "none"
  /\ \A v \in Slots : At(v, "addDispatch") /\ call[v].ride = call[w].ride => v = w

CallKnows(w) ==
  LET k == call[w] IN
  /\ k.step = "addDispatch" => Books(w)
  /\ k.step \in {"addTimeout", "rejectCount"} => Begun(k.ride)
  /\ k.step \in {"acceptCache", "acceptRemoveJob", "cancelRemoveJob"} => Past(k.ride)
  /\ k.step = "rejectUpsert" /\ k.seen.status = "SEARCHING" => Begun(k.ride)

Know == JobsKnow /\ \A w \in Slots : CallKnows(w)

(* No step of the lifecycle takes a ride back.                             *)
LEMMA Forward ==
  ASSUME TypeOK, RowsOK, CallsOK, [Next]_vars, NEW r \in Rides
  PROVE  /\ rides[r].status # "NONE" => rides'[r].status # "NONE"
         /\ Begun(r) => Begun(r)'
         /\ Past(r) => Past(r)'
<1>1. [Lifecycle!Next]_rides
  BY RowStep
<1> USE DEF TypeOK, Begun, Past
<1>2. CASE UNCHANGED rides
  BY <1>2
<1>3. ASSUME NEW q \in Rides, Lifecycle!Book(q)
      PROVE  rides[r].status # "NONE" => rides'[r] = rides[r]
  BY <1>3 DEF Lifecycle!Book
<1>4. ASSUME NEW q \in Rides, NEW c \in Captains, Lifecycle!Assign(q, c)
      PROVE  rides'[r] = rides[r] \/ rides'[r].status = "CAPTAIN_ASSIGNED"
  BY <1>4 DEF Lifecycle!Assign, Lifecycle!AssignedTo
<1>5. ASSUME NEW q \in Rides, Lifecycle!Dispatch(q)
      PROVE  \/ rides'[r] = rides[r]
             \/ rides[r].status = "SCHEDULED" /\ rides'[r].status = "SEARCHING"
  BY <1>5 DEF Lifecycle!Dispatch, Lifecycle!Move, Lifecycle!Advanced, Lifecycle!Written
<1>6. ASSUME NEW q \in Rides,
             \/ Lifecycle!Arrive(q) \/ Lifecycle!Start(q)
             \/ Lifecycle!Complete(q) \/ Lifecycle!Cancel(q)
      PROVE  \/ rides'[r] = rides[r]
             \/ rides'[r].status \in {"CAPTAIN_ARRIVED", "IN_PROGRESS", "COMPLETED",
                                      "CANCELLED"}
  BY <1>6 DEF Lifecycle!Arrive, Lifecycle!Start, Lifecycle!Complete, Lifecycle!Cancel,
              Lifecycle!Move, Lifecycle!Advanced, Lifecycle!Written
<1> QED BY <1>1, <1>2, <1>3, <1>4, <1>5, <1>6 DEF Lifecycle!Next

(* Who writes the jobs.                                                    *)
TimeoutWriters ==
  \/ \E w \in Slots : AddTimeout(w) \/ AcceptRemoveJob(w) \/ CancelRemoveJob(w)
  \/ \E r \in Rides :
       \/ TimeoutFires(r) \/ TimeoutFails(r)
       \/ \E j \in DispatchIds : DispatchAddsTimeout(r, j)

DispatchWriters ==
  \/ \E w \in Slots : AddDispatch(w)
  \/ \E r \in Rides :
       \/ SweepHandles(r)
       \/ \E j \in DispatchIds :
            DispatchMoves(r, j) \/ DispatchAddsTimeout(r, j) \/ DispatchFails(r, j)

(* Every variable of the jobs changes by its writers only.                 *)
LEMMA JobWriters ==
  ASSUME [Next]_vars
  PROVE  /\ TimeoutWriters \/ UNCHANGED timeoutJob
         /\ DispatchWriters \/ UNCHANGED dispatchJob
         /\ (\E w \in Slots : RejectUpsert(w)) \/ UNCHANGED rejections
<1> DEFINE Goal == /\ TimeoutWriters \/ UNCHANGED timeoutJob
                   /\ DispatchWriters \/ UNCHANGED dispatchJob
                   /\ (\E w \in Slots : RejectUpsert(w)) \/ UNCHANGED rejections
<1>1. CASE \E w \in Slots : RequestArrives(w)
  BY <1>1, ArrivalsWrite
<1>2. ASSUME NEW w \in Slots, RequestContinues(w) PROVE Goal
  BY <1>2 DEF RequestContinues, TimeoutWriters, DispatchWriters, AddDispatch, AddTimeout,
       AcceptReadRide, AcceptCheckRejection, AcceptCommit, AcceptCache, AcceptRemoveJob,
       CancelCommit, CancelRemoveJob, CancelReadCaptain, CancelReset, CancelUncache,
       Uncache, ArriveCommit, StartCommit, CompleteCommit, DriveCommit, CompleteReset,
       CompleteUncache, RejectUpsert, RejectCount, RejectCancel, SetOnline, SetOffline,
       SetStatusWrite, Recache
<1>3. CASE \E c \in Captains : Disconnect(c)
  BY <1>3 DEF Disconnect
<1>4. CASE \E r \in Rides : JobRuns(r) \/ SweepHandles(r)
  BY <1>4 DEF JobRuns, SweepHandles, TimeoutFires, DispatchMoves, DispatchAddsTimeout,
              TimeoutWriters, DispatchWriters
<1>5. CASE SweepReads \/ UNCHANGED vars
  BY <1>5 DEF SweepReads, vars
<1>6. CASE Fault
  BY <1>6 DEF Fault, Abort, TimeoutFails, DispatchFails, SweepFails, TimeoutWriters,
              DispatchWriters
<1> QED BY <1>1, <1>2, <1>3, <1>4, <1>5, <1>6 DEF Next

(* Jobs are queued and run for rides that have begun.                      *)
LEMMA JobsStep ==
  ASSUME IndInv, ~TimeoutLost, Know, [Next]_vars
  PROVE  JobsKnow'
<1> USE DEF IndInv, TypeOK
<1>1. ASSUME NEW r \in Rides
      PROVE  /\ rides[r].status # "NONE" => rides'[r].status # "NONE"
             /\ Begun(r) => Begun(r)'
             /\ Past(r) => Past(r)'
  BY Forward
<1>2. ASSUME NEW w \in Slots
      PROVE  /\ At(w, "addTimeout") => call[w].ride \in Rides /\ Begun(call[w].ride)
             /\ At(w, "addDispatch") => call[w].ride \in Rides /\ Books(w)
  BY Standing DEF Know, CallKnows, At, RidelessSteps
<1>3. ASSUME NEW r \in Rides
      PROVE  /\ timeoutJob'[r] # "none" => Begun(r)'
             /\ timeoutJob'[r] = "finished" => Past(r)'
  <2>1. CASE timeoutJob'[r] = timeoutJob[r]
    BY <1>1, <2>1 DEF Know, JobsKnow
  <2>2. ASSUME NEW w \in Slots, AddTimeout(w), timeoutJob'[r] # timeoutJob[r]
        PROVE  timeoutJob'[r] = "delayed" /\ Begun(r)
    BY <1>2, <2>2 DEF AddTimeout, AddTimeoutJob
  <2>3. ASSUME NEW w \in Slots, AcceptRemoveJob(w) \/ CancelRemoveJob(w),
               timeoutJob'[r] # timeoutJob[r]
        PROVE  timeoutJob'[r] = "none"
    BY <2>3 DEF AcceptRemoveJob, CancelRemoveJob, RemoveTimeoutJob
  <2>4. ASSUME NEW q \in Rides, TimeoutFires(q), timeoutJob'[r] # timeoutJob[r]
        PROVE  Past(r)' /\ Begun(r)'
    <3>1. q = r /\ timeoutJob[r] = "delayed" /\ MoveWhere(r, "SEARCHING", "CANCELLED")
      BY <2>4 DEF TimeoutFires
    <3>2. Begun(r)
      BY <3>1 DEF Know, JobsKnow
    <3> QED BY <3>1, <3>2 DEF MoveWhere, Advanced, Written, Begun, Past
  <2>5. ASSUME NEW q \in Rides, NEW j \in DispatchIds, DispatchAddsTimeout(q, j),
               timeoutJob'[r] # timeoutJob[r]
        PROVE  timeoutJob'[r] = "delayed" /\ Begun(r)
    BY <2>5 DEF DispatchAddsTimeout, AddTimeoutJob, Know, JobsKnow
  <2>6. ASSUME NEW q \in Rides, TimeoutFails(q), timeoutJob'[r] # timeoutJob[r]
        PROVE  Past(r) /\ Begun(r)
    <3>1. q = r /\ timeoutJob[r] = "delayed"
      BY <2>6 DEF TimeoutFails
    <3>2. rides[r].status # "SEARCHING"
      BY <2>6, <3>1 DEF TimeoutLost
    <3> QED BY <3>1, <3>2 DEF Know, JobsKnow, Begun, Past
  <2> QED BY <1>1, <2>1, <2>2, <2>3, <2>4, <2>5, <2>6, JobWriters DEF TimeoutWriters
<1>4. ASSUME NEW r \in Rides, NEW j \in DispatchIds
      PROVE  /\ dispatchJob'[r][j] = "active" => Begun(r)'
             /\ dispatchJob'[r]["startMatching"] # "none" => rides'[r].status # "NONE"
  <2>1. ASSUME NEW w \in Slots, AddDispatch(w), dispatchJob'[r] # dispatchJob[r]
        PROVE  /\ dispatchJob'[r][j] = "active" => dispatchJob[r][j] = "active"
               /\ rides[r].status # "NONE"
    BY <1>2, <2>1 DEF AddDispatch, Books, DispatchIds
  <2>2. ASSUME NEW q \in Rides, SweepHandles(q)
        PROVE  /\ dispatchJob'[r][j] = "active" => dispatchJob[r][j] = "active"
               /\ dispatchJob'[r]["startMatching"] = dispatchJob[r]["startMatching"]
    BY <2>2 DEF SweepHandles, DispatchIds
  <2>3. ASSUME NEW q \in Rides, NEW i \in DispatchIds, DispatchMoves(q, i)
        PROVE  /\ \/ dispatchJob'[r][j] = "active" => dispatchJob[r][j] = "active"
                  \/ rides'[r].status = "SEARCHING"
               /\ \/ dispatchJob'[r]["startMatching"] = dispatchJob[r]["startMatching"]
                  \/ dispatchJob[r]["startMatching"] = "delayed"
    BY <2>3 DEF DispatchMoves, MoveWhere, Advanced, Written, DispatchIds
  <2>4. ASSUME NEW q \in Rides, NEW i \in DispatchIds, DispatchAddsTimeout(q, i)
        PROVE  /\ dispatchJob'[r][j] = "active" => dispatchJob[r][j] = "active"
               /\ \/ dispatchJob'[r]["startMatching"] = dispatchJob[r]["startMatching"]
                  \/ dispatchJob[r]["startMatching"] = "active"
    BY <2>4 DEF DispatchAddsTimeout, DispatchIds
  <2>5. ASSUME NEW q \in Rides, NEW i \in DispatchIds, DispatchFails(q, i)
        PROVE  /\ dispatchJob'[r][j] = "active" => dispatchJob[r][j] = "active"
               /\ \/ dispatchJob'[r]["startMatching"] = dispatchJob[r]["startMatching"]
                  \/ dispatchJob[r]["startMatching"] # "none"
    BY <2>5 DEF DispatchFails, DispatchIds
  <2> DEFINE Kept == \/ dispatchJob'[r][j] = "active" => dispatchJob[r][j] = "active"
                     \/ rides'[r].status = "SEARCHING"
             Known == \/ dispatchJob'[r]["startMatching"] = dispatchJob[r]["startMatching"]
                      \/ dispatchJob[r]["startMatching"] # "none"
                      \/ rides[r].status # "NONE"
  <2>6. Kept /\ Known
    BY <2>1, <2>2, <2>3, <2>4, <2>5, JobWriters DEF DispatchWriters
  <2>7. /\ dispatchJob[r][j] = "active" => Begun(r)
        /\ dispatchJob[r]["startMatching"] # "none" => rides[r].status # "NONE"
    BY DEF Know, JobsKnow
  <2> QED BY <1>1, <2>6, <2>7 DEF Begun
<1> QED BY <1>3, <1>4 DEF JobsKnow, DispatchIds

(* The steps that arrive at an await which relies on the ride's progress.  *)
KnowingSteps ==
  {"addDispatch", "addTimeout", "rejectUpsert", "rejectCount", "acceptCache",
   "acceptRemoveJob", "cancelRemoveJob"}

(* A request that arrives, or continues, knows how far its ride has got.   *)
LEMMA ArrivalKnows ==
  ASSUME IndInv, Know, NEW w \in Slots, RequestArrives(w), call'[w].step # "addDispatch"
  PROVE  CallKnows(w)'
<1> USE DEF IndInv, TypeOK, Begin, CallKnows, Begun
<1>1. ASSUME NEW r \in Rides, CreateRide(w, r) PROVE CallKnows(w)'
  BY <1>1 DEF CreateRide, Inserted
<1>2. ASSUME NEW r \in Rides, CreateScheduledRide(w, r) PROVE FALSE
  BY <1>2 DEF CreateScheduledRide
<1>3. ASSUME NEW r \in Rides, NEW c \in Captains, RejectReadRide(w, r, c)
      PROVE  CallKnows(w)'
  BY <1>3 DEF RejectReadRide
<1>4. CASE \/ \E r \in Rides :
                \/ CancelReadRide(w, r)
                \/ \E c \in Captains :
                     \/ AcceptReadCaptain(w, r, c) \/ ArriveReadRide(w, r, c)
                     \/ StartReadRide(w, r, c) \/ CompleteReadRide(w, r, c)
                     \/ RecacheReadRide(w, r, c)
           \/ \E c \in Captains :
                \E step \in {"goOnline", "goOffline"} : SetStatusRead(w, c, step)
  <2>1. call'[w].step \notin KnowingSteps
    BY <1>4 DEF KnowingSteps, CancelReadRide, AcceptReadCaptain, ArriveReadRide,
         StartReadRide, CompleteReadRide, RecacheReadRide, DriveReadRide, SetStatusRead
  <2> QED BY <2>1 DEF KnowingSteps
<1> QED BY <1>1, <1>2, <1>3, <1>4 DEF RequestArrives

(* The one that continues.                                                 *)
LEMMA ContinuationKnows ==
  ASSUME IndInv, Know, NEW w \in Slots, RequestContinues(w), [Next]_vars
  PROVE  CallKnows(w)' /\ call'[w].step # "addDispatch"
<1> USE DEF IndInv, TypeOK
<1>1. ASSUME NEW r \in Rides
      PROVE  (Begun(r) => Begun(r)') /\ (Past(r) => Past(r)')
  BY Forward
<1>2. ASSUME NEW step, Goto(w, step) \/ Proceed(w, step)
      PROVE  call'[w].step = step /\ call'[w].ride = call[w].ride
  BY <1>2 DEF Goto, Proceed, Moved
<1>3. ASSUME call'[w].step \notin KnowingSteps
      PROVE  CallKnows(w)' /\ call'[w].step # "addDispatch"
  BY <1>3 DEF KnowingSteps, CallKnows
<1>4. ASSUME Return(w) PROVE call'[w].step \notin KnowingSteps
  BY <1>4 DEF Return, Idle, KnowingSteps
<1>5. CASE AcceptCommit(w) \/ AcceptCache(w)
  <2>1. call[w].ride \in Rides
    BY <1>5, Standing DEF AcceptCommit, AcceptCache, At, RidelessSteps
  <2>2. ASSUME Proceed(w, "acceptCache") \/ Goto(w, "acceptRemoveJob")
        PROVE  Past(call[w].ride)' /\ call'[w].ride = call[w].ride
    <3>1. CASE AcceptCache(w)
      BY <1>1, <1>2, <2>1, <2>2, <3>1 DEF AcceptCache, Know, CallKnows, At
    <3>2. CASE AcceptCommit(w) /\ Proceed(w, "acceptCache")
      <4>1. rides' = [rides EXCEPT ![call[w].ride] =
                        AssignedTo(call[w].seen, call[w].captain)]
        BY <1>4, <1>2, <3>2 DEF AcceptCommit, KnowingSteps
      <4> QED BY <1>2, <2>1, <3>2, <4>1 DEF AssignedTo, Past
    <3> QED BY <1>2, <1>4, <1>5, <2>2, <3>1, <3>2 DEF AcceptCommit, KnowingSteps
  <2> QED BY <1>2, <1>3, <1>4, <1>5, <2>2 DEF AcceptCommit, AcceptCache, CallKnows
<1>6. CASE CancelCommit(w)
  <2>1. call[w].ride \in Rides
    BY <1>6, Standing DEF CancelCommit, At, RidelessSteps
  <2>2. ASSUME rides' = [rides EXCEPT ![call[w].ride] =
                           Written(@, "CANCELLED", call[w].seen.version + 1)],
               Proceed(w, "cancelRemoveJob")
        PROVE  CallKnows(w)' /\ call'[w].step # "addDispatch"
    BY <1>2, <2>1, <2>2 DEF Written, Past, CallKnows
  <2> QED BY <1>3, <1>4, <1>6, <2>2 DEF CancelCommit, Commit
<1>7. CASE RejectUpsert(w) \/ RejectCount(w)
  <2>1. call[w].ride \in Rides
    BY <1>7, Standing DEF RejectUpsert, RejectCount, At, RidelessSteps
  <2>2. Return(w) \/ Begun(call[w].ride)
    BY <1>7 DEF RejectUpsert, RejectCount, At, Know, CallKnows
  <2>3. \/ Return(w) \/ Proceed(w, "rejectCount") \/ Goto(w, "rejectCancel")
        \/ Goto(w, "addTimeout")
    BY <1>7 DEF RejectUpsert, RejectCount
  <2> QED BY <1>1, <1>2, <1>3, <1>4, <2>1, <2>2, <2>3 DEF CallKnows
<1>8. CASE \/ AddDispatch(w) \/ AddTimeout(w) \/ AcceptRemoveJob(w) \/ CancelUncache(w)
           \/ ArriveCommit(w) \/ StartCommit(w) \/ CompleteUncache(w)
           \/ RejectCancel(w) \/ SetOnline(w) \/ SetOffline(w) \/ Recache(w)
  <2>1. Return(w)
    BY <1>8 DEF AddDispatch, AddTimeout, AcceptRemoveJob, CancelUncache, Uncache,
         ArriveCommit, StartCommit, DriveCommit, Commit, CompleteUncache, RejectCancel,
         SetOnline, SetOffline, SetStatusWrite, Recache
  <2> QED BY <1>3, <1>4, <2>1
<1>9. CASE \/ AcceptReadRide(w) \/ AcceptCheckRejection(w) \/ CancelRemoveJob(w)
           \/ CancelReadCaptain(w) \/ CancelReset(w) \/ CompleteCommit(w)
           \/ CompleteReset(w)
  <2>1. \/ Return(w) \/ call'[w].step = "acceptCheckRejection"
        \/ \E step \in {"acceptCommit", "cancelReadCaptain", "cancelReset",
                       "cancelUncache", "completeReset", "completeUncache"} :
             Goto(w, step) \/ Proceed(w, step)
    BY <1>9 DEF AcceptReadRide, AcceptCheckRejection, CancelRemoveJob, CancelReadCaptain,
         CancelReset, CompleteCommit, DriveCommit, Commit, CompleteReset, Moved
  <2> QED BY <1>2, <1>3, <1>4, <2>1 DEF KnowingSteps
<1> QED BY ONLY RequestContinues(w), <1>5, <1>6, <1>7, <1>8, <1>9 DEF RequestContinues

(* A request that comes to queue a dispatch has just inserted its ride.    *)
LEMMA NewBooking ==
  ASSUME IndInv, Know, [Next]_vars, NEW w \in Slots,
         call'[w].step = "addDispatch", call'[w] # call[w]
  PROVE  /\ CreateScheduledRide(w, call'[w].ride)
         /\ call'[w].ride \in Rides
         /\ \A v \in Slots : v # w => call'[v] = call[v]
<1> USE DEF IndInv, TypeOK
<1>1. RequestArrives(w)
  BY OwnStep, ContinuationKnows, Dies
<1>2. PICK r \in Rides : CreateScheduledRide(w, r)
  BY <1>1 DEF RequestArrives, Begin, CreateRide, CancelReadRide, AcceptReadCaptain,
       ArriveReadRide, StartReadRide, CompleteReadRide, RejectReadRide, RecacheReadRide,
       DriveReadRide, SetStatusRead
<1> QED BY <1>2 DEF CreateScheduledRide, Begin

(* A booking stays the only one until it has queued its dispatch.          *)
LEMMA BookingKnows ==
  ASSUME IndInv, Know, [Next]_vars, NEW w \in Slots,
         call'[w].step = "addDispatch"
  PROVE  Books(w)'
<1> USE DEF IndInv, TypeOK
<1> DEFINE r == call'[w].ride
<1>1. CASE call'[w] # call[w]
  <2>1. /\ CreateScheduledRide(w, r) /\ r \in Rides
        /\ \A v \in Slots : v # w => call'[v] = call[v]
    BY <1>1, NewBooking
  <2>2. /\ rides[r].status = "NONE" /\ rides'[r].status # "NONE"
        /\ dispatchJob' = dispatchJob
    BY <2>1 DEF CreateScheduledRide, Inserted
  <2>3. \A v \in Slots : At(v, "addDispatch") => rides[call[v].ride].status # "NONE"
    BY DEF Know, CallKnows, Books, At
  <2> QED BY <2>1, <2>2, <2>3 DEF Books, Know, JobsKnow, At
<1>2. CASE call'[w] = call[w]
  <2>1. r \in Rides /\ r = call[w].ride /\ At(w, "addDispatch") /\ Books(w)
    BY <1>2, Standing DEF At, RidelessSteps, Know, CallKnows
  <2>2. rides[r].status # "NONE" /\ rides'[r].status # "NONE"
    BY <2>1, Forward DEF Books
  <2>3. ASSUME NEW v \in Slots, call'[v].step = "addDispatch", call'[v].ride = r
        PROVE  v = w
    <3>1. CASE call'[v] = call[v]
      BY <2>1, <2>3, <3>1 DEF Books, At
    <3>2. CASE call'[v] # call[v]
      BY <2>2, <2>3, <3>2, NewBooking DEF CreateScheduledRide
    <3> QED BY <3>1, <3>2
  <2>4. dispatchJob'[r]["startMatching"] = "none"
    <3>1. dispatchJob[r]["startMatching"] = "none"
      BY <2>1 DEF Books
    <3>2. ASSUME NEW v \in Slots, AddDispatch(v), call[v].ride = r PROVE FALSE
      <4>1. v = w
        BY <2>1, <3>2 DEF AddDispatch, Books
      <4>2. call'[w].step = "idle"
        BY <3>2, <4>1 DEF AddDispatch, Return, Idle
      <4> QED BY <4>2
    <3>3. ASSUME NEW v \in Slots, AddDispatch(v)
          PROVE  dispatchJob'[r] = dispatchJob[r]
      BY <2>1, <3>2, <3>3 DEF AddDispatch
    <3>4. ASSUME NEW q \in Rides, SweepHandles(q)
          PROVE  dispatchJob'[r]["startMatching"] = dispatchJob[r]["startMatching"]
      BY <2>1, <3>4 DEF SweepHandles, DispatchIds
    <3>5. ASSUME NEW q \in Rides, NEW j \in DispatchIds,
                 \/ DispatchMoves(q, j) \/ DispatchAddsTimeout(q, j)
                 \/ DispatchFails(q, j)
          PROVE  dispatchJob'[r]["startMatching"] = dispatchJob[r]["startMatching"]
      <4>1. dispatchJob[q][j] \in {"delayed", "active"}
        BY <3>5 DEF DispatchMoves, DispatchAddsTimeout, DispatchFails
      <4>2. q # r \/ j # "startMatching"
        BY <3>1, <4>1
      <4>3. PICK s : dispatchJob' = [dispatchJob EXCEPT ![q][j] = s]
        BY <3>5 DEF DispatchMoves, DispatchAddsTimeout, DispatchFails
      <4>4. /\ dispatchJob \in [Rides -> [DispatchIds -> DispatchStates]]
            /\ "startMatching" \in DispatchIds /\ r \in Rides
        BY <2>1 DEF DispatchIds
      <4> QED BY <4>2, <4>3, <4>4
    <3> QED BY <3>1, <3>3, <3>4, <3>5, JobWriters DEF DispatchWriters
  <2> QED BY <2>1, <2>2, <2>3, <2>4 DEF Books, At
<1> QED BY <1>1, <1>2

(* What jobs and requests know is inductive.                               *)
LEMMA KnowStep ==
  ASSUME IndInv, ~TimeoutLost, Know, [Next]_vars
  PROVE  Know'
<1>1. ASSUME NEW w \in Slots PROVE CallKnows(w)'
  <2>1. CASE call'[w].step = "addDispatch"
    BY <2>1, BookingKnows DEF CallKnows
  <2>2. CASE call'[w].step # "addDispatch" /\ call'[w] = call[w]
    <3>1. call[w].step \notin RidelessSteps => call[w].ride \in Rides
      BY Standing DEF IndInv
    <3>2. \A r \in Rides : (Begun(r) => Begun(r)') /\ (Past(r) => Past(r)')
      BY Forward DEF IndInv
    <3> QED BY <2>2, <3>1, <3>2 DEF Know, CallKnows, RidelessSteps
  <2>3. CASE call'[w].step # "addDispatch" /\ RequestArrives(w)
    BY <2>3, ArrivalKnows
  <2>4. CASE Abort(w)
    BY <2>4, Dies DEF IndInv, CallKnows
  <2> QED BY <2>1, <2>2, <2>3, <2>4, ContinuationKnows, OwnStep
<1> QED BY <1>1, JobsStep DEF Know

(* There are no jobs and no requests to begin with.                        *)
LEMMA InitKnow == Init => Know
BY DEF Init, Know, JobsKnow, CallKnows, Idle, NoRow, DispatchIds

(* A ride comes to search by its insert or by its dispatch.                *)
LEMMA SearchBegins ==
  ASSUME IndInv, [Next]_vars, NEW r \in Rides, rides'[r].status = "SEARCHING"
  PROVE  \/ rides[r].status = "SEARCHING"
         \/ \E w \in Slots : CreateRide(w, r)
         \/ \E j \in DispatchIds : DispatchMoves(r, j) /\ rides[r].status = "SCHEDULED"
<1> USE DEF IndInv, TypeOK
<1>1. ASSUME NEW w \in Slots, NEW q \in Rides, CreateRide(w, q), q # r
      PROVE  rides'[r] = rides[r]
  BY <1>1 DEF CreateRide
<1>2. ASSUME NEW w \in Slots, NEW q \in Rides, CreateScheduledRide(w, q)
      PROVE  rides'[r] = rides[r]
  BY <1>2 DEF CreateScheduledRide, Inserted
<1>3. ASSUME NEW w \in Slots, AcceptCommit(w)
      PROVE  rides'[r] = rides[r]
  BY <1>3 DEF AcceptCommit, AssignedTo
<1>4. ASSUME NEW w \in Slots,
             CancelCommit(w) \/ ArriveCommit(w) \/ StartCommit(w) \/ CompleteCommit(w)
      PROVE  rides'[r] = rides[r]
  BY <1>4 DEF CancelCommit, ArriveCommit, StartCommit, CompleteCommit, DriveCommit,
              Commit, Written
<1>5. ASSUME NEW w \in Slots, RejectCancel(w)
      PROVE  rides'[r] = rides[r]
  BY <1>5 DEF RejectCancel, MoveWhere, Advanced, Written
<1>6. ASSUME NEW q \in Rides, TimeoutFires(q)
      PROVE  rides'[r] = rides[r]
  BY <1>6 DEF TimeoutFires, MoveWhere, Advanced, Written
<1>7. ASSUME NEW q \in Rides, NEW j \in DispatchIds, DispatchMoves(q, j)
      PROVE  rides'[r] = rides[r] \/ (q = r /\ rides[r].status = "SCHEDULED")
  BY <1>7 DEF DispatchMoves, MoveWhere, Advanced, Written
<1> QED BY <1>1, <1>2, <1>3, <1>4, <1>5, <1>6, <1>7, Writers DEF RideWriters

(* Each step that takes away what was going to end a search leaves the     *)
(* next thing that will.                                                   *)
LEMMA TimeoutStep ==
  ASSUME IndInv, ~TimeoutLost, Know, SearchHasTimeout, [Next]_vars
  PROVE  SearchHasTimeout'
<1> USE DEF IndInv, TypeOK
<1> DEFINE Queues(r) == \/ timeoutJob[r] = "delayed"
                        \/ \E w \in Slots : At(w, "addTimeout") /\ call[w].ride = r
                        \/ \E j \in DispatchIds : dispatchJob[r][j] = "active"
<1> SUFFICES ASSUME NEW r \in Rides, rides'[r].status = "SEARCHING" PROVE Queues(r)'
  BY DEF SearchHasTimeout
<1>1. \/ rides[r].status = "SEARCHING"
      \/ \E w \in Slots : CreateRide(w, r)
      \/ \E j \in DispatchIds : DispatchMoves(r, j) /\ rides[r].status = "SCHEDULED"
  BY SearchBegins
<1>2. ASSUME NEW w \in Slots, CreateRide(w, r) PROVE Queues(r)'
  BY <1>2 DEF CreateRide, Begin, At
<1>3. ASSUME NEW j \in DispatchIds, DispatchMoves(r, j), rides[r].status = "SCHEDULED"
      PROVE  Queues(r)'
  BY <1>3 DEF DispatchMoves
<1>4. ~Past(r)
  BY Forward DEF Past
<1>5. timeoutJob[r] # "finished" /\ timeoutJob[r] \in TimeoutStates
  BY <1>4 DEF Know, JobsKnow
<1>6. ASSUME NEW q \in Rides, AddTimeoutJob(q)
      PROVE  /\ q = r \/ timeoutJob[r] = "delayed" => timeoutJob'[r] = "delayed"
  BY <1>5, <1>6 DEF AddTimeoutJob, TimeoutStates
<1>7. ASSUME rides[r].status = "SEARCHING", timeoutJob[r] = "delayed"
      PROVE  timeoutJob'[r] = "delayed"
  <2>1. ASSUME NEW w \in Slots, AddTimeout(w) PROVE timeoutJob'[r] = "delayed"
    BY <1>6, <1>7, <2>1, Standing DEF AddTimeout, At, RidelessSteps
  <2>2. ASSUME NEW w \in Slots, AcceptRemoveJob(w) \/ CancelRemoveJob(w)
        PROVE  timeoutJob'[r] = "delayed"
    <3>1. call[w].ride # r
      BY <1>4, <2>2 DEF AcceptRemoveJob, CancelRemoveJob, At, Know, CallKnows
    <3> QED BY <1>7, <2>2, <3>1 DEF AcceptRemoveJob, CancelRemoveJob, RemoveTimeoutJob
  <2>3. ASSUME NEW q \in Rides, TimeoutFires(q) PROVE timeoutJob'[r] = "delayed"
    <3>1. q # r
      BY <2>3 DEF TimeoutFires, MoveWhere, Advanced, Written
    <3> QED BY <1>7, <2>3, <3>1 DEF TimeoutFires
  <2>4. ASSUME NEW q \in Rides, NEW j \in DispatchIds, DispatchAddsTimeout(q, j)
        PROVE  timeoutJob'[r] = "delayed"
    BY <1>6, <1>7, <2>4 DEF DispatchAddsTimeout
  <2>5. ASSUME NEW q \in Rides, TimeoutFails(q) PROVE timeoutJob'[r] = "delayed"
    <3>1. q # r
      BY <1>7, <2>5 DEF TimeoutLost
    <3> QED BY <1>7, <2>5, <3>1 DEF TimeoutFails
  <2> QED BY <1>7, <2>1, <2>2, <2>3, <2>4, <2>5, JobWriters DEF TimeoutWriters
<1>8. ASSUME rides[r].status = "SEARCHING",
             NEW w \in Slots, At(w, "addTimeout"), call[w].ride = r
      PROVE  Queues(r)'
  <2>1. CASE call'[w] = call[w]
    BY <1>8, <2>1 DEF At
  <2>2. CASE RequestArrives(w)
    BY <1>8, <2>2
       DEF RequestArrives, Begin, CreateRide, CreateScheduledRide, CancelReadRide,
           AcceptReadCaptain, ArriveReadRide, StartReadRide, CompleteReadRide,
           RejectReadRide, RecacheReadRide, DriveReadRide, SetStatusRead, At
  <2>3. CASE RequestContinues(w)
    <3>1. AddTimeout(w)
      BY <1>8, <2>3
         DEF RequestContinues, At, AddDispatch, AcceptReadRide, AcceptCheckRejection,
             AcceptCommit, AcceptCache, AcceptRemoveJob, CancelCommit, CancelRemoveJob,
             CancelReadCaptain, CancelReset, CancelUncache, ArriveCommit, StartCommit,
             CompleteCommit, DriveCommit, CompleteReset, CompleteUncache, RejectUpsert,
             RejectCount, RejectCancel, SetOnline, SetOffline, SetStatusWrite, Recache
    <3> QED BY <1>6, <1>8, <3>1 DEF AddTimeout
  <2>4. ~Abort(w)
    BY <1>8 DEF TimeoutLost
  <2> QED BY <2>1, <2>2, <2>3, <2>4, OwnStep
<1>9. ASSUME rides[r].status = "SEARCHING",
             NEW j \in DispatchIds, dispatchJob[r][j] = "active"
      PROVE  Queues(r)'
  <2>1. ASSUME NEW w \in Slots, AddDispatch(w) PROVE dispatchJob'[r][j] = "active"
    <3>1. Books(w)
      BY <2>1 DEF AddDispatch, At, Know, CallKnows
    <3> QED BY <1>9, <2>1, <3>1 DEF AddDispatch, Books, DispatchIds
  <2>2. ASSUME NEW q \in Rides, SweepHandles(q) PROVE dispatchJob'[r][j] = "active"
    BY <1>9, <2>2 DEF SweepHandles, DispatchIds
  <2>3. ASSUME NEW q \in Rides, NEW i \in DispatchIds, DispatchMoves(q, i)
        PROVE  dispatchJob'[r][j] = "active"
    BY <1>9, <2>3 DEF DispatchMoves
  <2>4. ASSUME NEW q \in Rides, NEW i \in DispatchIds, DispatchAddsTimeout(q, i)
        PROVE  dispatchJob'[r][j] = "active" \/ timeoutJob'[r] = "delayed"
    BY <1>6, <1>9, <2>4 DEF DispatchAddsTimeout
  <2>5. ASSUME NEW q \in Rides, NEW i \in DispatchIds, DispatchFails(q, i)
        PROVE  dispatchJob'[r][j] = "active"
    <3>1. ~(q = r /\ i = j)
      BY <1>9, <2>5 DEF TimeoutLost
    <3> QED BY <1>9, <2>5, <3>1 DEF DispatchFails
  <2> QED BY <1>9, <2>1, <2>2, <2>3, <2>4, <2>5, JobWriters DEF DispatchWriters
<1> QED BY <1>1, <1>2, <1>3, <1>7, <1>8, <1>9 DEF SearchHasTimeout

(* Every search has its timeout queued, or about to be queued, until what  *)
(* was to queue or run it dies: "BullMQ timeout job is guaranteed"         *)
(* (ride.service.ts:46, 125) is true as long as the queue itself is.       *)
THEOREM SearchUntilTimeoutLost ==
  Spec /\ [][~TimeoutLost]_vars => []SearchHasTimeout
<1>1. Init => Know /\ SearchHasTimeout
  BY InitKnow DEF Init, SearchHasTimeout, NoRow
<1>2. IndInv /\ Know /\ SearchHasTimeout /\ [Next]_vars /\ [~TimeoutLost]_vars =>
        Know' /\ SearchHasTimeout'
  <2>1. CASE UNCHANGED vars
    BY <2>1 DEF vars, Know, JobsKnow, CallKnows, Books, Begun, Past, At, SearchHasTimeout
  <2> QED BY <2>1, KnowStep, TimeoutStep
<1> QED BY <1>1, <1>2, Invariance, PTL DEF Spec

(* So without faults every search has its timeout.                         *)
THEOREM SearchTimeout ==
  ASSUME ~FaultsAllowed
  PROVE  Spec => []SearchHasTimeout
<1>1. [~TimeoutLost]_vars
  BY NoneLost
<1> QED BY <1>1, SearchUntilTimeoutLost, PTL

-----------------------------------------------------------------------------
(* A ride that was rejected often enough is given up. A rejection is of a  *)
(* ride that exists; one of an immediate ride that was not seen searching  *)
(* comes when the search is over.                                          *)

RejectionsKnow ==
  /\ \A r \in Rides :
       /\ rides[r].status = "SCHEDULED" => r \in ScheduledRides
       /\ \A c \in Captains : <<r, c>> \in rejections => rides[r].status # "NONE"
  /\ \A w \in Slots : At(w, "rejectUpsert") =>
       /\ rides[call[w].ride].status # "NONE"
       /\ \/ call[w].seen.status = "SEARCHING"
          \/ Past(call[w].ride)
          \/ call[w].ride \in ScheduledRides

(* A ride comes to be scheduled by its insert only.                        *)
LEMMA ScheduleBegins ==
  ASSUME IndInv, [Next]_vars, NEW r \in Rides, rides'[r].status = "SCHEDULED"
  PROVE  rides[r].status = "SCHEDULED" \/ \E w \in Slots : CreateScheduledRide(w, r)
<1> USE DEF IndInv, TypeOK
<1>1. ASSUME NEW w \in Slots, NEW q \in Rides, CreateScheduledRide(w, q), q # r
      PROVE  rides'[r] = rides[r]
  BY <1>1 DEF CreateScheduledRide
<1>2. ASSUME NEW w \in Slots, NEW q \in Rides, CreateRide(w, q)
      PROVE  rides'[r] = rides[r]
  BY <1>2 DEF CreateRide, Inserted
<1>3. ASSUME NEW w \in Slots, AcceptCommit(w)
      PROVE  rides'[r] = rides[r]
  BY <1>3 DEF AcceptCommit, AssignedTo
<1>4. ASSUME NEW w \in Slots,
             CancelCommit(w) \/ ArriveCommit(w) \/ StartCommit(w) \/ CompleteCommit(w)
      PROVE  rides'[r] = rides[r]
  BY <1>4 DEF CancelCommit, ArriveCommit, StartCommit, CompleteCommit, DriveCommit,
              Commit, Written
<1>5. ASSUME NEW w \in Slots, RejectCancel(w)
      PROVE  rides'[r] = rides[r]
  BY <1>5 DEF RejectCancel, MoveWhere, Advanced, Written
<1>6. ASSUME NEW q \in Rides, TimeoutFires(q) \/ \E j \in DispatchIds : DispatchMoves(q, j)
      PROVE  rides'[r] = rides[r]
  BY <1>6 DEF TimeoutFires, DispatchMoves, MoveWhere, Advanced, Written
<1> QED BY <1>1, <1>2, <1>3, <1>4, <1>5, <1>6, Writers DEF RideWriters

(* A request that comes to record a rejection has just read the ride.      *)
LEMMA NewRejection ==
  ASSUME IndInv, [Next]_vars, NEW w \in Slots,
         call'[w].step = "rejectUpsert", call'[w] # call[w]
  PROVE  /\ call'[w].ride \in Rides
         /\ rides[call'[w].ride].status # "NONE"
         /\ call'[w].seen = rides[call'[w].ride]
<1> USE DEF IndInv, TypeOK
<1>1. RequestArrives(w)
  <2>1. ASSUME RequestContinues(w) PROVE call'[w].step # "rejectUpsert"
    BY <2>1 DEF RequestContinues, AddDispatch, AddTimeout, AcceptReadRide,
         AcceptCheckRejection, AcceptCommit, AcceptCache, AcceptRemoveJob, CancelCommit,
         CancelRemoveJob, CancelReadCaptain, CancelReset, CancelUncache, Uncache,
         ArriveCommit, StartCommit, CompleteCommit, DriveCommit, Commit, CompleteReset,
         CompleteUncache, RejectUpsert, RejectCount, RejectCancel, SetOnline, SetOffline,
         SetStatusWrite, Recache, Goto, Proceed, Return, Moved, Idle
  <2> QED BY <2>1, OwnStep, Dies
<1>2. PICK r \in Rides, c \in Captains : RejectReadRide(w, r, c)
  BY <1>1 DEF RequestArrives, Begin, CreateRide, CreateScheduledRide, CancelReadRide,
       AcceptReadCaptain, ArriveReadRide, StartReadRide, CompleteReadRide,
       RecacheReadRide, DriveReadRide, SetStatusRead
<1> QED BY <1>2 DEF RejectReadRide, Begin

(* What rejections know is inductive.                                      *)
LEMMA RejectionsStep ==
  ASSUME IndInv, RejectionsKnow, [Next]_vars
  PROVE  RejectionsKnow'
<1> USE DEF IndInv
<1>1. ASSUME NEW r \in Rides, rides'[r].status = "SCHEDULED"
      PROVE  r \in ScheduledRides
  BY <1>1, ScheduleBegins DEF RejectionsKnow, CreateScheduledRide
<1>2. ASSUME NEW r \in Rides, NEW c \in Captains, <<r, c>> \in rejections'
      PROVE  rides'[r].status # "NONE"
  <2>1. <<r, c>> \in rejections \/ \E w \in Slots : At(w, "rejectUpsert") /\ call[w].ride = r
    BY <1>2, JobWriters DEF RejectUpsert
  <2>2. rides[r].status # "NONE"
    BY <2>1 DEF RejectionsKnow
  <2> QED BY <2>2, Forward
<1>3. ASSUME NEW w \in Slots, call'[w].step = "rejectUpsert", NEW r, r = call'[w].ride
      PROVE  /\ rides'[r].status # "NONE"
             /\ call'[w].seen.status = "SEARCHING" \/ Past(r)' \/ r \in ScheduledRides
  <2>1. /\ r \in Rides
        /\ rides[r].status # "NONE"
        /\ call'[w].seen.status = "SEARCHING" \/ Past(r) \/ r \in ScheduledRides
    <3>1. CASE call'[w] = call[w]
      BY <1>3, <3>1, Standing DEF RejectionsKnow, At, RidelessSteps
    <3>2. CASE call'[w] # call[w]
      BY <1>3, <3>2, NewRejection DEF RejectionsKnow, Past
    <3> QED BY <3>1, <3>2
  <2> QED BY <2>1, Forward
<1> QED BY <1>1, <1>2, <1>3 DEF RejectionsKnow, At, Past

(* The rejection that makes a ride's count sufficient is counted.          *)
LEMMA GivenUpStep ==
  ASSUME IndInv, ~CountLost, RejectionsKnow, RejectedRideGivenUp, [Next]_vars
  PROVE  RejectedRideGivenUp'
<1> USE DEF IndInv, TypeOK
<1> DEFINE Counted(r) ==
      \E w \in Slots : call[w].ride = r /\ call[w].step \in {"rejectCount", "rejectCancel"}
<1> SUFFICES ASSUME NEW r \in Rides \ ScheduledRides,
                    rides'[r].status = "SEARCHING", GivenUp(r)'
             PROVE  Counted(r)'
  BY DEF RejectedRideGivenUp
<1>1. rides[r].status = "SEARCHING" \/ \E w \in Slots : CreateRide(w, r)
  BY SearchBegins DEF RejectionsKnow
<1>2. ASSUME NEW w \in Slots, CreateRide(w, r) PROVE FALSE
  <2>1. {c \in Captains : <<r, c>> \in rejections'} = {}
    BY <1>2 DEF CreateRide, RejectionsKnow
  <2>2. RejectionCount(r)' = 0
    BY <2>1, FS_EmptySet DEF RejectionCount
  <2> QED BY <2>2, RideAssumption DEF GivenUp
<1>3. ~Past(r) /\ rides[r].status = "SEARCHING"
  BY <1>1, <1>2 DEF Past
<1>4. CASE GivenUp(r)
  <2>1. PICK w \in Slots :
          call[w].ride = r /\ call[w].step \in {"rejectCount", "rejectCancel"}
    BY <1>3, <1>4 DEF RejectedRideGivenUp
  <2>2. CASE call'[w] = call[w]
    BY <2>1, <2>2
  <2>3. CASE RequestArrives(w)
    BY <2>1, <2>3
       DEF RequestArrives, Begin, CreateRide, CreateScheduledRide, CancelReadRide,
           AcceptReadCaptain, ArriveReadRide, StartReadRide, CompleteReadRide,
           RejectReadRide, RecacheReadRide, DriveReadRide, SetStatusRead, At
  <2>4. CASE RequestContinues(w)
    <3>1. RejectCount(w) \/ RejectCancel(w)
      BY <2>1, <2>4
         DEF RequestContinues, At, AddDispatch, AddTimeout, AcceptReadRide,
             AcceptCheckRejection, AcceptCommit, AcceptCache, AcceptRemoveJob,
             CancelCommit, CancelRemoveJob, CancelReadCaptain, CancelReset,
             CancelUncache, ArriveCommit, StartCommit, CompleteCommit, DriveCommit,
             CompleteReset, CompleteUncache, RejectUpsert, SetOnline, SetOffline,
             SetStatusWrite, Recache
    <3>2. ~RejectCancel(w)
      BY <1>3, <2>1 DEF RejectCancel, MoveWhere, Advanced, Written
    <3>3. Goto(w, "rejectCancel")
      BY <1>4, <2>1, <3>1, <3>2 DEF RejectCount
    <3> QED BY <2>1, <3>3 DEF Goto, Moved
  <2>5. ~Abort(w)
    BY <1>3, <2>1 DEF CountLost
  <2> QED BY <2>2, <2>3, <2>4, <2>5, OwnStep
<1>5. CASE ~GivenUp(r)
  <2>1. PICK w \in Slots : RejectUpsert(w) /\ call[w].ride = r
    <3>1. ASSUME \A c \in Captains : <<r, c>> \in rejections' <=> <<r, c>> \in rejections
          PROVE  FALSE
      <4>1. {c \in Captains : <<r, c>> \in rejections'}
              = {c \in Captains : <<r, c>> \in rejections}
        BY <3>1
      <4> QED BY <1>5, <4>1 DEF GivenUp, RejectionCount
    <3> QED BY <3>1, JobWriters DEF RejectUpsert
  <2>2. call[w].seen.status = "SEARCHING"
    BY <1>3, <2>1 DEF RejectUpsert, RejectionsKnow
  <2>3. Proceed(w, "rejectCount")
    BY <2>1, <2>2 DEF RejectUpsert
  <2> QED BY <2>1, <2>3 DEF Proceed, Moved
<1> QED BY <1>4, <1>5

(* An immediate ride that was rejected often enough does not go on         *)
(* searching uncounted (ride.service.ts:560-599), until a request that has *)
(* still to act on the count dies.                                         *)
THEOREM RejectedUntilCountLost ==
  Spec /\ [][~CountLost]_vars => []RejectedRideGivenUp
<1>1. Init => RejectionsKnow /\ RejectedRideGivenUp
  BY DEF Init, RejectionsKnow, RejectedRideGivenUp, Idle, NoRow, At
<1>2. IndInv /\ RejectionsKnow /\ RejectedRideGivenUp /\ [Next]_vars /\ [~CountLost]_vars =>
        RejectionsKnow' /\ RejectedRideGivenUp'
  <2>1. CASE UNCHANGED vars
    BY <2>1 DEF vars, RejectionsKnow, Past, At, RejectedRideGivenUp, GivenUp, RejectionCount
  <2> QED BY <2>1, RejectionsStep, GivenUpStep
<1> QED BY <1>1, <1>2, Invariance, PTL DEF Spec

(* So without faults such a ride is given up.                              *)
THEOREM RejectedGivenUp ==
  ASSUME ~FaultsAllowed
  PROVE  Spec => []RejectedRideGivenUp
<1>1. [~CountLost]_vars
  BY NoneLost
<1> QED BY <1>1, RejectedUntilCountLost, PTL
=============================================================================
