-------------------------- MODULE RideServiceProofs --------------------------
(***************************************************************************)

(* Proofs about RideService, for every set of rides, captains and requests *)
(* and with or without faults.                                             *)
(***************************************************************************)
EXTENDS RideService, TLAPS

(***************************************************************************)

(* Who writes what. A step that is none of a variable's writers leaves the *)
(* variable alone; the proofs below look at the writers only.              *)
(***************************************************************************)
RideWriters ==
  \/ \E w \in Slots :
       \/ \E r \in Rides : CreateRide(w, r) \/ CreateScheduledRide(w, r)
       \/ AcceptCommit(w) \/ CancelCommit(w) \/ ArriveCommit(w) \/ StartCommit(w)
       \/ CompleteCommit(w) \/ RejectCancel(w)
  \/ \E r \in Rides : TimeoutFires(r) \/ \E j \in DispatchIds : DispatchMoves(r, j)

StatusWriters ==
  \/ \E w \in Slots :
       \/ AcceptCommit(w) \/ CancelReset(w) \/ CompleteReset(w)
       \/ SetOnline(w) \/ SetOffline(w)
  \/ \E c \in Captains : Disconnect(c)

OverriddenWriters == \E w \in Slots : SetOnline(w) \/ SetOffline(w)

CacheWriters ==
  \E w \in Slots :
    AcceptCache(w) \/ CancelUncache(w) \/ CompleteUncache(w) \/ Recache(w)

(* An arriving request only inserts a ride, if anything, and reads.        *)
LEMMA ArrivalsWrite ==
  ASSUME NEW w \in Slots, RequestArrives(w)
  PROVE  /\ UNCHANGED <<captainStatus, rejections, assignment, timeoutJob,
                        dispatchJob, sweep, overridden>>
         /\ RideWriters \/ UNCHANGED rides
BY DEF RequestArrives, RideWriters, CreateRide, CreateScheduledRide, CancelReadRide,
       AcceptReadCaptain, ArriveReadRide, StartReadRide, CompleteReadRide,
       RejectReadRide, RecacheReadRide, DriveReadRide, SetStatusRead

(* What a request writes after its first await, variable by variable.      *)
LEMMA ContinuationsWrite ==
  ASSUME NEW w \in Slots, RequestContinues(w)
  PROVE  /\ RideWriters \/ UNCHANGED rides
         /\ StatusWriters \/ UNCHANGED captainStatus
         /\ OverriddenWriters \/ UNCHANGED overridden
         /\ CacheWriters \/ UNCHANGED assignment
<1>1. RideWriters \/ UNCHANGED rides
  BY DEF RequestContinues, RideWriters, AddDispatch, AddTimeout, AcceptReadRide,
         AcceptCheckRejection, AcceptCache, AcceptRemoveJob, CancelRemoveJob,
         CancelReadCaptain, CancelReset, CancelUncache, Uncache, CompleteReset,
         CompleteUncache, RejectUpsert, RejectCount, SetOnline, SetOffline,
         SetStatusWrite, Recache
<1>2. /\ StatusWriters \/ UNCHANGED captainStatus
      /\ OverriddenWriters \/ UNCHANGED overridden
  BY DEF RequestContinues, StatusWriters, OverriddenWriters, AddDispatch, AddTimeout,
         AcceptReadRide, AcceptCheckRejection, AcceptCommit, AcceptCache,
         AcceptRemoveJob, CancelCommit, CancelRemoveJob, CancelReadCaptain,
         CancelReset, CancelUncache, Uncache, ArriveCommit, StartCommit, CompleteCommit,
         DriveCommit, CompleteReset, CompleteUncache, RejectUpsert, RejectCount,
         RejectCancel, Recache
<1>3. CacheWriters \/ UNCHANGED assignment
  BY DEF RequestContinues, CacheWriters, AddDispatch, AddTimeout, AcceptReadRide,
         AcceptCheckRejection, AcceptCommit, AcceptRemoveJob, CancelCommit,
         CancelRemoveJob, CancelReadCaptain, CancelReset, ArriveCommit, StartCommit,
         CompleteCommit, DriveCommit, CompleteReset, RejectUpsert, RejectCount,
         RejectCancel, SetOnline, SetOffline, SetStatusWrite
<1> QED BY <1>1, <1>2, <1>3

(* A step that is none of a variable's writers leaves it unchanged.        *)
LEMMA Writers ==
  ASSUME [Next]_vars
  PROVE  /\ RideWriters \/ UNCHANGED rides
         /\ StatusWriters \/ UNCHANGED captainStatus
         /\ OverriddenWriters \/ UNCHANGED overridden
         /\ CacheWriters \/ UNCHANGED assignment
<1>1. CASE \E w \in Slots : RequestArrives(w) \/ RequestContinues(w)
  BY <1>1, ArrivalsWrite, ContinuationsWrite
<1>2. CASE \E c \in Captains : Disconnect(c)
  BY <1>2 DEF Disconnect, StatusWriters
<1>3. CASE \E r \in Rides : JobRuns(r) \/ SweepHandles(r)
  BY <1>3 DEF JobRuns, SweepHandles, TimeoutFires, DispatchMoves, DispatchAddsTimeout,
              RideWriters
<1>4. CASE SweepReads \/ Fault
  BY <1>4 DEF SweepReads, Fault, Abort, TimeoutFails, DispatchFails, SweepFails
<1>5. CASE UNCHANGED vars
  BY <1>5 DEF vars
<1> QED BY <1>1, <1>2, <1>3, <1>4, <1>5 DEF Next

(***************************************************************************)

(* Rows. A write to the Ride table is one step of the lifecycle: what the  *)
(* request read, and the version check, tell which one.                    *)
(***************************************************************************)

(* A write under optimistic concurrency moves the row that was read.       *)
LEMMA CommitRefines ==
  ASSUME TypeOK, CallsOK, NEW w \in Slots, NEW status, NEW from,
         call[w].ride \in Rides, call[w].seen.status \in from, Unchanged(call[w]),
         rides' = [rides EXCEPT ![call[w].ride] =
                     Written(@, status, call[w].seen.version + 1)]
  PROVE  \E r \in Rides : Lifecycle!Move(r, from, status)
<1>1. rides' = [rides EXCEPT ![call[w].ride] =
                  Written(@, status, rides[call[w].ride].version + 1)]
  BY DEF Unchanged
<1>2. rides[call[w].ride].status \in from
  BY DEF Unchanged
<1> QED BY <1>1, <1>2 DEF Lifecycle!Move, Lifecycle!Advanced, Lifecycle!Written,
                          Written

(* Every write to the Ride table is one step of the lifecycle.             *)
LEMMA WritersRefine ==
  ASSUME TypeOK, CallsOK, RideWriters
  PROVE  [Lifecycle!Next]_rides
<1> USE DEF At
<1>1. ASSUME NEW w \in Slots, NEW r \in Rides,
             CreateRide(w, r) \/ CreateScheduledRide(w, r)
      PROVE  Lifecycle!Next
  BY <1>1 DEF CreateRide, CreateScheduledRide, Lifecycle!Next, Lifecycle!Book,
              Lifecycle!Inserted, Inserted
<1>2. ASSUME NEW w \in Slots, AcceptCommit(w)
      PROVE  [Lifecycle!Next]_rides
  <2>1. /\ call[w].ride \in Rides
        /\ call[w].captain \in Captains
        /\ call[w].seen.status = "SEARCHING"
    BY <1>2 DEF AcceptCommit, CallsOK, CallOK, RidelessSteps, CaptainlessSteps,
                SeenStatuses
  <2>2. CASE UNCHANGED rides
    BY <2>2
  <2>3. CASE /\ Unchanged(call[w])
             /\ rides' = [rides EXCEPT ![call[w].ride] =
                            AssignedTo(call[w].seen, call[w].captain)]
    <3>1. Lifecycle!Assign(call[w].ride, call[w].captain)
      BY <2>1, <2>3 DEF Unchanged, AssignedTo, Lifecycle!Assign, Lifecycle!AssignedTo
    <3> QED BY <2>1, <3>1 DEF Lifecycle!Next
  <2> QED BY <1>2, <2>2, <2>3 DEF AcceptCommit
<1>3. ASSUME NEW w \in Slots,
             CancelCommit(w) \/ ArriveCommit(w) \/ StartCommit(w) \/ CompleteCommit(w)
      PROVE  [Lifecycle!Next]_rides
  <2>1. call[w].ride \in Rides
    BY <1>3 DEF CancelCommit, ArriveCommit, StartCommit, CompleteCommit, DriveCommit,
                CallsOK, CallOK, RidelessSteps
  <2>2. CASE UNCHANGED rides
    BY <2>2
  <2>3. CASE CancelCommit(w) /\ ~UNCHANGED rides
    <3>1. call[w].seen.status \in CancellableStatuses
      BY <2>3 DEF CancelCommit, CallsOK, CallOK, SeenStatuses
    <3>2. \E r \in Rides : Lifecycle!Move(r, CancellableStatuses, "CANCELLED")
      BY <2>1, <2>3, <3>1, CommitRefines DEF CancelCommit, Commit
    <3> QED BY <3>2 DEF Lifecycle!Next, Lifecycle!Cancel, CancellableStatuses,
                        Lifecycle!CancellableStatuses
  <2>4. CASE ArriveCommit(w) /\ ~UNCHANGED rides
    <3>1. call[w].seen.status \in ArrivableStatuses
      BY <2>4 DEF ArriveCommit, DriveCommit, CallsOK, CallOK, SeenStatuses
    <3>2. \E r \in Rides : Lifecycle!Move(r, ArrivableStatuses, "CAPTAIN_ARRIVED")
      BY <2>1, <2>4, <3>1, CommitRefines DEF ArriveCommit, DriveCommit, Commit
    <3> QED BY <3>2 DEF Lifecycle!Next, Lifecycle!Arrive, ArrivableStatuses,
                        Lifecycle!ArrivableStatuses
  <2>5. CASE StartCommit(w) /\ ~UNCHANGED rides
    <3>1. call[w].seen.status \in StartableStatuses
      BY <2>5 DEF StartCommit, DriveCommit, CallsOK, CallOK, SeenStatuses
    <3>2. \E r \in Rides : Lifecycle!Move(r, StartableStatuses, "IN_PROGRESS")
      BY <2>1, <2>5, <3>1, CommitRefines DEF StartCommit, DriveCommit, Commit
    <3> QED BY <3>2 DEF Lifecycle!Next, Lifecycle!Start, StartableStatuses,
                        Lifecycle!StartableStatuses
  <2>6. CASE CompleteCommit(w) /\ ~UNCHANGED rides
    <3>1. call[w].seen.status \in {"IN_PROGRESS"}
      BY <2>6 DEF CompleteCommit, DriveCommit, CallsOK, CallOK, SeenStatuses
    <3>2. \E r \in Rides : Lifecycle!Move(r, {"IN_PROGRESS"}, "COMPLETED")
      BY <2>1, <2>6, <3>1, CommitRefines DEF CompleteCommit, DriveCommit, Commit
    <3> QED BY <3>2 DEF Lifecycle!Next, Lifecycle!Complete
  <2> QED BY <1>3, <2>2, <2>3, <2>4, <2>5, <2>6
<1>4. ASSUME NEW r \in Rides, NEW from \in {"SEARCHING", "SCHEDULED"},
             MoveWhere(r, from, IF from = "SEARCHING" THEN "CANCELLED" ELSE "SEARCHING")
      PROVE  [Lifecycle!Next]_rides
  BY <1>4 DEF TypeOK, MoveWhere, Lifecycle!Next, Lifecycle!Cancel, Lifecycle!Dispatch,
              Lifecycle!Move, Lifecycle!CancellableStatuses, Lifecycle!Advanced,
              Lifecycle!Written, Advanced, Written
<1>5. ASSUME NEW w \in Slots, RejectCancel(w)
      PROVE  MoveWhere(call[w].ride, "SEARCHING", "CANCELLED") /\ call[w].ride \in Rides
  BY <1>5 DEF RejectCancel, CallsOK, CallOK, RidelessSteps
<1>6. ASSUME NEW r \in Rides, TimeoutFires(r)
      PROVE  MoveWhere(r, "SEARCHING", "CANCELLED")
  BY <1>6 DEF TimeoutFires
<1>7. ASSUME NEW r \in Rides, NEW j \in DispatchIds, DispatchMoves(r, j)
      PROVE  MoveWhere(r, "SCHEDULED", "SEARCHING")
  BY <1>7 DEF DispatchMoves
<1> QED BY <1>1, <1>2, <1>3, <1>4, <1>5, <1>6, <1>7 DEF RideWriters

(* What one step of the lifecycle does to a row: nothing, the insert, or   *)
(* the next version with the captain, if there was one, kept.              *)
RowMoves ==
  \A r \in Rides :
    \/ rides'[r] = rides[r]
    \/ rides[r].status = "NONE"
    \/ /\ rides'[r].version = rides[r].version + 1
       /\ rides[r].captain \in Captains => rides'[r].captain = rides[r].captain

(* A step of the lifecycle keeps the rows typed and moves each one         *)
(* forward.                                                                *)
LEMMA LifecycleMovesRows ==
  ASSUME rides \in [Rides -> Rows], RowsOK, [Lifecycle!Next]_rides
  PROVE  rides' \in [Rides -> Rows] /\ RowsOK' /\ RowMoves
<1> USE NoCaptainAssumption DEF RowsOK, RowMoves
<1>1. ASSUME NEW r \in Rides, Lifecycle!Book(r)
      PROVE  rides' \in [Rides -> Rows] /\ RowsOK' /\ RowMoves
  BY <1>1 DEF Lifecycle!Book, Lifecycle!Inserted, Rows, RideStatuses
<1>2. ASSUME NEW r \in Rides, NEW c \in Captains, Lifecycle!Assign(r, c)
      PROVE  rides' \in [Rides -> Rows] /\ RowsOK' /\ RowMoves
  BY <1>2 DEF Lifecycle!Assign, Lifecycle!AssignedTo, Rows, RideStatuses
<1>3. ASSUME NEW r \in Rides, NEW from \in SUBSET (RideStatuses \ {"NONE"}),
             NEW to \in RideStatuses \ {"NONE"}, Lifecycle!Move(r, from, to),
             to \in {"SCHEDULED", "SEARCHING"} => from = {"SCHEDULED"}
      PROVE  rides' \in [Rides -> Rows] /\ RowsOK' /\ RowMoves
  <2>1. rides[r] \in Rows /\ rides[r].status # "NONE"
    BY <1>3 DEF Lifecycle!Move
  <2>2. rides' = [rides EXCEPT ![r] = [status  |-> to,
                                       captain |-> rides[r].captain,
                                       version |-> rides[r].version + 1]]
    BY <1>3 DEF Lifecycle!Move, Lifecycle!Advanced, Lifecycle!Written
  <2>3. to \in {"SCHEDULED", "SEARCHING"} => rides[r].captain = NoCaptain
    BY <1>3 DEF Lifecycle!Move
  <2> QED BY <2>1, <2>2, <2>3 DEF Rows
<1>4. ASSUME NEW r \in Rides,
             \/ Lifecycle!Dispatch(r) \/ Lifecycle!Arrive(r) \/ Lifecycle!Start(r)
             \/ Lifecycle!Complete(r) \/ Lifecycle!Cancel(r)
      PROVE  rides' \in [Rides -> Rows] /\ RowsOK' /\ RowMoves
  <2>1. CASE Lifecycle!Dispatch(r)
    BY <1>3, <2>1 DEF Lifecycle!Dispatch, RideStatuses
  <2>2. CASE Lifecycle!Arrive(r)
    BY <1>3, <2>2 DEF Lifecycle!Arrive, Lifecycle!ArrivableStatuses, RideStatuses
  <2>3. CASE Lifecycle!Start(r)
    BY <1>3, <2>3 DEF Lifecycle!Start, Lifecycle!StartableStatuses, RideStatuses
  <2>4. CASE Lifecycle!Complete(r)
    BY <1>3, <2>4 DEF Lifecycle!Complete, RideStatuses
  <2>5. CASE Lifecycle!Cancel(r)
    BY <1>3, <2>5 DEF Lifecycle!Cancel, Lifecycle!CancellableStatuses, RideStatuses
  <2> QED BY <1>4, <2>1, <2>2, <2>3, <2>4, <2>5
<1>5. CASE UNCHANGED rides
  BY <1>5
<1> QED BY <1>1, <1>2, <1>4, <1>5 DEF Lifecycle!Next

(* The same of every step of the service.                                  *)
LEMMA RowStep ==
  ASSUME TypeOK, RowsOK, CallsOK, [Next]_vars
  PROVE  /\ [Lifecycle!Next]_rides
         /\ rides' \in [Rides -> Rows] /\ RowsOK' /\ RowMoves
<1>1. [Lifecycle!Next]_rides
  BY Writers, WritersRefine
<1> QED BY <1>1, LifecycleMovesRows DEF TypeOK

(***************************************************************************)

(* Requests. A step moves one request; the others keep what they know,     *)
(* because a row they read only ever moves to a later version.             *)
(***************************************************************************)
OneCallMoves(w) ==
  /\ call' \in [Slots -> Calls]
  /\ CallOK(call[w])'
  /\ \A v \in Slots \ {w} : call'[v] = call[v]

(* A request that does not move still knows what it knew: its row's        *)
(* version, if it changed, has been passed.                                *)
LEMMA CallKept ==
  ASSUME TypeOK, RowsOK, RowMoves, rides' \in [Rides -> Rows],
         NEW v \in Slots, CallOK(call[v]), call'[v] = call[v]
  PROVE  CallOK(call[v])'
<1>1. call[v] \in Calls /\ call[v].seen \in Rows
  BY DEF TypeOK, Calls
<1>2. call[v].step \in CommitSteps => SeenOK(call[v])'
  <2>1. SUFFICES ASSUME call[v].step \in CommitSteps PROVE SeenOK(call[v])'
    OBVIOUS
  <2>2. call[v].ride \in Rides /\ SeenOK(call[v]) /\ call[v].seen.status # "NONE"
    BY <2>1 DEF CallOK, CommitSteps, RidelessSteps, SeenStatuses, CancellableStatuses,
                ArrivableStatuses, StartableStatuses
  <2>3. rides[call[v].ride].status # "NONE"
    BY <1>1, <2>2 DEF SeenOK, RowsOK, NoRow, Rows, TypeOK
  <2>4. \/ rides'[call[v].ride] = rides[call[v].ride]
        \/ rides'[call[v].ride].version = rides[call[v].ride].version + 1
    BY <2>2, <2>3 DEF RowMoves
  <2>5. call[v].seen.version \in Nat /\ rides[call[v].ride].version \in Nat
    BY <1>1, <2>2 DEF Rows, TypeOK
  <2> QED BY <2>2, <2>4, <2>5 DEF SeenOK
<1>3. call[v].step \in {"acceptCache", "recache"} =>
        rides'[call[v].ride].captain = call[v].captain
  <2>1. SUFFICES ASSUME call[v].step \in {"acceptCache", "recache"}
                 PROVE  rides'[call[v].ride].captain = call[v].captain
    OBVIOUS
  <2>2. /\ call[v].ride \in Rides /\ call[v].captain \in Captains
        /\ rides[call[v].ride].captain = call[v].captain
    BY <2>1 DEF CallOK, RidelessSteps, CaptainlessSteps
  <2> QED BY <2>2, NoCaptainAssumption DEF RowMoves, RowsOK, NoRow
<1> QED BY <1>2, <1>3 DEF CallOK

(* The row a request holds before it has read one.                         *)
LEMMA NoRowType == NoRow \in Rows
BY DEF NoRow, Rows, RideStatuses

(* A request that returns or throws leaves an idle slot.                   *)
LEMMA ReturnMoves ==
  ASSUME TypeOK, NEW w \in Slots, Return(w)
  PROVE  OneCallMoves(w)
<1>1. Idle \in Calls
  BY DEF Idle, Calls, Steps, NoRow, Rows, RideStatuses
<1>2. call'[w] = Idle
  BY DEF Return, TypeOK
<1>3. CallOK(call[w])'
  BY <1>2 DEF Idle, CallOK, RidelessSteps, CaptainlessSteps, SeenStatuses, NoRow,
              RideStatuses, CommitSteps
<1> QED BY <1>1, <1>3 DEF OneCallMoves, Return, TypeOK

(* A request that arrives has read what its first step relies on.          *)
LEMMA ArrivalMoves ==
  ASSUME TypeOK, RowsOK, NEW w \in Slots, RequestArrives(w), rides' \in [Rides -> Rows]
  PROVE  OneCallMoves(w)
<1> USE DEF Begin, Calls, Steps, Rows, CallOK, RidelessSteps, CaptainlessSteps,
            SeenStatuses, CommitSteps, OneCallMoves, TypeOK, NoRow
<1>1. ASSUME NEW r \in Rides, NEW step \in {"addTimeout", "addDispatch"},
             Begin(w, step, r, NoCaptain, NoRow)
      PROVE  OneCallMoves(w)
  BY <1>1 DEF RideStatuses
<1>2. ASSUME NEW r \in Rides, CancelReadRide(w, r)
      PROVE  OneCallMoves(w)
  BY <1>2 DEF CancelReadRide, SeenOK, RideStatuses
<1>3. ASSUME NEW r \in Rides, NEW c \in Captains, AcceptReadCaptain(w, r, c)
      PROVE  OneCallMoves(w)
  BY <1>3 DEF AcceptReadCaptain, SeenOK, RideStatuses
<1>4. ASSUME NEW r \in Rides, NEW c \in Captains, ArriveReadRide(w, r, c)
      PROVE  OneCallMoves(w)
  BY <1>4 DEF ArriveReadRide, DriveReadRide, SeenOK, RideStatuses
<1>5. ASSUME NEW r \in Rides, NEW c \in Captains, StartReadRide(w, r, c)
      PROVE  OneCallMoves(w)
  BY <1>5 DEF StartReadRide, DriveReadRide, SeenOK, RideStatuses
<1>6. ASSUME NEW r \in Rides, NEW c \in Captains, CompleteReadRide(w, r, c)
      PROVE  OneCallMoves(w)
  BY <1>6 DEF CompleteReadRide, DriveReadRide, SeenOK, RideStatuses
<1>7. ASSUME NEW r \in Rides, NEW c \in Captains, RejectReadRide(w, r, c)
      PROVE  OneCallMoves(w)
  BY <1>7 DEF RejectReadRide, SeenOK, RideStatuses
<1>8. ASSUME NEW r \in Rides, NEW c \in Captains, RecacheReadRide(w, r, c)
      PROVE  OneCallMoves(w)
  BY <1>8 DEF RecacheReadRide, SeenOK, RideStatuses
<1>9. ASSUME NEW c \in Captains, NEW step \in {"goOnline", "goOffline"},
             SetStatusRead(w, c, step)
      PROVE  OneCallMoves(w)
  BY <1>9 DEF SetStatusRead, SeenOK, RideStatuses
<1>10. ASSUME NEW r \in Rides, CreateRide(w, r) \/ CreateScheduledRide(w, r)
       PROVE  OneCallMoves(w)
  <2>1. \E step \in {"addTimeout", "addDispatch"} : Begin(w, step, r, NoCaptain, NoRow)
    BY ONLY <1>10 DEF CreateRide, CreateScheduledRide
  <2> QED BY ONLY <1>1, <2>1
<1> QED BY ONLY RequestArrives(w), <1>2, <1>3, <1>4, <1>5, <1>6, <1>7, <1>8, <1>9, <1>10
        DEF RequestArrives

(* A step that relies on no row read before needs only its ride and        *)
(* captain.                                                                *)
LEMMA PlainMove ==
  ASSUME TypeOK, CallsOK, NEW w \in Slots, call[w].step \notin RidelessSteps,
         NEW step \in Steps \ (CommitSteps \cup RidelessSteps \cup {"acceptCache", "recache"}),
         Goto(w, step) \/ Proceed(w, step),
         step \notin CaptainlessSteps => call[w].captain \in Captains,
         rides' \in [Rides -> Rows]
  PROVE  OneCallMoves(w)
<1>1. /\ call[w] \in Calls /\ call[w].ride \in Rides
      /\ call[w].seen \in Rows /\ NoRow \in Rows
  BY NoRowType DEF TypeOK, CallsOK, CallOK, Calls
<1>2. PICK row \in Rows : call' = [call EXCEPT ![w] = Moved(@, step, row)]
  BY <1>1 DEF Goto, Proceed
<1>3. Moved(call[w], step, row) \in Calls /\ call'[w] = Moved(call[w], step, row)
  BY <1>1, <1>2 DEF Moved, Calls, TypeOK
<1>4. row.status \in SeenStatuses(step)
  BY DEF SeenStatuses, CommitSteps, Rows
<1>5. CallOK(call[w])'
  BY <1>1, <1>3, <1>4 DEF CallOK, Moved, CommitSteps
<1> QED BY <1>2, <1>3, <1>5 DEF OneCallMoves, TypeOK

(* A request that continues knows what its next step relies on.            *)
LEMMA ContinuationMoves ==
  ASSUME TypeOK, RowsOK, CallsOK, NEW w \in Slots, RequestContinues(w),
         rides' \in [Rides -> Rows]
  PROVE  OneCallMoves(w)
<1>1. call[w] \in Calls /\ CallOK(call[w]) /\ call[w].seen \in Rows
  BY DEF TypeOK, CallsOK, Calls
<1>2. ASSUME Return(w) PROVE OneCallMoves(w)
  BY <1>2, ReturnMoves
<1>3. CASE AcceptReadRide(w)
  <2>1. CASE /\ rides[call[w].ride].status = "SEARCHING"
             /\ call' = [call EXCEPT ![w] =
                            Moved(@, "acceptCheckRejection", rides[call[w].ride])]
    BY <1>1, <1>3, <2>1
       DEF AcceptReadRide, At, Moved, Calls, Steps, Rows, NoRow, CallOK, SeenOK,
           RidelessSteps, CaptainlessSteps, SeenStatuses, CommitSteps, OneCallMoves,
           TypeOK
  <2> QED BY <1>2, <1>3, <2>1 DEF AcceptReadRide
<1>4. CASE AcceptCheckRejection(w)
  <2>1. CASE Goto(w, "acceptCommit")
    BY <1>1, <1>4, <2>1
       DEF AcceptCheckRejection, At, Goto, Moved, Calls, Steps, Rows, NoRow, CallOK,
           SeenOK, RidelessSteps, CaptainlessSteps, SeenStatuses, CommitSteps,
           OneCallMoves, TypeOK
  <2> QED BY <1>2, <1>4, <2>1 DEF AcceptCheckRejection
<1>5. CASE AcceptCommit(w)
  <2>1. CASE /\ rides' = [rides EXCEPT ![call[w].ride] =
                             AssignedTo(call[w].seen, call[w].captain)]
             /\ Proceed(w, "acceptCache")
    <3>1. /\ call[w].ride \in Rides /\ call[w].captain \in Captains
      BY <1>1, <1>5 DEF AcceptCommit, At, CallOK, RidelessSteps, CaptainlessSteps
    <3>2. rides'[call[w].ride].captain = call[w].captain
      BY <2>1, <3>1 DEF TypeOK, AssignedTo
    <3>3. /\ call'[w] = Moved(call[w], "acceptCache", NoRow)
          /\ call'[w] \in Calls
      BY <1>1, <2>1, NoRowType DEF Proceed, Moved, Calls, Steps, TypeOK
    <3>4. CallOK(call[w])'
      BY <3>1, <3>2, <3>3 DEF Moved, CallOK, CommitSteps, SeenStatuses, NoRow,
                              RideStatuses
    <3> QED BY <2>1, <3>3, <3>4 DEF OneCallMoves, Proceed, TypeOK
  <2> QED BY <1>2, <1>5, <2>1 DEF AcceptCommit
<1>6. CASE AcceptCache(w)
  BY <1>6, PlainMove DEF AcceptCache, At, Steps, CommitSteps, RidelessSteps,
                         CaptainlessSteps
<1>7. CASE CancelCommit(w)
  <2>1. CASE Proceed(w, "cancelRemoveJob")
    BY <1>7, <2>1, PlainMove DEF CancelCommit, At, Steps, CommitSteps, RidelessSteps,
                                 CaptainlessSteps
  <2> QED BY <1>2, <1>7, <2>1 DEF CancelCommit, Commit
<1>8. CASE CancelRemoveJob(w)
  <2>1. CASE call[w].captain # NoCaptain /\ Goto(w, "cancelReadCaptain")
    <3>1. call[w].captain \in Captains
      BY <1>1, <2>1 DEF Calls
    <3> QED BY <1>8, <2>1, <3>1, PlainMove DEF CancelRemoveJob, At, Steps, CommitSteps,
                                               RidelessSteps
  <2> QED BY <1>2, <1>8, <2>1 DEF CancelRemoveJob
<1>9. CASE CancelReadCaptain(w) \/ CancelReset(w) \/ CompleteReset(w)
  <2>1. call[w].captain \in Captains /\ call[w].step \notin RidelessSteps
    BY <1>1, <1>9 DEF CancelReadCaptain, CancelReset, CompleteReset, At, CallOK,
                      CaptainlessSteps, RidelessSteps
  <2>2. CASE Goto(w, "cancelReset")
    BY <2>1, <2>2, PlainMove DEF Steps, CommitSteps, RidelessSteps
  <2>3. CASE Goto(w, "cancelUncache")
    BY <2>1, <2>3, PlainMove DEF Steps, CommitSteps, RidelessSteps
  <2>4. CASE Goto(w, "completeUncache")
    BY <2>1, <2>4, PlainMove DEF Steps, CommitSteps, RidelessSteps
  <2> QED BY <1>9, <2>2, <2>3, <2>4 DEF CancelReadCaptain, CancelReset, CompleteReset
<1>10. CASE CompleteCommit(w)
  <2>1. CASE Proceed(w, "completeReset")
    <3>1. call[w].captain \in Captains /\ call[w].step \notin RidelessSteps
      BY <1>1, <1>10 DEF CompleteCommit, DriveCommit, At, CallOK, CaptainlessSteps,
                         RidelessSteps
    <3> QED BY <2>1, <3>1, PlainMove DEF Steps, CommitSteps, RidelessSteps
  <2> QED BY <1>2, <1>10, <2>1 DEF CompleteCommit, DriveCommit, Commit
<1>11. CASE RejectUpsert(w)
  <2>1. CASE Proceed(w, "rejectCount")
    BY <1>11, <2>1, PlainMove DEF RejectUpsert, At, Steps, CommitSteps, RidelessSteps,
                                  CaptainlessSteps
  <2> QED BY <1>2, <1>11, <2>1 DEF RejectUpsert
<1>12. CASE RejectCount(w)
  <2>1. CASE Goto(w, "rejectCancel")
    BY <1>12, <2>1, PlainMove DEF RejectCount, At, Steps, CommitSteps, RidelessSteps,
                                  CaptainlessSteps
  <2>2. CASE Goto(w, "addTimeout")
    BY <1>12, <2>2, PlainMove DEF RejectCount, At, Steps, CommitSteps, RidelessSteps,
                                  CaptainlessSteps
  <2> QED BY <1>12, <2>1, <2>2 DEF RejectCount
<1>13. CASE \/ AddDispatch(w) \/ AddTimeout(w) \/ AcceptRemoveJob(w) \/ CancelUncache(w)
            \/ ArriveCommit(w) \/ StartCommit(w) \/ CompleteUncache(w)
            \/ RejectCancel(w) \/ SetOnline(w) \/ SetOffline(w) \/ Recache(w)
  BY <1>2, <1>13 DEF AddDispatch, AddTimeout, AcceptRemoveJob, CancelUncache, Uncache,
       ArriveCommit, StartCommit, DriveCommit, Commit, CompleteUncache, RejectCancel,
       SetOnline, SetOffline, SetStatusWrite, Recache
<1> QED BY ONLY RequestContinues(w), <1>3, <1>4, <1>5, <1>6, <1>7, <1>8, <1>9, <1>10,
              <1>11, <1>12, <1>13 DEF RequestContinues

(* Requests keep their types and their knowledge over every step.          *)
LEMMA CallStep ==
  ASSUME TypeOK, RowsOK, CallsOK, [Next]_vars
  PROVE  call' \in [Slots -> Calls] /\ CallsOK'
<1>1. rides' \in [Rides -> Rows] /\ RowMoves
  BY RowStep
<1>2. ASSUME NEW w \in Slots, OneCallMoves(w)
      PROVE  call' \in [Slots -> Calls] /\ CallsOK'
  <2>1. ASSUME NEW v \in Slots PROVE CallOK(call[v])'
    <3>1. CASE v = w
      BY <1>2, <3>1 DEF OneCallMoves
    <3>2. CASE v # w
      BY <1>1, <1>2, <3>2, CallKept DEF OneCallMoves, CallsOK
    <3> QED BY <3>1, <3>2
  <2> QED BY <1>2, <2>1 DEF OneCallMoves, CallsOK
<1>3. CASE \E w \in Slots : OneCallMoves(w)
  BY <1>2, <1>3
<1>4. CASE UNCHANGED call
  <2>1. ASSUME NEW v \in Slots PROVE CallOK(call[v])'
    BY <1>1, <1>4, CallKept DEF CallsOK
  <2> QED BY <1>4, <2>1 DEF CallsOK, TypeOK
<1>5. (\E w \in Slots : OneCallMoves(w)) \/ UNCHANGED call
  <2>1. CASE \E w \in Slots : RequestArrives(w) \/ RequestContinues(w)
    BY <1>1, <2>1, ArrivalMoves, ContinuationMoves
  <2>2. CASE \E w \in Slots : Abort(w)
    BY <2>2, ReturnMoves DEF Abort
  <2>3. CASE UNCHANGED call
    BY <2>3
  <2> QED BY <2>1, <2>2, <2>3
          DEF Next, vars, Disconnect, JobRuns, TimeoutFires, DispatchMoves,
              DispatchAddsTimeout, SweepHandles, SweepReads, Fault, TimeoutFails,
              DispatchFails, SweepFails
<1> QED BY <1>3, <1>4, <1>5

(***************************************************************************)

(* The remaining variables keep their types.                               *)
(***************************************************************************)

(* Captain statuses, the history and the cache keep their types.           *)
LEMMA StatusTypes ==
  ASSUME TypeOK, CallsOK, [Next]_vars
  PROVE  /\ captainStatus' \in [Captains -> CaptainStatuses]
         /\ overridden' \subseteq Captains
         /\ assignment' \in [Captains -> Rides \cup {NoRide}]
<1> USE DEF TypeOK
<1>1. ASSUME NEW w \in Slots PROVE CallOK(call[w])
  BY DEF CallsOK
<1>2. captainStatus' \in [Captains -> CaptainStatuses]
  BY Writers, <1>1 DEF StatusWriters, AcceptCommit, CancelReset, CompleteReset, SetOnline,
       SetOffline, SetStatusWrite, Disconnect, CaptainStatuses
<1>3. overridden' \subseteq Captains
  BY Writers, <1>1 DEF OverriddenWriters, SetOnline, SetOffline, SetStatusWrite, At,
       CallOK, CaptainlessSteps
<1>4. assignment' \in [Captains -> Rides \cup {NoRide}]
  BY Writers, <1>1 DEF CacheWriters, AcceptCache, CancelUncache, CompleteUncache, Uncache,
       Recache, At, CallOK, RidelessSteps
<1> QED BY <1>2, <1>3, <1>4

(* Rejections, jobs and the sweep keep their types.                        *)
LEMMA JobTypes ==
  ASSUME TypeOK, CallsOK, [Next]_vars
  PROVE  /\ rejections' \subseteq Rides \X Captains
         /\ timeoutJob' \in [Rides -> TimeoutStates]
         /\ dispatchJob' \in [Rides -> [DispatchIds -> DispatchStates]]
         /\ sweep' \subseteq Rides
<1> DEFINE Kept == /\ rejections' \subseteq Rides \X Captains
                   /\ timeoutJob' \in [Rides -> TimeoutStates]
                   /\ dispatchJob' \in [Rides -> [DispatchIds -> DispatchStates]]
                   /\ sweep' \subseteq Rides
<1> USE DEF TypeOK
<1>1. ASSUME NEW w \in Slots PROVE CallOK(call[w])
  BY DEF CallsOK
<1>2. ASSUME NEW w \in Slots, RequestArrives(w) PROVE Kept
  BY <1>2, ArrivalsWrite
<1>3. ASSUME NEW w \in Slots, RequestContinues(w) PROVE Kept
  <2>1. CASE AddDispatch(w)
    BY <2>1 DEF AddDispatch, DispatchIds, DispatchStates
  <2>2. CASE AddTimeout(w) \/ AcceptRemoveJob(w) \/ CancelRemoveJob(w)
    BY <2>2 DEF AddTimeout, AcceptRemoveJob, CancelRemoveJob, AddTimeoutJob,
                RemoveTimeoutJob, TimeoutStates
  <2>3. CASE RejectUpsert(w)
    BY <1>1, <2>3 DEF RejectUpsert, At, CallOK, RidelessSteps, CaptainlessSteps
  <2> QED BY <1>3, <2>1, <2>2, <2>3
          DEF RequestContinues, AcceptReadRide, AcceptCheckRejection, AcceptCommit,
              AcceptCache, CancelCommit, CancelReadCaptain, CancelReset, CancelUncache,
              Uncache, ArriveCommit, StartCommit, CompleteCommit, DriveCommit,
              CompleteReset, CompleteUncache, RejectCount, RejectCancel, SetOnline,
              SetOffline, SetStatusWrite, Recache
<1>4. ASSUME NEW r \in Rides, JobRuns(r) \/ SweepHandles(r) PROVE Kept
  BY <1>4 DEF JobRuns, TimeoutFires, DispatchMoves, DispatchAddsTimeout, AddTimeoutJob,
              SweepHandles, TimeoutStates, DispatchStates, DispatchIds
<1>5. CASE Fault
  <2>1. CASE SweepFails \/ \E w \in Slots : Abort(w)
    BY <2>1 DEF SweepFails, Abort
  <2>2. ASSUME NEW r \in Rides, TimeoutFails(r) PROVE Kept
    BY <2>2 DEF TimeoutFails, TimeoutStates
  <2>3. ASSUME NEW r \in Rides, NEW j \in DispatchIds, DispatchFails(r, j) PROVE Kept
    BY <2>3 DEF DispatchFails, DispatchStates
  <2> QED BY <1>5, <2>1, <2>2, <2>3 DEF Fault
<1>6. CASE SweepReads \/ (\E c \in Captains : Disconnect(c)) \/ UNCHANGED vars
  BY <1>6 DEF SweepReads, Disconnect, vars
<1> QED BY <1>2, <1>3, <1>4, <1>5, <1>6 DEF Next

(* Every step keeps the types.                                             *)
LEMMA TypeStep ==
  ASSUME TypeOK, RowsOK, CallsOK, [Next]_vars
  PROVE  TypeOK'
BY RowStep, CallStep, StatusTypes, JobTypes DEF TypeOK

(***************************************************************************)

(* Holds. Only three steps change who holds a captain for the worse: the   *)
(* accept that takes an AVAILABLE captain, whom nobody holds, and the two  *)
(* commits that pass the captain from a ride to the request that ended it. *)
(***************************************************************************)

(* Fewer holders and, for whoever is still held, the same status.          *)
LEMMA HoldsKept ==
  ASSUME HoldsOK, overridden \subseteq overridden',
         \A c \in Captains \ overridden' :
           /\ Driving(c)' \subseteq Driving(c)
           /\ Releasing(c)' \subseteq Releasing(c)
           /\ Driving(c)' \cup Releasing(c)' # {} => captainStatus'[c] = captainStatus[c]
  PROVE  HoldsOK'
BY DEF HoldsOK

(* A row never loses its captain, so that late cache writes stay right.    *)
LEMMA CacheStep ==
  ASSUME TypeOK, RowsOK, CallsOK, CacheNamesOwnRide, [Next]_vars
  PROVE  CacheNamesOwnRide'
<1>1. RowMoves
  BY RowStep
<1>2. ASSUME NEW c \in Captains, assignment[c] # NoRide
      PROVE  rides'[assignment[c]].captain = c
  BY <1>1, <1>2, NoCaptainAssumption DEF CacheNamesOwnRide, RowMoves, RowsOK, NoRow, TypeOK
<1>3. ASSUME NEW w \in Slots, AcceptCache(w) \/ Recache(w)
      PROVE  /\ call[w].captain \in Captains
             /\ rides'[call[w].ride].captain = call[w].captain
  BY <1>1, <1>3, NoCaptainAssumption
     DEF AcceptCache, Recache, CallsOK, CallOK, At, CaptainlessSteps, RidelessSteps,
         RowMoves, RowsOK, NoRow
<1>4. CASE UNCHANGED assignment
  BY <1>2, <1>4 DEF CacheNamesOwnRide
<1>5. ASSUME NEW w \in Slots, AcceptCache(w) \/ Recache(w), ~UNCHANGED assignment
      PROVE  CacheNamesOwnRide'
  BY <1>2, <1>3, <1>5 DEF CacheNamesOwnRide, AcceptCache, Recache, TypeOK
<1>6. ASSUME NEW w \in Slots, CancelUncache(w) \/ CompleteUncache(w)
      PROVE  CacheNamesOwnRide'
  BY <1>2, <1>6 DEF CacheNamesOwnRide, CancelUncache, CompleteUncache, Uncache, TypeOK
<1> QED BY <1>4, <1>5, <1>6, Writers DEF CacheWriters

(* Only an accept gives a captain a ride: an insert has no captain, the    *)
(* other moves keep the captain and start from an active status.           *)
LEMMA DrivingKept ==
  ASSUME TypeOK, RowsOK, CallsOK, [Next]_vars, \A w \in Slots : ~AcceptCommit(w)
  PROVE  \A c \in Captains : Driving(c)' \subseteq Driving(c)
<1> SUFFICES ASSUME NEW c \in Captains, NEW a \in Rides,
                    rides'[a].captain = c, rides'[a].status \in ActiveStatuses
             PROVE  rides[a].captain = c /\ rides[a].status \in ActiveStatuses
  BY DEF Driving
<1> USE DEF TypeOK, ActiveStatuses
<1>1. ASSUME NEW w \in Slots, NEW r \in Rides,
             CreateRide(w, r) \/ CreateScheduledRide(w, r)
      PROVE  rides[a].captain = c /\ rides[a].status \in ActiveStatuses
  BY <1>1 DEF CreateRide, CreateScheduledRide, Inserted
<1>2. ASSUME NEW r \in Rides, NEW from, NEW to \in {"SEARCHING", "CANCELLED"},
             MoveWhere(r, from, to)
      PROVE  rides[a].captain = c /\ rides[a].status \in ActiveStatuses
  BY <1>2 DEF MoveWhere, Advanced, Written
<1>3. ASSUME NEW w \in Slots, call[w].ride \in Rides, Unchanged(call[w]), NEW status,
             status \in ActiveStatuses => call[w].seen.status \in ActiveStatuses,
             rides' = [rides EXCEPT ![call[w].ride] =
                         Written(@, status, call[w].seen.version + 1)]
      PROVE  rides[a].captain = c /\ rides[a].status \in ActiveStatuses
  BY <1>3 DEF Unchanged, Written
<1>4. ASSUME NEW w \in Slots, call[w].step \notin RidelessSteps
      PROVE  /\ call[w].ride \in Rides
             /\ call[w].seen.status \in SeenStatuses(call[w].step)
  BY <1>4 DEF CallsOK, CallOK
<1>5. ASSUME NEW w \in Slots, CancelCommit(w) \/ CompleteCommit(w)
      PROVE  rides[a].captain = c /\ rides[a].status \in ActiveStatuses
  <2>1. call[w].ride \in Rides
    BY <1>4, <1>5 DEF CancelCommit, CompleteCommit, DriveCommit, At, RidelessSteps
  <2>2. CASE UNCHANGED rides
    BY <2>2
  <2>3. CASE /\ Unchanged(call[w])
             /\ rides' = [rides EXCEPT ![call[w].ride] =
                            Written(@, "CANCELLED", call[w].seen.version + 1)]
    <3>1. "CANCELLED" \notin ActiveStatuses
      OBVIOUS
    <3> QED BY ONLY <1>3, <2>1, <2>3, <3>1
  <2>4. CASE /\ Unchanged(call[w])
             /\ rides' = [rides EXCEPT ![call[w].ride] =
                            Written(@, "COMPLETED", call[w].seen.version + 1)]
    <3>1. "COMPLETED" \notin ActiveStatuses
      OBVIOUS
    <3> QED BY ONLY <1>3, <2>1, <2>4, <3>1
  <2> QED BY <1>5, <2>2, <2>3, <2>4 DEF CancelCommit, CompleteCommit, DriveCommit, Commit
<1>6. ASSUME NEW w \in Slots, ArriveCommit(w) \/ StartCommit(w)
      PROVE  rides[a].captain = c /\ rides[a].status \in ActiveStatuses
  <2>1. call[w].seen.status \in ActiveStatuses /\ call[w].ride \in Rides
    BY <1>4, <1>6 DEF ArriveCommit, StartCommit, DriveCommit, At, RidelessSteps,
                      SeenStatuses, ArrivableStatuses, StartableStatuses
  <2> QED BY <1>3, <1>6, <2>1 DEF ArriveCommit, StartCommit, DriveCommit, Commit
<1>7. ASSUME NEW w \in Slots, RejectCancel(w)
      PROVE  rides[a].captain = c /\ rides[a].status \in ActiveStatuses
  BY <1>2, <1>4, <1>7 DEF RejectCancel, At, RidelessSteps
<1>8. ASSUME NEW r \in Rides, TimeoutFires(r) \/ \E j \in DispatchIds : DispatchMoves(r, j)
      PROVE  rides[a].captain = c /\ rides[a].status \in ActiveStatuses
  BY <1>2, <1>8 DEF TimeoutFires, DispatchMoves
<1> QED BY Writers, <1>1, <1>5, <1>6, <1>7, <1>8 DEF RideWriters

(* Only the two commits that end a ride make a request a releaser.         *)
LEMMA ReleasingKept ==
  ASSUME TypeOK, [Next]_vars, \A w \in Slots : ~CancelCommit(w) /\ ~CompleteCommit(w)
  PROVE  \A c \in Captains : Releasing(c)' \subseteq Releasing(c)
<1> SUFFICES ASSUME NEW v \in Slots, call'[v].step \in ReleaseSteps
             PROVE  call[v].step \in ReleaseSteps /\ call'[v].captain = call[v].captain
  BY DEF Releasing
<1> USE DEF TypeOK, ReleaseSteps
<1>1. ASSUME NEW w \in Slots, RequestArrives(w)
      PROVE  call[v].step \in ReleaseSteps /\ call'[v].captain = call[v].captain
  BY <1>1 DEF RequestArrives, Begin, CreateRide, CreateScheduledRide, CancelReadRide,
       AcceptReadCaptain, ArriveReadRide, StartReadRide, CompleteReadRide,
       RejectReadRide, RecacheReadRide, DriveReadRide, SetStatusRead
<1>2. ASSUME NEW w \in Slots, Return(w)
      PROVE  call[v].step \in ReleaseSteps /\ call'[v].captain = call[v].captain
  BY <1>2 DEF Return, Idle
<1>3. ASSUME NEW w \in Slots, NEW step \in Steps, Goto(w, step) \/ Proceed(w, step),
             step \in ReleaseSteps => call[w].step \in ReleaseSteps
      PROVE  call[v].step \in ReleaseSteps /\ call'[v].captain = call[v].captain
  BY <1>3 DEF Goto, Proceed, Moved
<1>4. ASSUME NEW w \in Slots, RequestContinues(w)
      PROVE  call[v].step \in ReleaseSteps /\ call'[v].captain = call[v].captain
  <2>1. CASE AcceptReadRide(w)
    BY <1>2, <2>1 DEF AcceptReadRide, Moved
  <2>2. CASE AcceptCheckRejection(w) \/ AcceptCommit(w) \/ AcceptCache(w)
    BY <1>2, <1>3, <2>2 DEF AcceptCheckRejection, AcceptCommit, AcceptCache, Steps
  <2>3. CASE CancelRemoveJob(w)
    BY <1>2, <1>3, <2>3 DEF CancelRemoveJob, At, Steps
  <2>4. CASE CancelReadCaptain(w) \/ CancelReset(w)
    BY <1>3, <2>4 DEF CancelReadCaptain, CancelReset, At, Steps
  <2>5. CASE CompleteReset(w)
    BY <1>3, <2>5 DEF CompleteReset, At, Steps
  <2>6. CASE RejectUpsert(w) \/ RejectCount(w)
    BY <1>2, <1>3, <2>6 DEF RejectUpsert, RejectCount, Steps
  <2>7. CASE \/ AddDispatch(w) \/ AddTimeout(w) \/ AcceptRemoveJob(w) \/ CancelUncache(w)
             \/ ArriveCommit(w) \/ StartCommit(w) \/ CompleteUncache(w)
             \/ RejectCancel(w) \/ SetOnline(w) \/ SetOffline(w) \/ Recache(w)
    BY <1>2, <2>7 DEF AddDispatch, AddTimeout, AcceptRemoveJob, CancelUncache, Uncache,
         ArriveCommit, StartCommit, DriveCommit, Commit, CompleteUncache, RejectCancel,
         SetOnline, SetOffline, SetStatusWrite, Recache
  <2> QED BY ONLY \A w_1 \in Slots : ~CancelCommit(w_1) /\ ~CompleteCommit(w_1),
                  <1>4, <2>1, <2>2, <2>3, <2>4, <2>5, <2>6, <2>7 DEF RequestContinues
<1>5. CASE \E w \in Slots : Abort(w)
  BY <1>2, <1>5 DEF Abort
<1>6. CASE UNCHANGED call
  BY <1>6
<1> QED BY <1>1, <1>4, <1>5, <1>6
        DEF Next, vars, Disconnect, JobRuns, TimeoutFires, DispatchMoves,
            DispatchAddsTimeout, SweepHandles, SweepReads, Fault, TimeoutFails,
            DispatchFails, SweepFails

(* How the holders of a captain change when an update writes one row.      *)
LEMMA DrivingAfterWrite ==
  ASSUME TypeOK, NEW r \in Rides, NEW row, rides' = [rides EXCEPT ![r] = row],
         NEW c \in Captains
  PROVE  /\ row.captain # c \/ row.status \notin ActiveStatuses =>
              Driving(c)' = Driving(c) \ {r}
         /\ Driving(c)' \subseteq Driving(c) \cup {r}
<1>1. \A a \in Rides : rides'[a] = IF a = r THEN row ELSE rides[a]
  BY DEF TypeOK
<1> QED BY <1>1 DEF Driving

(* How the releasers of a captain change when a request moves.             *)
LEMMA ReleasingAfterProceed ==
  ASSUME TypeOK, NEW w \in Slots, NEW step, Proceed(w, step) \/ Goto(w, step),
         NEW c \in Captains
  PROVE  /\ call[w].captain # c \/ step \notin ReleaseSteps =>
              Releasing(c)' = Releasing(c) \ {w}
         /\ Releasing(c)' \subseteq Releasing(c) \cup {w}
<1>1. \A v \in Slots \ {w} : call'[v] = call[v]
  BY DEF TypeOK, Goto, Proceed
<1>2. call'[w].step = step /\ call'[w].captain = call[w].captain
  BY DEF TypeOK, Goto, Proceed, Moved
<1> QED BY <1>1, <1>2 DEF Releasing

(* An accept takes a captain nobody holds.                                 *)
LEMMA AcceptHolds ==
  ASSUME TypeOK, HoldsOK, NEW w \in Slots, NEW c0 \in Captains, NEW r0 \in Rides,
         NEW row, NEW step, step \notin ReleaseSteps, row.captain = c0,
         captainStatus[c0] = "AVAILABLE",
         captainStatus' = [captainStatus EXCEPT ![c0] = "ON_RIDE"],
         rides' = [rides EXCEPT ![r0] = row], Proceed(w, step), UNCHANGED overridden
  PROVE  HoldsOK'
<1>1. ASSUME NEW c \in Captains \ overridden
      PROVE  Releasing(c)' \subseteq Releasing(c)
  <2>1. Releasing(c)' = Releasing(c) \ {w}
    BY ONLY <1>1, TypeOK, w \in Slots, Proceed(w, step), step \notin ReleaseSteps,
            ReleasingAfterProceed
  <2> QED BY <2>1
<1>2. ASSUME NEW c \in Captains \ overridden, c # c0
      PROVE  Driving(c)' \subseteq Driving(c) /\ captainStatus'[c] = captainStatus[c]
  <2>1. captainStatus'[c] = captainStatus[c]
    BY <1>2 DEF TypeOK
  <2>2. Driving(c)' = Driving(c) \ {r0}
    BY ONLY <1>2, TypeOK, r0 \in Rides, row.captain = c0,
            rides' = [rides EXCEPT ![r0] = row], DrivingAfterWrite
  <2> QED BY <2>1, <2>2
<1>3. ASSUME c0 \notin overridden
      PROVE  /\ Driving(c0)' \subseteq {r0} /\ Releasing(c0)' = {}
             /\ captainStatus'[c0] = "ON_RIDE"
  <2>1. Driving(c0) = {} /\ Releasing(c0) = {}
    BY <1>3 DEF HoldsOK
  <2>2. Driving(c0)' \subseteq {r0}
    BY <2>1, DrivingAfterWrite
  <2> QED BY <1>1, <1>3, <2>1, <2>2 DEF TypeOK
<1>4. ASSUME NEW c \in Captains \ overridden'
      PROVE  /\ \A a, b \in Driving(c)' : a = b
             /\ \A v, u \in Releasing(c)' : v = u
             /\ Driving(c)' = {} \/ Releasing(c)' = {}
             /\ Driving(c)' \cup Releasing(c)' # {} => captainStatus'[c] = "ON_RIDE"
  <2>1. CASE c = c0
    BY <1>3, <2>1
  <2>2. CASE c # c0
    BY <1>1, <1>2, <2>2 DEF HoldsOK
  <2> QED BY <2>1, <2>2
<1> QED BY <1>4 DEF HoldsOK

(* A commit that ends a ride passes its captain to the request.            *)
LEMMA EndHolds ==
  ASSUME TypeOK, RowsOK, HoldsOK, NEW w \in Slots, NEW r0 \in Rides,
         NEW c0 \in Captains \cup {NoCaptain}, NEW row, NEW step,
         call[w].captain = c0, rides[r0].captain = c0, rides[r0].status # "NONE",
         rides[r0].status \notin FinalStatuses, row.status \in FinalStatuses,
         rides' = [rides EXCEPT ![r0] = row], Proceed(w, step),
         UNCHANGED <<captainStatus, overridden>>
  PROVE  HoldsOK'
<1>1. row.status \notin ActiveStatuses
  BY DEF FinalStatuses, ActiveStatuses
<1>2. ASSUME NEW c \in Captains \ overridden
      PROVE  Driving(c)' = Driving(c) \ {r0}
  BY <1>1, DrivingAfterWrite
<1>3. ASSUME NEW c \in Captains \ overridden, c # c0
      PROVE  Releasing(c)' \subseteq Releasing(c)
  BY <1>3, ReleasingAfterProceed
<1>4. ASSUME c0 \in Captains \ overridden
      PROVE  /\ Driving(c0)' = {} /\ Releasing(c0)' \subseteq {w}
             /\ captainStatus'[c0] = "ON_RIDE"
  <2>1. rides[r0].status \in ActiveStatuses
    <3>1. rides[r0].status \in RideStatuses
      BY DEF TypeOK, Rows
    <3> QED BY <1>4, <3>1, NoCaptainAssumption
            DEF RowsOK, RideStatuses, FinalStatuses, ActiveStatuses
  <2>2. r0 \in Driving(c0)
    BY <2>1 DEF Driving
  <2>3. Driving(c0) = {r0} /\ Releasing(c0) = {} /\ captainStatus[c0] = "ON_RIDE"
    BY <1>4, <2>2 DEF HoldsOK
  <2>4. Releasing(c0)' \subseteq {w}
    BY <1>4, <2>3, ReleasingAfterProceed
  <2> QED BY <1>2, <1>4, <2>3, <2>4
<1> QED BY <1>2, <1>3, <1>4 DEF HoldsOK

(* The request that holds a captain releases them.                         *)
LEMMA ResetHolds ==
  ASSUME TypeOK, HoldsOK, NEW w \in Slots, NEW c0 \in Captains, NEW step,
         step \notin ReleaseSteps, call[w].captain = c0, call[w].step \in ReleaseSteps,
         captainStatus' = [captainStatus EXCEPT ![c0] = "AVAILABLE"], Goto(w, step),
         UNCHANGED <<rides, overridden>>
  PROVE  HoldsOK'
<1>1. ASSUME NEW c \in Captains \ overridden
      PROVE  Driving(c)' = Driving(c) /\ Releasing(c)' \subseteq Releasing(c)
  BY ReleasingAfterProceed DEF Driving
<1>2. ASSUME NEW c \in Captains \ overridden, c # c0
      PROVE  captainStatus'[c] = captainStatus[c]
  BY <1>2 DEF TypeOK
<1>3. ASSUME c0 \notin overridden
      PROVE  Driving(c0)' = {} /\ Releasing(c0)' = {}
  <2>1. w \in Releasing(c0) /\ w \notin Releasing(c0)'
    BY DEF Releasing, Goto, Moved, TypeOK
  <2>2. Driving(c0) = {} /\ Releasing(c0) = {w}
    BY <1>3, <2>1 DEF HoldsOK
  <2> QED BY <1>1, <1>3, <2>1, <2>2
<1> QED BY <1>1, <1>2, <1>3 DEF HoldsOK

(* A status change, by its request or by the closing socket, of a captain  *)
(* who is not ON_RIDE or who counts as overridden from then on.            *)
LEMMA StatusHolds ==
  ASSUME TypeOK, HoldsOK, NEW c0 \in Captains, NEW status,
         captainStatus' = [captainStatus EXCEPT ![c0] = status],
         overridden \subseteq overridden',
         captainStatus[c0] = "ON_RIDE" => c0 \in overridden',
         UNCHANGED rides, \A c \in Captains : Releasing(c)' \subseteq Releasing(c)
  PROVE  HoldsOK'
<1>1. ASSUME NEW c \in Captains PROVE Driving(c)' = Driving(c)
  BY DEF Driving
<1>2. ASSUME NEW c \in Captains \ overridden', c # c0
      PROVE  captainStatus'[c] = captainStatus[c]
  BY <1>2 DEF TypeOK
<1>3. ASSUME c0 \notin overridden'
      PROVE  Driving(c0) = {} /\ Releasing(c0) = {}
  BY <1>3 DEF HoldsOK
<1> QED BY <1>1, <1>2, <1>3 DEF HoldsOK

(* Every step keeps a captain held at most once, and ON_RIDE while held.   *)
LEMMA HoldStep ==
  ASSUME TypeOK, RowsOK, CallsOK, HoldsOK, [Next]_vars
  PROVE  HoldsOK'
<1>1. overridden \subseteq overridden'
  BY Writers DEF OverriddenWriters, SetOnline, SetOffline, SetStatusWrite
<1>2. ASSUME NEW w \in Slots, AcceptCommit(w),
             ~(Return(w) /\ UNCHANGED <<captainStatus, rides>>)
      PROVE  HoldsOK'
  <2>1. call[w].captain \in Captains /\ call[w].ride \in Rides
    BY <1>2 DEF AcceptCommit, At, CallsOK, CallOK, CaptainlessSteps, RidelessSteps
  <2>2. PICK c0 \in Captains, r0 \in Rides :
          c0 = call[w].captain /\ r0 = call[w].ride
    BY <2>1
  <2>3. /\ captainStatus[c0] = "AVAILABLE"
        /\ captainStatus' = [captainStatus EXCEPT ![c0] = "ON_RIDE"]
        /\ rides' = [rides EXCEPT ![r0] = AssignedTo(call[w].seen, c0)]
        /\ Proceed(w, "acceptCache")
        /\ UNCHANGED overridden
    BY <1>2, <2>2 DEF AcceptCommit, CaptainFree
  <2>4. /\ AssignedTo(call[w].seen, c0).captain = c0
        /\ "acceptCache" \notin ReleaseSteps
    BY DEF AssignedTo, ReleaseSteps
  <2> QED BY <2>3, <2>4, AcceptHolds
<1>3. ASSUME NEW w \in Slots, CancelCommit(w) \/ CompleteCommit(w),
             ~(Return(w) /\ UNCHANGED <<captainStatus, rides>>)
      PROVE  HoldsOK'
  <2>1. /\ Unchanged(call[w]) /\ UNCHANGED <<captainStatus, overridden>>
        /\ call[w].ride \in Rides /\ SeenOK(call[w])
        /\ call[w].captain = call[w].seen.captain
        /\ call[w].seen.status \in CancellableStatuses \cup {"IN_PROGRESS"}
    BY <1>3 DEF CancelCommit, CompleteCommit, DriveCommit, Commit, At, CallsOK, CallOK,
                RidelessSteps, CommitSteps, SeenStatuses
  <2>2. call[w].captain \in Captains \cup {NoCaptain}
    BY DEF TypeOK, Calls
  <2>3. PICK r0 \in Rides, c0 \in Captains \cup {NoCaptain} :
          r0 = call[w].ride /\ c0 = call[w].captain
    BY <2>1, <2>2
  <2>4. /\ rides[r0].captain = c0
        /\ rides[r0].status \notin FinalStatuses
        /\ rides[r0].status # "NONE"
    BY <2>1, <2>3 DEF Unchanged, SeenOK, CancellableStatuses, FinalStatuses
  <2>5. CASE CancelCommit(w)
    <3> DEFINE row == Written(rides[r0], "CANCELLED", call[w].seen.version + 1)
    <3>1. rides' = [rides EXCEPT ![r0] = row] /\ Proceed(w, "cancelRemoveJob")
      BY <1>3, <2>3, <2>5 DEF CancelCommit, Commit
    <3>2. row.status \in FinalStatuses
      BY DEF Written, FinalStatuses
    <3> HIDE DEF row
    <3> QED BY <2>1, <2>3, <2>4, <3>1, <3>2, EndHolds
  <2>6. CASE CompleteCommit(w)
    <3> DEFINE row == Written(rides[r0], "COMPLETED", call[w].seen.version + 1)
    <3>1. rides' = [rides EXCEPT ![r0] = row] /\ Proceed(w, "completeReset")
      BY <1>3, <2>3, <2>6 DEF CompleteCommit, DriveCommit, Commit
    <3>2. row.status \in FinalStatuses
      BY DEF Written, FinalStatuses
    <3> HIDE DEF row
    <3> QED BY <2>1, <2>3, <2>4, <3>1, <3>2, EndHolds
  <2> QED BY <1>3, <2>5, <2>6
<1>4. ASSUME NEW w \in Slots, CancelReset(w) \/ CompleteReset(w)
      PROVE  HoldsOK'
  <2>1. /\ call[w].captain \in Captains /\ call[w].step \in ReleaseSteps
        /\ UNCHANGED <<rides, overridden>>
    BY <1>4 DEF CancelReset, CompleteReset, At, CallsOK, CallOK, CaptainlessSteps,
                ReleaseSteps
  <2>2. PICK c0 \in Captains : c0 = call[w].captain
    BY <2>1
  <2>3. /\ captainStatus' = [captainStatus EXCEPT ![c0] = "AVAILABLE"]
        /\ Goto(w, "cancelUncache") \/ Goto(w, "completeUncache")
    BY <1>4, <2>2 DEF CancelReset, CompleteReset
  <2>4. "cancelUncache" \notin ReleaseSteps /\ "completeUncache" \notin ReleaseSteps
    BY DEF ReleaseSteps
  <2> QED BY <2>1, <2>2, <2>3, <2>4, ResetHolds
<1>5. ASSUME \A w \in Slots : ~CancelCommit(w) /\ ~CompleteCommit(w)
      PROVE  \A c \in Captains : Releasing(c)' \subseteq Releasing(c)
  BY <1>5, ReleasingKept
<1>6. ASSUME NEW w \in Slots, SetOnline(w) \/ SetOffline(w)
      PROVE  HoldsOK'
  <2>1. call[w].captain \in Captains /\ UNCHANGED rides /\ Return(w)
    BY <1>6 DEF SetOnline, SetOffline, SetStatusWrite, At, CallsOK, CallOK,
                CaptainlessSteps
  <2>2. PICK c0 \in Captains : c0 = call[w].captain
    BY <2>1
  <2>3. captainStatus[c0] = "ON_RIDE" => c0 \in overridden'
    BY <1>6, <2>2 DEF SetOnline, SetOffline, SetStatusWrite
  <2>4. \A c \in Captains : Releasing(c)' \subseteq Releasing(c)
    BY <2>1 DEF Releasing, Return, Idle, ReleaseSteps, TypeOK
  <2>5. \/ captainStatus' = [captainStatus EXCEPT ![c0] = "AVAILABLE"]
        \/ captainStatus' = [captainStatus EXCEPT ![c0] = "OFFLINE"]
    BY <1>6, <2>2 DEF SetOnline, SetOffline, SetStatusWrite
  <2> QED BY <1>1, <2>1, <2>3, <2>4, <2>5, StatusHolds
<1>7. ASSUME NEW c0 \in Captains, Disconnect(c0)
      PROVE  HoldsOK'
  <2>1. /\ captainStatus[c0] # "ON_RIDE"
        /\ captainStatus' = [captainStatus EXCEPT ![c0] = "OFFLINE"]
        /\ UNCHANGED <<rides, call>>
    BY <1>7 DEF Disconnect
  <2>2. \A c \in Captains : Releasing(c)' \subseteq Releasing(c)
    BY <2>1 DEF Releasing
  <2> QED BY <1>1, <2>1, <2>2, StatusHolds
<1>8. ASSUME NEW w \in Slots, Return(w), UNCHANGED <<captainStatus, rides>>
      PROVE  HoldsOK'
  <2>1. \A c \in Captains : Driving(c)' = Driving(c)
    BY <1>8 DEF Driving
  <2>2. \A c \in Captains : Releasing(c)' \subseteq Releasing(c)
    BY <1>8 DEF Releasing, Return, Idle, ReleaseSteps, TypeOK
  <2> QED BY <1>1, <1>8, <2>1, <2>2, HoldsKept
<1>9. CASE /\ UNCHANGED captainStatus
           /\ \A w \in Slots : ~AcceptCommit(w) /\ ~CancelCommit(w) /\ ~CompleteCommit(w)
  <2>1. \A c \in Captains : Driving(c)' \subseteq Driving(c)
    BY <1>9, DrivingKept
  <2>2. \A c \in Captains : Releasing(c)' \subseteq Releasing(c)
    BY <1>5, <1>9
  <2> QED BY <1>1, <1>9, <2>1, <2>2, HoldsKept
<1> QED BY Writers, <1>2, <1>3, <1>4, <1>6, <1>7, <1>8, <1>9 DEF StatusWriters

(***************************************************************************)

(* The theorems.                                                           *)
(***************************************************************************)

(* The invariant holds when every table is empty.                          *)
LEMMA InitInv == Init => IndInv
<1> SUFFICES ASSUME Init PROVE IndInv
  OBVIOUS
<1>1. NoRow \in Rows /\ Idle \in Calls
  BY NoRowType DEF Idle, Calls, Steps
<1>2. TypeOK
  BY <1>1 DEF Init, TypeOK, CaptainStatuses, TimeoutStates, DispatchStates
<1>3. RowsOK
  BY DEF Init, RowsOK, NoRow
<1>4. CallsOK
  <2>1. CallOK(Idle)
    BY DEF CallOK, Idle, RidelessSteps, CaptainlessSteps, SeenStatuses, CommitSteps,
           NoRow, RideStatuses
  <2> QED BY <2>1 DEF Init, CallsOK
<1>5. HoldsOK
  <2>1. ASSUME NEW c \in Captains PROVE Driving(c) = {}
    BY NoCaptainAssumption DEF Init, Driving, NoRow
  <2>2. ASSUME NEW c \in Captains PROVE Releasing(c) = {}
    BY DEF Init, Releasing, Idle, ReleaseSteps
  <2> QED BY <2>1, <2>2 DEF HoldsOK
<1>6. CacheNamesOwnRide
  BY DEF Init, CacheNamesOwnRide
<1> QED BY <1>2, <1>3, <1>4, <1>5, <1>6 DEF IndInv

(* Every step, and every stutter, keeps the inductive invariant.           *)
LEMMA StepInv == IndInv /\ [Next]_vars => IndInv'
BY TypeStep, RowStep, CallStep, HoldStep, CacheStep DEF IndInv

(* The inductive invariant holds in every reachable state: whatever the    *)
(* requests, jobs, disconnects and crashes of the ride service interleave  *)
(* to, rows, requests, holds and the cached assignments agree.             *)
THEOREM Invariance == Spec => []IndInv
BY InitInv, StepInv, PTL DEF Spec

(* The service's tables, keys and jobs keep their types.                   *)
THEOREM TypeCorrectness == Spec => []TypeOK
<1>1. IndInv => TypeOK
  BY DEF IndInv
<1> QED BY <1>1, Invariance, PTL

(* Every ride goes through its lifecycle by single atomic steps: the       *)
(* updateMany with id, status and version, and the two guarded moves of    *)
(* the jobs and of cancelRideBySystem, are all the Ride table ever sees.   *)
THEOREM Refinement == Spec => LifecycleSpec
<1>1. Init => Lifecycle!Init
  BY DEF Init, Lifecycle!Init, NoRow, Lifecycle!NoRow
<1>2. IndInv /\ [Next]_vars => [Lifecycle!Next]_rides
  BY RowStep DEF IndInv
<1> QED BY <1>1, <1>2, Invariance, PTL DEF Spec, LifecycleSpec, Lifecycle!Spec

(* So the statuses follow each other as the pages rely on it.              *)
Progress == INSTANCE RideProgress WITH status <- [r \in Rides |-> rides[r].status]

(* A step of the lifecycle is one of the statuses, whoever the captain is  *)
(* and whatever the version.                                               *)
LEMMA LifecycleProgresses ==
  ASSUME rides \in [Rides -> Rows], [Lifecycle!Next]_rides
  PROVE  [Progress!Next]_([r \in Rides |-> rides[r].status])
<1> DEFINE statuses == [r \in Rides |-> rides[r].status]
<1>1. ASSUME NEW r \in Rides, NEW row, rides' = [rides EXCEPT ![r] = row]
      PROVE  statuses' = [statuses EXCEPT ![r] = row.status]
  BY <1>1
<1>2. ASSUME NEW r \in Rides, NEW from, NEW to, Lifecycle!Move(r, from, to)
      PROVE  Progress!Move(r, from, to)
  <2>1. /\ rides' = [rides EXCEPT ![r] = Lifecycle!Advanced(rides[r], to)]
        /\ rides[r].status \in from
    BY <1>2 DEF Lifecycle!Move
  <2>2. statuses' = [statuses EXCEPT ![r] = to]
    BY <1>1, <2>1 DEF Lifecycle!Advanced, Lifecycle!Written
  <2> QED BY <2>1, <2>2 DEF Progress!Move
<1>3. ASSUME NEW r \in Rides, Lifecycle!Book(r)
      PROVE  \/ Progress!Move(r, {"NONE"}, "SCHEDULED")
             \/ Progress!Move(r, {"NONE", "SCHEDULED"}, "SEARCHING")
  <2>1. PICK s \in {"SEARCHING", "SCHEDULED"} :
          rides' = [rides EXCEPT ![r] = Lifecycle!Inserted(s)]
    BY <1>3 DEF Lifecycle!Book
  <2>2. statuses' = [statuses EXCEPT ![r] = s]
    BY <1>1, <2>1 DEF Lifecycle!Inserted
  <2>3. statuses[r] = "NONE"
    BY <1>3 DEF Lifecycle!Book
  <2> QED BY <2>1, <2>2, <2>3 DEF Progress!Move
<1>4. ASSUME NEW r \in Rides, NEW c \in Captains, Lifecycle!Assign(r, c)
      PROVE  Progress!Move(r, {"SEARCHING"}, "CAPTAIN_ASSIGNED")
  BY <1>1, <1>4 DEF Lifecycle!Assign, Lifecycle!AssignedTo, Progress!Move
<1>5. ASSUME NEW r \in Rides, Lifecycle!Dispatch(r)
      PROVE  Progress!Move(r, {"NONE", "SCHEDULED"}, "SEARCHING")
  BY <1>2, <1>5 DEF Lifecycle!Dispatch, Progress!Move
<1>6. ASSUME NEW r \in Rides,
             \/ Lifecycle!Arrive(r) \/ Lifecycle!Start(r)
             \/ Lifecycle!Complete(r) \/ Lifecycle!Cancel(r)
      PROVE  Progress!Next
  BY <1>2, <1>6
     DEF Lifecycle!Arrive, Lifecycle!Start, Lifecycle!Complete, Lifecycle!Cancel,
         Lifecycle!ArrivableStatuses, Lifecycle!StartableStatuses,
         Lifecycle!CancellableStatuses, Progress!ArrivableStatuses,
         Progress!StartableStatuses, Progress!CancellableStatuses, Progress!Next
<1> QED BY <1>3, <1>4, <1>5, <1>6 DEF Lifecycle!Next, Progress!Next

(* The service takes every ride through the statuses that the models of    *)
(* the two pages assume of their server.                                   *)
THEOREM ServiceProgress == Spec => Progress!Spec
<1>1. Init => Progress!Init
  BY DEF Init, NoRow, Progress!Init
<1>2. IndInv /\ [Next]_vars => [Progress!Next]_([r \in Rides |-> rides[r].status])
  BY RowStep, LifecycleProgresses DEF IndInv, TypeOK
<1> QED BY <1>1, <1>2, Invariance, PTL DEF Spec, Progress!Spec

(* What is written stays: a ride that is over is never written again, and  *)
(* the captain it was given to is never taken off it.                      *)
RowsSettle ==
  \A r \in Rides :
    /\ rides[r].status \in FinalStatuses => rides'[r] = rides[r]
    /\ rides[r].captain \in Captains => rides'[r].captain = rides[r].captain

(* No late commit, timeout, sweep or rejection touches a finished ride or  *)
(* takes a ride from its captain.                                          *)
THEOREM SettledStaysSettled == Spec => [][RowsSettle]_rides
<1>1. IndInv /\ [Next]_vars => RowsSettle
  <2> SUFFICES ASSUME IndInv, [Next]_vars PROVE RowsSettle
    OBVIOUS
  <2>1. [Lifecycle!Next]_rides /\ RowMoves /\ RowsOK
    BY RowStep DEF IndInv
  <2>2. ASSUME NEW r \in Rides, rides[r].captain \in Captains
        PROVE  rides'[r].captain = rides[r].captain
    BY <2>1, <2>2, NoCaptainAssumption DEF RowMoves, RowsOK, NoRow
  <2>3. ASSUME NEW r \in Rides, rides[r].status \in FinalStatuses
        PROVE  rides'[r] = rides[r]
    BY <2>1, <2>3
       DEF Lifecycle!Next, Lifecycle!Book, Lifecycle!Dispatch, Lifecycle!Assign,
           Lifecycle!Arrive, Lifecycle!Start, Lifecycle!Complete, Lifecycle!Cancel,
           Lifecycle!Move, Lifecycle!ArrivableStatuses, Lifecycle!StartableStatuses,
           Lifecycle!CancellableStatuses, FinalStatuses, IndInv, TypeOK
  <2> QED BY <2>2, <2>3 DEF RowsSettle
<1> QED BY <1>1, Invariance, PTL DEF Spec

(* No captain whose ON_RIDE was never written over drives two rides, for   *)
(* any number of rides, captains and concurrent accepts.                   *)
THEOREM OneRide == Spec => []OneRidePerCaptain
<1>1. IndInv => OneRidePerCaptain
  BY DEF IndInv, HoldsOK, OneRidePerCaptain
<1> QED BY <1>1, Invariance, PTL

(* Such a captain is ON_RIDE for as long as they drive: no late release,   *)
(* status change or disconnect frees them under a ride.                    *)
THEOREM DrivenOnRide == Spec => []DrivingIsOnRide
<1>1. IndInv => DrivingIsOnRide
  BY DEF IndInv, HoldsOK, DrivingIsOnRide
<1> QED BY <1>1, Invariance, PTL

(* The cached assignment by which positions are routed is a ride of the    *)
(* captain's own, whatever late writes and deletes the Redis key sees.     *)
THEOREM CacheOwn == Spec => []CacheNamesOwnRide
<1>1. IndInv => CacheNamesOwnRide
  BY DEF IndInv
<1> QED BY <1>1, Invariance, PTL
=============================================================================
