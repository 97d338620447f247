----------------------------- MODULE RideService -----------------------------
(***************************************************************************)
(* The ride service of the backend: the request handlers of                *)
(* ride.service.ts and captain.service.ts, the BullMQ jobs of rideQueue.ts *)
(* and the socket's disconnect handler, over the tables and keys they      *)
(* share. A handler is a sequence of awaits and every await is a step of   *)
(* its own, so that the handlers interleave exactly where Node lets them.  *)
(* A request that a guard turns away without a write is a stuttering step. *)
(* An operator with a suffix, such as Unchanged_NoCheck, is a faulty       *)
(* variant of the one it precedes; no specification uses it.               *)
(***************************************************************************)
EXTENDS RideRows, FiniteSets

CONSTANTS
  Rides, NoRide,
  ScheduledRides,       \* the rides booked in advance; the others are immediate
  Slots,                \* the requests the server handles at one time
  MaxBroadcastRounds,   \* rejections after which a ride is given up (3)
  FaultsAllowed         \* may a handler throw or die between two awaits?

ASSUME RideAssumption ==
  /\ NoRide \notin Rides
  /\ ScheduledRides \subseteq Rides
  /\ MaxBroadcastRounds \in Nat \ {0}
  /\ FaultsAllowed \in BOOLEAN

VARIABLES
  rides,           \* Postgres: the Ride table
  captainStatus,   \* Postgres: Captain.status
  rejections,      \* Postgres: the RideRejection table, unique on (ride, captain)
  assignment,      \* Redis: ride_assignment:<captain>
  timeoutJob,      \* BullMQ: the job cancel-timeout-<ride>
  dispatchJob,     \* BullMQ: startMatching-<ride> and recover-<ride>
  sweep,           \* the missed rides a reconciliation job still has to handle
  call,            \* the request in each slot: where it is and what it read
  overridden       \* history: captains whose ON_RIDE a status change wrote over

vars == <<rides, captainStatus, rejections, assignment, timeoutJob,
          dispatchJob, sweep, call, overridden>>

DispatchIds == {"startMatching", "recover"}

(* "finished" is completed or failed: BullMQ keeps the id, and adding a    *)
(* job under an id it keeps does nothing. "active" is a startMatching job  *)
(* that has moved the ride and has still to queue its timeout.             *)
TimeoutStates  == {"none", "delayed", "finished"}
DispatchStates == {"none", "delayed", "active", "finished"}

(* A slot is at the await its request performs next.                       *)
Steps ==
  {"idle", "addDispatch", "addTimeout",
   "acceptReadRide", "acceptCheckRejection", "acceptCommit", "acceptCache",
   "acceptRemoveJob",
   "cancelCommit", "cancelRemoveJob", "cancelReadCaptain", "cancelReset",
   "cancelUncache",
   "arriveCommit", "startCommit",
   "completeCommit", "completeReset", "completeUncache",
   "rejectUpsert", "rejectCount", "rejectCancel",
   "goOnline", "goOffline", "recache"}

Calls == [step    : Steps,
          ride    : Rides \cup {NoRide},
          captain : Captains \cup {NoCaptain},
          seen    : Rows]

Idle == [step |-> "idle", ride |-> NoRide, captain |-> NoCaptain, seen |-> NoRow]

Init ==
  /\ rides = [r \in Rides |-> NoRow]
  /\ captainStatus = [c \in Captains |-> "OFFLINE"]
  /\ rejections = {}
  /\ assignment = [c \in Captains |-> NoRide]
  /\ timeoutJob = [r \in Rides |-> "none"]
  /\ dispatchJob = [r \in Rides |-> [j \in DispatchIds |-> "none"]]
  /\ sweep = {}
  /\ call = [w \in Slots |-> Idle]
  /\ overridden = {}

At(w, step) == call[w].step = step

Begin(w, step, r, c, row) ==
  /\ At(w, "idle")
  /\ call' = [call EXCEPT ![w] =
                [step |-> step, ride |-> r, captain |-> c, seen |-> row]]

Moved(k, step, row) ==
  [step |-> step, ride |-> k.ride, captain |-> k.captain, seen |-> row]

Goto(w, step)    == call' = [call EXCEPT ![w] = Moved(@, step, @.seen)]
Proceed(w, step) == call' = [call EXCEPT ![w] = Moved(@, step, NoRow)]
Return(w)        == call' = [call EXCEPT ![w] = Idle]

(* where: { id, status: ride.status, version: ride.version }               *)
Unchanged_NoCheck(k) == TRUE

Unchanged(k) ==
  /\ rides[k.ride].status = k.seen.status
  /\ rides[k.ride].version = k.seen.version

(* An updateMany under optimistic concurrency: on count 0 the request      *)
(* fails with 409 and nothing is written.                                  *)
Commit(w, status, next) ==
  LET k == call[w] IN
  \/ /\ Unchanged(k)
     /\ rides' = [rides EXCEPT ![k.ride] = Written(@, status, k.seen.version + 1)]
     /\ next
  \/ /\ ~Unchanged(k)
     /\ Return(w)
     /\ UNCHANGED rides

(* The writes that do not read first: where status, version: increment 1.  *)
MoveWhere(r, from, to) ==
  rides' = [rides EXCEPT ![r] = IF @.status = from THEN Advanced(@, to) ELSE @]

(* rideQueue.add under a fixed id; job.remove() of a job that may be gone. *)
AddTimeoutJob(r) ==
  timeoutJob' = [timeoutJob EXCEPT ![r] = IF @ = "none" THEN "delayed" ELSE @]
RemoveTimeoutJob(r) == timeoutJob' = [timeoutJob EXCEPT ![r] = "none"]

-----------------------------------------------------------------------------
(* Booking. createRide inserts the row and starts matching;                *)
(* createScheduledRide inserts it and queues the job that will.            *)

CreateRide(w, r) ==
  /\ r \notin ScheduledRides
  /\ rides[r].status = "NONE"
  /\ Begin(w, "addTimeout", r, NoCaptain, NoRow)
  /\ rides' = [rides EXCEPT ![r] = Inserted("SEARCHING")]
  /\ UNCHANGED <<captainStatus, rejections, assignment, timeoutJob, dispatchJob,
                 sweep, overridden>>

CreateScheduledRide(w, r) ==
  /\ r \in ScheduledRides
  /\ rides[r].status = "NONE"
  /\ Begin(w, "addDispatch", r, NoCaptain, NoRow)
  /\ rides' = [rides EXCEPT ![r] = Inserted("SCHEDULED")]
  /\ UNCHANGED <<captainStatus, rejections, assignment, timeoutJob, dispatchJob,
                 sweep, overridden>>

AddDispatch(w) ==
  LET r == call[w].ride IN
  /\ At(w, "addDispatch")
  /\ dispatchJob' = [dispatchJob EXCEPT ![r]["startMatching"] = "delayed"]
  /\ Return(w)
  /\ UNCHANGED <<rides, captainStatus, rejections, assignment, timeoutJob, sweep,
                 overridden>>

(* startMatchingForRide, for a new ride and for the re-broadcast that a    *)
(* rejection leaves behind on a timer: it queues the timeout whatever the  *)
(* status of the ride is by now. The offers it emits change no state here. *)
AddTimeout(w) ==
  /\ At(w, "addTimeout")
  /\ AddTimeoutJob(call[w].ride)
  /\ Return(w)
  /\ UNCHANGED <<rides, captainStatus, rejections, assignment, dispatchJob, sweep,
                 overridden>>

-----------------------------------------------------------------------------
(* acceptRide: the captain is read and must be AVAILABLE, the ride is read *)
(* and must be SEARCHING, a rejection of it is looked up; the transaction  *)
(* checks the first two again. Then the assignment is cached and the       *)
(* timeout job removed.                                                    *)

AcceptReadCaptain(w, r, c) ==
  /\ rides[r].status # "NONE"
  /\ captainStatus[c] = "AVAILABLE"
  /\ Begin(w, "acceptReadRide", r, c, NoRow)
  /\ UNCHANGED <<rides, captainStatus, rejections, assignment, timeoutJob,
                 dispatchJob, sweep, overridden>>

AcceptReadRide(w) ==
  LET r == call[w].ride IN
  /\ At(w, "acceptReadRide")
  /\ IF rides[r].status = "SEARCHING"
       THEN call' = [call EXCEPT ![w] =
                       Moved(@, "acceptCheckRejection", rides[r])]
       ELSE Return(w)
  /\ UNCHANGED <<rides, captainStatus, rejections, assignment, timeoutJob,
                 dispatchJob, sweep, overridden>>

AcceptCheckRejection_CachesEarly(w) ==
  /\ At(w, "acceptCheckRejection")
  /\ Goto(w, "acceptCommit")
  /\ assignment' = [assignment EXCEPT ![call[w].captain] = call[w].ride]
  /\ UNCHANGED <<rides, captainStatus, rejections, timeoutJob, dispatchJob, sweep,
                 overridden>>

AcceptCheckRejection_RemovesJobEarly(w) ==
  /\ At(w, "acceptCheckRejection")
  /\ Goto(w, "acceptCommit")
  /\ RemoveTimeoutJob(call[w].ride)
  /\ UNCHANGED <<rides, captainStatus, rejections, assignment, dispatchJob, sweep,
                 overridden>>

AcceptCheckRejection(w) ==
  /\ At(w, "acceptCheckRejection")
  /\ IF <<call[w].ride, call[w].captain>> \in rejections
       THEN Return(w)
       ELSE Goto(w, "acceptCommit")
  /\ UNCHANGED <<rides, captainStatus, rejections, assignment, timeoutJob,
                 dispatchJob, sweep, overridden>>

CaptainFree_NotOffline(c) == captainStatus[c] # "OFFLINE"

CaptainFree(c) == captainStatus[c] = "AVAILABLE"

AcceptCommit(w) ==
  LET k == call[w] IN
  /\ At(w, "acceptCommit")
  /\ \/ /\ CaptainFree(k.captain)
        /\ Unchanged(k)
        /\ captainStatus' = [captainStatus EXCEPT ![k.captain] = "ON_RIDE"]
        /\ rides' = [rides EXCEPT ![k.ride] = AssignedTo(k.seen, k.captain)]
        /\ Proceed(w, "acceptCache")
     \/ /\ ~(CaptainFree(k.captain) /\ Unchanged(k))   \* rollback
        /\ Return(w)
        /\ UNCHANGED <<captainStatus, rides>>
  /\ UNCHANGED <<rejections, assignment, timeoutJob, dispatchJob, sweep, overridden>>

(* With faults the Redis client may not be ready: the write is skipped.    *)
AcceptCache(w) ==
  LET k == call[w] IN
  /\ At(w, "acceptCache")
  /\ \/ assignment' = [assignment EXCEPT ![k.captain] = k.ride]
     \/ FaultsAllowed /\ UNCHANGED assignment
  /\ Goto(w, "acceptRemoveJob")
  /\ UNCHANGED <<rides, captainStatus, rejections, timeoutJob, dispatchJob, sweep,
                 overridden>>

AcceptRemoveJob(w) ==
  /\ At(w, "acceptRemoveJob")
  /\ RemoveTimeoutJob(call[w].ride)
  /\ Return(w)
  /\ UNCHANGED <<rides, captainStatus, rejections, assignment, dispatchJob, sweep,
                 overridden>>

-----------------------------------------------------------------------------
(* cancelRide. The rider and an admin may cancel every cancellable ride; a *)
(* captain only its own, which adds no step to theirs. The captain to      *)
(* release is the one of the row read at the start.                        *)

CancelReadRide_RemovesJobEarly(w, r) ==
  /\ rides[r].status \in CancellableStatuses
  /\ Begin(w, "cancelCommit", r, rides[r].captain, rides[r])
  /\ RemoveTimeoutJob(r)
  /\ UNCHANGED <<rides, captainStatus, rejections, assignment, dispatchJob, sweep,
                 overridden>>

CancelReadRide(w, r) ==
  /\ rides[r].status \in CancellableStatuses
  /\ Begin(w, "cancelCommit", r, rides[r].captain, rides[r])
  /\ UNCHANGED <<rides, captainStatus, rejections, assignment, timeoutJob,
                 dispatchJob, sweep, overridden>>

CancelCommit(w) ==
  /\ At(w, "cancelCommit")
  /\ Commit(w, "CANCELLED", Proceed(w, "cancelRemoveJob"))
  /\ UNCHANGED <<captainStatus, rejections, assignment, timeoutJob, dispatchJob,
                 sweep, overridden>>

CancelRemoveJob(w) ==
  /\ At(w, "cancelRemoveJob")
  /\ RemoveTimeoutJob(call[w].ride)
  /\ IF call[w].captain = NoCaptain
       THEN Return(w)
       ELSE Goto(w, "cancelReadCaptain")
  /\ UNCHANGED <<rides, captainStatus, rejections, assignment, dispatchJob, sweep,
                 overridden>>

CancelReadCaptain_OnlyAvailable(w) ==
  /\ At(w, "cancelReadCaptain")
  /\ IF CaptainFree(call[w].captain)
       THEN Goto(w, "cancelReset")
       ELSE Goto(w, "cancelUncache")
  /\ UNCHANGED <<rides, captainStatus, rejections, assignment, timeoutJob,
                 dispatchJob, sweep, overridden>>

CancelReadCaptain(w) ==
  /\ At(w, "cancelReadCaptain")
  /\ IF captainStatus[call[w].captain] \in {"ON_RIDE", "AVAILABLE"}
       THEN Goto(w, "cancelReset")
       ELSE Goto(w, "cancelUncache")
  /\ UNCHANGED <<rides, captainStatus, rejections, assignment, timeoutJob,
                 dispatchJob, sweep, overridden>>

CancelReset(w) ==
  /\ At(w, "cancelReset")
  /\ captainStatus' = [captainStatus EXCEPT ![call[w].captain] = "AVAILABLE"]
  /\ Goto(w, "cancelUncache")
  /\ UNCHANGED <<rides, rejections, assignment, timeoutJob, dispatchJob, sweep,
                 overridden>>

(* redisClient.del, if the client is ready.                                *)
Uncache(w) ==
  /\ \/ assignment' = [assignment EXCEPT ![call[w].captain] = NoRide]
     \/ FaultsAllowed /\ UNCHANGED assignment
  /\ Return(w)
  /\ UNCHANGED <<rides, captainStatus, rejections, timeoutJob, dispatchJob, sweep,
                 overridden>>

CancelUncache(w) == At(w, "cancelUncache") /\ Uncache(w)

-----------------------------------------------------------------------------
(* markCaptainArrived, startRide, completeRide: the assigned captain moves *)
(* its ride. Only the last releases the captain, whatever its status is.   *)

DriveReadRide(w, r, c, from, step) ==
  /\ rides[r].captain = c
  /\ rides[r].status \in from
  /\ Begin(w, step, r, c, rides[r])
  /\ UNCHANGED <<rides, captainStatus, rejections, assignment, timeoutJob,
                 dispatchJob, sweep, overridden>>

DriveCommit(w, step, status, next) ==
  /\ At(w, step)
  /\ Commit(w, status, next)
  /\ UNCHANGED <<captainStatus, rejections, assignment, timeoutJob, dispatchJob,
                 sweep, overridden>>

ArriveReadRide(w, r, c) ==
  DriveReadRide(w, r, c, ArrivableStatuses, "arriveCommit")
ArriveCommit(w) ==
  DriveCommit(w, "arriveCommit", "CAPTAIN_ARRIVED", Return(w))

StartReadRide(w, r, c) ==
  DriveReadRide(w, r, c, StartableStatuses, "startCommit")
StartCommit(w) ==
  DriveCommit(w, "startCommit", "IN_PROGRESS", Return(w))

CompleteReadRide(w, r, c) ==
  DriveReadRide(w, r, c, {"IN_PROGRESS"}, "completeCommit")
CompleteCommit(w) ==
  DriveCommit(w, "completeCommit", "COMPLETED", Proceed(w, "completeReset"))

CompleteReset(w) ==
  /\ At(w, "completeReset")
  /\ captainStatus' = [captainStatus EXCEPT ![call[w].captain] = "AVAILABLE"]
  /\ Goto(w, "completeUncache")
  /\ UNCHANGED <<rides, rejections, assignment, timeoutJob, dispatchJob, sweep,
                 overridden>>

CompleteUncache(w) == At(w, "completeUncache") /\ Uncache(w)

-----------------------------------------------------------------------------
(* rejectRide: record the rejection; if the ride read before was SEARCHING,*)
(* count the ride's rejections and either cancel it or leave a timer that  *)
(* matches again. Any captain may reject any ride.                         *)

RejectReadRide(w, r, c) ==
  /\ rides[r].status # "NONE"
  /\ Begin(w, "rejectUpsert", r, c, rides[r])
  /\ UNCHANGED <<rides, captainStatus, rejections, assignment, timeoutJob,
                 dispatchJob, sweep, overridden>>

RejectUpsert(w) ==
  LET k == call[w] IN
  /\ At(w, "rejectUpsert")
  /\ rejections' = rejections \cup {<<k.ride, k.captain>>}
  /\ IF k.seen.status = "SEARCHING" THEN Proceed(w, "rejectCount") ELSE Return(w)
  /\ UNCHANGED <<rides, captainStatus, assignment, timeoutJob, dispatchJob, sweep,
                 overridden>>

RejectionCount(r) == Cardinality({c \in Captains : <<r, c>> \in rejections})

GivenUp(r) == RejectionCount(r) >= MaxBroadcastRounds

RejectCount_OffByOne(w) ==
  /\ At(w, "rejectCount")
  /\ IF RejectionCount(call[w].ride) > MaxBroadcastRounds
       THEN Goto(w, "rejectCancel")
       ELSE Goto(w, "addTimeout")
  /\ UNCHANGED <<rides, captainStatus, rejections, assignment, timeoutJob,
                 dispatchJob, sweep, overridden>>

RejectCount(w) ==
  /\ At(w, "rejectCount")
  /\ IF GivenUp(call[w].ride)
       THEN Goto(w, "rejectCancel")
       ELSE Goto(w, "addTimeout")
  /\ UNCHANGED <<rides, captainStatus, rejections, assignment, timeoutJob,
                 dispatchJob, sweep, overridden>>

(* cancelRideBySystem                                                      *)
RejectCancel(w) ==
  /\ At(w, "rejectCancel")
  /\ MoveWhere(call[w].ride, "SEARCHING", "CANCELLED")
  /\ Return(w)
  /\ UNCHANGED <<captainStatus, rejections, assignment, timeoutJob, dispatchJob,
                 sweep, overridden>>

-----------------------------------------------------------------------------
(* setCaptainStatus: the status is read and ON_RIDE turned away, then it is*)
(* written without a condition. A socket that closes takes an AVAILABLE    *)
(* captain offline in one conditional update.                              *)

SetStatusRead(w, c, step) ==
  /\ captainStatus[c] # "ON_RIDE"
  /\ Begin(w, step, NoRide, c, NoRow)
  /\ UNCHANGED <<rides, captainStatus, rejections, assignment, timeoutJob,
                 dispatchJob, sweep, overridden>>

SetStatusWrite(w, step, status) ==
  LET c == call[w].captain IN
  /\ At(w, step)
  /\ captainStatus' = [captainStatus EXCEPT ![c] = status]
  /\ overridden' = IF captainStatus[c] = "ON_RIDE"
                     THEN overridden \cup {c} ELSE overridden
  /\ Return(w)
  /\ UNCHANGED <<rides, rejections, assignment, timeoutJob, dispatchJob, sweep>>

SetOnline(w)  == SetStatusWrite(w, "goOnline", "AVAILABLE")
SetOffline(w) == SetStatusWrite(w, "goOffline", "OFFLINE")

Disconnect_Unconditional(c) ==
  /\ captainStatus[c] # "OFFLINE"
  /\ captainStatus' = [captainStatus EXCEPT ![c] = "OFFLINE"]
  /\ UNCHANGED <<rides, rejections, assignment, timeoutJob, dispatchJob, sweep,
                 call, overridden>>

Disconnect(c) ==
  /\ captainStatus[c] = "AVAILABLE"
  /\ captainStatus' = [captainStatus EXCEPT ![c] = "OFFLINE"]
  /\ UNCHANGED <<rides, rejections, assignment, timeoutJob, dispatchJob, sweep,
                 call, overridden>>

(* captain:location names a ride the cache does not: if the database has   *)
(* it as an active ride of the captain, it is cached again.                *)
RecacheReadRide(w, r, c) ==
  /\ assignment[c] # r
  /\ rides[r].captain = c
  /\ rides[r].status \in ActiveStatuses
  /\ Begin(w, "recache", r, c, NoRow)
  /\ UNCHANGED <<rides, captainStatus, rejections, assignment, timeoutJob,
                 dispatchJob, sweep, overridden>>

Recache(w) ==
  LET k == call[w] IN
  /\ At(w, "recache")
  /\ assignment' = [assignment EXCEPT ![k.captain] = k.ride]
  /\ Return(w)
  /\ UNCHANGED <<rides, captainStatus, rejections, timeoutJob, dispatchJob, sweep,
                 overridden>>

-----------------------------------------------------------------------------
(* BullMQ. A delayed job runs at some time after it was queued.            *)

(* cancelIfNoAssignment                                                    *)
TimeoutFires(r) ==
  /\ timeoutJob[r] = "delayed"
  /\ timeoutJob' = [timeoutJob EXCEPT ![r] = "finished"]
  /\ MoveWhere(r, "SEARCHING", "CANCELLED")
  /\ UNCHANGED <<captainStatus, rejections, assignment, dispatchJob, sweep, call,
                 overridden>>

(* startMatching: the guarded move, and then startMatchingForRide.         *)
DispatchMoves(r, j) ==
  /\ dispatchJob[r][j] = "delayed"
  /\ dispatchJob' = [dispatchJob EXCEPT ![r][j] =
                       IF rides[r].status = "SCHEDULED" THEN "active" ELSE "finished"]
  /\ MoveWhere(r, "SCHEDULED", "SEARCHING")
  /\ UNCHANGED <<captainStatus, rejections, assignment, timeoutJob, sweep, call,
                 overridden>>

DispatchAddsTimeout(r, j) ==
  /\ dispatchJob[r][j] = "active"
  /\ dispatchJob' = [dispatchJob EXCEPT ![r][j] = "finished"]
  /\ AddTimeoutJob(r)
  /\ UNCHANGED <<rides, captainStatus, rejections, assignment, sweep, call,
                 overridden>>

(* reconciliation: the missed rides are read once, then each one that has  *)
(* neither job gets a recovery job. Whether a ride is due is left open.    *)
SweepReads ==
  /\ sweep = {}
  /\ \E missed \in SUBSET {r \in Rides : rides[r].status = "SCHEDULED"} :
       missed # {} /\ sweep' = missed
  /\ UNCHANGED <<rides, captainStatus, rejections, assignment, timeoutJob,
                 dispatchJob, call, overridden>>

SweepHandles_OnlyQueued(r) ==
  /\ r \in sweep
  /\ sweep' = sweep \ {r}
  /\ dispatchJob' = IF dispatchJob[r]["startMatching"] # "none"
                      THEN [dispatchJob EXCEPT ![r]["recover"] = "delayed"]
                      ELSE dispatchJob
  /\ UNCHANGED <<rides, captainStatus, rejections, assignment, timeoutJob, call,
                 overridden>>

SweepHandles(r) ==
  /\ r \in sweep
  /\ sweep' = sweep \ {r}
  /\ dispatchJob' = IF \A j \in DispatchIds : dispatchJob[r][j] = "none"
                      THEN [dispatchJob EXCEPT ![r]["recover"] = "delayed"]
                      ELSE dispatchJob
  /\ UNCHANGED <<rides, captainStatus, rejections, assignment, timeoutJob, call,
                 overridden>>

-----------------------------------------------------------------------------
(* Faults. A query that throws, or a process that dies, ends a request or  *)
(* a timer where it stands; a job that throws has failed, and is not tried *)
(* again (no attempts option).                                             *)

Abort(w) ==
  /\ FaultsAllowed
  /\ ~At(w, "idle")
  /\ Return(w)
  /\ UNCHANGED <<rides, captainStatus, rejections, assignment, timeoutJob,
                 dispatchJob, sweep, overridden>>

TimeoutFails(r) ==
  /\ FaultsAllowed
  /\ timeoutJob[r] = "delayed"
  /\ timeoutJob' = [timeoutJob EXCEPT ![r] = "finished"]
  /\ UNCHANGED <<rides, captainStatus, rejections, assignment, dispatchJob, sweep,
                 call, overridden>>

DispatchFails(r, j) ==
  /\ FaultsAllowed
  /\ dispatchJob[r][j] \in {"delayed", "active"}
  /\ dispatchJob' = [dispatchJob EXCEPT ![r][j] = "finished"]
  /\ UNCHANGED <<rides, captainStatus, rejections, assignment, timeoutJob, sweep,
                 call, overridden>>

SweepFails ==
  /\ FaultsAllowed
  /\ sweep # {}
  /\ sweep' = {}
  /\ UNCHANGED <<rides, captainStatus, rejections, assignment, timeoutJob,
                 dispatchJob, call, overridden>>

-----------------------------------------------------------------------------
RequestArrives(w) ==
  \/ \E r \in Rides :
       \/ CreateRide(w, r)
       \/ CreateScheduledRide(w, r)
       \/ CancelReadRide(w, r)
       \/ \E c \in Captains :
            \/ AcceptReadCaptain(w, r, c)
            \/ ArriveReadRide(w, r, c)
            \/ StartReadRide(w, r, c)
            \/ CompleteReadRide(w, r, c)
            \/ RejectReadRide(w, r, c)
            \/ RecacheReadRide(w, r, c)
  \/ \E c \in Captains :
       \E step \in {"goOnline", "goOffline"} : SetStatusRead(w, c, step)

RequestContinues(w) ==
  \/ AddDispatch(w)          \/ AddTimeout(w)
  \/ AcceptReadRide(w)       \/ AcceptCheckRejection(w) \/ AcceptCommit(w)
  \/ AcceptCache(w)          \/ AcceptRemoveJob(w)
  \/ CancelCommit(w)         \/ CancelRemoveJob(w)      \/ CancelReadCaptain(w)
  \/ CancelReset(w)          \/ CancelUncache(w)
  \/ ArriveCommit(w)         \/ StartCommit(w)
  \/ CompleteCommit(w)       \/ CompleteReset(w)        \/ CompleteUncache(w)
  \/ RejectUpsert(w)         \/ RejectCount(w)          \/ RejectCancel(w)
  \/ SetOnline(w)            \/ SetOffline(w)           \/ Recache(w)

JobRuns(r) ==
  \/ TimeoutFires(r)
  \/ \E j \in DispatchIds : DispatchMoves(r, j) \/ DispatchAddsTimeout(r, j)

Fault ==
  \/ \E w \in Slots : Abort(w)
  \/ \E r \in Rides :
       \/ TimeoutFails(r)
       \/ \E j \in DispatchIds : DispatchFails(r, j)
  \/ SweepFails

Next ==
  \/ \E w \in Slots : RequestArrives(w) \/ RequestContinues(w)
  \/ \E c \in Captains : Disconnect(c)
  \/ \E r \in Rides : JobRuns(r) \/ SweepHandles(r)
  \/ SweepReads
  \/ Fault

Spec == Init /\ [][Next]_vars

(* Node resumes every handler whose await has settled, BullMQ runs every   *)
(* job whose delay is over, and a sweep runs every minute: a ride that     *)
(* stays due is found, and handled by one of the sweeps that find it.      *)
(* Nobody is bound to send a request.                                      *)
SweepFinds(r) == SweepReads /\ r \in sweep'

Fairness ==
  /\ \A w \in Slots : WF_vars(RequestContinues(w))
  /\ \A r \in Rides :
       /\ WF_vars(JobRuns(r))
       /\ SF_vars(SweepFinds(r))
       /\ SF_vars(SweepHandles(r))

FairSpec == Spec /\ Fairness

-----------------------------------------------------------------------------
TypeOK ==
  /\ rides \in [Rides -> Rows]
  /\ captainStatus \in [Captains -> CaptainStatuses]
  /\ rejections \subseteq Rides \X Captains
  /\ assignment \in [Captains -> Rides \cup {NoRide}]
  /\ timeoutJob \in [Rides -> TimeoutStates]
  /\ dispatchJob \in [Rides -> [DispatchIds -> DispatchStates]]
  /\ sweep \subseteq Rides
  /\ call \in [Slots -> Calls]
  /\ overridden \subseteq Captains

(* Every ride goes through its lifecycle by single steps: no interleaving  *)
(* of requests, jobs and crashes skips a state, revives a finished ride,   *)
(* gives a ride to a second captain or loses an increment of its version.  *)
Lifecycle == INSTANCE RideLifecycle
LifecycleSpec == Lifecycle!Spec

(* The rides a captain is driving, and the requests that have ended a ride *)
(* of that captain and have still to set the captain AVAILABLE.            *)
Driving(c) == {r \in Rides : rides[r].captain = c /\ rides[r].status \in ActiveStatuses}

ReleaseSteps ==
  {"cancelRemoveJob", "cancelReadCaptain", "cancelReset", "completeReset"}

Releasing(c) == {w \in Slots : call[w].captain = c /\ call[w].step \in ReleaseSteps}

(* A captain drives at most one ride, unless a status change of theirs     *)
(* wrote over an ON_RIDE (acceptRide checks the captain, l.416 and l.441). *)
OneRidePerCaptain ==
  \A c \in Captains \ overridden : \A r1, r2 \in Driving(c) : r1 = r2

(* A captain with a ride is ON_RIDE, so that no other accept, no status    *)
(* change and no closing socket takes them out of it; under the same       *)
(* condition. A release that is late must not free a captain who has       *)
(* already taken the next ride.                                            *)
DrivingIsOnRide ==
  \A c \in Captains \ overridden : Driving(c) # {} => captainStatus[c] = "ON_RIDE"

(* What a ride's row and a request's record always satisfy.                *)
RowsOK ==
  \A r \in Rides :
    /\ rides[r].status = "NONE" => rides[r] = NoRow
    /\ rides[r].status \in {"SCHEDULED", "SEARCHING"} => rides[r].captain = NoCaptain

RidelessSteps == {"idle", "goOnline", "goOffline"}
CaptainlessSteps ==
  {"idle", "addDispatch", "addTimeout", "acceptRemoveJob", "cancelCommit",
   "cancelRemoveJob", "arriveCommit", "startCommit", "rejectCount", "rejectCancel"}

(* The statuses a request may have read before it gets to a step.          *)
SeenStatuses(step) ==
  CASE step \in {"acceptCheckRejection", "acceptCommit"} -> {"SEARCHING"}
    [] step = "cancelCommit"   -> CancellableStatuses
    [] step = "arriveCommit"   -> ArrivableStatuses
    [] step = "startCommit"    -> StartableStatuses
    [] step = "completeCommit" -> {"IN_PROGRESS"}
    [] OTHER                   -> RideStatuses

CommitSteps ==
  {"acceptCheckRejection", "acceptCommit", "cancelCommit", "arriveCommit",
   "startCommit", "completeCommit"}

(* A row that was read is the row still, or its version has been passed.   *)
SeenOK(k) ==
  /\ k.seen.version <= rides[k.ride].version
  /\ k.seen.version = rides[k.ride].version => k.seen = rides[k.ride]

CallOK(k) ==
  /\ k.step \notin RidelessSteps => k.ride \in Rides
  /\ k.step \notin CaptainlessSteps => k.captain \in Captains
  /\ k.seen.status \in SeenStatuses(k.step)
  /\ k.step \in CommitSteps => SeenOK(k)
  /\ k.step \in {"cancelCommit", "completeCommit"} => k.captain = k.seen.captain
  /\ k.step \in {"acceptCache", "recache"} => rides[k.ride].captain = k.captain

CallsOK == \A w \in Slots : CallOK(call[w])

(* A captain is held by the ride they drive or by the one request that is  *)
(* about to release them, and whoever holds them keeps them ON_RIDE.       *)
HoldsOK ==
  \A c \in Captains \ overridden :
    /\ \A a, b \in Driving(c) : a = b
    /\ \A v, w \in Releasing(c) : v = w
    /\ Driving(c) = {} \/ Releasing(c) = {}
    /\ Driving(c) \cup Releasing(c) # {} => captainStatus[c] = "ON_RIDE"

(* The location handler sends positions to the cached ride without looking *)
(* at the database: the cache never names a ride that was not the          *)
(* captain's, whatever writes and deletes of it are late.                  *)
CacheNamesOwnRide ==
  \A c \in Captains : assignment[c] # NoRide => rides[assignment[c]].captain = c

(* The inductive invariant: every conjunct of it is needed to carry the    *)
(* three properties above over a step.                                     *)
IndInv == TypeOK /\ RowsOK /\ CallsOK /\ HoldsOK /\ CacheNamesOwnRide

(* Without faults no captain is left ON_RIDE: there is a ride, or a        *)
(* request on its way to release them.                                     *)
OnRideHasReason ==
  \A c \in Captains :
    captainStatus[c] = "ON_RIDE" => Driving(c) # {} \/ Releasing(c) # {}

(* What createRide says at l.46 of a ride whose matching failed: "BullMQ   *)
(* timeout job is guaranteed". A ride that searches has its timeout queued,*)
(* or the request or job that queues it is under way. True without faults; *)
(* with them it is not, see README.                                        *)
SearchHasTimeout ==
  \A r \in Rides : rides[r].status = "SEARCHING" =>
    \/ timeoutJob[r] = "delayed"
    \/ \E w \in Slots : At(w, "addTimeout") /\ call[w].ride = r
    \/ \E j \in DispatchIds : dispatchJob[r][j] = "active"

(* Without faults an immediate ride that was rejected often enough does    *)
(* not go on searching once its rejections have been counted, however the  *)
(* rejections interleave. (A scheduled ride may: the rejections recorded   *)
(* before its search began are counted only by the next one, l.577.)       *)
RejectedRideGivenUp ==
  \A r \in Rides \ ScheduledRides :
    rides[r].status = "SEARCHING" /\ GivenUp(r) =>
      \E w \in Slots : call[w].ride = r /\ call[w].step \in {"rejectCount", "rejectCancel"}

(* Without faults a search ends: with a captain or by its timeout.         *)
SearchEnds ==
  \A r \in Rides : rides[r].status = "SEARCHING" ~> rides[r].status # "SEARCHING"

(* A booking is not lost between its row and its job: it reaches matching, *)
(* or is cancelled, even when the request dies in between; only a dispatch *)
(* job that has itself failed stands in the way of the sweep (l.130).      *)
BookingReachesMatching ==
  \A r \in Rides :
    rides[r].status = "SCHEDULED" ~>
      \/ rides[r].status # "SCHEDULED"
      \/ \E j \in DispatchIds : dispatchJob[r][j] = "finished"

(* Without faults a captain whose ride is over gets out of ON_RIDE.        *)
CaptainReleased ==
  \A c \in Captains :
    (captainStatus[c] = "ON_RIDE" /\ Driving(c) = {}) ~> captainStatus[c] # "ON_RIDE"

(* What acceptRide says at l.416, of every captain: "Ensure the captain is *)
(* actually available (not on another ride)". False: see README.           *)
CaptainsDriveOneRide == \A c \in Captains : \A a, b \in Driving(c) : a = b
=============================================================================
