# TripZo in TLA+

A verification project for the TripZo ride-hailing platform. The modules model what the
backend does to a ride, to a captain and to a login, and what the web application's pages
make of it: request handlers, queue jobs, socket events, polls and answers, interleaved at
every `await` and, where the code meets them, with crashes, lost messages and lost answers.
TLC checks small instances; TLAPS proves the safety properties for every value of the
constants.

Paths below are relative to `src/`. `ride.service.ts` stands for
`backend/src/services/ride.service.ts`, and so on.

## 1. Inventory

| component | state | operations | who it interacts with | module |
|---|---|---|---|---|
| Ride service (`ride.service.ts`) | Postgres `Ride`, `RideRejection` | create, schedule, accept, reject, cancel, arrive, start, complete, cancel by the system, start matching | writes `Captain.status`, the Redis key `ride_assignment:<user>`, queues and removes BullMQ jobs, emits to socket rooms | `RideService` |
| Ride queue (`rideQueue.ts`) | BullMQ jobs in Redis | `startMatching` at T-15, `cancelIfNoAssignment`, `reconciliation` every minute | updates `Ride`, calls the ride service | `RideService` |
| Captain status (`captain.service.ts`, `captain.controller.ts`) | Postgres `Captain.status`, positions in Redis | online, offline, queries | races the ride service for `Captain.status` | `RideService`, `CaptainSwitch`, `CaptainPresence`; the queries in `CaptainClient`, `RideHistory` |
| Socket server (`socket.ts`) | rooms, positions, the assignment cache | authenticate, join, `captain:location`, disconnect | reads `Ride`, writes the cache and `Captain.status` | `CaptainSwitch`, `CaptainPresence`; the cache in `RideService`, the events in `RiderClient` |
| Matching (`matching.service.ts`) | GEO set and metadata hash in Redis | nearby captains, clean-up of stale ones | called by the ride service | `CaptainPresence` |
| Sessions (`auth.controller.ts`, `middleware/auth.ts`) | Postgres `RefreshSession`, `recent_refresh:` and `denylist:` keys | login, refresh, logout, the check of every request | every request | `AuthSession` |
| API client (`frontend/app/lib/api/client.ts`, `proxy.ts`, `auth.store.ts`) | `isRefreshing`, `failedQueue` of each tab, the browser's cookies | request, refresh and retry after 401, login, logout, reload | sessions | `ApiClient` |
| Rider client (`useRiderSocket.ts`, `ride.store.ts`, `rider/page.tsx`) | `activeRide` | socket events, poll, booking, cancelling, reload | socket server, ride service | `RiderClient` |
| Captain client (`useCaptainSocket.ts`, `captain.store.ts`, `captain/page.tsx`, `captain.service.ts` of the frontend) | `isOnline`, `activeRequest`, `activeRide` | offers, countdown, poll, accept, decline, drive, switch, reload | socket server, ride service, captain status | `CaptainClient`; the switch against the status in `CaptainSwitch` |
| Captain's history (`CaptainRideHistory.tsx`) | page, filter, list, loading | turn, filter, refresh | captain service | `RideHistory` |
| Fare (`fare.service.ts`) | none | estimate | booking | not modelled |
| Controllers, routes, middleware, configuration, pages and maps | none of their own | pass on, validate, render | | the handlers the clients call |

What makes each correct:

* **Ride service, queue, captain status.** A ride goes through its lifecycle by single steps
  and has one captain; a captain drives one ride, and is ON_RIDE exactly while somebody is
  going to release them; a search ends; a booking is not lost.
* **Captain's switch.** Page and database say the same of a captain, and where an answer was
  lost or a disconnect handler came between, using the switch again repairs it.
* **Presence and matching.** A captain at work is found; one who is gone is not offered rides
  for ever; what a failure tears is repaired.
* **Sessions and API client.** The tokens of a login form a chain with one live end;
  concurrent refreshes of a page do not log it out; every waiting request is answered.
* **Clients.** The screen is never ahead of the server, comes to show the ride in hand, and
  lets go of one that is over, whatever the order and the loss of events, polls and answers.

What is hard: every handler is a sequence of awaits on three stores (Postgres, Redis, BullMQ)
without a common transaction. Two handlers interleave at any await; a handler may throw or
the process end at any await; jobs fire at times nobody controls; job ids outlive their jobs.
The pages have several writers of one variable (events, polls, answers, buttons), each with
what it read some time ago. The full list, with lines, is under `hazards` in `PROJECT.json`.

## 2. Modules

| module | what it is |
|---|---|
| `RideRows` | the `Ride` row: statuses, the guards' status sets, and the updates the code makes to a row |
| `RideLifecycle` | abstract: the `Ride` table moves by atomic lifecycle steps |
| `RideProgress` | abstract: the statuses a ride has one after the other, and nothing else; what the pages rely on |
| `RideService` | the ride service, the queue, the captain's status and the assignment cache, one action per await; implements `RideLifecycle`, and that `RideProgress` |
| `CaptainLink` | abstract: the captain's page, socket and status as far as positions depend on them, any answer heard or lost |
| `CaptainSwitch` | the switch and the accept of the page against the captain's status, one action per await, with lost requests and answers; implements `CaptainLink` |
| `CaptainPresence` | positions in Redis, searches and the page's watch on the position, over `CaptainLink` |
| `SessionChain` | abstract: every login starts a chain of tokens of which at most the last is live |
| `AuthSession` | login, refresh, logout and `requireAuth`, one action per await; implements `SessionChain` |
| `ApiClient` | the tabs of a browser over `AuthSession`: cookies, requests, the single refresh and its queue |
| `RiderClient` | the rider's page over a server that emits late and a socket that loses |
| `CaptainClient` | the captain's cockpit over the rides, with lost requests and answers |
| `RideHistory` | the captain's history: an effect, its fetches and their answers |
| `CaptainPage` | the two composed as the tabs of the captain's page |
| `MCRideService`, `MCApiClient`, `MCCaptainSwitch`, `MCCaptainPresence`, `MCRiderClient`, `MCCaptainPage` | the small instances TLC checks |
| `RideServiceProofs`, `RideServiceFaultProofs`, `CaptainSwitchProofs`, `CaptainPresenceProofs`, `AuthSessionProofs`, `ApiClientProofs`, `CaptainPageProofs`, `RiderClientProofs` | the theorems and their proofs |

### How RideService corresponds to the code

`rides`, `captainStatus`, `rejections` are the Postgres tables; `assignment` the Redis keys;
`timeoutJob` and `dispatchJob` the BullMQ jobs by their fixed ids; `sweep` the rides a running
reconciliation job still has to look at. `call` holds the requests being handled, one per
slot: the await each is at, the ride and captain it is about, and the row it has read.
`overridden` is a history variable, read by properties only.

A handler is a chain of actions, one per await that reads or writes shared state:

* `acceptRide`: `AcceptReadCaptain`, `AcceptReadRide`, `AcceptCheckRejection`, `AcceptCommit`
  (the transaction, with its rollback), `AcceptCache`, `AcceptRemoveJob`.
* `cancelRide`: `CancelReadRide`, `CancelCommit`, `CancelRemoveJob`, `CancelReadCaptain`,
  `CancelReset`, `CancelUncache`.
* `markCaptainArrived`, `startRide`, `completeRide`: a read and a commit; the last goes on
  with `CompleteReset` and `CompleteUncache`.
* `rejectRide`: `RejectReadRide`, `RejectUpsert`, `RejectCount`, then `RejectCancel`
  (`cancelRideBySystem`) or the timer's `AddTimeout`.
* `createRide`: `CreateRide`, `AddTimeout`. `createScheduledRide`: `CreateScheduledRide`,
  `AddDispatch`.
* `setCaptainStatus`: `SetStatusRead`, then `SetOnline` or `SetOffline`. `Disconnect` is one
  conditional update. `captain:location` contributes `RecacheReadRide` and `Recache`.
* the jobs: `TimeoutFires`; `DispatchMoves`, `DispatchAddsTimeout`; `SweepReads`,
  `SweepHandles`.
* faults, when `FaultsAllowed`: a handler or a timer stops at its await (`Abort`), a job
  throws and its id stays (`TimeoutFails`, `DispatchFails`, `SweepFails`), Redis is not ready
  and a cache write is skipped (the second disjunct of `AcceptCache` and `Uncache`).

Abstractions, and why they are sound here:

* A ride is its status, captain and version: no guard of these handlers reads another column.
  `NONE` is a ride that has not been inserted; ids are not reused.
* Time is left out: a delayed job may run at any moment after it was queued, and a scheduled
  ride may be found due at any moment. Everything a real clock allows is allowed.
* Authorisation adds no behaviour: a captain who cancels does what the rider's cancel does.
  A request that is turned away before it writes is a stuttering step.
* Emits and re-reads after the last write are left out: they change no state of the service.
* The job of a sweep is one at a time; overlapping sweeps add nothing, because `SweepHandles`
  decides on the jobs present, and a sweep that fails forgets its list.
* `job.remove()` on a job that is running throws and is swallowed by the code; the timeout job
  is atomic here, so that case does not arise. It could only leave a kept id behind for a
  ride that no longer searches.
* `getOrCreateCaptain` is done: captains exist from the start, OFFLINE.

### CaptainSwitch, CaptainLink, CaptainPresence

What the page and the database say of a captain, and where the captain is, are two models,
because together they are too large to check. `CaptainLink` is what they share.

`CaptainSwitch` has the requests by their awaits. `status` and `ride` are the captain's row
and the ride they drive; `online` and `named` the page: its switch, and whether it shows a
ride; `toggle` the switch's request and `waiting` whether the page still waits for its answer;
`accept` the request that accepts a ride; `link` the page's socket. `ghosts` are connections
the server has not found gone yet, `leaving` disconnect handlers before their status update.

* `handleOnlineToggle` and `setCaptainStatus`: `Toggle`, `ReadStatus`, `UpdateStatus`, then
  `Register` or `Unregister` with the answer. `SwitchFails` is a request or a query that
  fails before the status is written, `GiveUp` an answer that never comes: the catch of the
  page leaves `isOnline` as it was, and the server goes on.
* `handleAccept` and `acceptRide`: `AskAccept`, `Accept` (the commit, which may fall between
  the two halves of the switch), `AcceptRefused`, `AcceptAnswered`; `AcceptUnheard` is the
  loss of the answer, before or after the commit.
* `RideEnds` and `Release`: the end of the ride and the captain's reset after it, unconditional
  as in `completeRide`, conditional as in `cancelRide`, or lost.
* `Connect`, `Drop`, `Notice` and `ResetStatus`: the socket and the disconnect handler.
  `Reload`: the page starts again from `getCurrentState`, and hears no answer any more.
* `astray` is a history variable: the captains of whom page and database may say different
  things, each action saying why. It is the measure of `PagesAgree`, and no step reads it but
  to carry it on.

`CaptainLink` leaves open who takes a step and which answer is lost: the status is written
and the page goes online, or not (`WriteStatus`, `Registered`, `Unregistered`); somebody else
makes the captain unavailable (`Withdrawn`) or available (`Released`); the page shows a ride,
reloads, connects, drops. That `CaptainSwitch` does no more than that is checked by `switch`
and proved (`SwitchLinks`), so `CaptainPresence` has every page that `CaptainSwitch` has, those
that are astray included.

In `CaptainPresence`, `geo` and `meta` are the GEO set and the metadata hash.

* `Register` and `Unregister` are the two Redis writes of `setCaptainStatus`, of which a
  failure may leave one; `Notice` is the unawaited removal of the disconnect handler; `Page` is
  every step of `CaptainLink` that leaves the positions alone.
* `captain:location` is `Report` (received), `Check` (the stored timestamp), `Write`. Commands
  of the one Redis connection run in the order they are sent, so `writes` is a sequence.
* `getNearbyCaptains` is `SearchGeo`, `SearchMeta`, `CleanUp` with the filter by status, or
  `SearchThrows`.
* A time is kept as its age: `Tick` makes everything one unit older, and `MaxAge` units are
  the code's two minutes. A captain's clock may make a timestamp look older or newer (`skew`).
* `silent` is a history variable: how long ago the server last heard from a captain.

Places are left out: a search is of a place near the captains. Outside production the search
falls back to every AVAILABLE captain when nobody near is fresh; the model is of production.

### AuthSession and ApiClient

A token stands for the pair of access and refresh token handed out together. `sessions` is
the `RefreshSession` table, `recent` the grace cache, `denied` the denylist; `call` are the
requests being handled. `refresh` is `LookRecent`, `FindSession`, `DeleteExpired` or
`DeleteOld` (whose count names the winner of a race), `LookAgain` for the loser, `CreateNew`,
`WriteRecent`; `logout` is `LogoutDelete`, `LogoutDeny`. `Admits` and `Refuses` are
`requireAuth`; that it answers 401 to a good token when the denylist's query throws is
`DenylistThrows` of `ApiClient`. `Fail` is a query that throws, or a process that ends; a disjunct with
`FaultsAllowed` is Redis missing. Time is `SessionExpires`, `AccessExpires`, `RecentExpires`.

In `ApiClient` the interceptor on a 401 is `Unauthorized`: the retried request fails, one that
meets `isRefreshing` waits in `failedQueue`, another starts the refresh. `Refreshed`,
`RefreshRefused` and `RefreshLost` are the outcomes, each with its processing of the queue;
`SignIn`, `SignedIn`, `Logout`, `LoggedOut` are the pages, `Visit` the redirect of `proxy.ts`.
`excused` is a history variable: the logins whose end has a known reason. It is the measure of
`LoginHasReason`; every step that gives a login a reason to end adds to it, and no step reads
it.

### RiderClient

`view` is the store's `activeRide`. Its writers are `Receive` (the listeners of
`useRiderSocket`, most of them attached only while some ride is shown), `Take` (the poll's
answer, read earlier by `Ask`), `Booked` and `Cancelled` (answers), `TrackLiveSearch` (the
list of reservations) and `Reload`. The server's steps (`CaptainMoves`, `ServerCancels`,
`ServerSearches`) commit and put an event in `due`; `Emit` reads the row again, perhaps later,
and appends it to the socket `inbox`, which `Break` empties. `missed` is a history variable:
the rides whose end the page was not told, or may be told something older after. `Cancel`
announces the cancellation of either ride, also of a reservation the page does not show: the
listener clears whatever ride it shows, and the poll has to bring that back. `Emit` sends with
every kind of event the row's status of then or of now, also with the search's own.

### CaptainClient, RideHistory, CaptainPage

`online`, `request`, `ride` are the store. `accept`, `update`, `toggle`, `rejects` are the
requests under way, `restore` is `getCurrentState` after a load of the page. A request is sent
(`Accept`, `Press`, `Toggle`, `Decline`), handled (`AcceptRide`, `UpdateRide`, `SetStatus`,
`RejectRide`), perhaps lost on its way or with its answer (`Faults`, `Answers`), and answered
(`AcceptAnswered`, `UpdateAnswered`). Offers come from `NewRide`, `Poll` and `Claim`, and go by
`Expire`. The server's handlers are single steps here; their own races are `RideService`'s
subject. `unknown` is a history variable: the rides whose row no answer could tell the page. The rides
implement `RideProgress` here too.

`RideHistory` is the component's effect: a change of page or filter fetches (`Effect`), an
answer sets the list, the number of pages and the page itself (`FetchAnswered`), which the
effect watches. `disturbed` is a history variable: has a fetch failed or overtaken another?
`CaptainPage` mounts the history while its tab is chosen.

The operators named after another one with a suffix (`Unchanged_NoCheck`) are faulty variants
used to show that each property can fail; no specification uses them.

## 3. Properties and runs

| run | instance | shows |
|---|---|---|
| `race` | 1 immediate ride, 2 captains, 3 requests (at most 2 before their first write), no faults | `IndInv`, `CacheNamesOwnRide`, `OnRideHasReason`, `SearchHasTimeout`, `RejectedRideGivenUp` (0.8 million states) |
| `tworides` | 2 immediate rides, 1 captain, 2 requests, no faults | `OneRidePerCaptain`, `DrivingIsOnRide`, and that it implements `RideLifecycle` (1.0 million states; the theorems cover faults) |
| `faults` | 1 scheduled ride, 1 captain, 1 request beside the jobs, faults, fairness | it implements `RideLifecycle`; `BookingReachesMatching` (18 508 states) |
| `live` | 1 immediate ride, 1 captain, 2 requests, no faults, fairness | `SearchEnds`, `CaptainReleased` (19 048 states) |
| `tab` | 1 tab with 2 requests, 2 calls, 3 tokens, 1 login, faults, fairness | `SessionInv`, `QueueIsServed`, `EndedStaysEnded`, `LoginHasReason`, `RequestsSettle`, and that the sessions implement `SessionChain` (823 266 states) |
| `switch` | 1 captain, every loss of a request, an answer or a connection, fairness | `SwitchInv`, `SwitchRecovers`, and that it implements `CaptainLink` (7 095 states) |
| `found` | 1 captain with a slow clock, 2 positions at a time, faults, fairness | `PresenceInv`, `PresentIsHeard`, `TornBySwitchOnly`, `FoundAgain`, `GoneNotOffered`, `TornRepaired` (388 800 states) |
| `page` | an immediate ride and a reservation, 1 poll, 2 events on their way, faults, fairness | `RiderInv`, `EndIsComing`, `RiderSeesRide`, `SearchReleased`, `RideLeavesView` (47 714 states) |
| `cockpit` | 2 rides booked one after the other, a history of 2 pages under one filter and none under another, faults, fairness | `CaptainInv`, `PageKnowsRide`, `RideCanBeFinished`, `HistoryInStep`, `HistorySettles`, and that its rides implement `RideProgress` (161 254 states) |
| `double` | 2 rides, 1 captain, 2 requests, no faults | *violation* of `CaptainsDriveOneRide` |
| `timeout` | 1 ride, 1 captain, 2 requests, faults | *violation* of `SearchHasTimeout` |
| `absorbed` | 2 tabs with 1 request each, no faults | *violation* of `ConcurrencyAbsorbed` |

### Bounds

* **RideService.** Rows, versions and job states are finite without a bound of their own: a
  ride's version grows by at most one per lifecycle step. The named bounds are the numbers of
  rides, captains and slots, `MaxWriters`, and `MaxBroadcastRounds` (3 in the code; 2 in
  `race`, so that two captains can reach it, and 1 where one captain must). Three slots, of
  which at most `MaxWriters` = 2 have not written yet, let an accept and a competitor race for
  their writes while a third request is still at the calls that follow its own; two rides and
  one captain are what it takes to drive two rides; one slot beside the jobs suffices where
  the race is between a job and a request. The slots, and the captains or rides, are symmetric
  in the runs that check invariants; the runs with liveness use no symmetry.
* **ApiClient.** `MaxLogins` = 1: two calls and three tokens are two refreshes, one after the
  other or at a time. `TokensInOrder` and `RequestsInOrder` keep one of several equivalent
  orders in which tokens are issued and requests sent. One logout at a time (`LoggingOut`), a
  reload only while the tab refreshes (otherwise it loses requests only), no expiry of a
  token that nobody presents any more, since nothing would notice it, and a denylist query
  that throws only while no other request and no call is under way (`DenylistThrows`). The theorems have no
  bound on tabs, requests, calls, tokens or logins.
* **CaptainPresence.** `MaxAge` = 4 units of half a minute, clocks one unit slow: the
  assumption on `Skews` leaves room for the three delays that `FoundAgain` names. `MaxReports`
  = 2 positions of a captain at work under way together, one otherwise (`Room`): two are what
  it takes to write an older position last. A silence is counted up to `Unheard` = 2 `MaxAge`,
  which is longer than any of the properties tells apart. One captain: no two of them share anything here
  but the searches, which treat each alone; the theorems have any number.
* **CaptainSwitch.** One captain, who shares nothing with the others. The server is done with
  the captain's last request of the switch, and of an accept, before the next of its kind
  (one of each may overlap); one connection that the server has not found gone, and one
  disconnect handler under way; one ride at a time, of a captain the last one has released
  (two at a time are the run `double`); a page that is loaded restores itself at once (what
  comes between is `CaptainClient`'s). The same connections bound `CaptainLink`.
* **RiderClient.** `MaxEvents` = 2 events on their way, `MaxMixedEvents` = 1 while the rider has
  two rides: two are what it takes to overtake, and with two rides one is what 5 minutes
  leave room for. The theorems have no bound on either.
* **CaptainPage.** What another captain does with the ride he took is left out
  (`TakenByOther`). The captain waits for an answer before the next request (`Waiting`),
  except that a declined ride may be offered again at once; he leaves the page when no request
  is on its way to the server; he opens the history when the cockpit rests (`AtRest`).

### Fairness

* **RideService.** Node resumes a handler when its await settles, so a request that is under
  way continues (`WF` of `RequestContinues`). BullMQ runs jobs whose delay is over (`WF` of
  `JobRuns`). The reconciliation job is repeated every minute: a ride that is SCHEDULED at
  infinitely many sweeps is found and handled by one of them even if others fail (`SF` of
  `SweepFinds` and `SweepHandles`).
* **ApiClient.** The server answers, the network delivers and the tab's event loop runs (`WF`
  of what a request or a call does next). Nobody has to log in, and no token to expire.
* **CaptainPresence.** Handlers run, the server finds a dead connection by its ping timeout,
  time passes. Searches and reports are premises of the properties (`SearchesGoOn`), not
  fairness: nobody is bound to book or to drive.
* **CaptainSwitch.** Handlers run, and the server finds a dead connection. `SwitchRecovers` has
  its premises in itself: the captain goes on using the switch, requests get through now and
  then, and from some point on answers are heard and the page is neither reloaded nor cut off.
* **RiderClient.** Events are emitted and delivered and answers arrive; the page polls for
  ever, and not every poll fails (`SF` of `Take`); a search that goes on for ever meets its
  timeout (`SF`: `RideService` shows under which conditions, `SearchEnds`).
* **CaptainClient.** Answers come, and of repeated updates and restorations not all are lost
  (`SF`). That the captain presses the button of his ride and reloads a page that is out of
  step is the premise `Diligent` of `RideCanBeFinished`.
* **RideHistory.** Every fetch is answered or fails.

No fault is bound to happen or not to.

**Without faults only.** `OnRideHasReason`, `SearchHasTimeout`, `RejectedRideGivenUp`,
`SearchEnds` and `CaptainReleased` are false with faults, and checked without: the code has
no repair for a handler that dies after its commit. Which faults break the first three, and
that no other fault does, is proved (`RideServiceFaultProofs`). `CaptainReleased` has the same hole as
`OnRideHasReason` (`ride.service.ts:367`), `SearchEnds` that of `SearchHasTimeout` (l.127, the
run `timeout`).

**Deadlock** is checked in the runs of `RideService`, in `page` and in `cockpit`. It is not
checked in `tab` and `absorbed`, where every request is made once and the logins are bounded,
nor in `found` and `switch`, where a behaviour may stop when no captain has to do anything
more.

### What the properties do not promise

Some of them name the exceptions the code has, and each is a behaviour the model has too:

* `PageKnowsRide` leaves out the rides in `unknown`. An accept whose answer was lost, an
  accept before `getCurrentState` had answered, and a ride hidden behind one booked later are
  not shown until a reload, the last not even then.
* `RideLeavesView` leaves out the rides in `missed`. For a ride with a captain the poll's empty
  answer clears nothing (`rider/page.tsx`), so a lost `ride:completed` leaves it on the screen.
* `HistoryInStep` and `HistorySettles` need a history that was never `disturbed`. Two answers
  for different pages set the page in turn, and the effect fetches again at each.
* `PagesAgree` (of `SwitchInv`) leaves out the captains in `astray`. A captain goes astray when the
  answer of the switch is lost after the status was written (`captain/page.tsx:162-164`), when
  the answer of an accept is (l.200), when an accept commits between the two halves of
  `setCaptainStatus`, when a disconnect handler or the release after a ride changes the status
  behind the page's back, or when a reload restores less than there was. `SwitchRecovers` says
  that one who may use the switch gets out of it by using it.
* `FoundAgain` is about a captain who is AVAILABLE and online for good. One who is astray, with a
  page that shows itself online and reports while the database has them OFFLINE, is never
  found, and the page gives no sign of it.
* `EndIsComing` and `RideLeavesView` say nothing of a ride in `missed`; a lost or spurious
  `ride:cancelled` (of a reservation, while another ride is shown) is made good by the poll,
  which is `RiderSeesRide`.

### Disagreements with the code's own words

1. `double` - `ride.service.ts:416` and `captain.service.ts:29` say that a captain on a ride
   can neither accept nor change status. `setCaptainStatus` checks at l.30 what it read at
   l.27 and writes without a condition at l.34. An accept that commits in between is
   overwritten; the captain accepts again and drives two rides. The theorems `OneRide` and
   `DrivenOnRide` say that this is the only way: they hold of every captain whose ON_RIDE was
   never written over.
2. `timeout` - `ride.service.ts:46` ("timeout job is guaranteed") and l.125 ("always runs").
   The job is queued by a later call, in a function whose error is swallowed. The theorem
   `SearchUntilTimeoutLost` says which faults break it, and that nothing else does: a step that
   dies on the way from the write of the row to the queue, and a timeout job that fails.
3. `absorbed` - `auth.controller.ts:132-133` ("return the cached token pair instead of
   throwing an error or logging out"). The pair is cached at l.203, after the old session was
   deleted at l.164 and the new one created; a second tab in between finds neither and is
   refused. The theorem `LoginForAReason` says that a second tab, or a fault, is needed.

A fourth is modelled but has no run of its own: `ride.service.ts:781` says "Set captain back to
AVAILABLE if they are still ON_RIDE", and the update has no condition. A captain whose setOffline
overwrote ON_RIDE is made AVAILABLE by the completion while the page is offline: `CompleteReset`
of `RideService`, and `Release` of `CaptainSwitch`, where such a captain is astray.

## 4. Proofs

All proofs are for every value of the constants, under the assumptions named with them:
`NoCaptainAssumption` and `RideAssumption` (null values are not captains or rides, scheduled
rides are rides, `MaxBroadcastRounds` is positive), `AuthAssumption`, `ClientAssumption`
(every request belongs to a tab), `LinkAssumption` and `SwitchAssumption` (`FaultsAllowed` is a
Boolean), `PresenceAssumption` (clocks are wrong by less than two minutes),
`CockpitAssumption`, `HistoryAssumption`, `RiderAssumption`.

### RideServiceProofs

`Invariance`: `Spec => []IndInv`, and from it `TypeCorrectness`, `OneRide`, `DrivenOnRide` and
`CacheOwn`; `Refinement`: `Spec => LifecycleSpec`, and from it `ServiceProgress`
(`Spec => Progress!Spec`) and `SettledStaysSettled`: no commit, timeout, sweep or rejection
that comes late writes a ride that is over, or takes a ride from its captain. With and without
faults.

**The invariant.** `OneRidePerCaptain` is not inductive. That a captain who drives is ON_RIDE
says nothing about a request that has ended their ride and is about to make them AVAILABLE:
were there two of these, or one beside a next ride, the reset would free a driving captain.
`HoldsOK` says that a captain is held by at most one ride or one such request, and is ON_RIDE
as long as they are held. To carry it over `CancelCommit` one must know that the captain to
release, taken from the row read earlier, is still the row's captain. `CallsOK` says what
each request knows at each await: the row it read is the row still, or the row's version has
passed it, so that a commit that passes the version check writes the row it read. `RowsOK`
says that a ride not inserted yet is the empty row, and that a SCHEDULED or SEARCHING ride has
no captain.

**The argument.** Lemma `Writers` lists which actions write each variable. `WritersRefine`
maps each write of `rides` to a lifecycle step; `LifecycleMovesRows` derives that versions
only grow and a captain, once there, stays. From that `CallKept` shows that a request which
does not move keeps what it knows, `ContinuationMoves` that one which moves knows what its
next await needs. `HoldStep` looks at the few steps that change who holds a captain: the
accept (`AcceptHolds`), the two commits that end a ride (`EndHolds`), the two resets
(`ResetHolds`), and the status changes (`StatusHolds`).

### RideServiceFaultProofs

`OnRideHasReason`, `SearchHasTimeout` and `RejectedRideGivenUp` are false with faults. For each
the module names the faults that break it and proves it of every behaviour in which these do
not happen, whatever else fails: `OnRideUntilReleaseLost` (a request dies between the commit
that ends a ride and the reset of the captain), `SearchUntilTimeoutLost` (the timeout of a
searching ride fails, or the dispatch or the request dies that has still to queue it),
`RejectedUntilCountLost` (a request dies between the record of a rejection and what its count
asks for). Crashes elsewhere, failed sweeps and a missing Redis are allowed. `OnRideReason`,
`SearchTimeout` and `RejectedGivenUp` are the special case `~FaultsAllowed`, which the runs
check.

The key is `OwnStep`: a request moves only by its own steps or dies, so one that has
undertaken something goes on to do it. A request that releases a captain stays on its way
until it has (`ReleaserGoesOn`), and a ride leaves a captain only into such a request's hands
(`DrivenOn`). The timeout job, once delayed, is removed only by requests that know the ride
has left SEARCHING, and added by the request or the dispatch that made it search (`Know`).
Rejections are counted by each request after its own was recorded, so the one that records the
last finds enough of them; the proof carries what such a request knows of the ride.

### CaptainSwitchProofs

`SwitchAgrees`: `Spec => []SwitchInv`, for any number of captains, whatever is lost. `SwitchInv` is
inductive: beside what the page says at rest it says, of a captain who is not astray, what
the status is at each await of the switch and that a ride accepted is on the screen or in an
answer that is still to come. The hard steps are those that end a captain's being astray
(`UpdateStatus`, `Release`, `Reload`): they must leave page and database in agreement
(`MadeAvailable`, `MadeUnavailable`), or about to agree with an answer that is still awaited.

`SwitchLinks`: every step is a step of `CaptainLink` or leaves page, socket and availability as
they were (`LinkStep`). It is the safety half of `LinkSpec`; its fairness is checked by TLC.

### CaptainPresenceProofs

`PositionsHeard`, `PresentWasHeard` and `OnlySwitchTears`, for any number of captains, clocks and
positions under way, with and without faults. What a search finds in
Redis is as fresh as it says only if nothing under way can make it look fresher: `HeardInv`
says of the stored timestamp, of every position received and of every position checked that
its captain was heard from no longer ago than its age and the lead of the captain's clock. A
position is born so (`Report`), and ages with its captain's silence (`HeardStep`); hence no
order of writes matters. `MetaStep`, `WritesStep` and `ResolvingStep` say what any step may do
to the three. For `OnlySwitchTears` it is enough that whoever writes or removes a position
elsewhere does so with its metadata, and that an age never becomes "none".

### AuthSessionProofs and ApiClientProofs

`SessionInvariance` (`SessionInv` is inductive), `SessionRefinement` (`DeleteOld` by the winner
is a stutter of the chain, `CreateNew` its rotation) and `LogoutIsFinal`, of any clients that
present tokens they were given.

`ClientUsesServer` shows that the browser is such a client, so that the three hold of the
composition. `ClientInvariance` is the invariant of both: `TabsRefresh` says that a tab
refreshes exactly while one call, and no other, does it for the tab, and `Waiters` that its
queue is the set of its requests that wait, from which `QueueServed` follows. `Reasons` says that every token given out is excused or can still be exchanged (it
has a session that has not expired, or a cached successor, or a call that is just replacing
it), and what each call knows of its token at each await; a call that is refused therefore
has an excuse, which is `LoginForAReason`. That two refreshes of one token are under way only
with an excuse rests on `TabsRefresh`: the second would have to come from another tab.

### CaptainPageProofs

`OnlyHisRides`, `RideOnScreen`, `ListInStep`, `AnswersSettle` and `CaptainRidesProgress`. `PageKnowsRide` is about a page
that waits for nothing; the invariant says where the knowledge of the ride is in between: in
the answer of the accept or the update, in what `getCurrentState` has read, or on the screen
(`RideKnown`). It needs that the server has the captain on one ride at a time (`ServerOK`),
that accept and update are never under way together (`PageOK`), and that what was done before
the page had restored itself is in `unknown` (`Early`). `NewestKnown` makes the `CHOOSE` of
`getCurrentState` and of the active request a ride; that a part of rides with a newest one has
a newest one (`NewestOfPart`) is by well-foundedness of `<` on the naturals. The history's
invariant: as long as nothing went wrong there is at most one fetch, for what is marked.

### RiderClientProofs

`ShowsThePast`: `RiderInv`. No step takes a ride back in the order of its statuses
(`RidesStep`), so what is behind the rides stays behind them (`BehindStays`); whatever is
written on the page, or sent to it, is read from the rides or from something that was behind
them already. `CreatedListed` makes the poll's answer a ride.

`EndIsHeardLast`: of a ride that is over and not in `missed`, the page shows nothing, or the
event of its end is on its way and is the last the page hears of it. That is no invariant by
itself: an older event, poll or answer could put the ride back on the page after the end was
heard. `EndsLast` adds that nothing older about the ride is anywhere on its way
(`NothingOlder`); `EndBegins` shows it at the moment the ride ends, `EndStays` while the rest
is delivered, and `MissedStays` that a ride does not leave `missed`.

### One ride, two models

The captain's page is modelled over rides that move by single steps, and the service over its
awaits. That they speak of the same ride is proved: `ServiceProgress` and `CaptainRidesProgress`
say that both implement `RideProgress`. For the service it follows from `Refinement`, as
`RideLifecycle` implements it (`LifecycleProgresses`); for the page it rests on the guards of
the server's handlers, which meet stale requests of the page. (That the page meets every
order the service has is not proved. The rider's page writes no ride but by its requests:
its rides move by the steps of `RideProgress` by construction.)

### With TLC only

Liveness, which needs fairness and ENABLED: `SearchEnds`, `CaptainReleased`,
`BookingReachesMatching`, `RequestsSettle`, `SwitchRecovers`, `FoundAgain`, `GoneNotOffered`,
`TornRepaired`, `RiderSeesRide`, `SearchReleased`, `RideLeavesView`, `RideCanBeFinished`. Every invariant,
action property and refinement that a passing run checks is also a theorem, but for the
fairness of `LinkSpec`.

## 5. Hazards without a property

Five of the listed hazards are not covered by a property, because the code promises nothing
that a property could state:

* `cancelRide`'s late delete of the assignment cache (`ride.service.ts:373`), repaired by the
  next position;
* a dispatch job that failed and keeps its id, so that the sweep skips the ride
  (`rideQueue.ts:130`): `BookingReachesMatching` leaves such a ride out;
* a page that goes on naming a cancelled ride (`socket.ts:164`): `FoundAgain` leaves it out;
* two fetches of the history under way at once (`CaptainRideHistory.tsx:34`): `HistoryInStep`
  and `HistorySettles` leave such histories out;
* the reconnection with the token of the login (`socket.client.ts:58`): the handshake is not
  modelled.

## 6. Not modelled

* **Fare** (`fare.service.ts`): a pure function of one request over real arithmetic (haversine);
  without the distance a maximum and three comparisons are left.
* **Forms, autocompletion, maps, geolocation**: browser and Google APIs whose state nothing
  else depends on. Of the booking forms and the reservations lists, the requests they send and
  the rides they open are in `RiderClient` and `CaptainClient`; filters, countdowns and
  rendering are not.
* **Registration** issues tokens as login does; `me` and the other queries only read.
* **The handshake and the ride rooms of the socket server**: every event also goes to the
  user's own room, which the server joins on connection.
* **Validation, routing and error mapping**: pure functions of one request. The answer of a
  handler that throws is a fault.
* **Configuration, start-up and shut-down.**
* **Dead code**: `RideControls.tsx` and `IncomingRequestModal.tsx` are imported by no file.

## 7. Plan

Done: the ride service with its theorems, with and without faults; the captain's switch,
presence and matching; the
sessions with their client; both clients; the history; the ride that service and captain share. What
could follow:

1. Two captains in `CaptainPresence`, for offers that compete, when the state space allows it.
2. The safety half of the liveness properties: what is still under way while a search, a
   booking or a waiting request has not ended, as theorems.
3. The handshake of the socket with the token of the login.
