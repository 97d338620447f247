\* One rider with an immediate ride and a reservation, one poll at a time, two
\* events on their way, or one while there are two rides; the socket may break,
\* polls may fail, the page may be reloaded.
SPECIFICATION Spec
CONSTANTS
  r1 = r1
  r2 = r2
  p1 = p1
  c1 = c1
  Rides <- TwoRides
  ScheduledRides <- Reservation
  Polls = {p1}
  Captains = {c1}
  NoCaptain = NoCaptain
  NoRide = NoRide
  MaxEvents = 2
  MaxMixedEvents = 1
  FaultsAllowed = TRUE
INVARIANTS
  RiderInv
  EndIsComing
PROPERTIES
  RiderSeesRide
  SearchReleased
  RideLeavesView
