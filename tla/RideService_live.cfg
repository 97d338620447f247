\* Liveness without faults: one immediate ride, one captain, two requests at a time.
SPECIFICATION FairSpec
CONSTANTS
  r1 = r1  r2 = r2  c1 = c1  c2 = c2  s1 = s1  s2 = s2  s3 = s3
  NoRide = NoRide
  NoCaptain = NoCaptain
  Rides <- OneRide
  ScheduledRides <- NoRides
  Captains <- OneCaptain
  Slots <- TwoSlots
  MaxBroadcastRounds = 2
  FaultsAllowed = FALSE
PROPERTIES
  SearchEnds
  CaptainReleased
