\* One scheduled ride, one captain, one request at a time beside the jobs, faults.
SPECIFICATION FairSpec
CONSTANTS
  r1 = r1  r2 = r2  c1 = c1  c2 = c2  s1 = s1  s2 = s2  s3 = s3
  NoRide = NoRide
  NoCaptain = NoCaptain
  Rides <- OneRide
  ScheduledRides <- OneRide
  Captains <- OneCaptain
  Slots <- OneSlot
  MaxBroadcastRounds = 2
  FaultsAllowed = TRUE
PROPERTIES
  LifecycleSpec
  BookingReachesMatching
