\* One immediate ride, two captains, three requests at a time, two of them before
\* their first write, no faults.
SPECIFICATION Spec
CONSTANTS
  r1 = r1  r2 = r2  c1 = c1  c2 = c2  s1 = s1  s2 = s2  s3 = s3
  NoRide = NoRide
  NoCaptain = NoCaptain
  Rides <- OneRide
  ScheduledRides <- NoRides
  Captains <- TwoCaptains
  Slots <- ThreeSlots
  MaxBroadcastRounds = 2
  FaultsAllowed = FALSE
SYMMETRY SlotAndCaptainSymmetry
CONSTRAINT FewWriters
INVARIANTS
  IndInv
  CacheNamesOwnRide
  OnRideHasReason
  SearchHasTimeout
  RejectedRideGivenUp
