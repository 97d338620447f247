\* Two immediate rides, one captain, two requests at a time. No faults.
SPECIFICATION Spec
CONSTANTS
  r1 = r1  r2 = r2  c1 = c1  c2 = c2  s1 = s1  s2 = s2  s3 = s3
  NoRide = NoRide
  NoCaptain = NoCaptain
  Rides <- TwoRides
  ScheduledRides <- NoRides
  Captains <- OneCaptain
  Slots <- TwoSlots
  MaxBroadcastRounds = 1
  FaultsAllowed = FALSE
SYMMETRY SlotAndRideSymmetry
INVARIANTS
  OneRidePerCaptain
  DrivingIsOnRide
PROPERTIES
  LifecycleSpec
