\* One captain, whose clock is behind by half a minute; two positions at a time;
\* Redis and the connection may fail. Nobody is bound to do
\* anything, so a behaviour may stop.
SPECIFICATION Spec
CONSTANTS
  c1 = c1
  Captains <- OneCaptain
  MaxAge = 4
  Skews = {1}
  MaxReports = 2
  FaultsAllowed = TRUE
CHECK_DEADLOCK FALSE
INVARIANT PresenceInv
PROPERTIES
  PresentIsHeard
  TornBySwitchOnly
  FoundAgain
  GoneNotOffered
  TornRepaired
