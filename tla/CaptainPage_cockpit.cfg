\* One captain and two rides, the second booked after the first; answers may be
\* lost. A history of two pages, without a completed ride.
SPECIFICATION PageSpec
CONSTANTS
  r1 = r1
  r2 = r2
  c1 = c1
  Rides <- TwoRides
  CreatedAt <- InOrder
  Captains = {c1}
  NoCaptain = NoCaptain
  NoRide = NoRide
  FaultsAllowed = TRUE
  Filters <- TwoFilters
  All = "ALL"
  PagesOf <- Pages
  FetchesFail = TRUE
INVARIANT CaptainInv
INVARIANT PageKnowsRide
INVARIANT HistoryInStep
PROPERTIES
  RidesProgress
  RideCanBeFinished
  HistorySettles
