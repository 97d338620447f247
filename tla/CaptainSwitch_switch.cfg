\* One captain; the captains have nothing in common here. Whatever is lost may be
\* lost. A captain whose page is left alone does nothing, so a behaviour may stop.
SPECIFICATION Spec
CONSTANTS
  c1 = c1
  Captains <- OneCaptain
  FaultsAllowed = TRUE
CHECK_DEADLOCK FALSE
INVARIANT SwitchInv
PROPERTIES
  LinkSpec
  SwitchRecovers
