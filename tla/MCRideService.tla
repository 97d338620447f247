---------------------------- MODULE MCRideService ----------------------------
(* Small instances of RideService for TLC. *)
EXTENDS RideService, TLC

CONSTANTS r1, r2, c1, c2, s1, s2, s3

OneRide     == {r1}
TwoRides    == {r1, r2}
NoRides     == {}
OneCaptain  == {c1}
TwoCaptains == {c1, c2}
OneSlot     == {s1}
TwoSlots    == {s1, s2}
ThreeSlots  == {s1, s2, s3}

SlotAndCaptainSymmetry == Permutations(ThreeSlots) \cup Permutations(TwoCaptains)
SlotAndRideSymmetry == Permutations(TwoSlots) \cup Permutations(TwoRides)
SlotSymmetry == Permutations(TwoSlots)

(* MaxWriters, the bound of the race run: of the requests under way at     *)
(* most this many are still before their first write. The others have      *)
(* written and are at the calls that follow it.                            *)
MaxWriters == 2
BeforeWrite ==
  {"acceptReadRide", "acceptCheckRejection", "acceptCommit", "cancelCommit",
   "arriveCommit", "startCommit", "completeCommit", "rejectUpsert", "goOnline",
   "goOffline", "recache"}
FewWriters ==
  Cardinality({w \in Slots : call[w].step \in BeforeWrite}) <= MaxWriters
=============================================================================
