-------------------------- MODULE MCAircraftStore ---------------------------
(* Instances of AircraftStore for TLC: two places on one meridian, farther *)
(* apart than an aircraft can fly in one tick and than a coverage of one   *)
(* place tolerates, but near enough for a coverage to grow to both.        *)
EXTENDS AircraftStore

TwoPlaces == {0, 2}
=============================================================================
