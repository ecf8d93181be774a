------------------------------- MODULE MCHotel -------------------------------
(* Instances of Hotel for TLC. *)
EXTENDS Hotel, TLC

\* Occupants are alike; for runs without liveness properties.
OccupantSymmetry == Permutations(Occupants)
=============================================================================
