-------------------------------- MODULE MCTrip --------------------------------
(* An instance of Trip for TLC. *)
EXTENDS Trip, TLC

CONSTANTS j1, d1, d2, c1, c2, c3

OneJob     == {j1}
TwoDrivers == {d1, d2}
ThreeCalls == {c1, c2, c3}

Symmetry == Permutations({d1, d2}) \cup Permutations({c1, c2, c3})

=============================================================================
