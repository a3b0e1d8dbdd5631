------------------------------- MODULE MCShift -------------------------------
(* One driver, whose vehicle is verified and not selected yet. *)
EXTENDS Shift, TLC

CONSTANTS ali, s1, s2, r1, r2

OneDriver   == {ali}
TwoSignings == {s1, s2}
TwoReports  == {r1, r2}
Unselected  == {<<"VERIFIED", FALSE>>}

=============================================================================
