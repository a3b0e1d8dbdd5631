----------------------------- MODULE MCRealtime -----------------------------
(* Instances of Realtime for TLC. *)
EXTENDS Realtime

CONSTANTS c1, c2, p1

TwoConns   == {c1, c2}
OnePub     == {p1}
OneAccount == [c \in {c1, c2} |-> "requester"]
SomeKinds  == {"changed", "assigned", "moved"}

=============================================================================
