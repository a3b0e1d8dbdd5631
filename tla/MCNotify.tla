------------------------------ MODULE MCNotify ------------------------------
(* An instance of Notify for TLC. *)
EXTENDS Notify

CONSTANTS ana, phone, tablet, t1, t2, offer, q1, w1, w2

OneUser     == {ana}
TwoPhones   == {phone, tablet}
TwoTokens   == {t1, t2}
OneEvent    == {offer}
ToAna       == [e \in Events |-> ana]
Optional    == [e \in Events |-> "SUPPORT"]
OneCaller   == {q1}
TwoWorkers  == {w1, w2}

=============================================================================
