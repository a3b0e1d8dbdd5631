----------------------------- MODULE MCDispatch -----------------------------
(* Dispatch on a small instance. *)
EXTENDS Dispatch

CONSTANTS j1, d1, d2, r1, r2

OneJob      == {j1}
TwoDrivers  == {d1, d2}
TwoReplicas == {r1, r2}

=============================================================================
