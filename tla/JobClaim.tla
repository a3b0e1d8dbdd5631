------------------------------ MODULE JobClaim ------------------------------
(***************************************************************************)
(* What dispatch promises about a job, whatever offers, timeouts and sweeps *)
(* it takes: an open job is won once, by one driver, who keeps it to the    *)
(* end; a job that ends unwon is never won afterwards.                      *)
(***************************************************************************)
CONSTANTS Jobs, Drivers

VARIABLES
    phase,    \* "open", "won" or "over"
    holders   \* the drivers who have won the job

vars == <<phase, holders>>

TypeOK ==
    /\ phase \in [Jobs -> {"open", "won", "over"}]
    /\ holders \in [Jobs -> SUBSET Drivers]

Init ==
    /\ phase = [j \in Jobs |-> "open"]
    /\ holders = [j \in Jobs |-> {}]

\* A driver wins an open job, alone.
Win(j, d) ==
    /\ phase[j] = "open"
    /\ holders[j] = {}
    /\ phase' = [phase EXCEPT ![j] = "won"]
    /\ holders' = [holders EXCEPT ![j] = {d}]

\* The search expires, the job is called off, or its trip is over.
End(j) ==
    /\ phase[j] # "over"
    /\ phase' = [phase EXCEPT ![j] = "over"]
    /\ UNCHANGED holders

Next == \E j \in Jobs : End(j) \/ \E d \in Drivers : Win(j, d)

Spec == Init /\ [][Next]_vars

=============================================================================
