------------------------------- MODULE Vetting -------------------------------
(***************************************************************************)
(* Who may work: a driver's verification, their vehicle's, the vehicle they *)
(* have selected, and the papers the market requires of them, as the        *)
(* operators' reviews and the calendar change them.                         *)
(*                                                                          *)
(* A driver owns one vehicle, and one kind of document is required; what    *)
(* matters of a document is its status, so the rows of a driver are the set *)
(* of their statuses.  "LAPSED" is VERIFIED with expires_at in the past.    *)
(***************************************************************************)
EXTENDS Naturals, FiniteSets, JobLifecycle

CONSTANTS
    Records,    \* <<vehicle's status, a vehicle is selected>> drivers may start from
    MaxEvents   \* reviews, submissions, expiries (and failures) considered

ASSUME MaxEventsAssumption == MaxEvents \in Nat

VARIABLES
    verification,  \* drivers.verification_status
    vehicle,       \* vehicles.verification_status of the driver's vehicle
    active,        \* drivers whose active_vehicle_id is not NULL
    selecting,     \* drivers whose selection has read the vehicle and is not written
    papers,        \* statuses of the driver's documents rows of the required type
    events         \* how many there have been: a bound of the model

vettingVars == <<verification, vehicle, active, selecting, papers>>

-----------------------------------------------------------------------------
(* Machines *)

VerificationCan(from, to) == <<from, to>> \in
    {<<"NOT_STARTED", "IN_PROGRESS">>, <<"IN_PROGRESS", "SUBMITTED">>,
     <<"SUBMITTED", "UNDER_REVIEW">>, <<"SUBMITTED", "REJECTED">>,
     <<"UNDER_REVIEW", "APPROVED">>, <<"UNDER_REVIEW", "REJECTED">>,
     <<"APPROVED", "SUSPENDED">>, <<"APPROVED", "UNDER_REVIEW">>,
     <<"REJECTED", "IN_PROGRESS">>,
     <<"SUSPENDED", "UNDER_REVIEW">>, <<"SUSPENDED", "APPROVED">>}

VehicleCan(from, to) == <<from, to>> \in
    {<<"PENDING", "UNDER_REVIEW">>, <<"PENDING", "REJECTED">>,
     <<"UNDER_REVIEW", "VERIFIED">>, <<"UNDER_REVIEW", "REJECTED">>,
     <<"VERIFIED", "SUSPENDED">>, <<"VERIFIED", "EXPIRED">>, <<"VERIFIED", "UNDER_REVIEW">>,
     <<"REJECTED", "UNDER_REVIEW">>,
     <<"SUSPENDED", "UNDER_REVIEW">>, <<"SUSPENDED", "VERIFIED">>,
     <<"EXPIRED", "UNDER_REVIEW">>}

VerificationStatuses == {"NOT_STARTED", "IN_PROGRESS", "SUBMITTED", "UNDER_REVIEW",
                         "APPROVED", "REJECTED", "SUSPENDED"}
VehicleStatuses  == {"PENDING", "UNDER_REVIEW", "VERIFIED", "REJECTED", "SUSPENDED", "EXPIRED"}
DocumentStatuses == {"PENDING", "VERIFIED", "REJECTED", "EXPIRED", "LAPSED"}

ASSUME RecordsAssumption == Records \subseteq VehicleStatuses \X BOOLEAN

\* Drivers who have been approved, with their papers in order.
VettingInit ==
    /\ verification = [d \in Drivers |-> "APPROVED"]
    /\ \E record \in [Drivers -> Records] :
           /\ vehicle = [d \in Drivers |-> record[d][1]]
           /\ active = {d \in Drivers : record[d][2]}
    /\ selecting = {}
    /\ papers = [d \in Drivers |-> {"VERIFIED"}]
    /\ events = 0

VettingTypeOK ==
    /\ verification \in [Drivers -> VerificationStatuses]
    /\ vehicle \in [Drivers -> VehicleStatuses]
    /\ active \subseteq Drivers /\ selecting \subseteq Drivers
    /\ papers \in [Drivers -> SUBSET DocumentStatuses]
    /\ events \in 0 .. MaxEvents

-----------------------------------------------------------------------------
(* Reviews *)

Counted == events < MaxEvents /\ events' = events + 1

TransitionVerification(d, to) ==
    /\ Counted
    /\ VerificationCan(verification[d], to)
    /\ verification' = [verification EXCEPT ![d] = to]
    /\ UNCHANGED <<vehicle, active, selecting, papers>>

\* A mistake: the driver keeps the vehicle selected.
TransitionVehicleOnly(d, to) ==
    /\ Counted
    /\ VehicleCan(vehicle[d], to)
    /\ vehicle' = [vehicle EXCEPT ![d] = to]
    /\ UNCHANGED <<verification, active, selecting, papers>>

\* A vehicle that stops being verified stops being the driver's active one, in
\* the same transaction.
TransitionVehicle(d, to) ==
    /\ Counted
    /\ VehicleCan(vehicle[d], to)
    /\ vehicle' = [vehicle EXCEPT ![d] = to]
    /\ active' = IF to = "VERIFIED" THEN active ELSE active \ {d}
    /\ UNCHANGED <<verification, selecting, papers>>

\* The vehicle's status is a condition of the write, but one that is read in the
\* statement's snapshot; the driver's row is locked and written after it.
\* (Selecting the vehicle one has already is left out.)
SetActiveVehicle(d) ==
    /\ d \notin active \cup selecting /\ vehicle[d] = "VERIFIED"
    /\ selecting' = selecting \cup {d}
    /\ UNCHANGED <<verification, vehicle, active, papers, events>>

WriteSelection(d) ==
    /\ d \in selecting
    /\ selecting' = selecting \ {d}
    /\ active' = active \cup {d}
    /\ UNCHANGED <<verification, vehicle, papers, events>>

\* Another row beside those there are: nothing replaces a rejected or an
\* expired one.
AddDocument(d) ==
    /\ Counted
    /\ papers' = [papers EXCEPT ![d] = @ \cup {"PENDING"}]
    /\ UNCHANGED <<verification, vehicle, active, selecting>>

\* A row's status changes; another row with the same one may remain.
Restate(d, from, to) ==
    /\ from \in papers[d] /\ from # to
    /\ \/ papers' = [papers EXCEPT ![d] = (@ \ {from}) \cup {to}]
       \/ papers' = [papers EXCEPT ![d] = @ \cup {to}]
    /\ UNCHANGED <<verification, vehicle, active, selecting>>

\* No machine: a row may be approved or rejected whatever its status.
ReviewDocument(d, from, to) ==
    /\ Counted
    /\ to \in {"VERIFIED", "REJECTED"}
    /\ Restate(d, from, to)

DocumentLapses(d) == Counted /\ Restate(d, "VERIFIED", "LAPSED")

ExpireLapsedDocuments ==
    /\ \E d \in Drivers : "LAPSED" \in papers[d]
    /\ papers' = [d \in Drivers |->
                    IF "LAPSED" \in papers[d]
                    THEN (papers[d] \ {"LAPSED"}) \cup {"EXPIRED"} ELSE papers[d]]
    /\ UNCHANGED <<verification, vehicle, active, selecting, events>>

Vet ==
    \/ \E d \in Drivers :
           \/ \E to \in VerificationStatuses : TransitionVerification(d, to)
           \/ \E to \in VehicleStatuses : TransitionVehicle(d, to)
           \/ SetActiveVehicle(d) \/ WriteSelection(d)
           \/ AddDocument(d) \/ DocumentLapses(d)
           \/ \E from, to \in DocumentStatuses : ReviewDocument(d, from, to)
    \/ ExpireLapsedDocuments

-----------------------------------------------------------------------------
(* The rules dispatch applies to a candidate *)

\* mandatoryDocuments joins every row of the type, or one PENDING when there
\* is none.
MandatoryDocuments(d) == IF papers[d] = {} THEN {"PENDING"} ELSE papers[d]

\* What is read of a driver and of the vehicle they selected, if any.
Candidate(d) ==
    [verification |-> verification[d],
     documents    |-> MandatoryDocuments(d),
     vehicle      |-> IF d \in active THEN vehicle[d] ELSE "none"]

\* checkDocuments: each of them must be verified and in date.
DocumentFailures(documents) ==
    {IF doc \in {"EXPIRED", "LAPSED"} THEN "document_expired" ELSE "document_missing" :
        doc \in documents \ {"VERIFIED"}}

\* eligibility.Evaluate, its job's requirements apart: every unmet constraint.
Failures(c, available, located) ==
    (IF c.verification # "APPROVED" THEN {"driver_not_approved"} ELSE {})
    \cup (IF ~available THEN {"driver_unavailable"} ELSE {})
    \cup (IF ~located THEN {"location_stale"} ELSE {})
    \cup DocumentFailures(c.documents)
    \cup (IF c.vehicle = "none" THEN {"no_active_vehicle"}
          ELSE IF c.vehicle # "VERIFIED" THEN {"vehicle_not_verified"} ELSE {})

-----------------------------------------------------------------------------
\* The driver keeps a vehicle that has lost its standing.
Stranded(d) == d \in active /\ vehicle[d] # "VERIFIED"

\* Document 30: a driver works with a verified vehicle.  Whatever reviews,
\* selections, offers and sign-ins overlap, a review that takes a vehicle's
\* standing takes the vehicle from its driver; only a selection that read it
\* before the review and is written after it leaves them one without.
OnlyOverlapsSlipThrough ==
    [][\A d \in Drivers : Stranded(d)' /\ ~Stranded(d) => d \in selecting]_<<vettingVars, events>>

=============================================================================
