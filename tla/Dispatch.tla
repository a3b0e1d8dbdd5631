------------------------------ MODULE Dispatch ------------------------------
(***************************************************************************)
(* Who gets a job.  API processes (Replicas) each run the sweeper's pass:   *)
(* release offers past their expiry, offer every waiting job to one driver  *)
(* at a time, and end the searches that ran out of rings or of time.        *)
(* Drivers answer offers, customers cancel, drivers come and go, all        *)
(* against the same tables.                                                 *)
(*                                                                          *)
(* A database transaction is one action; between two transactions of one    *)
(* pass anything may happen, a crash of the process included.  Time is      *)
(* abstract: an offer's expiry and a search's deadline are passed or not,   *)
(* and pass at any moment.  The geo index is abstract too: a ring reaches   *)
(* any set of the available drivers.                                        *)
(***************************************************************************)
EXTENDS Naturals, FiniteSets, JobLifecycle

CONSTANTS
    Jobs,         \* rows of jobs
    Replicas,     \* API processes, each with a sweeper goroutine
    MaxAttempts,  \* dispatch_config.max_attempts
    NoDriver,     \* jobs.assigned_driver_id IS NULL
    NoJob         \* a replica between two jobs

ASSUME MaxAttemptsAssumption == MaxAttempts \in Nat \ {0}
ASSUME NoDriverAssumption == NoDriver \notin Drivers
ASSUME NoJobAssumption == NoJob \notin Jobs
ASSUME FiniteAssumption == IsFiniteSet(Jobs) /\ IsFiniteSet(Drivers)

VARIABLES
    status,      \* jobs.status
    assignedTo,  \* jobs.assigned_driver_id
    overdue,     \* jobs SEARCHING whose updated_at is a search deadline ago
    attempts,    \* number of dispatch_attempts rows of a job
    offers,      \* <<job, driver>> of assignments with status OFFERED
    accepted,    \* <<job, driver>> of assignments with status ACCEPTED
    reserved,    \* <<job, driver>> of driver_reservations with state RESERVED
    lapsed,      \* the offers whose expires_at has passed
    presence,    \* drivers.status
    active,      \* drivers whose active vehicle is VERIFIED
    run          \* what each replica's sweeper is doing

jobVars    == <<status, assignedTo, overdue>>
offerVars  == <<offers, accepted, reserved, lapsed>>
driverVars == <<presence, active>>
vars       == <<jobVars, attempts, offerVars, driverVars, run>>

-----------------------------------------------------------------------------
(* States *)

Pairs == Jobs \X Drivers

\* Where a replica is: between two jobs of its pass, with the jobs it has
\* left, or at one of its transactions about the job in hand, with the ring it
\* read and the candidates it has yet to try.
BetweenJobs == [step : {"idle", "list", "next", "stale"}, todo : SUBSET Jobs,
                job : {NoJob}, ring : {0}, cands : {{}}]
AboutAJob   == [step : {"attempt", "count", "search", "reserve", "assign", "expire"},
                todo : SUBSET Jobs, job : Jobs, ring : 0 .. MaxAttempts,
                cands : SUBSET Drivers]
RunStates   == BetweenJobs \cup AboutAJob

At(step, todo, job, ring, cands) ==
    [step |-> step, todo |-> todo, job |-> job, ring |-> ring, cands |-> cands]

Idle == At("idle", {}, NoJob, 0, {})

NextJob(r) == At("next", run[r].todo, NoJob, 0, {})

\* A job nobody has won yet, one a driver is working on, and one they won.
Open == {"REQUESTED", "SEARCHING", "ASSIGNED"}
Trip == {"ACCEPTED", "ARRIVING", "AT_PICKUP", "IN_PROGRESS", "AT_DROPOFF"}
Won  == Trip \cup {"COMPLETED"}

\* The drivers whose assignment claims job j: what the partial unique index
\* assignments_one_live_per_job_idx ranges over.
Live(j) == {d \in Drivers : <<j, d>> \in offers \cup accepted}

\* Driver d has an active reservation: driver_reservations_one_active_idx.
Busy(d) == \E j \in Jobs : <<j, d>> \in reserved

TypeOK ==
    /\ status \in [Jobs -> JobStatuses]
    /\ assignedTo \in [Jobs -> Drivers \cup {NoDriver}]
    /\ overdue \subseteq Jobs
    /\ attempts \in [Jobs -> 0 .. MaxAttempts]
    /\ offers \subseteq Pairs
    /\ accepted \subseteq Pairs
    /\ reserved \subseteq Pairs
    /\ lapsed \subseteq offers
    /\ presence \in [Drivers -> AvailabilityStatuses]
    /\ active \subseteq Drivers
    /\ run \in [Replicas -> RunStates]

\* Booking has confirmed the jobs (REQUESTED), the drivers have signed in, and
\* the processes have just started.
Init ==
    /\ status = [j \in Jobs |-> "REQUESTED"]
    /\ assignedTo = [j \in Jobs |-> NoDriver]
    /\ overdue = {}
    /\ attempts = [j \in Jobs |-> 0]
    /\ offers = {}
    /\ accepted = {}
    /\ reserved = {}
    /\ lapsed = {}
    /\ presence = [d \in Drivers |-> "OFFLINE"]
    /\ active = Drivers
    /\ run = [r \in Replicas |-> Idle]

\* jobs.Store.Transition and ExpireSearch: compare-and-set on the status read,
\* the move validated by the machine, updated_at reset.
Transition(j, from, to) ==
    /\ status[j] = from
    /\ JobCan(from, to)
    /\ status' = [status EXCEPT ![j] = to]
    /\ overdue' = overdue \ {j}
    /\ UNCHANGED assignedTo

-----------------------------------------------------------------------------
(* Mistakes the properties are there to catch: an action with one condition  *)
(* or one write of the code left out.  No action of Next is one of them.      *)

\* The repair looks only at the jobs whose offer this very sweep expired.
OrphanedBySweep(liveOffers) ==
    {j \in Jobs : /\ status[j] = "ASSIGNED"
                  /\ \E d \in Drivers : <<j, d>> \in lapsed
                  /\ \A d \in Drivers : <<j, d>> \notin liveOffers \cup accepted}

\* The sweep passes over the offers of jobs that were called off.
SweepOpenJobs(r) ==
    LET due == {p \in lapsed : status[p[1]] # "CANCELLED"}
    IN  /\ run[r].step = "idle"
        /\ run' = [run EXCEPT ![r] = At("list", {}, NoJob, 0, {})]
        /\ offers' = offers \ due
        /\ reserved' = reserved \ due
        /\ lapsed' = lapsed \ due
        /\ status' = [j \in Jobs |->
               IF status[j] = "ASSIGNED"
                  /\ \A d \in Drivers : <<j, d>> \notin (offers \ due) \cup accepted
               THEN "SEARCHING" ELSE status[j]]
        /\ UNCHANGED <<assignedTo, overdue, attempts, accepted, driverVars>>

\* The next ring is due whatever max_attempts says.
CountWithoutLimit(r) ==
    /\ run[r].step = "count"
    /\ run' = [run EXCEPT ![r] =
           At("search", run[r].todo, run[r].job, attempts[run[r].job] + 1, {})]
    /\ UNCHANGED <<jobVars, attempts, offerVars, driverVars>>

\* The offer is inserted without the index on live assignments of a job.
ReserveHeldJob(r, d) ==
    /\ run[r].step = "reserve" /\ d \in run[r].cands /\ ~Busy(d)
    /\ reserved' = reserved \cup {<<run[r].job, d>>}
    /\ offers' = offers \cup {<<run[r].job, d>>}
    /\ run' = [run EXCEPT ![r] = At("assign", run[r].todo, run[r].job, 0, {})]
    /\ UNCHANGED <<jobVars, attempts, accepted, lapsed, driverVars>>

\* The job is moved to ASSIGNED without comparing the status first.
MoveToAssignedBlindly(r) ==
    /\ run[r].step = "assign"
    /\ status' = [status EXCEPT ![run[r].job] = "ASSIGNED"]
    /\ run' = [run EXCEPT ![r] = NextJob(r)]
    /\ UNCHANGED <<assignedTo, overdue, attempts, offerVars, driverVars>>

\* The job is won whatever became of it since the offer.
AcceptAnyStatus(j, d) ==
    /\ <<j, d>> \in offers \ lapsed /\ <<j, d>> \in reserved
    /\ offers' = offers \ {<<j, d>>}
    /\ accepted' = accepted \cup {<<j, d>>}
    /\ reserved' = reserved \ {<<j, d>>}
    /\ status' = [status EXCEPT ![j] = "ACCEPTED"]
    /\ assignedTo' = [assignedTo EXCEPT ![j] = d]
    /\ presence' = [presence EXCEPT ![d] = "ACCEPTED"]
    /\ UNCHANGED <<overdue, attempts, lapsed, active, run>>

\* The job returns to SEARCHING whatever became of it since the offer.
RejectAnyStatus(j, d) ==
    /\ <<j, d>> \in offers
    /\ offers' = offers \ {<<j, d>>}
    /\ reserved' = reserved \ {<<j, d>>}
    /\ lapsed' = lapsed \ {<<j, d>>}
    /\ status' = [status EXCEPT ![j] = "SEARCHING"]
    /\ UNCHANGED <<assignedTo, overdue, attempts, accepted, driverVars, run>>

-----------------------------------------------------------------------------
(* The sweeper's pass: Runner.Round, then Runner.Sweep *)

\* What the offer sweep leaves behind: the surviving reservations free the
\* drivers marked OFFERED without one, and the ASSIGNED jobs nobody holds go
\* back to SEARCHING.
Orphaned(liveOffers) ==
    {j \in Jobs : /\ status[j] = "ASSIGNED"
                  /\ \A d \in Drivers : <<j, d>> \notin liveOffers \cup accepted}

SweepExpired(r) ==
    /\ run[r].step = "idle"
    /\ run' = [run EXCEPT ![r] = At("list", {}, NoJob, 0, {})]
    /\ offers' = offers \ lapsed
    /\ reserved' = reserved \ lapsed
    /\ lapsed' = {}
    /\ presence' = [d \in Drivers |->
                      IF presence[d] = "OFFERED"
                         /\ \A j \in Jobs : <<j, d>> \notin reserved \ lapsed
                      THEN "AVAILABLE" ELSE presence[d]]
    /\ status' = [j \in Jobs |->
                    IF j \in Orphaned(offers \ lapsed) THEN "SEARCHING" ELSE status[j]]
    /\ overdue' = overdue \ Orphaned(offers \ lapsed)
    /\ UNCHANGED <<assignedTo, attempts, accepted, active>>

\* Store.NeedingDispatch: never offered, or searching with nobody holding it.
Waiting ==
    {j \in Jobs : \/ status[j] = "REQUESTED"
                  \/ status[j] = "SEARCHING" /\ Live(j) = {}}

ListWaiting(r) ==
    /\ run[r].step = "list"
    /\ run' = [run EXCEPT ![r] = At("next", Waiting, NoJob, 0, {})]
    /\ UNCHANGED <<jobVars, attempts, offerVars, driverVars>>

\* Runner.start: REQUESTED moves to SEARCHING; anything else is left alone,
\* another replica's start that came first included.
Start(r, j) ==
    /\ run[r].step = "next" /\ j \in run[r].todo
    /\ run' = [run EXCEPT ![r] = At("attempt", run[r].todo \ {j}, j, 0, {})]
    /\ \/ Transition(j, "REQUESTED", "SEARCHING")
       \/ status[j] # "REQUESTED" /\ UNCHANGED jobVars
    /\ UNCHANGED <<attempts, offerVars, driverVars>>

\* Runner.Attempt reads the job: a search that is over is left alone, one past
\* its deadline is ended.
Attempt(r) ==
    LET j == run[r].job
    IN  /\ run[r].step = "attempt"
        /\ run' = [run EXCEPT ![r] =
               IF status[j] # "SEARCHING" THEN NextJob(r)
               ELSE IF j \in overdue THEN At("expire", run[r].todo, j, 0, {})
               ELSE At("count", run[r].todo, j, 0, {})]
        /\ UNCHANGED <<jobVars, attempts, offerVars, driverVars>>

\* Engine.Dispatch counts the attempts so far: the rings are exhausted, or the
\* next one is due.
CountAttempts(r) ==
    LET j == run[r].job
    IN  /\ run[r].step = "count"
        /\ run' = [run EXCEPT ![r] =
               IF attempts[j] >= MaxAttempts THEN At("expire", run[r].todo, j, 0, {})
               ELSE At("search", run[r].todo, j, attempts[j] + 1, {})]
        /\ UNCHANGED <<jobVars, attempts, offerVars, driverVars>>

\* The ring finds candidates: the eligible drivers within its radius, any of
\* the available ones.  dispatch_attempts is unique on (job, attempt), so a
\* replica that read the same ring number as another records nothing; an
\* empty ring ignores that error, a ring with candidates gives up on it.
Search(r) ==
    LET j == run[r].job
        ring == run[r].ring
        fresh == attempts[j] < ring
    IN  /\ run[r].step = "search"
        /\ attempts' = IF fresh THEN [attempts EXCEPT ![j] = ring] ELSE attempts
        /\ \E near \in SUBSET {d \in active : presence[d] = "AVAILABLE"} :
               run' = [run EXCEPT ![r] =
                   IF fresh /\ near # {}
                   THEN At("reserve", run[r].todo, j, ring, near)
                   ELSE NextJob(r)]
        /\ UNCHANGED <<jobVars, offerVars, driverVars>>

\* A candidate another dispatcher is holding is skipped; the last one skipped
\* ends the attempt.
ReserveBusy(r, d) ==
    LET left == run[r].cands \ {d}
    IN  /\ run[r].step = "reserve" /\ d \in run[r].cands
        /\ Busy(d)
        /\ run' = [run EXCEPT ![r] =
               IF left = {} THEN NextJob(r)
               ELSE At("reserve", run[r].todo, run[r].job, run[r].ring, left)]
        /\ UNCHANGED <<jobVars, attempts, offerVars, driverVars>>

\* Another dispatcher is already offering this job: the reservation just
\* inserted is rolled back with the transaction.
ReserveClaimed(r, d) ==
    /\ run[r].step = "reserve" /\ d \in run[r].cands
    /\ ~Busy(d) /\ Live(run[r].job) # {}
    /\ run' = [run EXCEPT ![r] = NextJob(r)]
    /\ UNCHANGED <<jobVars, attempts, offerVars, driverVars>>

\* Store.Reserve: the reservation and the offer, in one transaction.  It looks
\* at neither the job's status nor the driver's.
Reserve(r, d) ==
    LET j == run[r].job
    IN  /\ run[r].step = "reserve" /\ d \in run[r].cands
        /\ ~Busy(d)
        /\ Live(j) = {}
        /\ reserved' = reserved \cup {<<j, d>>}
        /\ offers' = offers \cup {<<j, d>>}
        /\ run' = [run EXCEPT ![r] = At("assign", run[r].todo, j, 0, {})]
        /\ UNCHANGED <<jobVars, attempts, accepted, lapsed, driverVars>>

\* The offer stands whether or not the job could be moved to ASSIGNED.
MoveToAssigned(r) ==
    LET j == run[r].job
    IN  /\ run[r].step = "assign"
        /\ \/ Transition(j, "SEARCHING", "ASSIGNED")
           \/ status[j] # "SEARCHING" /\ UNCHANGED jobVars
        /\ run' = [run EXCEPT ![r] = NextJob(r)]
        /\ UNCHANGED <<attempts, offerVars, driverVars>>

\* Runner.expire for the job in hand: a stale transition is not an error.
Expire(r) ==
    LET j == run[r].job
    IN  /\ run[r].step = "expire"
        /\ \/ Transition(j, "SEARCHING", "EXPIRED")
           \/ status[j] # "SEARCHING" /\ UNCHANGED jobVars
        /\ run' = [run EXCEPT ![r] = NextJob(r)]
        /\ UNCHANGED <<attempts, offerVars, driverVars>>

\* Runner.Sweep lists the searches past their deadline, then expires them one
\* by one.
ListStale(r) ==
    LET stale == {j \in overdue : status[j] = "SEARCHING"}
    IN  /\ run[r].step = "next" /\ run[r].todo = {}
        /\ run' = [run EXCEPT ![r] =
               IF stale = {} THEN Idle ELSE At("stale", stale, NoJob, 0, {})]
        /\ UNCHANGED <<jobVars, attempts, offerVars, driverVars>>

ExpireStale(r, j) ==
    LET left == run[r].todo \ {j}
    IN  /\ run[r].step = "stale" /\ j \in run[r].todo
        /\ \/ Transition(j, "SEARCHING", "EXPIRED")
           \/ status[j] # "SEARCHING" /\ UNCHANGED jobVars
        /\ run' = [run EXCEPT ![r] =
               IF left = {} THEN Idle ELSE At("stale", left, NoJob, 0, {})]
        /\ UNCHANGED <<attempts, offerVars, driverVars>>

\* The process dies; the database keeps what was committed.
Crash(r) ==
    /\ run[r].step # "idle"
    /\ run' = [run EXCEPT ![r] = Idle]
    /\ UNCHANGED <<jobVars, attempts, offerVars, driverVars>>

-----------------------------------------------------------------------------
(* Drivers and customers *)

\* Store.Accept: every step is a conditional write of one transaction, so a
\* driver who fails any of them changes nothing.  Only the driver is looked at
\* before it is locked: a sign-off that commits in between stands.
Accept(j, d) ==
    /\ <<j, d>> \in offers \ lapsed
    /\ <<j, d>> \in reserved
    /\ d \in active
    /\ presence[d] \notin {"SUSPENDED", "BLOCKED", "OFFLINE"}
    /\ status[j] \in {"SEARCHING", "ASSIGNED"}
    /\ offers' = offers \ {<<j, d>>}
    /\ accepted' = accepted \cup {<<j, d>>}
    /\ reserved' = reserved \ {<<j, d>>}
    /\ status' = [status EXCEPT ![j] = "ACCEPTED"]
    /\ assignedTo' = [assignedTo EXCEPT ![j] = d]
    /\ overdue' = overdue \ {j}
    /\ \/ presence' = [presence EXCEPT ![d] =
                         IF @ \in {"AVAILABLE", "OFFERED"} THEN "ACCEPTED" ELSE @]
       \/ /\ AvailabilityCan(presence[d], "OFFLINE")
          /\ presence' = [presence EXCEPT ![d] = "OFFLINE"]
    /\ UNCHANGED <<attempts, lapsed, active, run>>

\* Store.release: an offer past its expiry may still be declined, until a
\* sweep expires it.  The job goes back to SEARCHING with a fresh deadline.
Reject(j, d) ==
    /\ <<j, d>> \in offers
    /\ offers' = offers \ {<<j, d>>}
    /\ reserved' = reserved \ {<<j, d>>}
    /\ lapsed' = lapsed \ {<<j, d>>}
    /\ presence' = [presence EXCEPT ![d] = IF @ = "OFFERED" THEN "AVAILABLE" ELSE @]
    /\ IF status[j] \in {"SEARCHING", "ASSIGNED"}
       THEN /\ status' = [status EXCEPT ![j] = "SEARCHING"]
            /\ overdue' = overdue \ {j}
       ELSE UNCHANGED <<status, overdue>>
    /\ UNCHANGED <<assignedTo, attempts, accepted, active, run>>

\* booking.Service.Cancel: the assignment, the reservation and the driver are
\* left as they are.
Cancel(j) ==
    /\ Cancellable(status[j])
    /\ Transition(j, status[j], "CANCELLED")
    /\ UNCHANGED <<attempts, offerVars, driverVars, run>>

\* One transition of booking.Service.Execute.  A command walks several, each
\* its own transaction, and stops where it fails.
Advance(j, d) ==
    /\ assignedTo[j] = d
    /\ \E to \in JobStatuses : /\ <<status[j], to>> \in DriverFlow
                               /\ Transition(j, status[j], to)
    /\ UNCHANGED <<attempts, offerVars, driverVars, run>>

\* driver.Service.GoOnline and GoOffline: compare-and-set on the status read.
GoOnline(d) ==
    /\ AvailabilityCan(presence[d], "AVAILABLE")
    /\ d \in active
    /\ presence' = [presence EXCEPT ![d] = "AVAILABLE"]
    /\ UNCHANGED <<jobVars, attempts, offerVars, active, run>>

GoOffline(d) ==
    /\ AvailabilityCan(presence[d], "OFFLINE")
    /\ presence' = [presence EXCEPT ![d] = "OFFLINE"]
    /\ UNCHANGED <<jobVars, attempts, offerVars, active, run>>

\* An operator's review takes the VERIFIED status off the driver's active
\* vehicle, which clears it; later the driver selects a verified one.  (The two
\* may overlap: Vetting.)
SuspendVehicle(d) ==
    /\ d \in active
    /\ active' = active \ {d}
    /\ UNCHANGED <<jobVars, attempts, offerVars, presence, run>>

SetActiveVehicle(d) ==
    /\ d \notin active
    /\ active' = active \cup {d}
    /\ UNCHANGED <<jobVars, attempts, offerVars, presence, run>>

-----------------------------------------------------------------------------
(* Time *)

OfferLapses(j, d) ==
    /\ <<j, d>> \in offers \ lapsed
    /\ lapsed' = lapsed \cup {<<j, d>>}
    /\ UNCHANGED <<jobVars, attempts, offers, accepted, reserved, driverVars, run>>

DeadlinePasses(j) ==
    /\ status[j] = "SEARCHING" /\ j \notin overdue
    /\ overdue' = overdue \cup {j}
    /\ UNCHANGED <<status, assignedTo, attempts, offerVars, driverVars, run>>

-----------------------------------------------------------------------------
(* The specification *)

Sweeper(r) ==
    \/ SweepExpired(r) \/ ListWaiting(r) \/ Attempt(r) \/ CountAttempts(r) \/ Search(r)
    \/ MoveToAssigned(r) \/ Expire(r) \/ ListStale(r)
    \/ \E j \in Jobs : Start(r, j) \/ ExpireStale(r, j)
    \/ \E d \in Drivers : ReserveBusy(r, d) \/ ReserveClaimed(r, d) \/ Reserve(r, d)

People ==
    \/ \E j \in Jobs : Cancel(j)
    \/ \E j \in Jobs, d \in Drivers : Accept(j, d) \/ Reject(j, d) \/ Advance(j, d)
    \/ \E d \in Drivers : GoOnline(d) \/ GoOffline(d)
                        \/ SuspendVehicle(d) \/ SetActiveVehicle(d)

Time ==
    \/ \E j \in Jobs : DeadlinePasses(j)
    \/ \E j \in Jobs, d \in Drivers : OfferLapses(j, d)

Next ==
    \/ \E r \in Replicas : Sweeper(r) \/ Crash(r)
    \/ People
    \/ Time

Spec == Init /\ [][Next]_vars

\* Every replica's ticker keeps firing, one pass after another, and time
\* passes.  Nobody has to answer, cancel or sign in.
Fairness ==
    /\ \A r \in Replicas : WF_vars(Sweeper(r))
    /\ \A j \in Jobs, d \in Drivers : WF_vars(OfferLapses(j, d))

\* A process that keeps crashing before it finishes a pass serves nobody.  (The
\* last step of a pass, which also leaves the replica idle, is no crash.)
FinitelyManyCrashes == <>[][\A r \in Replicas : Crash(r) => Sweeper(r)]_vars

LiveSpec == Spec /\ Fairness /\ FinitelyManyCrashes

-----------------------------------------------------------------------------
(* What dispatch promises: the abstract claim on a job *)

Phase(s) == IF s \in Open THEN "open" ELSE IF s \in Trip THEN "won" ELSE "over"

Claim == INSTANCE JobClaim WITH
    phase <- [j \in Jobs |-> Phase(status[j])],
    holders <- [j \in Jobs |-> {d \in Drivers : <<j, d>> \in accepted}]

-----------------------------------------------------------------------------
(* Properties *)

\* Documents 43 and 45: whatever the interleaving of offers, timeouts, sweeps
\* and cancellations, a job is won once, by one driver, and never after it
\* ended.
ClaimSpec == Claim!Spec

\* Document 43, "double acceptance is impossible": at most one driver has a
\* live claim on a job, however many dispatchers offer it at once.
OneClaimPerJob == \A j \in Jobs : \A d, e \in Live(j) : d = e

\* Document 46, "one active reservation per driver".
OneReservationPerDriver ==
    \A d \in Drivers : \A j, k \in Jobs :
        <<j, d>> \in reserved /\ <<k, d>> \in reserved => j = k

\* An unanswered offer and the reservation behind it appear and disappear
\* together: a driver holding an offer is never refused with "reservation
\* lost", and no driver stays reserved for an offer that is over.
OffersAreReserved == offers = reserved

\* Offers, reservations and assignments, written by several processes and by
\* the answers, lapses and sweeps between them, never overlap and never part.
OffersAreExclusive == OneClaimPerJob /\ OneReservationPerDriver /\ OffersAreReserved

\* A job past ACCEPTED is held by the driver it names, through an accepted
\* assignment, and nobody else holds one: a customer is never told "no
\* drivers" (EXPIRED) about a job a driver has won, nor is it searched again.
WonByItsDriver ==
    \A j \in Jobs :
        /\ status[j] \in Won => <<j, assignedTo[j]>> \in accepted
        /\ \A d \in Drivers : <<j, d>> \in accepted =>
               assignedTo[j] = d /\ status[j] \in Won \cup {"CANCELLED"}

\* A finished job stays finished: no release, sweep or late tap, none of which
\* goes through the machine, brings it back.
FinishedStaysFinished ==
    [][\A j \in Jobs : status[j] \in JobTerminal \cup {"COMPLETED"} =>
           status'[j] = status[j]]_vars

\* Document 44, "do not retry infinitely", and document 15's terminal EXPIRED:
\* a confirmed job never stays without a driver for good.  It is won, called
\* off, or expired.
SearchEnds ==
    \A j \in Jobs : status[j] \in Open ~> status[j] \notin Open

\* Document 43, "reservations release reliably": a driver whose offer nobody
\* answers, the job cancelled or not, is not held for ever.
OffersEnd ==
    \A j \in Jobs, d \in Drivers :
        <<j, d>> \in reserved ~> <<j, d>> \notin reserved

=============================================================================
