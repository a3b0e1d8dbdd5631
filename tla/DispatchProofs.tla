--------------------------- MODULE DispatchProofs ---------------------------
(***************************************************************************)
(* The safety of dispatch for any number of jobs, drivers and processes.    *)
(***************************************************************************)
EXTENDS Dispatch, FiniteSetTheorems, TLAPS

-----------------------------------------------------------------------------
(* The machine *)

\* A job in a terminal status has no move, and a completed one may only be
\* disputed: jobs.Machine's own definition.
LEMMA FinishedMoves ==
    ASSUME NEW s \in JobTerminal \cup {"COMPLETED"}, NEW t, JobCan(s, t)
    PROVE  s = "COMPLETED" /\ t = "DISPUTED"
  BY DEF JobCan, JobMachine, JobTerminal

\* Only a job before its start can be cancelled.
LEMMA CancellableStatuses ==
    ASSUME NEW s, Cancellable(s)
    PROVE  s \in {"DRAFT", "QUOTED", "REQUESTED", "SEARCHING", "ASSIGNED",
                  "ACCEPTED", "ARRIVING", "AT_PICKUP"}
  BY DEF Cancellable, JobCan, JobMachine

\* A driver's command takes a job from one status of its trip to another.
LEMMA DriverSteps ==
    ASSUME NEW s, NEW t, <<s, t>> \in DriverFlow
    PROVE  s \in Trip /\ t \in Won /\ t # "ACCEPTED"
  BY DEF DriverFlow, Trip, Won

-----------------------------------------------------------------------------
(* Type correctness *)

\* The control states a sweeper moves to are control states.
LEMMA BetweenJobsType ==
    ASSUME NEW s \in {"idle", "list", "next", "stale"}, NEW todo \in SUBSET Jobs
    PROVE  At(s, todo, NoJob, 0, {}) \in RunStates
  BY DEF At, RunStates, BetweenJobs

LEMMA AboutAJobType ==
    ASSUME NEW s \in {"attempt", "count", "search", "reserve", "assign", "expire"},
           NEW todo \in SUBSET Jobs, NEW j \in Jobs,
           NEW n \in 0 .. MaxAttempts, NEW c \in SUBSET Drivers
    PROVE  At(s, todo, j, n, c) \in RunStates
  BY DEF At, RunStates, AboutAJob

\* What a sweeper has in hand at each step.
LEMMA RunType ==
    ASSUME TypeOK, NEW r \in Replicas
    PROVE  /\ run[r].todo \in SUBSET Jobs
           /\ run[r].ring \in 0 .. MaxAttempts
           /\ run[r].cands \in SUBSET Drivers
           /\ run[r].step \in {"attempt", "count", "search", "reserve", "assign", "expire"}
                => run[r].job \in Jobs
           /\ Idle \in RunStates
           /\ NextJob(r) \in RunStates
  <1>1. run[r] \in BetweenJobs \/ run[r] \in AboutAJob
    BY DEF TypeOK, RunStates
  <1>2. /\ run[r].todo \in SUBSET Jobs
        /\ run[r].ring \in 0 .. MaxAttempts
        /\ run[r].cands \in SUBSET Drivers
        /\ run[r].step \in {"attempt", "count", "search", "reserve", "assign", "expire"}
             => run[r].job \in Jobs
    BY <1>1, MaxAttemptsAssumption DEF BetweenJobs, AboutAJob
  <1>3. Idle \in RunStates /\ NextJob(r) \in RunStates
    BY <1>2, BetweenJobsType DEF Idle, NextJob
  <1>. QED BY <1>2, <1>3

\* A compare-and-set transition to a known status keeps the job's columns typed.
LEMMA TransitionType ==
    ASSUME TypeOK, NEW j \in Jobs, NEW from, NEW to \in JobStatuses,
           Transition(j, from, to)
    PROVE  /\ status' \in [Jobs -> JobStatuses]
           /\ assignedTo' \in [Jobs -> Drivers \cup {NoDriver}]
           /\ overdue' \subseteq Jobs
  BY DEF TypeOK, Transition

LEMMA TypeInit == Init => TypeOK
  <1>1. Idle \in RunStates
    BY BetweenJobsType DEF Idle
  <1>. QED
    BY <1>1, MaxAttemptsAssumption
    DEF Init, TypeOK, Pairs, JobStatuses, AvailabilityStatuses

LEMMA TypeSweeper ==
    ASSUME TypeOK, NEW r \in Replicas, Sweeper(r) \/ Crash(r)
    PROVE  TypeOK'
  <1>. USE DEF jobVars, offerVars, driverVars
  <1>1. CASE SweepExpired(r)
    <2>1. At("list", {}, NoJob, 0, {}) \in RunStates
      BY BetweenJobsType
    <2>2. /\ status' \in [Jobs -> JobStatuses]
          /\ overdue' \subseteq Jobs
          /\ presence' \in [Drivers -> AvailabilityStatuses]
      BY <1>1 DEF SweepExpired, TypeOK, JobStatuses, AvailabilityStatuses
    <2>. QED BY <1>1, <2>1, <2>2 DEF SweepExpired, TypeOK
  <1>2. CASE ListWaiting(r)
    <2>1. At("next", Waiting, NoJob, 0, {}) \in RunStates
      BY BetweenJobsType DEF Waiting
    <2>. QED BY <1>2, <2>1 DEF ListWaiting, TypeOK
  <1>3. CASE Attempt(r)
    <2>1. run[r].job \in Jobs
      BY <1>3, RunType DEF Attempt
    <2>2. /\ At("expire", run[r].todo, run[r].job, 0, {}) \in RunStates
          /\ At("count", run[r].todo, run[r].job, 0, {}) \in RunStates
      BY <2>1, RunType, AboutAJobType, MaxAttemptsAssumption
    <2>3. run' \in [Replicas -> RunStates]
      BY <1>3, <2>2, RunType DEF Attempt, TypeOK
    <2>. QED BY <1>3, <2>3 DEF Attempt, TypeOK
  <1>14. CASE CountAttempts(r)
    <2>1. run[r].job \in Jobs /\ attempts[run[r].job] \in 0 .. MaxAttempts
      BY <1>14, RunType DEF CountAttempts, TypeOK
    <2>2. At("expire", run[r].todo, run[r].job, 0, {}) \in RunStates
      BY <2>1, RunType, AboutAJobType, MaxAttemptsAssumption
    <2>3. ~(attempts[run[r].job] >= MaxAttempts) =>
            At("search", run[r].todo, run[r].job, attempts[run[r].job] + 1, {})
              \in RunStates
      BY <2>1, RunType, AboutAJobType, MaxAttemptsAssumption
    <2>4. run' \in [Replicas -> RunStates]
      BY <1>14, <2>2, <2>3, RunType DEF CountAttempts, TypeOK
    <2>. QED BY <1>14, <2>4 DEF CountAttempts, TypeOK
  <1>4. CASE Search(r)
    <2>1. run[r].job \in Jobs
      BY <1>4, RunType DEF Search
    <2>2. attempts' \in [Jobs -> 0 .. MaxAttempts]
      BY <1>4, <2>1, RunType DEF Search, TypeOK
    <2>3. \A near \in SUBSET Drivers :
            At("reserve", run[r].todo, run[r].job, run[r].ring, near) \in RunStates
      BY <2>1, RunType, AboutAJobType
    <2>4. run' \in [Replicas -> RunStates]
      BY <1>4, <2>3, RunType DEF Search, TypeOK
    <2>. QED BY <1>4, <2>2, <2>4 DEF Search, TypeOK
  <1>5. CASE MoveToAssigned(r)
    <2>1. run[r].job \in Jobs
      BY <1>5, RunType DEF MoveToAssigned
    <2>2. "ASSIGNED" \in JobStatuses
      BY DEF JobStatuses
    <2>. QED BY <1>5, <2>1, <2>2, TransitionType, RunType DEF MoveToAssigned, TypeOK
  <1>6. CASE Expire(r)
    <2>1. run[r].job \in Jobs
      BY <1>6, RunType DEF Expire
    <2>2. "EXPIRED" \in JobStatuses
      BY DEF JobStatuses
    <2>. QED BY <1>6, <2>1, <2>2, TransitionType, RunType DEF Expire, TypeOK
  <1>7. CASE ListStale(r)
    <2>1. At("stale", {j \in overdue : status[j] = "SEARCHING"}, NoJob, 0, {}) \in RunStates
      BY BetweenJobsType DEF TypeOK
    <2>. QED BY <1>7, <2>1, RunType DEF ListStale, TypeOK
  <1>8. ASSUME NEW j \in Jobs, Start(r, j)
        PROVE  TypeOK'
    <2>1. At("attempt", run[r].todo \ {j}, j, 0, {}) \in RunStates
      BY RunType, AboutAJobType, MaxAttemptsAssumption
    <2>2. "SEARCHING" \in JobStatuses
      BY DEF JobStatuses
    <2>. QED BY <1>8, <2>1, <2>2, TransitionType DEF Start, TypeOK
  <1>9. ASSUME NEW j \in Jobs, ExpireStale(r, j)
        PROVE  TypeOK'
    <2>1. At("stale", run[r].todo \ {j}, NoJob, 0, {}) \in RunStates
      BY RunType, BetweenJobsType
    <2>2. "EXPIRED" \in JobStatuses
      BY DEF JobStatuses
    <2>. QED BY <1>9, <2>1, <2>2, TransitionType, RunType DEF ExpireStale, TypeOK
  <1>10. ASSUME NEW d \in Drivers, ReserveBusy(r, d)
         PROVE  TypeOK'
    <2>1. At("reserve", run[r].todo, run[r].job, run[r].ring, run[r].cands \ {d}) \in RunStates
      BY <1>10, RunType, AboutAJobType DEF ReserveBusy
    <2>. QED BY <1>10, <2>1, RunType DEF ReserveBusy, TypeOK
  <1>11. ASSUME NEW d \in Drivers, ReserveClaimed(r, d)
         PROVE  TypeOK'
    BY <1>11, RunType DEF ReserveClaimed, TypeOK
  <1>12. ASSUME NEW d \in Drivers, Reserve(r, d)
         PROVE  TypeOK'
    <2>1. run[r].job \in Jobs
      BY <1>12, RunType DEF Reserve
    <2>2. At("assign", run[r].todo, run[r].job, 0, {}) \in RunStates
      BY <2>1, RunType, AboutAJobType, MaxAttemptsAssumption
    <2>. QED BY <1>12, <2>1, <2>2 DEF Reserve, TypeOK, Pairs
  <1>13. CASE Crash(r)
    BY <1>13, RunType DEF Crash, TypeOK
  <1>. QED
    BY <1>1, <1>2, <1>3, <1>4, <1>5, <1>6, <1>7, <1>8, <1>9, <1>10, <1>11, <1>12, <1>13,
       <1>14
    DEF Sweeper

LEMMA TypePeople ==
    ASSUME TypeOK, People
    PROVE  TypeOK'
  <1>. USE DEF jobVars, offerVars, driverVars
  <1>1. ASSUME NEW j \in Jobs, Cancel(j)
        PROVE  TypeOK'
    <2>1. "CANCELLED" \in JobStatuses
      BY DEF JobStatuses
    <2>. QED BY <1>1, <2>1, TransitionType DEF Cancel, TypeOK
  <1>2. ASSUME NEW j \in Jobs, NEW d \in Drivers, Accept(j, d)
        PROVE  TypeOK'
    BY <1>2 DEF Accept, TypeOK, Pairs, JobStatuses, AvailabilityStatuses
  <1>3. ASSUME NEW j \in Jobs, NEW d \in Drivers, Reject(j, d)
        PROVE  TypeOK'
    BY <1>3 DEF Reject, TypeOK, JobStatuses, AvailabilityStatuses
  <1>4. ASSUME NEW j \in Jobs, NEW d \in Drivers, Advance(j, d)
        PROVE  TypeOK'
    BY <1>4, TransitionType DEF Advance, TypeOK
  <1>5. ASSUME NEW d \in Drivers, GoOnline(d) \/ GoOffline(d)
        PROVE  TypeOK'
    BY <1>5 DEF GoOnline, GoOffline, TypeOK, AvailabilityStatuses
  <1>6. ASSUME NEW d \in Drivers, SuspendVehicle(d) \/ SetActiveVehicle(d)
        PROVE  TypeOK'
    BY <1>6 DEF SuspendVehicle, SetActiveVehicle, TypeOK
  <1>. QED BY <1>1, <1>2, <1>3, <1>4, <1>5, <1>6 DEF People

LEMMA TypeTime ==
    ASSUME TypeOK, Time
    PROVE  TypeOK'
  BY DEF TypeOK, Time, OfferLapses, DeadlinePasses, offerVars, driverVars, jobVars

\* The tables and the control states stay well typed; in particular no job
\* ever records more attempts than its configuration allows (document 44).
THEOREM TypeCorrect == Spec => []TypeOK
  <1>1. TypeOK /\ [Next]_vars => TypeOK'
    <2>. SUFFICES ASSUME TypeOK, [Next]_vars PROVE TypeOK'
      OBVIOUS
    <2>1. CASE UNCHANGED vars
      BY <2>1 DEF vars, jobVars, offerVars, driverVars, TypeOK
    <2>2. CASE Next
      BY <2>2, TypeSweeper, TypePeople, TypeTime DEF Next
    <2>. QED BY <2>1, <2>2
  <1>. QED BY TypeInit, <1>1, PTL DEF Spec

-----------------------------------------------------------------------------
(* Safety *)

\* The four safety invariants are inductive together with TypeOK.  The claim
\* on a job is unique because Reserve meets no live claim and Accept only turns
\* an offer into an acceptance; the assigned driver is stable because an
\* accepted row keeps the job out of SEARCHING and ASSIGNED, the only statuses
\* Accept takes it from.
Safe ==
    /\ OneClaimPerJob
    /\ OneReservationPerDriver
    /\ OffersAreReserved
    /\ WonByItsDriver

IInv == TypeOK /\ Safe

LEMMA SafeInit == Init => Safe
  BY DEF Init, Safe, OneClaimPerJob, OneReservationPerDriver, OffersAreReserved,
         WonByItsDriver, Live, Won, Trip

\* A step that touches no claim and no job's status or driver.
LEMMA SafeFrame ==
    ASSUME Safe, UNCHANGED <<offers, accepted, reserved, status, assignedTo>>
    PROVE  Safe'
  BY DEF Safe, OneClaimPerJob, OneReservationPerDriver, OffersAreReserved,
         WonByItsDriver, Live

\* A compare-and-set that neither enters nor leaves the won statuses, except to
\* CANCELLED, leaves every claim where it was.
LEMMA SafeTransition ==
    ASSUME TypeOK, Safe, NEW j \in Jobs, NEW from, NEW to, Transition(j, from, to),
           UNCHANGED offerVars,
           from \in Won => to \in Won \cup {"CANCELLED"},
           to \in Won => from \in Won
    PROVE  Safe'
  <1>1. UNCHANGED <<offers, accepted, reserved, assignedTo>>
    BY DEF Transition, offerVars
  <1>2. OneClaimPerJob' /\ OneReservationPerDriver' /\ OffersAreReserved'
    BY <1>1 DEF Safe, OneClaimPerJob, OneReservationPerDriver, OffersAreReserved, Live
  <1>3. from # "CANCELLED"
    BY FinishedMoves DEF Transition, JobTerminal
  <1>4. \A k \in Jobs : k # j => status'[k] = status[k]
    BY DEF Transition, TypeOK
  <1>5. status[j] = from /\ status'[j] = to
    BY DEF Transition, TypeOK
  <1>6. WonByItsDriver'
    BY <1>1, <1>3, <1>4, <1>5 DEF Safe, WonByItsDriver
  <1>. QED BY <1>2, <1>6 DEF Safe

LEMMA SafeSweepExpired ==
    ASSUME TypeOK, Safe, NEW r \in Replicas, SweepExpired(r)
    PROVE  Safe'
  <1>1. OneClaimPerJob' /\ OneReservationPerDriver' /\ OffersAreReserved'
    BY DEF SweepExpired, Safe, OneClaimPerJob, OneReservationPerDriver,
           OffersAreReserved, Live
  <1>2. WonByItsDriver'
    <2>1. UNCHANGED <<accepted, assignedTo>>
      BY DEF SweepExpired
    <2>2. \A j \in Jobs : \/ status'[j] = status[j]
                          \/ status[j] = "ASSIGNED" /\ status'[j] = "SEARCHING"
      BY DEF SweepExpired, Orphaned
    <2>3. {"ASSIGNED", "SEARCHING"} \cap (Won \cup {"CANCELLED"}) = {}
      BY DEF Won, Trip
    <2>. QED BY <2>1, <2>2, <2>3 DEF Safe, WonByItsDriver
  <1>. QED BY <1>1, <1>2 DEF Safe

LEMMA SafeReserve ==
    ASSUME TypeOK, Safe, NEW r \in Replicas, NEW d \in Drivers, Reserve(r, d)
    PROVE  Safe'
  <1>. DEFINE j == run[r].job
  <1>1. j \in Jobs
    BY RunType DEF Reserve
  <1>2. /\ offers' = offers \cup {<<j, d>>}
        /\ reserved' = reserved \cup {<<j, d>>}
        /\ UNCHANGED <<accepted, status, assignedTo>>
    BY DEF Reserve, jobVars
  <1>3. OneClaimPerJob'
    \* The job had no live claim, so the new offer is its only one.
    BY <1>1, <1>2 DEF Reserve, Safe, OneClaimPerJob, Live
  <1>4. OneReservationPerDriver'
    \* The driver had no active reservation.
    BY <1>1, <1>2 DEF Reserve, Safe, OneReservationPerDriver, Busy
  <1>5. OffersAreReserved' /\ WonByItsDriver'
    BY <1>2 DEF Safe, OffersAreReserved, WonByItsDriver
  <1>. QED BY <1>3, <1>4, <1>5 DEF Safe

LEMMA SafeAccept ==
    ASSUME TypeOK, Safe, NEW j \in Jobs, NEW d \in Drivers, Accept(j, d)
    PROVE  Safe'
  <1>1. /\ <<j, d>> \in offers
        /\ offers' = offers \ {<<j, d>>}
        /\ accepted' = accepted \cup {<<j, d>>}
        /\ reserved' = reserved \ {<<j, d>>}
        /\ status[j] \in {"SEARCHING", "ASSIGNED"}
    BY DEF Accept
  <1>2. OneClaimPerJob'
    BY <1>1 DEF Safe, OneClaimPerJob, Live
  <1>3. OneReservationPerDriver' /\ OffersAreReserved'
    BY <1>1 DEF Safe, OneReservationPerDriver, OffersAreReserved
  <1>4. WonByItsDriver'
    <2>1. \A e \in Drivers : <<j, e>> \notin accepted
      BY <1>1 DEF Safe, WonByItsDriver, Won, Trip
    <2>2. /\ status'[j] = "ACCEPTED" /\ assignedTo'[j] = d
          /\ \A k \in Jobs : k # j =>
                status'[k] = status[k] /\ assignedTo'[k] = assignedTo[k]
      BY DEF Accept, TypeOK
    <2>3. "ACCEPTED" \in Won
      BY DEF Won, Trip
    <2>. QED BY <1>1, <2>1, <2>2, <2>3 DEF Safe, WonByItsDriver
  <1>. QED BY <1>2, <1>3, <1>4 DEF Safe

LEMMA SafeReject ==
    ASSUME TypeOK, Safe, NEW j \in Jobs, NEW d \in Drivers, Reject(j, d)
    PROVE  Safe'
  <1>1. /\ offers' = offers \ {<<j, d>>}
        /\ reserved' = reserved \ {<<j, d>>}
        /\ UNCHANGED <<accepted, assignedTo>>
    BY DEF Reject
  <1>2. OneClaimPerJob' /\ OneReservationPerDriver' /\ OffersAreReserved'
    BY <1>1 DEF Safe, OneClaimPerJob, OneReservationPerDriver, OffersAreReserved, Live
  <1>3. \A k \in Jobs : \/ status'[k] = status[k]
                        \/ status[k] \in {"SEARCHING", "ASSIGNED"} /\ status'[k] = "SEARCHING"
    BY DEF Reject, TypeOK
  <1>4. {"ASSIGNED", "SEARCHING"} \cap (Won \cup {"CANCELLED"}) = {}
    BY DEF Won, Trip
  <1>5. WonByItsDriver'
    BY <1>1, <1>3, <1>4 DEF Safe, WonByItsDriver
  <1>. QED BY <1>2, <1>5 DEF Safe

\* The transitions of the sweeper, the customer and the driver.
LEMMA SafeCAS ==
    ASSUME TypeOK, Safe, NEW j \in Jobs, UNCHANGED offerVars,
           \/ Transition(j, "REQUESTED", "SEARCHING")
           \/ Transition(j, "SEARCHING", "ASSIGNED")
           \/ Transition(j, "SEARCHING", "EXPIRED")
           \/ UNCHANGED jobVars
    PROVE  Safe'
  <1>1. {"REQUESTED", "SEARCHING", "ASSIGNED", "EXPIRED"} \cap Won = {}
    BY DEF Won, Trip
  <1>2. CASE UNCHANGED jobVars
    BY <1>2, SafeFrame DEF jobVars, offerVars
  <1>3. CASE Transition(j, "REQUESTED", "SEARCHING")
    BY <1>1, <1>3, SafeTransition
  <1>4. CASE Transition(j, "SEARCHING", "ASSIGNED")
    BY <1>1, <1>4, SafeTransition
  <1>5. CASE Transition(j, "SEARCHING", "EXPIRED")
    BY <1>1, <1>5, SafeTransition
  <1>. QED BY <1>2, <1>3, <1>4, <1>5

LEMMA SafeSweeper ==
    ASSUME TypeOK, Safe, NEW r \in Replicas, Sweeper(r) \/ Crash(r)
    PROVE  Safe'
  <1>1. CASE SweepExpired(r)
    BY <1>1, SafeSweepExpired
  <1>2. CASE ListWaiting(r) \/ Attempt(r) \/ CountAttempts(r) \/ Search(r) \/ ListStale(r) \/ Crash(r)
    BY <1>2, SafeFrame
    DEF ListWaiting, Attempt, CountAttempts, Search, ListStale, Crash, jobVars, offerVars
  <1>3. CASE MoveToAssigned(r)
    <2>1. run[r].job \in Jobs
      BY <1>3, RunType DEF MoveToAssigned
    <2>. QED BY <1>3, <2>1, SafeCAS DEF MoveToAssigned
  <1>4. CASE Expire(r)
    <2>1. run[r].job \in Jobs
      BY <1>4, RunType DEF Expire
    <2>. QED BY <1>4, <2>1, SafeCAS DEF Expire
  <1>5. ASSUME NEW j \in Jobs, Start(r, j) \/ ExpireStale(r, j)
        PROVE  Safe'
    BY <1>5, SafeCAS DEF Start, ExpireStale
  <1>6. ASSUME NEW d \in Drivers, ReserveBusy(r, d) \/ ReserveClaimed(r, d)
        PROVE  Safe'
    BY <1>6, SafeFrame DEF ReserveBusy, ReserveClaimed, jobVars, offerVars
  <1>7. ASSUME NEW d \in Drivers, Reserve(r, d)
        PROVE  Safe'
    BY <1>7, SafeReserve
  <1>. QED BY <1>1, <1>2, <1>3, <1>4, <1>5, <1>6, <1>7 DEF Sweeper

LEMMA SafePeople ==
    ASSUME TypeOK, Safe, People
    PROVE  Safe'
  <1>1. ASSUME NEW j \in Jobs, Cancel(j)
        PROVE  Safe'
    <2>1. "CANCELLED" \notin Won
      BY DEF Won, Trip
    <2>. QED BY <1>1, <2>1, SafeTransition DEF Cancel
  <1>2. ASSUME NEW j \in Jobs, NEW d \in Drivers, Accept(j, d)
        PROVE  Safe'
    BY <1>2, SafeAccept
  <1>3. ASSUME NEW j \in Jobs, NEW d \in Drivers, Reject(j, d)
        PROVE  Safe'
    BY <1>3, SafeReject
  <1>4. ASSUME NEW j \in Jobs, NEW d \in Drivers, Advance(j, d)
        PROVE  Safe'
    <2>1. PICK to \in JobStatuses : /\ <<status[j], to>> \in DriverFlow
                                    /\ Transition(j, status[j], to)
      BY <1>4 DEF Advance
    <2>2. status[j] \in Won /\ to \in Won
      BY <2>1, DriverSteps DEF Won
    <2>. QED BY <1>4, <2>1, <2>2, SafeTransition DEF Advance
  <1>5. ASSUME NEW d \in Drivers,
               \/ GoOnline(d) \/ GoOffline(d)
               \/ SuspendVehicle(d) \/ SetActiveVehicle(d)
        PROVE  Safe'
    BY <1>5, SafeFrame
    DEF GoOnline, GoOffline, SuspendVehicle, SetActiveVehicle, jobVars, offerVars
  <1>. QED BY <1>1, <1>2, <1>3, <1>4, <1>5 DEF People

LEMMA SafeTime ==
    ASSUME Safe, Time
    PROVE  Safe'
  BY SafeFrame DEF Time, OfferLapses, DeadlinePasses, jobVars, offerVars

\* The inductive step.
LEMMA IInvStep ==
    ASSUME IInv, [Next]_vars
    PROVE  IInv'
  <1>1. CASE UNCHANGED vars
    BY <1>1, SafeFrame DEF IInv, vars, jobVars, offerVars, driverVars, TypeOK
  <1>2. CASE Next
    BY <1>2, TypeSweeper, TypePeople, TypeTime, SafeSweeper, SafePeople, SafeTime
    DEF Next, IInv
  <1>. QED BY <1>1, <1>2

THEOREM Inductive == Spec => []IInv
  <1>1. Init => IInv
    BY TypeInit, SafeInit DEF IInv
  <1>2. IInv /\ [Next]_vars => IInv'
    BY IInvStep
  <1>. QED BY <1>1, <1>2, PTL DEF Spec

\* However many processes dispatch it, a job is claimed by at most one driver;
\* a driver is held for at most one unanswered offer, and exactly as long as
\* that offer stands.
THEOREM OffersStayExclusive == Spec => []OffersAreExclusive
  <1>1. IInv => OffersAreExclusive
    BY DEF IInv, Safe, OffersAreExclusive
  <1>. QED BY <1>1, Inductive, PTL

\* A job past ACCEPTED is held by the driver it names, and a job a driver has
\* won never expires or goes back to dispatch.
THEOREM WonJobsKeepTheirDriver == Spec => []WonByItsDriver
  <1>1. IInv => WonByItsDriver
    BY DEF IInv, Safe
  <1>. QED BY <1>1, Inductive, PTL

-----------------------------------------------------------------------------
(* A finished job stays finished *)

Finished == JobTerminal \cup {"COMPLETED"}

\* No compare-and-set leaves a finished status: the machine forbids it for the
\* terminal ones, and nothing disputes a completed job.
LEMMA FinishedTransition ==
    ASSUME TypeOK, NEW j \in Jobs, NEW from, NEW to, Transition(j, from, to),
           to # "DISPUTED"
    PROVE  \A k \in Jobs : status[k] \in Finished => status'[k] = status[k]
  <1>1. from \notin Finished
    BY FinishedMoves DEF Transition, Finished
  <1>. QED BY <1>1 DEF Transition, TypeOK

\* The releases and sweeps that write statuses without the machine.
LEMMA FinishedOpenMoves ==
    ASSUME \A k \in Jobs : \/ status'[k] = status[k]
                           \/ status[k] \in Open
    PROVE  \A k \in Jobs : status[k] \in Finished => status'[k] = status[k]
  BY DEF Finished, JobTerminal, Open

\* Cancelling, expiring, releasing and sweeping never bring a job back from
\* COMPLETED, CANCELLED or EXPIRED, whatever order they commit in.
THEOREM NoResurrection == Spec => FinishedStaysFinished
  <1>1. TypeOK /\ [Next]_vars =>
          \A j \in Jobs : status[j] \in Finished => status'[j] = status[j]
    <2>. SUFFICES ASSUME TypeOK, [Next]_vars
                  PROVE  \A j \in Jobs : status[j] \in Finished => status'[j] = status[j]
      OBVIOUS
    <2>. USE DEF jobVars
    <2>1. CASE UNCHANGED vars \/ Time
      BY <2>1 DEF vars, Time, OfferLapses, DeadlinePasses
    <2>2. ASSUME NEW r \in Replicas, Sweeper(r) \/ Crash(r)
          PROVE  \A j \in Jobs : status[j] \in Finished => status'[j] = status[j]
      <3>1. CASE SweepExpired(r)
        BY <3>1, FinishedOpenMoves DEF SweepExpired, Orphaned, Open
      <3>2. CASE \/ ListWaiting(r) \/ Attempt(r) \/ CountAttempts(r) \/ Search(r) \/ ListStale(r) \/ Crash(r)
        BY <3>2 DEF ListWaiting, Attempt, CountAttempts, Search, ListStale, Crash
      <3>3. CASE MoveToAssigned(r) \/ Expire(r)
        <4>1. run[r].job \in Jobs
          BY <3>3, RunType DEF MoveToAssigned, Expire
        <4>. QED BY <3>3, <4>1, FinishedTransition DEF MoveToAssigned, Expire
      <3>4. ASSUME NEW j \in Jobs, Start(r, j) \/ ExpireStale(r, j)
            PROVE  \A k \in Jobs : status[k] \in Finished => status'[k] = status[k]
        BY <3>4, FinishedTransition DEF Start, ExpireStale
      <3>5. ASSUME NEW d \in Drivers,
                   ReserveBusy(r, d) \/ ReserveClaimed(r, d) \/ Reserve(r, d)
            PROVE  \A k \in Jobs : status[k] \in Finished => status'[k] = status[k]
        BY <3>5 DEF ReserveBusy, ReserveClaimed, Reserve
      <3>. QED BY <2>2, <3>1, <3>2, <3>3, <3>4, <3>5 DEF Sweeper
    <2>3. CASE People
      <3>1. ASSUME NEW j \in Jobs, Cancel(j)
            PROVE  \A k \in Jobs : status[k] \in Finished => status'[k] = status[k]
        BY <3>1, FinishedTransition DEF Cancel
      <3>2. ASSUME NEW j \in Jobs, NEW d \in Drivers, Accept(j, d) \/ Reject(j, d)
            PROVE  \A k \in Jobs : status[k] \in Finished => status'[k] = status[k]
        <4>1. \A k \in Jobs : \/ status'[k] = status[k]
                              \/ status[k] \in Open
          BY <3>2 DEF Accept, Reject, Open, TypeOK
        <4>. QED BY <4>1, FinishedOpenMoves
      <3>3. ASSUME NEW j \in Jobs, NEW d \in Drivers, Advance(j, d)
            PROVE  \A k \in Jobs : status[k] \in Finished => status'[k] = status[k]
        <4>1. PICK to \in JobStatuses : /\ <<status[j], to>> \in DriverFlow
                                        /\ Transition(j, status[j], to)
          BY <3>3 DEF Advance
        <4>2. to # "DISPUTED"
          BY <4>1, DriverSteps DEF Won, Trip
        <4>. QED BY <4>1, <4>2, FinishedTransition
      <3>4. ASSUME NEW d \in Drivers,
                   \/ GoOnline(d) \/ GoOffline(d)
                   \/ SuspendVehicle(d) \/ SetActiveVehicle(d)
            PROVE  UNCHANGED status
        BY <3>4 DEF GoOnline, GoOffline, SuspendVehicle, SetActiveVehicle
      <3>. QED BY <2>3, <3>1, <3>2, <3>3, <3>4 DEF People
    <2>. QED BY <2>1, <2>2, <2>3 DEF Next
  <1>2. TypeOK /\ [Next]_vars =>
          [\A j \in Jobs : status[j] \in JobTerminal \cup {"COMPLETED"} =>
               status'[j] = status[j]]_vars
    BY <1>1 DEF Finished
  <1>. QED BY <1>2, TypeCorrect, PTL DEF Spec, FinishedStaysFinished

-----------------------------------------------------------------------------
(* Dispatch implements JobClaim *)

\* The abstract state, at every state of dispatch.
PhaseOf == [j \in Jobs |-> Phase(status[j])]
HoldersOf == [j \in Jobs |-> {d \in Drivers : <<j, d>> \in accepted}]

LEMMA ClaimFrame ==
    ASSUME UNCHANGED <<status, accepted>>
    PROVE  UNCHANGED Claim!vars
  BY DEF Claim!vars

\* A compare-and-set either stays within a phase or ends the job.
LEMMA ClaimTransition ==
    ASSUME TypeOK, NEW j \in Jobs, NEW from, NEW to, Transition(j, from, to),
           UNCHANGED accepted,
           \/ Phase(to) = Phase(from)
           \/ Phase(from) # "over" /\ Phase(to) = "over"
    PROVE  [Claim!Next]_(Claim!vars)
  <1>1. /\ PhaseOf' = [PhaseOf EXCEPT ![j] = Phase(to)]
        /\ PhaseOf[j] = Phase(from)
        /\ UNCHANGED HoldersOf
    BY DEF Transition, TypeOK, PhaseOf, HoldersOf
  <1>2. CASE Phase(to) = Phase(from)
    <2>1. UNCHANGED PhaseOf
      BY <1>1, <1>2 DEF PhaseOf
    <2>. QED BY <1>1, <2>1 DEF PhaseOf, HoldersOf, Claim!vars
  <1>3. CASE Phase(from) # "over" /\ Phase(to) = "over"
    <2>1. Claim!End(j)
      BY <1>1, <1>3 DEF Claim!End, PhaseOf, HoldersOf
    <2>. QED BY <2>1 DEF Claim!Next
  <1>. QED BY <1>2, <1>3

\* The offer sweep and a declined offer move jobs within the open phase.
LEMMA ClaimOpenMoves ==
    ASSUME UNCHANGED accepted,
           \A j \in Jobs : \/ status'[j] = status[j]
                           \/ status[j] \in Open /\ status'[j] \in Open
    PROVE  UNCHANGED Claim!vars
  BY DEF Claim!vars, Phase

LEMMA ClaimAccept ==
    ASSUME TypeOK, Safe, NEW j \in Jobs, NEW d \in Drivers, Accept(j, d)
    PROVE  Claim!Win(j, d)
  <1>1. /\ status[j] \in {"SEARCHING", "ASSIGNED"}
        /\ accepted' = accepted \cup {<<j, d>>}
        /\ status' = [status EXCEPT ![j] = "ACCEPTED"]
    BY DEF Accept
  <1>2. \A e \in Drivers : <<j, e>> \notin accepted
    BY <1>1 DEF Safe, WonByItsDriver, Won, Trip
  <1>3. PhaseOf[j] = "open" /\ PhaseOf' = [PhaseOf EXCEPT ![j] = "won"]
    BY <1>1 DEF PhaseOf, Phase, Open, Trip, TypeOK
  <1>4. HoldersOf[j] = {} /\ HoldersOf' = [HoldersOf EXCEPT ![j] = {d}]
    BY <1>1, <1>2 DEF HoldersOf
  <1>. QED BY <1>3, <1>4 DEF Claim!Win, PhaseOf, HoldersOf

\* The moves of the platform, by phase.
LEMMA Phases ==
    /\ \A s \in {"REQUESTED", "SEARCHING", "ASSIGNED"} : Phase(s) = "open"
    /\ \A s \in {"CANCELLED", "EXPIRED", "COMPLETED"} : Phase(s) = "over"
    /\ \A s \in {"ACCEPTED", "ARRIVING", "AT_PICKUP", "IN_PROGRESS", "AT_DROPOFF"} :
          Phase(s) = "won"
  BY DEF Phase, Open, Trip

LEMMA ClaimCAS ==
    ASSUME TypeOK, NEW j \in Jobs, UNCHANGED accepted,
           \/ Transition(j, "REQUESTED", "SEARCHING")
           \/ Transition(j, "SEARCHING", "ASSIGNED")
           \/ Transition(j, "SEARCHING", "EXPIRED")
           \/ UNCHANGED jobVars
    PROVE  [Claim!Next]_(Claim!vars)
  <1>1. CASE UNCHANGED jobVars
    BY <1>1, ClaimFrame DEF jobVars
  <1>2. CASE Transition(j, "REQUESTED", "SEARCHING")
    BY <1>2, ClaimTransition, Phases
  <1>3. CASE Transition(j, "SEARCHING", "ASSIGNED")
    BY <1>3, ClaimTransition, Phases
  <1>4. CASE Transition(j, "SEARCHING", "EXPIRED")
    BY <1>4, ClaimTransition, Phases
  <1>. QED BY <1>1, <1>2, <1>3, <1>4

LEMMA ClaimSweeper ==
    ASSUME TypeOK, NEW r \in Replicas, Sweeper(r) \/ Crash(r)
    PROVE  [Claim!Next]_(Claim!vars)
  <1>1. CASE SweepExpired(r)
    <2>1. \A j \in Jobs : \/ status'[j] = status[j]
                          \/ status[j] = "ASSIGNED" /\ status'[j] = "SEARCHING"
      BY <1>1 DEF SweepExpired, Orphaned
    <2>2. UNCHANGED Claim!vars
      BY <1>1, <2>1, ClaimOpenMoves DEF SweepExpired, Open
    <2>. QED BY <2>2
  <1>2. CASE \/ ListWaiting(r) \/ Attempt(r) \/ CountAttempts(r) \/ Search(r) \/ ListStale(r) \/ Crash(r)
    BY <1>2, ClaimFrame
    DEF ListWaiting, Attempt, CountAttempts, Search, ListStale, Crash, jobVars, offerVars
  <1>3. CASE MoveToAssigned(r) \/ Expire(r)
    <2>1. run[r].job \in Jobs
      BY <1>3, RunType DEF MoveToAssigned, Expire
    <2>. QED BY <1>3, <2>1, ClaimCAS DEF MoveToAssigned, Expire, offerVars
  <1>4. ASSUME NEW j \in Jobs, Start(r, j) \/ ExpireStale(r, j)
        PROVE  [Claim!Next]_(Claim!vars)
    BY <1>4, ClaimCAS DEF Start, ExpireStale, offerVars
  <1>5. ASSUME NEW d \in Drivers,
               ReserveBusy(r, d) \/ ReserveClaimed(r, d) \/ Reserve(r, d)
        PROVE  [Claim!Next]_(Claim!vars)
    BY <1>5, ClaimFrame DEF ReserveBusy, ReserveClaimed, Reserve, jobVars, offerVars
  <1>. QED BY <1>1, <1>2, <1>3, <1>4, <1>5 DEF Sweeper

LEMMA ClaimPeople ==
    ASSUME TypeOK, Safe, People
    PROVE  [Claim!Next]_(Claim!vars)
  <1>1. ASSUME NEW j \in Jobs, Cancel(j)
        PROVE  [Claim!Next]_(Claim!vars)
    <2>1. status[j] \in JobStatuses /\ status[j] \notin {"CANCELLED", "EXPIRED", "COMPLETED"}
      BY <1>1, CancellableStatuses DEF Cancel, TypeOK
    <2>. QED BY <1>1, <2>1, ClaimTransition, Phases DEF Cancel, offerVars
  <1>2. ASSUME NEW j \in Jobs, NEW d \in Drivers, Accept(j, d)
        PROVE  [Claim!Next]_(Claim!vars)
    BY <1>2, ClaimAccept DEF Claim!Next
  <1>3. ASSUME NEW j \in Jobs, NEW d \in Drivers, Reject(j, d)
        PROVE  [Claim!Next]_(Claim!vars)
    <2>1. \A k \in Jobs : \/ status'[k] = status[k]
                          \/ status[k] \in Open /\ status'[k] \in Open
      BY <1>3 DEF Reject, TypeOK, Open
    <2>. QED BY <1>3, <2>1, ClaimOpenMoves DEF Reject
  <1>4. ASSUME NEW j \in Jobs, NEW d \in Drivers, Advance(j, d)
        PROVE  [Claim!Next]_(Claim!vars)
    <2>1. PICK to \in JobStatuses : /\ <<status[j], to>> \in DriverFlow
                                    /\ Transition(j, status[j], to)
      BY <1>4 DEF Advance
    <2>2. status[j] \in Trip /\ to \in Won
      BY <2>1, DriverSteps
    <2>3. Phase(status[j]) = "won" /\ Phase(to) \in {"won", "over"}
      BY <2>2, Phases DEF Trip, Won
    <2>. QED BY <1>4, <2>1, <2>3, ClaimTransition DEF Advance, offerVars
  <1>5. ASSUME NEW d \in Drivers,
               \/ GoOnline(d) \/ GoOffline(d)
               \/ SuspendVehicle(d) \/ SetActiveVehicle(d)
        PROVE  [Claim!Next]_(Claim!vars)
    BY <1>5, ClaimFrame
    DEF GoOnline, GoOffline, SuspendVehicle, SetActiveVehicle, jobVars, offerVars
  <1>. QED BY <1>1, <1>2, <1>3, <1>4, <1>5 DEF People

\* Dispatch implements the claim on a job: with any number of processes,
\* drivers and offers, a job is won at most once, by one driver, before it is
\* over and never after.
THEOREM ImplementsClaim == Spec => ClaimSpec
  <1>1. Init => Claim!Init
    BY DEF Init, Claim!Init, Phase, Open
  <1>2. IInv /\ [Next]_vars => [Claim!Next]_(Claim!vars)
    <2>. SUFFICES ASSUME IInv, [Next]_vars PROVE [Claim!Next]_(Claim!vars)
      OBVIOUS
    <2>1. CASE UNCHANGED vars
      BY <2>1, ClaimFrame DEF vars, jobVars, offerVars
    <2>2. CASE \E r \in Replicas : Sweeper(r) \/ Crash(r)
      BY <2>2, ClaimSweeper DEF IInv
    <2>3. CASE People
      BY <2>3, ClaimPeople DEF IInv
    <2>4. CASE Time
      BY <2>4, ClaimFrame DEF Time, OfferLapses, DeadlinePasses, jobVars, offerVars
    <2>. QED BY <2>1, <2>2, <2>3, <2>4 DEF Next
  <1>. QED BY <1>1, <1>2, Inductive, PTL DEF Spec, ClaimSpec, Claim!Spec

-----------------------------------------------------------------------------
(* Why a sweep ends *)

\* The guards of a sweeper's steps.  A move of a job is made, or passed over
\* because somebody else made one; it would be held up if the job were where it
\* was read and the machine refused.
Movable(j, from, to) == status[j] = from => JobCan(from, to)

CanSweep(r) ==
    \/ run[r].step \in {"idle", "list", "attempt", "count", "search"}
    \/ /\ run[r].step = "next"
       /\ run[r].todo = {} \/ \E j \in run[r].todo : Movable(j, "REQUESTED", "SEARCHING")
    \/ run[r].step = "reserve" /\ run[r].cands # {}
    \/ run[r].step = "assign" /\ Movable(run[r].job, "SEARCHING", "ASSIGNED")
    \/ run[r].step = "expire" /\ Movable(run[r].job, "SEARCHING", "EXPIRED")
    \/ run[r].step = "stale" /\ \E j \in run[r].todo : Movable(j, "SEARCHING", "EXPIRED")

\* The parts of a pass, and the turn of one job in it.
Part == [list |-> 2, next |-> 1, attempt |-> 1, count |-> 1, search |-> 1,
         reserve |-> 1, assign |-> 1, expire |-> 1, stale |-> 0]
Turn == [list |-> 0, next |-> 0, attempt |-> 5, count |-> 4, search |-> 3,
         reserve |-> 2, assign |-> 1, expire |-> 1, stale |-> 0]

\* A sweeper has less of its pass before it: none, fewer parts, fewer jobs, less
\* of the turn of one, fewer candidates.
LessOfThePass(s, r) ==
    \/ s.step = "idle"
    \/ Part[s.step] < Part[r.step]
    \/ Part[s.step] = Part[r.step] /\ Cardinality(s.todo) < Cardinality(r.todo)
    \/ /\ Part[s.step] = Part[r.step] /\ s.todo = r.todo
       /\ \/ Turn[s.step] < Turn[r.step]
          \/ s.step = r.step /\ Cardinality(s.cands) < Cardinality(r.cands)

\* Whatever drivers, customers and the other processes do in between, a sweeper has
\* a step to take, each leaves it less of its pass, and nobody else's gives it
\* more: no process waits for another, and every pass ends.
SweepersGetOn ==
    /\ [](\A r \in Replicas : CanSweep(r))
    /\ [][\A r \in Replicas : run[r].step # "idle" =>
             \/ LessOfThePass(run'[r], run[r])
             \/ ~Sweeper(r) /\ run'[r] = run[r]]_vars

\* What it takes: candidates to try, and searches to expire.
InHand ==
    \A r \in Replicas : /\ run[r].step = "reserve" => run[r].cands # {}
                        /\ run[r].step = "stale" => run[r].todo # {}

\* One step of a pass, by what it leaves to do.
RunMove(r, s) ==
    \/ s.step = "idle"
    \/ r.step = "idle" /\ s.step = "list"
    \/ r.step = "list" /\ s.step = "next"
    \/ /\ r.step = "next" /\ s.step = "attempt"
       /\ \E j \in r.todo : s.todo = r.todo \ {j}
    \/ r.step = "next" /\ s.step = "stale" /\ s.todo # {}
    \/ r.step = "attempt" /\ s.step \in {"next", "expire", "count"} /\ s.todo = r.todo
    \/ r.step = "count" /\ s.step \in {"expire", "search"} /\ s.todo = r.todo
    \/ r.step = "search" /\ s.step = "next" /\ s.todo = r.todo
    \/ r.step = "search" /\ s.step = "reserve" /\ s.todo = r.todo /\ s.cands # {}
    \/ r.step = "reserve" /\ s.step \in {"next", "assign"} /\ s.todo = r.todo
    \/ /\ r.step = "reserve" /\ s.step = "reserve" /\ s.todo = r.todo /\ s.cands # {}
       /\ \E d \in r.cands : s.cands = r.cands \ {d}
    \/ r.step \in {"assign", "expire"} /\ s.step = "next" /\ s.todo = r.todo
    \/ /\ r.step = "stale" /\ s.step = "stale" /\ s.todo # {}
       /\ \E j \in r.todo : s.todo = r.todo \ {j}

LEMMA RunMoves ==
    ASSUME TypeOK, NEW r \in Replicas, Sweeper(r) \/ Crash(r)
    PROVE  /\ RunMove(run[r], run'[r])
           /\ \A q \in Replicas : q # r => run'[q] = run[q]
  <1>. DEFINE Goal == /\ RunMove(run[r], run'[r])
                     /\ \A q \in Replicas : q # r => run'[q] = run[q]
  <1>1. ASSUME NEW x, run' = [run EXCEPT ![r] = x], RunMove(run[r], x)
        PROVE  Goal
    BY <1>1 DEF TypeOK
  <1>2. /\ Idle.step = "idle"
        /\ NextJob(r).step = "next" /\ NextJob(r).todo = run[r].todo
        /\ \A s, t, j, n, c : /\ At(s, t, j, n, c).step = s
                             /\ At(s, t, j, n, c).todo = t
                             /\ At(s, t, j, n, c).cands = c
    BY DEF Idle, NextJob, At
  <1>. SUFFICES Goal
    OBVIOUS
  <1>. HIDE DEF Goal
  <1>3. CASE SweepExpired(r)
    <2>1. RunMove(run[r], At("list", {}, NoJob, 0, {}))
      BY <1>2, <1>3 DEF SweepExpired, RunMove
    <2>. QED BY <1>1, <1>3, <2>1 DEF SweepExpired
  <1>4. CASE ListWaiting(r)
    <2>1. RunMove(run[r], At("next", Waiting, NoJob, 0, {}))
      BY <1>2, <1>4 DEF ListWaiting, RunMove
    <2>. QED BY <1>1, <1>4, <2>1 DEF ListWaiting
  <1>5. CASE Attempt(r)
    <2>1. /\ RunMove(run[r], NextJob(r))
          /\ RunMove(run[r], At("expire", run[r].todo, run[r].job, 0, {}))
          /\ RunMove(run[r], At("count", run[r].todo, run[r].job, 0, {}))
      BY <1>2, <1>5 DEF Attempt, RunMove
    <2>2. \/ run' = [run EXCEPT ![r] = NextJob(r)]
          \/ run' = [run EXCEPT ![r] = At("expire", run[r].todo, run[r].job, 0, {})]
          \/ run' = [run EXCEPT ![r] = At("count", run[r].todo, run[r].job, 0, {})]
      BY <1>5 DEF Attempt
    <2>. QED BY <1>1, <2>1, <2>2
  <1>6. CASE CountAttempts(r)
    <2>1. /\ RunMove(run[r], At("expire", run[r].todo, run[r].job, 0, {}))
          /\ \A n : RunMove(run[r], At("search", run[r].todo, run[r].job, n, {}))
      BY <1>2, <1>6 DEF CountAttempts, RunMove
    <2>2. \/ run' = [run EXCEPT ![r] = At("expire", run[r].todo, run[r].job, 0, {})]
          \/ run' = [run EXCEPT ![r] = At("search", run[r].todo, run[r].job,
                                          attempts[run[r].job] + 1, {})]
      BY <1>6 DEF CountAttempts
    <2>. QED BY <1>1, <2>1, <2>2
  <1>7. CASE Search(r)
    <2>1. /\ RunMove(run[r], NextJob(r))
          /\ \A near : near # {} =>
                RunMove(run[r], At("reserve", run[r].todo, run[r].job, run[r].ring, near))
      BY <1>2, <1>7 DEF Search, RunMove
    <2>2. \/ run' = [run EXCEPT ![r] = NextJob(r)]
          \/ \E near : /\ near # {}
                       /\ run' = [run EXCEPT ![r] = At("reserve", run[r].todo, run[r].job,
                                                       run[r].ring, near)]
      BY <1>7 DEF Search
    <2>. QED BY <1>1, <2>1, <2>2
  <1>8. CASE MoveToAssigned(r) \/ Expire(r)
    <2>1. RunMove(run[r], NextJob(r))
      BY <1>2, <1>8 DEF MoveToAssigned, Expire, RunMove
    <2>. QED BY <1>1, <1>8, <2>1 DEF MoveToAssigned, Expire
  <1>9. CASE Crash(r)
    <2>1. RunMove(run[r], Idle)
      BY <1>2 DEF RunMove
    <2>. QED BY <1>1, <1>9, <2>1 DEF Crash
  <1>10. CASE ListStale(r)
    <2>1. /\ RunMove(run[r], Idle)
          /\ \A stale : stale # {} => RunMove(run[r], At("stale", stale, NoJob, 0, {}))
      BY <1>2, <1>10 DEF ListStale, RunMove
    <2>2. \/ run' = [run EXCEPT ![r] = Idle]
          \/ \E stale : stale # {} /\ run' = [run EXCEPT ![r] = At("stale", stale, NoJob, 0, {})]
      BY <1>10 DEF ListStale
    <2>. QED BY <1>1, <2>1, <2>2
  <1>11. ASSUME NEW j \in Jobs, Start(r, j) PROVE Goal
    <2>1. RunMove(run[r], At("attempt", run[r].todo \ {j}, j, 0, {}))
      BY <1>2, <1>11 DEF Start, RunMove
    <2>2. run' = [run EXCEPT ![r] = At("attempt", run[r].todo \ {j}, j, 0, {})]
      BY <1>11 DEF Start
    <2>. QED BY <1>1, <2>1, <2>2
  <1>12. ASSUME NEW j \in Jobs, ExpireStale(r, j) PROVE Goal
    <2>. DEFINE left == run[r].todo \ {j}
    <2>1. /\ RunMove(run[r], Idle)
          /\ left # {} => RunMove(run[r], At("stale", left, NoJob, 0, {}))
      BY <1>2, <1>12 DEF ExpireStale, RunMove
    <2>2. \/ run' = [run EXCEPT ![r] = Idle]
          \/ left # {} /\ run' = [run EXCEPT ![r] = At("stale", left, NoJob, 0, {})]
      BY <1>12 DEF ExpireStale
    <2>. QED BY <1>1, <2>1, <2>2
  <1>13. ASSUME NEW d \in Drivers, ReserveBusy(r, d) PROVE Goal
    <2>. DEFINE left == run[r].cands \ {d}
               onward == At("reserve", run[r].todo, run[r].job, run[r].ring, left)
    <2>1. /\ RunMove(run[r], NextJob(r))
          /\ left # {} => RunMove(run[r], onward)
      BY <1>2, <1>13 DEF ReserveBusy, RunMove
    <2>2. \/ run' = [run EXCEPT ![r] = NextJob(r)]
          \/ left # {} /\ run' = [run EXCEPT ![r] = onward]
      BY <1>13 DEF ReserveBusy
    <2>. QED BY <1>1, <2>1, <2>2
  <1>14. ASSUME NEW d \in Drivers, ReserveClaimed(r, d) PROVE Goal
    <2>1. RunMove(run[r], NextJob(r))
      BY <1>2, <1>14 DEF ReserveClaimed, RunMove
    <2>. QED BY <1>1, <1>14, <2>1 DEF ReserveClaimed
  <1>15. ASSUME NEW d \in Drivers, Reserve(r, d) PROVE Goal
    <2>1. RunMove(run[r], At("assign", run[r].todo, run[r].job, 0, {}))
      BY <1>2, <1>15 DEF Reserve, RunMove
    <2>. QED BY <1>1, <1>15, <2>1 DEF Reserve
  <1>. QED
    BY <1>3, <1>4, <1>5, <1>6, <1>7, <1>8, <1>9, <1>10, <1>11, <1>12, <1>13, <1>14, <1>15
    DEF Sweeper

\* People and time leave the sweepers alone.
LEMMA OthersLeaveRun ==
    ASSUME [Next]_vars, ~\E r \in Replicas : Sweeper(r) \/ Crash(r)
    PROVE  run' = run
  BY DEF Next, People, Time, Accept, Reject, Cancel, Advance, GoOnline, GoOffline,
         SuspendVehicle, SetActiveVehicle, OfferLapses, DeadlinePasses, vars

LEMMA InHandStep ==
    ASSUME TypeOK, InHand, [Next]_vars
    PROVE  InHand'
  <1>1. ASSUME NEW r \in Replicas, Sweeper(r) \/ Crash(r)
        PROVE  InHand'
    <2>1. /\ RunMove(run[r], run'[r])
          /\ \A q \in Replicas : q # r => run'[q] = run[q]
      BY <1>1, RunMoves
    <2>2. /\ run'[r].step = "reserve" => run'[r].cands # {}
          /\ run'[r].step = "stale" => run'[r].todo # {}
      BY <2>1 DEF RunMove
    <2>. QED BY <2>1, <2>2 DEF InHand
  <1>2. CASE ~\E r \in Replicas : Sweeper(r) \/ Crash(r)
    BY <1>2, OthersLeaveRun DEF InHand
  <1>. QED BY <1>1, <1>2

\* A step leaves less.
LEMMA PassEnds ==
    ASSUME TypeOK, TypeOK', NEW r \in Replicas, Sweeper(r) \/ Crash(r), run[r].step # "idle"
    PROVE  LessOfThePass(run'[r], run[r])
  <1>1. PICK x, y : x = run[r] /\ y = run'[r] /\ RunMove(x, y)
    BY RunMoves
  <1>2. /\ IsFiniteSet(x.todo) /\ IsFiniteSet(x.cands)
        /\ Cardinality(x.todo) \in Nat /\ Cardinality(x.cands) \in Nat
    <2>1. x.todo \subseteq Jobs /\ x.cands \subseteq Drivers
      BY <1>1, RunType
    <2>2. IsFiniteSet(x.todo) /\ IsFiniteSet(x.cands)
      BY <2>1, FiniteAssumption, FS_Subset
    <2>. QED BY <2>2, FS_CardinalityType
  <1>3. ASSUME NEW S, IsFiniteSet(S), Cardinality(S) \in Nat, NEW e \in S, NEW T, T = S \ {e}
        PROVE  Cardinality(T) < Cardinality(S)
    <2>1. Cardinality(T) = Cardinality(S) - 1
      BY <1>3, FS_RemoveElement
    <2>. QED BY <1>3, <2>1
  <1>4. LessOfThePass(y, x)
    <2>. SUFFICES ASSUME y.step # "idle" PROVE LessOfThePass(y, x)
      BY DEF LessOfThePass
    <2>1. x.step # "idle"
      BY <1>1
    <2>2. CASE x.step = "list" \/ (x.step = "next" /\ y.step = "stale")
      <3>1. Part[y.step] < Part[x.step]
        BY <1>1, <2>1, <2>2 DEF RunMove, Part
      <3>. QED BY <3>1 DEF LessOfThePass
    <2>3. CASE (x.step = "next" /\ y.step # "stale") \/ x.step = "stale"
      <3>1. PICK j \in x.todo : y.todo = x.todo \ {j}
        BY <1>1, <2>3 DEF RunMove
      <3>2. Part[y.step] = Part[x.step]
        BY <1>1, <2>3 DEF RunMove, Part
      <3>3. Cardinality(y.todo) < Cardinality(x.todo)
        BY <1>2, <1>3, <3>1
      <3>. QED BY <3>2, <3>3 DEF LessOfThePass
    <2>4. CASE x.step = "reserve" /\ y.step = "reserve"
      <3>1. PICK d \in x.cands : y.cands = x.cands \ {d}
        BY <1>1, <2>4 DEF RunMove
      <3>2. y.todo = x.todo /\ y.step = x.step
        BY <1>1, <2>4 DEF RunMove
      <3>3. Cardinality(y.cands) < Cardinality(x.cands)
        BY <1>2, <1>3, <3>1
      <3>. QED BY <3>2, <3>3 DEF LessOfThePass
    <2>5. CASE /\ x.step \notin {"list", "next", "stale"}
               /\ ~(x.step = "reserve" /\ y.step = "reserve")
      <3>1. /\ y.todo = x.todo
            /\ \/ x.step = "attempt" /\ y.step \in {"next", "expire", "count"}
               \/ x.step = "count" /\ y.step \in {"expire", "search"}
               \/ x.step = "search" /\ y.step \in {"next", "reserve"}
               \/ x.step = "reserve" /\ y.step \in {"next", "assign"}
               \/ x.step \in {"assign", "expire"} /\ y.step = "next"
        BY <1>1, <2>1, <2>5 DEF RunMove
      <3>2. Part[y.step] = Part[x.step] /\ Turn[y.step] < Turn[x.step]
        BY <3>1 DEF Part, Turn
      <3>. QED BY <3>1, <3>2 DEF LessOfThePass
    <2>. QED BY <2>2, <2>3, <2>4, <2>5
  <1>. QED BY <1>1, <1>4

\* Documents 43 and 44, "reservations release reliably" and "do not retry
\* infinitely", of the process that has to see to both (sweeper.Run, Runner.Round):
\* it is never held up in a pass, and every pass comes to its end.
THEOREM SweepsComeToAnEnd == Spec => SweepersGetOn
  <1>. DEFINE Ready == \A r \in Replicas : CanSweep(r)
              Descends == \A r \in Replicas : run[r].step # "idle" =>
                  \/ LessOfThePass(run'[r], run[r])
                  \/ ~Sweeper(r) /\ run'[r] = run[r]
  <1>1. TypeOK /\ InHand => Ready
    <2>. SUFFICES ASSUME TypeOK, InHand, NEW r \in Replicas PROVE CanSweep(r)
      OBVIOUS
    <2>1. run[r].step \in {"idle", "list", "next", "stale", "attempt", "count", "search",
                           "reserve", "assign", "expire"}
      BY DEF TypeOK, RunStates, BetweenJobs, AboutAJob
    <2>2. \A j : /\ Movable(j, "REQUESTED", "SEARCHING")
                 /\ Movable(j, "SEARCHING", "ASSIGNED") /\ Movable(j, "SEARCHING", "EXPIRED")
      BY DEF Movable, JobCan, JobMachine
    <2>. QED BY <2>1, <2>2 DEF CanSweep, InHand
  <1>2. TypeOK /\ TypeOK' /\ [Next]_vars => [Descends]_vars
    <2>. SUFFICES ASSUME TypeOK, TypeOK', [Next]_vars, NEW r \in Replicas, run[r].step # "idle"
                  PROVE  \/ LessOfThePass(run'[r], run[r])
                         \/ ~Sweeper(r) /\ run'[r] = run[r]
      OBVIOUS
    <2>1. CASE Sweeper(r) \/ Crash(r)
      BY <2>1, PassEnds
    <2>2. ASSUME ~(Sweeper(r) \/ Crash(r)), NEW q \in Replicas, Sweeper(q) \/ Crash(q)
          PROVE  run'[r] = run[r]
      BY <2>2, RunMoves
    <2>3. CASE ~\E q \in Replicas : Sweeper(q) \/ Crash(q)
      BY <2>3, OthersLeaveRun
    <2>. QED BY <2>1, <2>2, <2>3
  <1>3. Init => InHand
    BY DEF Init, InHand, Idle, At
  <1>4. TypeOK /\ InHand /\ [Next]_vars => InHand'
    BY InHandStep
  <1>5. Spec => []InHand
    BY <1>3, <1>4, TypeCorrect, PTL DEF Spec
  <1>. QED BY <1>1, <1>2, <1>5, TypeCorrect, PTL DEF Spec, SweepersGetOn

=============================================================================
