---------------------------- MODULE JobLifecycle ----------------------------
(***************************************************************************)
(* The three state machines the platform writes down once and validates    *)
(* against: a job (internal/jobs), one offer of a job to one driver, and a  *)
(* driver's availability (internal/providers).  A machine is the relation   *)
(* pkg/statemachine builds: from a status, the set of statuses it permits.  *)
(***************************************************************************)
CONSTANT
    Drivers  \* rows of drivers

JobStatuses ==
    {"DRAFT", "QUOTED", "REQUESTED", "SEARCHING", "ASSIGNED", "ACCEPTED",
     "ARRIVING", "AT_PICKUP", "IN_PROGRESS", "AT_DROPOFF", "COMPLETED",
     "CANCELLED", "FAILED", "EXPIRED", "DISPUTED"}

JobTerminal == {"CANCELLED", "FAILED", "EXPIRED", "DISPUTED"}

\* Every move of jobs.Machine, as a set of <<from, to>> pairs.
JobMachine ==
       {"DRAFT"}       \X {"QUOTED", "REQUESTED", "CANCELLED", "EXPIRED"}
  \cup {"QUOTED"}      \X {"REQUESTED", "CANCELLED", "EXPIRED"}
  \cup {"REQUESTED"}   \X {"SEARCHING", "CANCELLED", "EXPIRED", "FAILED"}
  \cup {"SEARCHING"}   \X {"ASSIGNED", "CANCELLED", "EXPIRED", "FAILED"}
  \cup {"ASSIGNED"}    \X {"ACCEPTED", "SEARCHING", "CANCELLED", "EXPIRED", "FAILED"}
  \cup {"ACCEPTED"}    \X {"ARRIVING", "SEARCHING", "CANCELLED", "FAILED"}
  \cup {"ARRIVING"}    \X {"AT_PICKUP", "CANCELLED", "FAILED"}
  \cup {"AT_PICKUP"}   \X {"IN_PROGRESS", "CANCELLED", "FAILED"}
  \cup {"IN_PROGRESS"} \X {"AT_DROPOFF", "FAILED"}
  \cup {"AT_DROPOFF"}  \X {"COMPLETED", "FAILED"}
  \cup {"COMPLETED"}   \X {"DISPUTED"}

\* statemachine.Can
JobCan(from, to) == <<from, to>> \in JobMachine

\* booking.Cancellable
Cancellable(s) == JobCan(s, "CANCELLED")

\* The part of booking.mainFlow a driver's commands may walk: Execute refuses
\* to reach back before ACCEPTED.
DriverFlow ==
    {<<"ACCEPTED", "ARRIVING">>, <<"ARRIVING", "AT_PICKUP">>,
     <<"AT_PICKUP", "IN_PROGRESS">>, <<"IN_PROGRESS", "AT_DROPOFF">>,
     <<"AT_DROPOFF", "COMPLETED">>}

AvailabilityStatuses ==
    {"OFFLINE", "AVAILABLE", "OFFERED", "ACCEPTED", "ON_TRIP", "PAUSED",
     "SUSPENDED", "BLOCKED"}

\* Every move of providers.AvailabilityMachine.
AvailabilityMachine ==
       {"OFFLINE"}   \X {"AVAILABLE", "SUSPENDED", "BLOCKED"}
  \cup {"AVAILABLE"} \X {"OFFERED", "PAUSED", "OFFLINE", "SUSPENDED", "BLOCKED"}
  \cup {"OFFERED"}   \X {"ACCEPTED", "AVAILABLE", "OFFLINE", "SUSPENDED", "BLOCKED"}
  \cup {"ACCEPTED"}  \X {"ON_TRIP", "AVAILABLE", "SUSPENDED", "BLOCKED"}
  \cup {"ON_TRIP"}   \X {"AVAILABLE", "SUSPENDED", "BLOCKED"}
  \cup {"PAUSED"}    \X {"AVAILABLE", "OFFLINE", "SUSPENDED", "BLOCKED"}
  \cup {"SUSPENDED"} \X {"OFFLINE", "BLOCKED"}
  \cup {"BLOCKED"}   \X {"OFFLINE"}

AvailabilityCan(from, to) == <<from, to>> \in AvailabilityMachine

=============================================================================
