--------------------------------- MODULE Trip ---------------------------------
(***************************************************************************)
(* A job from the search to its end: the offer and the acceptance, the       *)
(* driver's commands, the customer's cancellation and its fee, and the       *)
(* tracking session that lets the customer watch the driver.  A request is   *)
(* several transactions; requests overlap, fail and die between them.        *)
(*                                                                          *)
(* Dispatch is reduced to its effect on one job at a time, and time to       *)
(* whether the grace window of an acceptance has passed.  What a completed   *)
(* job owes (settle) is Money's, what its order does (followDelivery)        *)
(* GroceryOrder's: neither stops a request, and a request that dies there    *)
(* leaves what one that dies before endTracking leaves.                      *)
(***************************************************************************)
EXTENDS Naturals, FiniteSets, JobLifecycle

CONSTANTS
    Jobs,       \* rows of jobs
    Calls,      \* requests served at once: cancellations and driver commands
    NoDriver,   \* no driver
    MaxFaults   \* failed statements and dead processes considered

ASSUME NoDriverAssumption == NoDriver \notin Drivers
ASSUME MaxFaultsAssumption == MaxFaults \in Nat

VARIABLES
    status,     \* jobs.status
    holder,     \* jobs.assigned_driver_id, whose assignment is ACCEPTED
    offered,    \* <<job, driver>> of assignments with status OFFERED
    late,       \* jobs whose acceptance is longer ago than the grace window
    opening,    \* jobs whose accept request is yet to open the session
    session,    \* the driver of a job's open tracking_sessions row
    record,     \* a job's job_cancellations row
    call,       \* where each request is
    faults      \* failures so far: a bound of the model

jobVars == <<status, holder, offered, late>>
vars    == <<jobVars, opening, session, record, call, faults>>

-----------------------------------------------------------------------------
(* States *)

NoRecord == [tier |-> "none", charged |-> FALSE]
Tiers    == {"BEFORE_ASSIGNMENT", "AFTER_ASSIGNMENT", "AFTER_ARRIVAL", "AFTER_START"}

\* A request works on a job: from the status it read or reached, towards
\* another; a cancellation knows the fee once it has decided it.
Working(step, j, from, to, charged) ==
    [step |-> step, job |-> j, from |-> from, to |-> to, charged |-> charged]
Idle == [step |-> "idle"]
CallStates == {Idle} \cup
    [step : {"fee", "move", "record", "walk", "end"}, job : Jobs,
     from : JobStatuses, to : JobStatuses, charged : BOOLEAN]

\* jobs.Job.Finished
Finished(j) == status[j] \in JobTerminal \cup {"COMPLETED"}

TypeOK ==
    /\ status \in [Jobs -> JobStatuses]
    /\ holder \in [Jobs -> Drivers \cup {NoDriver}]
    /\ offered \subseteq Jobs \X Drivers
    /\ late \subseteq Jobs /\ opening \subseteq Jobs
    /\ session \in [Jobs -> Drivers \cup {NoDriver}]
    /\ record \in [Jobs -> {NoRecord} \cup [tier : Tiers, charged : BOOLEAN]]
    /\ call \in [Calls -> CallStates]
    /\ faults \in 0 .. MaxFaults
    /\ \A p \in offered : status[p[1]] \in {"SEARCHING", "ASSIGNED", "CANCELLED"}

Init ==
    /\ status = [j \in Jobs |-> "REQUESTED"]
    /\ holder = [j \in Jobs |-> NoDriver]
    /\ offered = {} /\ late = {} /\ opening = {}
    /\ session = [j \in Jobs |-> NoDriver]
    /\ record = [j \in Jobs |-> NoRecord]
    /\ call = [c \in Calls |-> Idle]
    /\ faults = 0

Fault == faults < MaxFaults /\ faults' = faults + 1
Set(c, s) == call' = [call EXCEPT ![c] = s]

\* jobs.Store.Transition: compare-and-set on the status read.
Transition(j, from, to) ==
    /\ status[j] = from /\ JobCan(from, to)
    /\ status' = [status EXCEPT ![j] = to]

\* StartSession: the live row of the job is taken over, or one is inserted.
StartSession(j, d) == session' = [session EXCEPT ![j] = d]
EndSession(j)      == session' = [session EXCEPT ![j] = NoDriver]

-----------------------------------------------------------------------------
(* Mistakes the properties are there to catch *)

\* The cancellation is written over whatever the job has become.
MoveAnyway(c) ==
    LET j == call[c].job
    IN  /\ call[c].step = "move"
        /\ Transition(j, status[j], "CANCELLED")
        /\ Set(c, [call[c] EXCEPT !.step = "record"])
        /\ UNCHANGED <<holder, offered, late, opening, session, record, faults>>

\* An accepted offer stays open.
AcceptKeepingOffer(j, d) ==
    /\ <<j, d>> \in offered
    /\ status[j] \in {"SEARCHING", "ASSIGNED"}
    /\ status' = [status EXCEPT ![j] = "ACCEPTED"]
    /\ holder' = [holder EXCEPT ![j] = d]
    /\ opening' = opening \cup {j}
    /\ UNCHANGED <<offered, late, session, record, call, faults>>

\* Only a job the machine calls terminal ends its tracking: COMPLETED, which may
\* still be disputed, does not.
EndTerminal(q, next) ==
    IF next # q.to THEN [q EXCEPT !.from = next]
    ELSE IF next \in JobTerminal THEN [q EXCEPT !.step = "end"] ELSE Idle

-----------------------------------------------------------------------------
(* Dispatch, by its effect *)

Search(j) ==
    /\ Transition(j, "REQUESTED", "SEARCHING")
    /\ UNCHANGED <<holder, offered, late, opening, session, record, call, faults>>

\* The job was read SEARCHING; by the time of the offer it may be cancelled.
Offer(j, d) ==
    /\ status[j] \in {"SEARCHING", "CANCELLED"}
    /\ holder[j] = NoDriver
    /\ \A p \in offered : p[1] # j /\ p[2] # d
    /\ offered' = offered \cup {<<j, d>>}
    /\ UNCHANGED <<status, holder, late, opening, session, record, call, faults>>

\* An attempt marks the job ASSIGNED whatever became of its offer.
Assign(j) ==
    /\ Transition(j, "SEARCHING", "ASSIGNED")
    /\ UNCHANGED <<holder, offered, late, opening, session, record, call, faults>>

\* Declined or expired, or never there: the job is searched for again.
OfferEnds(j) ==
    /\ offered' = {p \in offered : p[1] # j}
    /\ \/ status[j] \in {"SEARCHING", "ASSIGNED"}
          /\ status' = [status EXCEPT ![j] = "SEARCHING"]
       \/ status[j] \notin {"SEARCHING", "ASSIGNED"} /\ UNCHANGED status
    /\ UNCHANGED <<holder, late, opening, session, record, call, faults>>

Accept(j, d) ==
    /\ <<j, d>> \in offered
    /\ status[j] \in {"SEARCHING", "ASSIGNED"}
    /\ offered' = offered \ {<<j, d>>}
    /\ status' = [status EXCEPT ![j] = "ACCEPTED"]
    /\ holder' = [holder EXCEPT ![j] = d]
    /\ opening' = opening \cup {j}
    /\ UNCHANGED <<late, session, record, call, faults>>

\* The accept request goes on after its commit, and its failure is logged.
OpenSession(j) ==
    /\ j \in opening
    /\ opening' = opening \ {j}
    /\ \/ StartSession(j, holder[j]) /\ UNCHANGED faults
       \/ Fault /\ UNCHANGED session
    /\ UNCHANGED <<jobVars, record, call>>

GracePasses(j) ==
    /\ holder[j] # NoDriver /\ j \notin late
    /\ late' = late \cup {j}
    /\ UNCHANGED <<status, holder, offered, opening, session, record, call, faults>>

-----------------------------------------------------------------------------
(* booking.Service.Cancel *)

TierFor(s) ==
    CASE s \in {"DRAFT", "QUOTED", "REQUESTED", "SEARCHING"} -> "BEFORE_ASSIGNMENT"
      [] s \in {"ASSIGNED", "ACCEPTED", "ARRIVING"} -> "AFTER_ASSIGNMENT"
      [] s = "AT_PICKUP" -> "AFTER_ARRIVAL"
      [] OTHER -> "AFTER_START"

\* jobs.Store.LiveAssignment: an offer, which nobody has accepted, or the
\* holder's; or nothing.
AcceptedAssignment(j) == holder[j] # NoDriver

\* cancellationFee and CancellationPolicy.FeeFor: nothing before assignment or
\* before an acceptance, nor within the grace window of one.
FeeDue(tier, j) ==
    /\ tier # "BEFORE_ASSIGNMENT"
    /\ AcceptedAssignment(j)
    /\ j \in late

\* The requester's request; the status it reads decides the tier.
Cancel(c, j) ==
    /\ call[c] = Idle
    /\ Cancellable(status[j])
    /\ Set(c, Working("fee", j, status[j], "CANCELLED", FALSE))
    /\ UNCHANGED <<jobVars, opening, session, record, faults>>

\* The policy cannot be read, or the fee is decided.
DecideFee(c) ==
    LET q == call[c]
    IN  /\ q.step = "fee"
        /\ \/ Fault /\ Set(c, Idle)
           \/ /\ Set(c, [q EXCEPT !.step = "move", !.charged = FeeDue(TierFor(q.from), q.job)])
              /\ UNCHANGED faults
        /\ UNCHANGED <<jobVars, opening, session, record>>

MoveToCancelled(c) ==
    LET q == call[c]
    IN  /\ q.step = "move"
        /\ \/ Transition(q.job, q.from, "CANCELLED") /\ Set(c, [q EXCEPT !.step = "record"])
           \/ status[q.job] # q.from /\ Set(c, Idle) /\ UNCHANGED status
        /\ UNCHANGED <<holder, offered, late, opening, session, record, faults>>

\* A failure here ends the request: the session stays open.
RecordCancellation(c) ==
    LET q == call[c] j == q.job
    IN  /\ q.step = "record"
        /\ \/ /\ record' = [record EXCEPT ![j] =
                     IF @ = NoRecord THEN [tier |-> TierFor(q.from), charged |-> q.charged] ELSE @]
              /\ Set(c, [q EXCEPT !.step = "end"]) /\ UNCHANGED faults
           \/ Fault /\ Set(c, Idle) /\ UNCHANGED record
        /\ UNCHANGED <<jobVars, opening, session>>

\* endTracking fails nobody.
EndTracking(c) ==
    /\ call[c].step = "end"
    /\ Set(c, Idle)
    /\ \/ EndSession(call[c].job) /\ UNCHANGED faults
       \/ Fault /\ UNCHANGED session
    /\ UNCHANGED <<jobVars, opening, record>>

-----------------------------------------------------------------------------
(* booking.Service.Execute *)

Targets == {"AT_PICKUP", "IN_PROGRESS", "COMPLETED"}

\* A status comes after another on the part of mainFlow drivers may walk.
Flow == <<"ACCEPTED", "ARRIVING", "AT_PICKUP", "IN_PROGRESS", "AT_DROPOFF", "COMPLETED">>
FlowIndex(s) == CHOOSE i \in DOMAIN Flow : Flow[i] = s
OnTheWay(from, to) ==
    /\ \E i \in DOMAIN Flow : Flow[i] = from
    /\ FlowIndex(from) < FlowIndex(to)

\* Repeating a command whose target the job is at changes nothing: it is no
\* step here.  The same holds for one that is refused.
Execute(c, j, d, target) ==
    /\ call[c] = Idle
    /\ holder[j] = d
    /\ OnTheWay(status[j], target)
    /\ Set(c, Working("walk", j, status[j], target, FALSE))
    /\ UNCHANGED <<jobVars, opening, session, record, faults>>

\* Where a walk that reached the next status goes on: to another transition, to
\* endTracking, or nowhere.
WalkOn(q, next) ==
    IF next # q.to THEN [q EXCEPT !.from = next]
    ELSE IF next = "COMPLETED" THEN [q EXCEPT !.step = "end"] ELSE Idle

\* One transition of the walk.  It stops where another request got in between.
Walk(c) ==
    LET q == call[c] j == q.job next == Flow[FlowIndex(q.from) + 1]
    IN  /\ q.step = "walk"
        /\ \/ /\ Transition(j, q.from, next)
              /\ Set(c, WalkOn(q, next))
              /\ UNCHANGED faults
           \/ status[j] # q.from /\ Set(c, Idle) /\ UNCHANGED <<status, faults>>
           \/ Fault /\ Set(c, Idle) /\ UNCHANGED status
        /\ UNCHANGED <<holder, offered, late, opening, session, record>>

-----------------------------------------------------------------------------
(* Watching the driver: GET /jobs/{id}/track *)

\* tracking.Store.permitted, for the parties of the trip: its requester, the
\* driver in the session, and operations.
Permitted(scope, j) ==
    CASE scope = "OWN_JOB"      -> session[j] # NoDriver
      [] scope = "ASSIGNED_JOB" -> session[j] = holder[j]
      [] scope = "OPERATIONS"   -> TRUE

Scopes == {"OWN_JOB", "ASSIGNED_JOB", "OPERATIONS"}

\* The parties that are shown where the session's driver is.
LiveSession(j) == session[j] # NoDriver

Watching(j) == {scope \in Scopes : LiveSession(j) /\ Permitted(scope, j)}

-----------------------------------------------------------------------------
(* The specification *)

Next ==
    \/ \E j \in Jobs :
           \/ Search(j) \/ Assign(j) \/ OfferEnds(j) \/ OpenSession(j) \/ GracePasses(j)
           \/ \E d \in Drivers : Offer(j, d) \/ Accept(j, d)
    \/ \E c \in Calls :
           \/ DecideFee(c) \/ MoveToCancelled(c) \/ RecordCancellation(c)
           \/ Walk(c) \/ EndTracking(c)
           \/ \E j \in Jobs :
                  \/ Cancel(c, j)
                  \/ \E d \in Drivers, target \in Targets : Execute(c, j, d, target)

Spec == Init /\ [][Next]_vars

-----------------------------------------------------------------------------
(* What these requests promise: the abstract claim on a job *)

Phase(s) ==
    IF s \in {"REQUESTED", "SEARCHING", "ASSIGNED"} THEN "open"
    ELSE IF s \in JobTerminal \cup {"COMPLETED"} THEN "over" ELSE "won"

Claim == INSTANCE JobClaim WITH
    phase <- [j \in Jobs |-> Phase(status[j])],
    holders <- [j \in Jobs |-> {holder[j]} \ {NoDriver}]

-----------------------------------------------------------------------------
(* Properties *)

\* The cancellations, the driver's commands and the acceptances keep what
\* dispatch promises of the same jobs: one winner, kept to the end, and none
\* after it.
ClaimSpec == Claim!Spec

\* A request has finished job j and has yet to do what follows.
Finishing(c, j) == call[c].step \in {"record", "end"} /\ call[c].job = j

\* Document 005 and BD-01, however cancellations, acceptances, commands and the
\* clock overlap: the tier that is recorded is that of the job as the customer
\* left it, a fee only the wait of a driver who had accepted, longer ago than
\* the grace window.  A job is finished by one request, and one that is
\* cancelled has its record unless a failure ended that request.
CancellationsAreAsDecided ==
    \A j \in Jobs :
        /\ record[j] # NoRecord =>
              /\ status[j] = "CANCELLED"
              /\ record[j].tier = "BEFORE_ASSIGNMENT" => holder[j] = NoDriver
              /\ record[j].tier \in {"AFTER_ARRIVAL", "AFTER_START"} => holder[j] # NoDriver
              /\ record[j].charged => holder[j] # NoDriver /\ j \in late
        /\ \A c, e \in Calls : Finishing(c, j) /\ Finishing(e, j) => c = e
        /\ status[j] = "CANCELLED" /\ record[j] = NoRecord =>
              faults > 0 \/ \E c \in Calls : call[c].step = "record" /\ call[c].job = j

\* The trip is over, nothing failed, nobody is about to close its session, and
\* it can still be watched.
LeftOpen(j) ==
    /\ Finished(j) /\ Watching(j) # {} /\ faults = 0
    /\ \A c \in Calls : ~Finishing(c, j)

\* Document 102, "location for active service only".  A trip is shown to all its
\* parties or to none, and always the driver who holds it; and only an
\* acceptance that opens its session after the trip has ended leaves a finished
\* one to be watched.
TripsEndTheirTracking ==
    /\ [](\A j \in Jobs : Watching(j) \in {{}, Scopes})
    /\ [][\A j \in Jobs : ~LeftOpen(j) /\ LeftOpen(j)' =>
             j \in opening /\ Finished(j)]_vars

=============================================================================
