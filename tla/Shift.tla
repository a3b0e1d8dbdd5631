-------------------------------- MODULE Shift --------------------------------
(***************************************************************************)
(* A driver's working session.  PostgreSQL says what the driver is doing    *)
(* (drivers.status), Redis says who is near (the geo pool) and where (the   *)
(* live position).  Sign-ins, sign-offs, position reports, offers and       *)
(* acceptances each write both, one after the other, and overlap.           *)
(*                                                                          *)
(* Positions are compared, not measured: a live position is the newest of   *)
(* the driver's accepted fixes or an older one, and how old it is by the    *)
(* clock is left open.  The credit cap and a job's own requirements are      *)
(* left open too: they may refuse a driver at any time.  Jobs come as often  *)
(* as there is a driver to offer one to.                                     *)
(***************************************************************************)
EXTENDS Vetting

CONSTANTS
    Signings,  \* GoOnline and GoOffline requests
    Reports,   \* ReportLocation requests
    MaxServed  \* how many of both are served at once: a bound of the model

VARIABLES
    presence,  \* drivers.status
    pool,      \* members of drivers:available:geo
    position,  \* driver:current:<id>
    report,    \* how far each ReportLocation request is
    shift,     \* how far each GoOnline and GoOffline request is
    offer      \* how far dispatch, then the driver, is with an offer

shiftVars == <<presence, pool, position, report, shift, offer>>
dutyVars  == <<vettingVars, events, shiftVars>>

-----------------------------------------------------------------------------
(* States *)

\* A driver is never marked OFFERED, ON_TRIP, PAUSED, SUSPENDED or BLOCKED:
\* no code writes those.
Presences == {"OFFLINE", "AVAILABLE", "ACCEPTED"}

Resting == [step |-> "idle"]

\* A report that read the driver available or not, and whose fix another
\* one's has overtaken or not; then the fix it goes on to publish.
Reading(d, available, overtaken) ==
    [step |-> "read", driver |-> d, available |-> available, overtaken |-> overtaken]
Publishing(d, available, fix) ==
    [step |-> "put", driver |-> d, available |-> available, fix |-> fix]
ReportStates == {Resting}
    \cup {Reading(d, a, o) : d \in Drivers, a, o \in BOOLEAN}
    \cup {Publishing(d, a, f) : d \in Drivers, a \in BOOLEAN, f \in {"newest", "older"}}

\* "online" and "offline" have read the driver's status `from`; "join" has moved
\* it to AVAILABLE, "back" has failed to join the pool, "left" has left it.  What
\* has happened to the driver since a sign-in looked is history.
Happenings == {"won", "signed_in"}
Signing(step, d, from) == [step |-> step, driver |-> d, from |-> from, since |-> {}]
ShiftStates == {Resting} \cup
    [step : {"online", "join", "back", "offline", "left"}, driver : Drivers,
     from : Presences, since : SUBSET Happenings]

\* A round has found the driver eligible ("chosen") and reserved them; they are
\* still to leave the pool ("reserved"), then to answer ("open"); an acceptance
\* has found them eligible ("winning"); one who accepted is again still to
\* leave the pool ("won").
Offers == {"none", "chosen", "reserved", "open", "winning", "won"}

ShiftTypeOK ==
    /\ VettingTypeOK
    /\ presence \in [Drivers -> Presences]
    /\ pool \subseteq Drivers
    /\ position \in [Drivers -> {"none", "older", "newest"}]
    /\ report \in [Reports -> ReportStates]
    /\ shift \in [Signings -> ShiftStates]
    /\ offer \in [Drivers -> Offers]

ShiftInit ==
    /\ VettingInit
    /\ presence = [d \in Drivers |-> "OFFLINE"]
    /\ pool = {}
    /\ position = [d \in Drivers |-> "none"]
    /\ report = [q \in Reports |-> Resting]
    /\ shift = [q \in Signings |-> Resting]
    /\ offer = [d \in Drivers |-> "none"]

\* A statement of a request, carried out or failed.
Succeed == UNCHANGED events
Fails   == Counted

\* tracking.Store.PutCurrent: the position and the membership in one Redis
\* transaction.
PutCurrent(d, fix, available) ==
    /\ position' = [position EXCEPT ![d] = fix]
    /\ pool' = IF available THEN pool \cup {d} ELSE pool \ {d}

RemoveFromPool(d) == pool' = pool \ {d} /\ UNCHANGED position

\* A mistake: the status is written whatever it has become.
WriteAvailability(d, from, to) ==
    /\ AvailabilityCan(from, to)
    /\ presence' = [presence EXCEPT ![d] = to]

\* Another request finds a server.
Served == {q \in Signings : shift[q] # Resting} \cup {q \in Reports : report[q] # Resting}
Accepting == Cardinality(Served) < MaxServed

\* providers.Store.TransitionAvailability
TransitionAvailability(d, from, to) ==
    /\ AvailabilityCan(from, to)
    /\ presence[d] = from
    /\ presence' = [presence EXCEPT ![d] = to]

\* It refuses: the machine has no such move, or the status is another.
Refused(d, from, to) == ~AvailabilityCan(from, to) \/ presence[d] # from

SetShift(q, s) == shift' = [shift EXCEPT ![q] = s]

\* A sign-in of d that has yet to write has this behind its back.
Missed(s, d, what) ==
    IF s.step = "online" /\ s.driver = d THEN [s EXCEPT !.since = @ \cup {what}] ELSE s

-----------------------------------------------------------------------------
(* GoOnline *)

\* Me, the active vehicle, the credit cap and the fix have been checked.  Nothing
\* keeps a driver's other requests away.
GoOnline(q, d) ==
    /\ Accepting /\ shift[q] = Resting /\ d \in active
    /\ SetShift(q, Signing("online", d, presence[d]))
    /\ UNCHANGED <<vettingVars, presence, pool, position, report, offer, events>>

BecomeAvailable(q) ==
    LET d    == shift[q].driver
        from == shift[q].from
    IN  /\ shift[q].step = "online"
        /\ \/ /\ TransitionAvailability(d, from, "AVAILABLE")
              /\ shift' = [e \in Signings |->
                     IF e = q THEN Signing("join", d, from)
                     ELSE Missed(shift[e], d, "signed_in")]
              /\ Succeed
           \/ /\ Refused(d, from, "AVAILABLE")
              /\ SetShift(q, Resting) /\ Succeed /\ UNCHANGED presence
           \/ /\ Fails /\ SetShift(q, Resting) /\ UNCHANGED presence
        /\ UNCHANGED <<vettingVars, pool, position, report, offer>>

\* The fix of a sign-in is compared with no other: it may be older than the
\* history's newest.
JoinPool(q) ==
    LET d == shift[q].driver
    IN  /\ shift[q].step = "join"
        /\ \/ /\ \E fix \in {"newest", "older"} : PutCurrent(d, fix, TRUE)
              /\ SetShift(q, Resting) /\ Succeed
           \/ /\ Fails /\ SetShift(q, Signing("back", d, shift[q].from))
              /\ UNCHANGED <<pool, position>>
        /\ UNCHANGED <<vettingVars, presence, report, offer>>

\* The rollback's own failure is not looked at.
RollBack(q) ==
    LET d    == shift[q].driver
        from == shift[q].from
    IN  /\ shift[q].step = "back"
        /\ SetShift(q, Resting)
        /\ \/ TransitionAvailability(d, "AVAILABLE", from) /\ Succeed
           \/ Refused(d, "AVAILABLE", from) /\ Succeed /\ UNCHANGED presence
        /\ UNCHANGED <<vettingVars, pool, position, report, offer>>

(* GoOffline *)

GoOffline(q, d) ==
    /\ Accepting /\ shift[q] = Resting
    /\ SetShift(q, Signing("offline", d, presence[d]))
    /\ UNCHANGED <<vettingVars, presence, pool, position, report, offer, events>>

LeavePool(q) ==
    LET d == shift[q].driver
    IN  /\ shift[q].step = "offline"
        /\ \/ /\ RemoveFromPool(d) /\ Succeed
              /\ SetShift(q, Signing("left", d, shift[q].from))
           \/ Fails /\ SetShift(q, Resting) /\ UNCHANGED <<pool, position>>
        /\ UNCHANGED <<vettingVars, presence, report, offer>>

BecomeOffline(q) ==
    LET d    == shift[q].driver
        from == shift[q].from
    IN  /\ shift[q].step = "left"
        /\ SetShift(q, Resting)
        /\ \/ TransitionAvailability(d, from, "OFFLINE") /\ Succeed
           \/ Refused(d, from, "OFFLINE") /\ Succeed /\ UNCHANGED presence
           \/ Fails /\ UNCHANGED presence
        /\ UNCHANGED <<vettingVars, pool, position, report, offer>>

-----------------------------------------------------------------------------
(* ReportLocation *)

SetReport(q, s) == report' = [report EXCEPT ![q] = s]

\* Reads the driver, then the newest stored fix.
BeginReport(q, d) ==
    /\ Accepting /\ report[q] = Resting
    /\ SetReport(q, Reading(d, presence[d] = "AVAILABLE", FALSE))
    /\ UNCHANGED <<vettingVars, events, presence, pool, position, shift, offer>>

\* What becomes of the batch's newest valid fix: it is newer than the one the
\* request read, and so the newest, unless another request's was stored since.
Stored(r) == IF r.overtaken THEN {"newest", "older"} ELSE {"newest"}

\* Once d has a newer fix in the history, what another request holds is older.
Overtaken(r, d) ==
    IF r = Resting \/ r.driver # d THEN r
    ELSE IF r.step = "read" THEN [r EXCEPT !.overtaken = TRUE]
    ELSE [r EXCEPT !.fix = "older"]

\* tracking.Validate rejects every fix of the batch, or AppendHistory fails.
RejectReport(q) ==
    /\ report[q].step = "read"
    /\ SetReport(q, Resting)
    /\ UNCHANGED <<vettingVars, events, presence, pool, position, shift, offer>>

AppendHistory(q) ==
    LET r == report[q]
        d == r.driver
    IN  /\ r.step = "read"
        /\ \E fix \in Stored(r) :
               /\ report' = [e \in Reports |->
                      IF e = q THEN Publishing(d, r.available, fix)
                      ELSE IF fix = "newest" THEN Overtaken(report[e], d) ELSE report[e]]
               /\ position' = IF fix = "newest" /\ position[d] = "newest"
                              THEN [position EXCEPT ![d] = "older"] ELSE position
        /\ UNCHANGED <<vettingVars, events, presence, pool, shift, offer>>

\* A mistake: a report puts every reporting driver in the pool.
PublishJoining(q) ==
    LET r == report[q]
    IN  /\ r.step = "put"
        /\ SetReport(q, Resting)
        /\ PutCurrent(r.driver, r.fix, TRUE)
        /\ UNCHANGED <<vettingVars, events, presence, shift, offer>>

\* A mistake: only a driver who may be offered work has a position.
PublishAvailable(q) ==
    LET r == report[q]
    IN  /\ r.step = "put"
        /\ SetReport(q, Resting)
        /\ IF r.available THEN PutCurrent(r.driver, r.fix, TRUE) ELSE RemoveFromPool(r.driver)
        /\ UNCHANGED <<vettingVars, events, presence, shift, offer>>

\* PutCurrent with the status read at the beginning, then announcePosition.
PublishPosition(q) ==
    LET r == report[q]
    IN  /\ r.step = "put"
        /\ SetReport(q, Resting)
        /\ \/ PutCurrent(r.driver, r.fix, r.available) /\ Succeed
           \/ Fails /\ UNCHANGED <<pool, position>>
        /\ UNCHANGED <<vettingVars, presence, shift, offer>>

\* driver:current:<id> expires; the geo pool does not.
PositionExpires(d) ==
    /\ position[d] # "none"
    /\ position' = [position EXCEPT ![d] = "none"]
    /\ UNCHANGED <<vettingVars, presence, pool, report, shift, offer, events>>

-----------------------------------------------------------------------------
(* Offers: the engine's round, and the driver's answer *)

SetOffer(d, o) == offer' = [offer EXCEPT ![d] = o]

\* Any member of the pool may be among the nearest to a pickup.
Nearby == pool

\* The rules refuse the driver nothing.
Choose(d) ==
    /\ offer[d] = "none" /\ d \in Nearby
    /\ Failures(Candidate(d), presence[d] = "AVAILABLE", position[d] # "none") = {}
    /\ SetOffer(d, "chosen")
    /\ UNCHANGED <<vettingVars, presence, pool, position, report, shift, events>>

\* A mistake: the reservation writes OFFERED, as the status suggests; nothing
\* would take it back.
ReserveMarking(d) ==
    /\ offer[d] = "chosen"
    /\ SetOffer(d, "reserved")
    /\ presence' = [presence EXCEPT ![d] = "OFFERED"]
    /\ UNCHANGED <<vettingVars, pool, position, report, shift, events>>

\* The others are weighed and routes looked up first; then the reservation asks
\* nothing about the driver, but may come too late or go to another.
Reserve(d) ==
    /\ offer[d] = "chosen"
    /\ \E o \in {"none", "reserved"} : SetOffer(d, o)
    /\ UNCHANGED <<vettingVars, presence, pool, position, report, shift, events>>

\* After the reservation and after the acceptance: a failure is logged.
TakeFromPool(d) ==
    /\ \/ offer[d] = "reserved" /\ SetOffer(d, "open")
       \/ offer[d] = "won" /\ SetOffer(d, "none")
    /\ \/ RemoveFromPool(d) /\ Succeed
       \/ Fails /\ UNCHANGED <<pool, position>>
    /\ UNCHANGED <<vettingVars, presence, report, shift>>

\* dispatch.Store.Accept looks at the driver again: approved, not signed off,
\* with a verified vehicle.  The documents it does not look at.
BeginAccept(d) ==
    /\ offer[d] = "open"
    /\ verification[d] = "APPROVED" /\ d \in active /\ vehicle[d] = "VERIFIED"
    /\ presence[d] # "OFFLINE"
    /\ SetOffer(d, "winning")
    /\ UNCHANGED <<vettingVars, presence, pool, position, report, shift, events>>

\* The transaction's last write; nothing has locked the driver until then, and
\* one who is neither AVAILABLE nor OFFERED any more keeps their status.
CommitAccept(d) ==
    /\ offer[d] = "winning"
    /\ IF presence[d] = "AVAILABLE"
       THEN /\ presence' = [presence EXCEPT ![d] = "ACCEPTED"]
            /\ shift' = [q \in Signings |-> Missed(shift[q], d, "won")]
       ELSE UNCHANGED <<presence, shift>>
    /\ SetOffer(d, "won")
    /\ UNCHANGED <<vettingVars, pool, position, report, events>>

\* Declined, expired or withdrawn; or the acceptance rolls back.
OfferIsOver(d) ==
    /\ offer[d] \in {"open", "winning"}
    /\ SetOffer(d, "none")
    /\ UNCHANGED <<vettingVars, presence, pool, position, report, shift, events>>

-----------------------------------------------------------------------------
(* The specification *)

Requests(q) ==
    \/ BecomeAvailable(q) \/ JoinPool(q) \/ RollBack(q)
    \/ LeavePool(q) \/ BecomeOffline(q)

Reporting(q) == RejectReport(q) \/ AppendHistory(q) \/ PublishPosition(q)

ShiftNext ==
    \/ Vet /\ UNCHANGED shiftVars
    \/ \E d \in Drivers :
           \/ \E q \in Signings : GoOnline(q, d) \/ GoOffline(q, d)
           \/ PositionExpires(d)
           \/ \E q \in Reports : BeginReport(q, d)
           \/ Choose(d) \/ Reserve(d) \/ TakeFromPool(d)
           \/ BeginAccept(d) \/ CommitAccept(d) \/ OfferIsOver(d)
    \/ \E q \in Signings : Requests(q)
    \/ \E q \in Reports : Reporting(q)

ShiftSpec == ShiftInit /\ [][ShiftNext]_dutyVars

\* A request that was begun is served.  A driver's app that is not signed off
\* keeps reporting, and again and again a fix of its is accepted.
Fairness ==
    /\ \A q \in Signings : WF_dutyVars(Requests(q))
    /\ \A d \in Drivers :
           /\ WF_dutyVars(TakeFromPool(d))
           /\ SF_dutyVars(presence[d] # "OFFLINE" /\ \E q \in Reports : BeginReport(q, d))
           /\ SF_dutyVars(\E q \in Reports : report[q] # Resting /\ report[q].driver = d /\ AppendHistory(q))
    /\ WF_dutyVars(\E q \in Reports : Reporting(q))

FairSpec == ShiftSpec /\ Fairness

-----------------------------------------------------------------------------
(* Properties *)

\* What takes the mark of a won job from a driver is a sign-in of theirs that read
\* it: never a sign-off, a rollback, or an answer that comes late.  Such a sign-in
\* has even begun after the job was won, unless two of the driver's sign-ins
\* overlap: with both begun before, the first may make them AVAILABLE, a job be
\* won, and the second take that job's mark for the one it read.
AcceptedIsNotOverwritten ==
    [][\A d \in Drivers :
           presence[d] = "ACCEPTED" /\ presence'[d] # "ACCEPTED" =>
               \E q \in Signings :
                   /\ shift[q].step = "online" /\ shift'[q].step = "join"
                   /\ shift[q].driver = d /\ shift[q].from = "ACCEPTED"
                   /\ "won" \in shift[q].since => "signed_in" \in shift[q].since]_dutyVars

\* Every interleaving of a report with an acceptance, a sign-in or an offer may
\* leave the pool wrong, but not for good: a driver who stays on a job leaves
\* the pool while their app reports, and one who stays available is in it
\* again and again, whatever offers they let pass.
PoolSettles ==
    \A d \in Drivers :
        /\ <>[](presence[d] = "ACCEPTED") => <>[](d \notin pool)
        /\ <>[](presence[d] = "AVAILABLE") => []<>(d \in pool)

\* At most one report is being served.
NoOverlap == \A q, r \in Reports : report[q] # Resting /\ report[r] # Resting => q = r

\* Two overlapping reports may leave the live position behind the history.
\* Once they no longer overlap, and while the driver reports, it is the newest
\* fix again and again.
PositionCatchesUp ==
    \A d \in Drivers :
        /\ <>[](presence[d] # "OFFLINE")
        /\ <>[]NoOverlap
        => []<>(position[d] = "newest")

=============================================================================
