------------------------------- MODULE Money --------------------------------
(***************************************************************************)
(* The books of a completed job, and what a driver owes.                    *)
(*                                                                          *)
(* settlement.Service.SettleCash writes a job's money in up to four         *)
(* movements, each a database transaction of its own: the payment captured, *)
(* the cash a driver took, the shop's goods, the driver's earning.  A call  *)
(* may fail after any of them, and be repeated, at once or later, by        *)
(* another request.  Meanwhile an agent records the cash drivers hand back, *)
(* and a driver who holds too much of the platform's is stopped.            *)
(*                                                                          *)
(* A movement is a row count, not its entries: every builder of ledger.go   *)
(* gives a movement of a job one amount, the job's fare, goods or total.    *)
(***************************************************************************)
EXTENDS Integers, FiniteSets, FiniteSetsExt

CONSTANTS
    Jobs, Drivers,
    Requests,        \* API requests that may be settling a job
    Keys,            \* Idempotency-Key headers an agent may send
    Amounts,         \* amounts an agent may record
    DriverOf,        \* jobs.assigned_driver_id
    Fare, Goods,     \* the locked price and the basket of a job, 0 when absent
    Rate,            \* the driver's commission for the job's type, or NoRate
    Limit,           \* the cap of the driver's vehicle type, or NoLimit
    Override,        \* drivers.credit_cap_minor, 0 when null
    MaxSettlements,  \* bound on the agents' requests
    NoJob, NoKey, NoRate, NoLimit

ASSUME FareAssumption == Fare \in [Jobs -> Nat]
ASSUME GoodsAssumption == Goods \in [Jobs -> Nat]
ASSUME NoJobAssumption == NoJob \notin Jobs
ASSUME NoKeyAssumption == NoKey \notin Keys

\* All of an amount, in basis points.
WholeBPS == 10000

ASSUME RateAssumption ==
    \A j \in Jobs :
        \/ Rate[j] = NoRate
        \/ Rate[j].bps \in 0 .. WholeBPS /\ Rate[j].flat \in Nat
ASSUME LimitAssumption ==
    \A d \in Drivers :
        \/ Limit[d] = NoLimit
        \/ /\ Limit[d].cap \in Nat \ {0} /\ Limit[d].warn \in Nat \ {0}
           /\ Limit[d].warn <= Limit[d].cap

ASSUME OverrideAssumption == Override \in [Drivers -> Nat]
ASSUME AmountsAssumption == Amounts \subseteq Nat
ASSUME FiniteAssumption == IsFiniteSet(Jobs) /\ IsFiniteSet(Amounts)

VARIABLES
    completed,    \* jobs that reached COMPLETED
    intent,       \* status of a job's payment_intents row, or "none"
    posted,       \* number of ledger transactions of a kind about a job
    request,      \* where each request is in SettleCash
    settled,      \* jobs for which a call of SettleCash returned no error
    remittances,  \* number of SETTLEMENT ledger transactions, by driver and amount
    settlements,  \* number of driver_settlements rows, by driver and amount
    usedKeys      \* idempotency keys of those rows

jobVars    == <<completed, intent, posted, request, settled>>
driverVars == <<remittances, settlements, usedKeys>>
vars       == <<jobVars, driverVars>>

-----------------------------------------------------------------------------
(* States *)

Kinds == {"capture", "cod", "goods", "earning"}

Total(j) == Fare[j] + Goods[j]

Idle == [step |-> "idle", job |-> NoJob]

\* A request reaches the shop's part only for a job with goods, the driver's
\* only for one with a fare.
RequestStates ==
    {Idle} \cup [step : {"intent", "capture", "cod"}, job : Jobs]
           \cup [step : {"goods"}, job : {j \in Jobs : Goods[j] > 0}]
           \cup [step : {"earning"}, job : {j \in Jobs : Fare[j] > 0}]

TypeOK ==
    /\ completed \subseteq Jobs
    /\ intent \in [Jobs -> {"none", "REQUIRES_PAYMENT", "CAPTURED"}]
    /\ posted \in [Kinds \X Jobs -> Nat]
    /\ request \in [Requests -> RequestStates]
    /\ settled \subseteq Jobs
    /\ remittances \in [Drivers \X Amounts -> Nat]
    /\ settlements \in [Drivers \X Amounts -> Nat]
    /\ usedKeys \subseteq Keys

\* The drivers are on their way and the books are empty.
Init ==
    /\ completed = {}
    /\ intent = [j \in Jobs |-> "none"]
    /\ posted = [m \in Kinds \X Jobs |-> 0]
    /\ request = [q \in Requests |-> Idle]
    /\ settled = {}
    /\ remittances = [x \in Drivers \X Amounts |-> 0]
    /\ settlements = [x \in Drivers \X Amounts |-> 0]
    /\ usedKeys = {}

\* Store.Post: a key that repeats posts nothing.
Post(kind, j) == posted' = [posted EXCEPT ![<<kind, j>>] = IF @ = 0 THEN 1 ELSE @]

\* postWithin: the caller's own transaction, and no key.
PostWithin(kind, j) == posted' = [posted EXCEPT ![<<kind, j>>] = @ + 1]

MoveTo(q, step, j) == request' = [request EXCEPT ![q] = [step |-> step, job |-> j]]

\* A mistake: the shop's part is reached with no goods to post, a zero entry.
AfterCashAlways(j) == "goods"

\* What follows the cash: the shop, then the driver, then the answer.
AfterCash(j) == IF Goods[j] > 0 THEN "goods" ELSE "earning"

Return(q, j) ==
    /\ request' = [request EXCEPT ![q] = Idle]
    /\ settled' = settled \cup {j}

\* Go on to the driver's part, which a job without a fare does not have.
GoOn(q, step, j) ==
    IF step = "earning" /\ Fare[j] = 0
    THEN Return(q, j)
    ELSE MoveTo(q, step, j) /\ UNCHANGED settled

-----------------------------------------------------------------------------
(* The driver's commission and their standing *)

\* Basis points of the fare, rounded half away from zero, and a flat part
\* with which it never exceeds the fare.
Commission(j) ==
    LET percentage == (2 * Fare[j] * Rate[j].bps + WholeBPS) \div (2 * WholeBPS)
        total == percentage + Rate[j].flat
    IN  IF Rate[j].flat = 0 THEN percentage
        ELSE IF total > Fare[j] THEN Fare[j] ELSE total

\* There is a rate, and DriverEarning balances: a net of nothing is a zero
\* entry, which Balance refuses.
Payable(j) == Rate[j] # NoRate /\ Commission(j) < Fare[j]

\* What CASH_IN_TRANSIT says of the driver, never less than nothing.
Owed(d) ==
    LET collected == MapThenSumSet(LAMBDA j : posted[<<"cod", j>>] * Total(j),
                                   {j \in Jobs : DriverOf[j] = d})
        returned == MapThenSumSet(LAMBDA a : remittances[<<d, a>>] * a, Amounts)
    IN  IF collected < returned THEN 0 ELSE collected - returned

\* The driver's own cap moves the warning with it.
LimitFor(d) ==
    LET warn == (Override[d] * Limit[d].warn) \div Limit[d].cap
    IN  IF Override[d] = 0 THEN Limit[d]
        ELSE [cap |-> Override[d], warn |-> IF warn = 0 THEN Override[d] ELSE warn]

\* A driver whose vehicle type has no cap is never stopped.
Blocked(d) == Limit[d] # NoLimit /\ Owed(d) >= LimitFor(d).cap

\* What a driver who is stopped is told to hand back.
Clearing(d) ==
    IF Blocked(d) /\ Owed(d) >= LimitFor(d).warn THEN Owed(d) - LimitFor(d).warn ELSE 0

-----------------------------------------------------------------------------
(* Mistakes the properties are there to catch: an action with one condition *)
(* or one write of the code left out.                                       *)

\* The status predicate of the capture is left out.
CaptureUnguarded(q) ==
    LET j == request[q].job
    IN  /\ request[q].step = "capture"
        /\ intent' = [intent EXCEPT ![j] = "CAPTURED"]
        /\ PostWithin("capture", j)
        /\ MoveTo(q, "cod", j)
        /\ UNCHANGED <<completed, settled, driverVars>>

\* "Already captured" is taken for "already settled".
CaptureAsLast(q) ==
    LET j == request[q].job
    IN  /\ request[q].step = "capture"
        /\ IF intent[j] = "CAPTURED"
           THEN Return(q, j) /\ UNCHANGED <<intent, posted>>
           ELSE /\ intent' = [intent EXCEPT ![j] = "CAPTURED"]
                /\ PostWithin("capture", j)
                /\ MoveTo(q, "cod", j)
                /\ UNCHANGED settled
        /\ UNCHANGED <<completed, driverVars>>

\* The cash is posted without the key of its job.
CollectUnkeyed(q) ==
    LET j == request[q].job
    IN  /\ request[q].step = "cod"
        /\ PostWithin("cod", j)
        /\ GoOn(q, AfterCash(j), j)
        /\ UNCHANGED <<completed, intent, driverVars>>

\* The shop and the driver are paid when the cash could not be recorded.
CollectBestEffort(q) ==
    LET j == request[q].job
    IN  /\ request[q].step = "cod"
        /\ Post("cod", j) \/ UNCHANGED posted
        /\ GoOn(q, AfterCash(j), j)
        /\ UNCHANGED <<completed, intent, driverVars>>

-----------------------------------------------------------------------------
(* Settling a job *)

\* booking.Service.Execute: the last move of the job, and the call it makes.
Complete(q, j) ==
    /\ request[q] = Idle
    /\ j \notin completed
    /\ completed' = completed \cup {j}
    /\ MoveTo(q, "intent", j)
    /\ UNCHANGED <<intent, posted, settled, driverVars>>

\* The recovery: a repeat of the call, which looks only at the job's status.
Repeat(q, j) ==
    /\ request[q] = Idle
    /\ j \in completed
    /\ MoveTo(q, "intent", j)
    /\ UNCHANGED <<completed, intent, posted, settled, driverVars>>

\* A job with neither fare nor goods settles no money, and that is no error.
SettleNothing(q) ==
    LET j == request[q].job
    IN  /\ request[q].step = "intent"
        /\ Total(j) = 0
        /\ Return(q, j)
        /\ UNCHANGED <<completed, intent, posted, driverVars>>

\* Store.CreateIntent with the job's key: the intent there is, or a new one.
CreateIntent(q) ==
    LET j == request[q].job
    IN  /\ request[q].step = "intent"
        /\ Total(j) > 0
        /\ intent' = [intent EXCEPT ![j] = IF @ = "none" THEN "REQUIRES_PAYMENT" ELSE @]
        /\ MoveTo(q, "capture", j)
        /\ UNCHANGED <<completed, posted, settled, driverVars>>

\* Store.Capture: compare-and-set on the intent's status, the movement in the
\* same transaction.  An intent already captured is left behind by a call that
\* got this far; the settlement goes on.
Capture(q) ==
    LET j == request[q].job
    IN  /\ request[q].step = "capture"
        /\ IF intent[j] = "REQUIRES_PAYMENT"
           THEN /\ intent' = [intent EXCEPT ![j] = "CAPTURED"]
                /\ PostWithin("capture", j)
           ELSE UNCHANGED <<intent, posted>>
        /\ MoveTo(q, "cod", j)
        /\ UNCHANGED <<completed, settled, driverVars>>

\* The driver took the notes.
Collect(q) ==
    LET j == request[q].job
    IN  /\ request[q].step = "cod"
        /\ Post("cod", j)
        /\ GoOn(q, AfterCash(j), j)
        /\ UNCHANGED <<completed, intent, driverVars>>

\* The shop is owed all of the goods.
PayMerchant(q) ==
    LET j == request[q].job
    IN  /\ request[q].step = "goods"
        /\ Post("goods", j)
        /\ GoOn(q, "earning", j)
        /\ UNCHANGED <<completed, intent, driverVars>>

\* The driver is owed the fare less the commission.
PayDriver(q) ==
    LET j == request[q].job
    IN  /\ request[q].step = "earning"
        /\ Payable(j)
        /\ Post("earning", j)
        /\ Return(q, j)
        /\ UNCHANGED <<completed, intent, driverVars>>

\* No rate for this kind of job, or nothing left of the fare: the call fails,
\* after the customer's and the shop's part.
RefuseDriver(q) ==
    LET j == request[q].job
    IN  /\ request[q].step = "earning"
        /\ ~Payable(j)
        /\ request' = [request EXCEPT ![q] = Idle]
        /\ UNCHANGED <<completed, intent, posted, settled, driverVars>>

\* The database fails, the request is cancelled, or the process dies.
Fail(q) ==
    /\ request[q] # Idle
    /\ request' = [request EXCEPT ![q] = Idle]
    /\ UNCHANGED <<completed, intent, posted, settled, driverVars>>

-----------------------------------------------------------------------------
(* Cash handed back *)

\* How many requests of agents were recorded, which the model bounds.
Recorded == MapThenSumSet(LAMBDA x : remittances[x], Drivers \X Amounts)

\* Store.RecordSettlement: the ledger movement is posted with no key; the row
\* that says how the cash arrived is not written again for a key that has one.
RecordSettlement(d, amount, key) ==
    /\ Recorded < MaxSettlements
    /\ amount > 0
    /\ remittances' = [remittances EXCEPT ![<<d, amount>>] = @ + 1]
    /\ IF key \in usedKeys
       THEN UNCHANGED <<settlements, usedKeys>>
       ELSE /\ settlements' = [settlements EXCEPT ![<<d, amount>>] = @ + 1]
            /\ usedKeys' = usedKeys \cup ({key} \ {NoKey})
    /\ UNCHANGED jobVars

-----------------------------------------------------------------------------
(* The specification *)

Settle(q) ==
    \/ SettleNothing(q) \/ CreateIntent(q) \/ Capture(q) \/ Collect(q)
    \/ PayMerchant(q) \/ PayDriver(q) \/ RefuseDriver(q)

Next ==
    \/ \E q \in Requests, j \in Jobs : Complete(q, j) \/ Repeat(q, j)
    \/ \E q \in Requests : Settle(q) \/ Fail(q)
    \/ \E d \in Drivers, amount \in Amounts, key \in Keys \cup {NoKey} :
           RecordSettlement(d, amount, key)

Spec == Init /\ [][Next]_vars

-----------------------------------------------------------------------------
(* Properties *)

\* Document 54, earnings "cannot be duplicated by repeated completion events":
\* however many calls settle a job at once, and wherever they fail, no movement
\* of it is in the ledger twice, and the intent says captured exactly when the
\* ledger has the payment.
PostedOnce ==
    \A j \in Jobs :
        /\ \A kind \in Kinds : posted[<<kind, j>>] \in {0, 1}
        /\ intent[j] = "CAPTURED" <=> posted[<<"capture", j>>] = 1

\* What the platform has left of the cash of a job once the shop has its goods
\* and the driver the fare less the commission.
Left(j) ==
    posted[<<"cod", j>>] * Total(j) - posted[<<"goods", j>>] * Goods[j]
    - IF posted[<<"earning", j>>] = 0 THEN 0
      ELSE posted[<<"earning", j>>] * (Fare[j] - Commission(j))

\* Nobody is paid out of money nobody took: the shop and the driver are owed
\* for a job only once its driver owes the cash for it, and the driver owes
\* the cash only once the customer was charged.  A settlement that failed
\* halfway never leaves the platform short; one that succeeded leaves it the
\* commission on the fare, whatever the rounding, and nothing of the goods.
CashComesFirst ==
    \A j \in Jobs :
        /\ posted[<<"cod", j>>] > 0 => posted[<<"capture", j>>] > 0
        /\ posted[<<"goods", j>>] + posted[<<"earning", j>>] > 0 => posted[<<"cod", j>>] > 0
        /\ Left(j) >= 0
        /\ j \in settled => Left(j) = IF Fare[j] = 0 THEN 0 ELSE Commission(j)

\* What a job's money consists of.
Due(j) ==
    {kind \in Kinds :
        CASE kind = "goods"   -> Goods[j] > 0
          [] kind = "earning" -> Fare[j] > 0
          [] OTHER            -> Total(j) > 0}

\* booking.Service.settle, "the recovery is a repeat of this call": a call that
\* reports success, the first or one after any failures, leaves all of the
\* job's money in the books, and none that is not due.
SettledInFull ==
    \A j \in settled : \A kind \in Kinds : posted[<<kind, j>>] > 0 <=> kind \in Due(j)

\* The cash of some of a driver's jobs, each job's counted once, and what the
\* ledger says the driver handed back.
Cash(d, jobs) == MapThenSumSet(Total, {j \in jobs : DriverOf[j] = d})
HandedBack(d) == MapThenSumSet(LAMBDA a : remittances[<<d, a>>] * a, Amounts)

\* A driver is stopped for cash they really took (StandingOf reads what Collect
\* and RecordSettlement posted): however the settlements of their jobs repeat,
\* overlap and fail, and whenever they hand cash back, a driver who is stopped
\* carries that much from jobs they completed, none of them counted twice; and
\* nobody works on with that much of jobs whose settlement reported success.
StoppedForTheirCash ==
    \A d \in Drivers : Limit[d] # NoLimit =>
        /\ Blocked(d) => Cash(d, completed) - HandedBack(d) >= LimitFor(d).cap
        /\ Cash(d, settled) - HandedBack(d) >= LimitFor(d).cap => Blocked(d)

\* RecordSettlement, "both or neither": every reduction of a driver's debt has
\* a row saying how the cash arrived, and an agent whose tap did not appear to
\* work does not credit the driver twice by trying again with the same key.
RemittancesAreAccounted == remittances = settlements

=============================================================================
