# RideMe, specified

TLA+ models of the RideMe platform (`src/services/api`, Go): what its components
keep, what they do, and how they interleave. TLC checks the models on small
instances; TLAPS proves nearly all of their safety for every number of jobs,
drivers, requests and processes.

    tlc -config MCDispatch_race.cfg MCDispatch      # a run
    tlapm DispatchProofs.tla                        # a proof

`PROJECT.json` lists the runs, the mutants that show each property can fail, the
source lines behind every definition, and the hazards the properties are for.

## 1. The system

One Go process (any number of copies behind a load balancer) serves an HTTP API
over PostgreSQL, with Redis for the position pool and rate limits. Each copy
also runs two goroutines on a ticker, the *sweeper* (dispatch rounds and every
deadline) and the *notification worker*, and holds the live connections of its
clients in memory. There is no message broker in the path: components call each
other, and what must survive a crash is a row. A status column moves by
compare-and-set (`UPDATE ... WHERE id = $1 AND status = $2`, no row means
somebody else moved it), and uniqueness is a partial unique index. Concurrency is
therefore between *transactions* of requests, sweeps and processes, and a crash
or a lost connection can fall between any two. No transaction asks for more than
PostgreSQL's READ COMMITTED: what one reads without locking may be gone when it
writes.

| component | state it keeps | operations | talks to |
| --- | --- | --- | --- |
| jobs | `jobs`, `assignments`, history | Create, Transition, the sweep's queries | everyone |
| dispatch | `dispatch_attempts`, `driver_reservations`, offers | Attempt, Dispatch, Reserve, Accept, Reject, SweepExpired | jobs, providers, tracking |
| sweeper | none | one pass: orders overdue, offers expired, searches stale, jobs waiting | dispatch, merchant |
| providers, eligibility | `drivers`, `vehicles`, `documents` | reviews, SetActiveVehicle, Candidate, Evaluate | dispatch, driver |
| driver | `drivers.status` | GoOnline, GoOffline, ReportLocation | providers, tracking, credit |
| tracking | Redis pool and positions, `tracking_sessions`, history | PutCurrent, RemoveFromPool, Start/EndSession, track | driver, booking, dispatch |
| booking, pricing | tariffs, quotes, price locks, idempotency keys, cancellations | Quote, Create, PriceDelivery, Cancel, Execute | jobs, merchant, settlement, tracking |
| merchant | `orders`, `order_items`, `inventory`, issues | cart, Place, Accept, MarkReady, ReportIssue, DecideIssue, FollowDelivery, ExpireOverdue | jobs |
| settlement, finance | `payment_intents`, `ledger_*` | SettleCash, Post, Capture | booking, merchant |
| credit | `driver_settlements`, `driver_credit_limits` | StandingOf, RecordSettlement | finance, driver, dispatch |
| identity, authn, rate limiter | challenges, sessions, retired tokens, roles, Redis counters | RequestOTP, VerifyOTP, Refresh, Logout | everyone |
| notify | `notifications`, device tokens, preferences | Notify, Enqueue, Claim, MarkSent, MarkFailed, RegisterDevice | jobs, booking, the push provider |
| realtime | a hub of connections, in memory | Subscribe, Publish, Flush, Disconnect | booking, driver, dispatch |
| payments, zones | method rules; circles on a map | Check; FindContaining | booking |

What is hard in it, and what makes each part right:

* **dispatch** - two processes offering one job, an answer racing the expiry of
  its offer, a crash with an offer out. A job is claimed by one driver; an offer
  and its reservation live together; a finished job stays finished; every search
  and every offer ends.
* **driver, tracking, providers** - three requests that each write a row *and* a
  Redis set, from a status read earlier. The mark of a won job is taken by no
  late answer but one of overlapping sign-ins; the pool and the live position, wrong for a while, come right;
  a review takes a vehicle from its driver.
* **booking, trip** - a confirmation is four transactions, a cancellation four,
  a command a walk of several, and they overlap. A ride that was answered has
  its price; a retry books nothing; tier and fee are those of the job that was
  cancelled; a finished trip is not watched.
* **merchant** - Mark Ready is four transactions in two stores, the acceptance
  deadline races the shop, changes of one order sum it in snapshots that miss
  each other. Stock is never promised twice; the order is never ahead of its
  delivery; nothing is charged that nobody agreed to.
* **settlement and credit** - four movements that may each fail, repeated and
  concurrent calls. Nothing is posted twice, nobody is paid before the cash was
  taken, and a repeat completes what a failure left.
* **identity** - guesses, consumptions and refreshes of one code or token at
  once. A code is scarce, a refresh token is exchanged once and never after its
  session ended, an access token says what was true since the look-up.
* **notify, realtime** - workers sharing a queue and dying with rows in hand;
  publishers, a flush and a disconnect on one bounded buffer. Nobody is told
  twice, nothing waits for ever, no event vanishes uncounted, a slow client
  blocks nobody.

## 2. The modules

| module | models | used by |
| --- | --- | --- |
| `JobLifecycle` | the job's and the driver's state machines, who may cancel, the walk of a driver; declares `Drivers` | `Dispatch`, `Vetting`, `Trip` |
| `JobClaim` | *abstract*: a job is won once by one driver, and never after it ended | `Dispatch`, `Trip` (`Claim`) |
| `Dispatch` | engine, runner, dispatch store, sweeper, the drivers' answers and presence | `MCDispatch`, `DispatchProofs` |
| `Vetting` | verification, vehicles, the selected vehicle, documents, eligibility | `Shift` |
| `Shift` | sign-in, sign-off, position reports, pool and live position, against offers | `MCShift`, `TripProofs` |
| `Trip` | one job from search to end: offer, commands, cancellation and fee, tracking session | `MCTrip`, `TripProofs` |
| `Fares` | money rounding, demand, zone and tariff, the pricing engine (operators only) | `Booking` |
| `Booking` | quotes, tariffs, idempotent creation, price locks, delivery pricing | `MCBooking`, `BookingProofs` |
| `GroceryLifecycle` | the order's machine, who may cancel, the delivery flow | `GroceryOrder` |
| `GroceryOrder` | cart, checkout, stock, the shop's actions, the delivery job, following it | `Basket`, `MCGroceryOrder` |
| `Basket` | issues, substitutions, the customer's answers, the order's total | `MCBasket`, `GroceryProofs` |
| `Money` | settlement, ledger posting, capture, commission, credit | `MCMoney`, `MoneyProofs` |
| `TokenChain` | *abstract*: a refresh token is exchanged once, and never after its session ended | `Identity` (`Chain`) |
| `Identity` | codes, attempts, rate limit, sign-in, sessions, rotation and reuse, roles | `MCIdentity`, `IdentityProofs` |
| `Realtime` | hub, quotas, buffers, coalescing, flush, the stream of a connection | `MCRealtime`, `MessagingProofs` |
| `Notify` | devices, preferences, rows, claiming, sending, marking, crashes | `MCNotify`, `MessagingProofs` |
| `MC*` | the small instances | the `.cfg` files |
| `FiniteSums` | lemmas: the sum of a function over a finite set | `GroceryProofs`, `MoneyProofs` |
| `*Proofs` | the theorems about a component; `GroceryProofs` those about `GroceryOrder` and `Basket`, `TripProofs` those about `Trip` and `Shift`, `MessagingProofs` those about `Notify` and `Realtime` | |

Every model follows the same correspondence. **A database transaction is one
action** where all it depends on is what it locks or writes conditionally; where
it reads a row it does not lock and writes by that, it is two, the read and the
commit (`SumWithIssue` and `CommitIssue` in Basket, `SetActiveVehicle` and
`WriteSelection` in Vetting, `BeginAccept` and `CommitAccept` in Shift). What a Go
function keeps in local variables across two transactions is a variable of the
model (`run` in Dispatch, `taps`, `news`, `releasing` and `inFlight` in
GroceryOrder, `request` in Money, `call` in Booking and Trip, `shift` and
`report` in Shift, `req` in Identity, `worker` in Notify, `pub` in Realtime), so
that what was read may be stale when it is used. A failing statement, a cancelled
context and a dying process are the same step: the local state is dropped. Time
is not a number: a deadline *passes*, at any moment. Each module has *mistakes*:
variants of an action or an operator with one condition or write changed, which
`Next` does not use. They are what the mutants of `PROJECT.json` put in place of
the real definition.

### Dispatch

`status`, `assignedTo` and `overdue` are columns of `jobs`; `offers` and
`accepted` the assignments in those states; `reserved` the active reservations;
`lapsed` the offers past `expires_at`; `run[r]` where the sweeper of process
`r` is. `SweepExpired`, `ListWaiting`, `Start`, `Attempt`, `CountAttempts`,
`Search`, `Reserve`, `ReserveBusy`, `ReserveClaimed`, `MoveToAssigned`,
`Expire`, `ListStale` and `ExpireStale` are the transactions of a pass;
`Accept`, `Reject`, `Cancel`, `Advance`, `GoOnline` and `GoOffline` the requests
of people.

Abstractions: the position pool and the scores - a ring reaches any set of
available drivers, in any order; two reads of one row in one function with
nothing written in between are one; the eligibility snapshot is taken with the
attempt. `Accept` looks at the driver without a lock, so a sign-off that commits
in between stands.

### Vetting and Shift

`verification`, `vehicle`, `active` and `papers` are what operators, drivers and
the calendar change; `Failures(Candidate(d), ...)` are the constraints
`eligibility.Evaluate` reports of the driver, their documents and vehicle.
`presence` is `drivers.status`, `pool` the Redis geo set, `position` the live
position - the newest of the accepted fixes, an older one, or expired - `report[q]`
the position report a request carries and where it is, `shift[q]` the sign-in or
sign-off request `q` serves, with the status it read, `offer` how far a round and
the driver are with an offer. Nothing in `driver.go` keeps two requests of one
driver apart, and nothing here does. `shift[q].since` is history: whether a job
was won, or another sign-in succeeded, after this one read the status.

Abstractions: a driver owns one vehicle and one kind of document is required, so
of the rows there is the set of statuses; fixes are compared, not measured; the
credit cap and a job's own requirements may refuse at any time; any member of the
pool is among the nearest. `Signings` and `Reports` are the requests there may be,
and `MaxServed` how many of both are served at once, of any drivers.

### Trip

`status` and `holder` are the job's; `offered` its open offers; `opening` the
accept requests that have yet to open the session; `session` the live
`tracking_sessions` row; `record` the cancellation's row; `late` says that the
grace window of the acceptance has passed; `call` where each cancellation or
command is. `Watching` is who `GET /jobs/{id}/track` would show the driver to.
Dispatch is reduced to its effect on the job, and what is left keeps its promise:
Trip implements `JobClaim` as Dispatch does, under a mapping of its own (`Phase`,
the one holder). What settling and following the
order do is left to Money and GroceryOrder: neither stops a request.

### Fares and Booking

`Breakdown` and `Total` follow `Engine.Quote` line by line: the rules of the job
type, the minimum, demand, tax, each rounded half away from zero; `ZoneOf` and
`TariffsFor` are the two `ORDER BY`s. The discount, which no caller sets, is left
out. In Booking, a confirmation is `Begin`,
`Lookup`, `ReadQuote`, `CreateJob`, `LockPrice`, `RecordKey`; a job is named by
the call that creates it; `after[c]` is history, the calls that had been answered
when `c` began. The body of a request is its quote: the job's stops are left out.
A delivery's quote is saved for the one who asked for the job, and here for nobody:
its id is told to no one.

### GroceryOrder and Basket

`status`, `linesOf`, `stock`, `late` and `jobOf` are an order's rows and
columns; `onShelf` and `held` the inventory row of a product; `delivery` and
`madeFor` the job rows. `SettleStock` is `settleOrderStock` with the join as
PostgreSQL evaluates it: `UPDATE ... FROM` updates an inventory row once,
whichever of several matching lines the plan meets first (`Joined`). Basket adds
`lineStatus`, the `issues` in the order of their creation, the `total` and the
transactions that have summed an order and not committed (`changes`).

Abstractions: stock is counted (`quantity` is not null) and the merchant is
active; a read and the compare-and-set after it are one step where the status
cannot have left and come back in between. `Place` counts the lines in one
statement and holds them in the next (`merchant/store.go:884`), and is one step: a
line that arrives between the two is a late line of the model, held by nobody;
that the code may hold it in place of one that is out of stock is in section 6. A
line is named before it exists, so one line is added once.

### Money

`posted` counts the ledger transactions of each kind about a job. The entries
are left out because every builder gives a movement of a job one amount; that a
movement balances is checked in Go and in SQL before it is committed. `intent`
is the row of `payment_intents`, `request[q]` where request `q` is in
`SettleCash`, and `settled` the jobs for which a call has reported success.
`remittances` and `settlements` are the ledger's and the counter's view of the
cash handed back. `Commission`, `Owed`, `LimitFor`, `Blocked` and `Clearing` are
computed as in the code, rounding included (`WholeBPS` is the code's 10000);
`Left(j)`, in the properties, is what the platform has of a job's cash after the
shop and the driver. Fare, basket and rate are read once
per job and constant, which leaves out a total that a late answer changes between
a settlement and its repeat. `Repeat` is the call a second request, a script or an
operator makes; at this commit `Execute` is the only caller of `Settle`, and a
repeated COMPLETE returns before it (`booking.go:723`).

### Identity

`challenge`, `account`, `roles`, `session`, `retired` are the tables, `access`
the access tokens that still verify, `used` the limiter's counter of a number,
`req[q]` where a request is and what it carries. A request is counted, its code
created; a code checked, consumed, its user ensured, a session opened; a session
found by its token, rotated, its roles carried, the token issued - one step per
transaction. A token that matches no session but one of `retired` ends that
session (`RecogniseReuse`). `allowed`, `openedBy` and `req[q].seen` are history.
Limits per address and device, and the audit log, are left out.

### Realtime

A step is what happens under one lock or in one channel operation: a publisher
finds the connection open (`FindOpen`), sends (`Send`), meets a full buffer and
coalesces or counts (`Overflow`); the stream of a connection takes an event
(`WriteEvent`), and after it flushes one position at a time; `Disconnect` closes.
A client reads or does not. `got` and `offered` are history.

### Notify

A call of `Notify` reads the preference, reads the devices and inserts one row per
phone; a worker claims a batch, reads a row's token, passes it to the provider,
and marks the outcome, each step a statement that may fail or the last before a
crash; a token that could not be read counts as none. The provider accepts, fails or calls a token dead (`LogSender`, the one
that ships, always accepts). A time of day, templates and locales are left out.

## 3. The runs

| run | instance | distinct states | what it shows |
| --- | --- | --- | --- |
| `race` | 1 job, 2 drivers, 2 processes, 2 rings | 164 k | offers, reservations and the claim are exclusive, a finished job stays so, `JobClaim` is implemented, searches and offers end |
| `shift` | 1 driver, 2 sign-ins or sign-offs, 2 reports, 2 of them at once, 1 review or failure | 374 k | only a sign-in takes the mark of a won job, the pool and the position come right, a review takes the vehicle but from a selection it overlaps |
| `trip` | 1 job, 2 drivers, 3 requests, 1 failure | 68 k | tier, fee and record agree with the job; only an overlapping acceptance leaves a finished trip open |
| `booking` | 2 customers, 2 quotes, 1 key, 2 confirmations, 1 delivery, 1 failure | 260 k | quotes add up, answered rides are priced, retries book nothing |
| `delivery` | 1 order, 2 lines, 2 taps, 2 delivery jobs, failures | 288 k | order, stock and job agree; the deadline ends the wait and never a picking |
| `basket` | 2 orders, 3 lines, 2 products, 2 problems, failures | 377 k | nothing is held twice, every unit belongs to an order, charges are consented |
| `books` | 4 jobs, 2 requests, 2 drivers, failures | 150 k | one posting each, cash first and never short, complete after success, drivers stopped for the cash they carry |
| `tokens` | 1 user, 2 requests, 2 codes, 2 sessions, 3 tokens | 386 k | codes are scarce, access is current, `TokenChain` is implemented |
| `hub` | 2 connections, 1 publisher, buffer of 1, 3 events | 450 k | hub and connections agree, events arrive in order or are counted, nobody blocks |
| `notify` | 1 user, 2 phones, 2 workers, 2 attempts, 1 fault | 80 k | nobody is told twice, the queue drains |
| `remit`, `panic` | the smallest instance that shows it | | counterexamples, section 6 |

Why these sizes: one job and two drivers is the smallest instance with a
contested claim, and two rings (`MaxAttempts = 2`) the smallest in which a search
goes on after an answer; two processes give every pairwise interleaving of
sweepers, and the proofs cover more. In `shift` two requests, sign-ins, sign-offs
or reports, overlap in every way two can, and one review or failure meets each of
them; the driver starts with a verified vehicle not yet selected, so that a review
meets a selection under way. Three requests at once are left to the proofs, which
cover the safety. In `trip` three requests are a
cancellation between two commands, or two cancellations and a command. Two
confirmations of two customers share a quote, a key, both or neither. Two orders
with lines of one and two over two bags make both "the last unit" and "too much
for one" happen; two problems on one line make an older question meet a newer
one. The four jobs of `books` are the four shapes of a settlement: a ride, goods
with a fee and a flat commission, a type without a commission rate (which fails
after the customer's part) and a job without money; one of the two drivers has a
cap of their own, which is just the cash of her one job. A code with one attempt and two requests exceeds its limit by
what is in flight; three tokens are a rotation and the reuse of a rotated one. A
buffer of one is full after one event, and coalesces at the second.

Bounds: `MaxAttempts` is the code's own configuration. `MaxEvents`, `MaxFaults`,
`MaxIssues`, `MaxCalls`, `MaxMoves`, `MaxSettlements`, `MaxServed`,
`MaxChallenges`, `MaxSessions`, `MaxTokens` and `MaxAllowed` bound counters in
the guards and are named at their constants. The sets of taps, requests, reports,
calls and delivery jobs bound how many are in flight. `basket` has two constraints:
`LinesArriveInTime` leaves out the line that reaches a placed order, which holds
no stock (section 6; `delivery` has such lines), and `SecondProblemStays` the
orders with two problems that are marked ready, to keep the run small. `tokens`
has one, `OneAccess`: of the access tokens handed out one verifies at a time, the
earlier ones having expired; nothing compares two of them. Symmetry
is over interchangeable requests, drivers, orders and customers, in runs without
liveness. `CHECK_DEADLOCK FALSE`: an order, a job or a shift that ended, and
books in which everything is settled, have nothing left to do. `Dispatch` never
deadlocks.

Fairness. `Dispatch`: every process's ticker keeps firing (`sweeper.Run` loops
until shutdown) - weak fairness of each sweeper's next transaction and of time,
and nothing of people; `FinitelyManyCrashes` because a process that always dies
before the end of a pass serves nobody. `GroceryOrder`: time passes, the sweep
ticks, a request that is running goes on. `Shift`: a request that was begun is
served; the app of a driver who is not signed off keeps reporting
(`App.tsx:58` of the driver's app starts it), whichever requests take the servers
of the model in between (strong fairness), and again and again a fix of its is
accepted. `Notify`: each worker's pass goes on. `Realtime`: publishers go on; of
clients nothing is assumed. People do nothing by fairness anywhere.

## 4. What is proved

Everything below is proved for all values of the constants, by SMT, Zenon and
LS4, from the named `ASSUME`s of the modules alone, which say what the schema and
the code say: limits are natural numbers, null is no row, `MaxAttempts` is
positive, rates lie between 0 and 100 %, a tariff's columns obey the CHECKs of
migration 000006, amounts of money are natural numbers, and jobs, drivers,
requests in flight, kinds of amounts and the drivers of an area are finitely many. No property below is inductive as it stands; what each proof is about is the
strengthening.

**DispatchProofs** (`TypeOK`, `OffersAreExclusive`, `WonByItsDriver`,
`FinishedStaysFinished`, the refinement of `JobClaim`). That a job has one live
claim follows from the unique index only together with "an accepted assignment
means the job was won by that driver", because `Accept` looks at the offer and
the job's status, not at other assignments; that offers and reservations are
equal sets is what makes `Accept` and `Reject` symmetric, and one reservation per
driver carries over to offers by it. The sweeper's stale state never enters the
invariant: every write re-checks what it needs, which is the point of the
compare-and-set. Nor does the drivers' presence: a driver who signs off while
they accept still holds the job. `ImplementsClaim` is step simulation under
`phase`, `holders`. `SweepsComeToAnEnd` is what the liveness of dispatch rests on
besides fairness: no sweeper is ever without a step to take - a move that somebody
else made first is passed over, and the machine permits every one a sweeper asks
for - and each step leaves it less of its pass, lexicographically in the parts of
the pass, the jobs, the turn of one job and the candidates.

**MoneyProofs, jobs** (`TypeOK`, `PostedOnce`, `CashComesFirst`, `SettledInFull`).
`Sound` is about a job's books, `Behind` about what a request has behind it at
each step: what it returns over is what it has passed. `Behind` is kept under
*other* requests' steps only because postings are never taken back (`Keeps`). The
amounts of `CashComesFirst` rest on `CommissionWithinFare` - a rate of at most
the whole, rounded, is at most the whole, which is where the range of a rate in
the schema is needed - and on `PaidWhatIsPayable`: a driver is paid only for a job
whose rate was found.

**MoneyProofs, drivers** (`StoppedForTheirCash`, and the half of
`RemittancesAreAccounted` that is true). Owing is a difference of two sums
(`FiniteSums`). What was collected lies between the cash of the settled jobs and
that of the completed ones: `OnlyCompleted`, that nothing is posted or being
settled for other jobs, bounds it above, together with `Sound` (no movement
twice), and `InFull` below. `ClearingIsEnoughOnlyThen` says of every driver what
handing back what they are told leaves them with, the warning, and so whom it
unblocks. `LedgerIsAheadByRepeats`: the rows of
`driver_settlements` never exceed their movements, and a step changes the
difference only by repeating a key, so the code bug that `remit` shows is the
only way the two come apart.

**TripProofs, trip** (`TypeOK`, `CancellationsAreAsDecided`,
`TripsEndTheirTracking`, `TripsOnlyMoveOn`, the refinement of `JobClaim`).
`HoldersAgree` relates status, holder, offers and session of a job;
`RequestsAgree` says what a request between two of its transactions still knows: a
cancellation that has yet to be recorded left the job in the status it carries,
which is why its tier agrees with the job whatever overlaps, and a walk is on the
way to its target. `TripsOnlyMoveOn` is what a passenger counts on whatever
overlaps: a finished job stays as it was finished, a driver who holds it is not
replaced, a grace window that passed is not reopened. With `HoldersAgree` it gives
`TripImplementsClaim`.

**TripProofs, shift** (`ShiftTypeOK`, `AcceptedIsNotOverwritten`,
`OnlyOverlapsSlipThrough`). The type of every row, report and request is inductive
for any number of them, any of a driver's sign-ins and sign-offs at once. The
first holds because each of the four writers of `drivers.status` asks for the
status that was read, and of ACCEPTED the machine allows a sign-in alone; that
this sign-in began after the job was won, or overlaps another that succeeded
since, is `ReadMarksStand`: a driver whose ACCEPTED a sign-in has read and nobody
has taken since is still ACCEPTED, and so wins no job. For the second, a vehicle's standing and its
selection change in one step, of a review or of a selection that had begun.

**BookingProofs** (`TypeOK`, `AnsweredRidesArePriced`, `RetriesBookNothing`,
`FaresAddUp`). `Underway` is what a confirmation has seen and done by its step;
`KeysAreOfRides` that a recorded key stands for a ride priced on the quote it was
asked for; `LatecomersStop` that a call which began after an answer under its key, or on its
quote, gets no further than the look-up that finds it, or than the used quote. `QuotesAddUp` rests on lemmas about `Fares`: a
rounded share is a natural number no greater than the whole, lines and tax make
up the total. Its hypotheses are the CHECK constraints; it needs no bound on
tariffs, distances or demand.

**GroceryProofs, orders** (`TypeOK`, `OrdersAgree`, `StockNeverOversold`,
`PickedOrdersAreNotCancelled`, and `StockIsSound`). `TapsKnow`: a Mark Ready past
its move works on an order that is ready, for from there nobody cancels;
`JobsAgree`: a job is attached to the order it was made for; `NewsIsTrue`: what a
follow-up was told has happened to the job, and the rest of its walk leads there;
`ReleasesAreOfCancelled`. `OrdersStayInStep` is where "the order is never ahead of
its delivery" follows although taps, sweeps and news interleave. `StockStaysSound`
is the accounting: units held are those of RESERVED orders, units gone those of
CONSUMED ones (`FiniteSums`). Its hypothesis, `[]LinesArriveInTime`, is the constraint of the run
that checks it, and the code's one exception (section 6).

**GroceryProofs, baskets** (`ChargesAreConsented`, `BasketTypeOK`, `StockIsSound`
of Basket). `BasketsAreOrders`: every step of Basket is a step of GroceryOrder or
leaves its variables alone, so all of the above holds of baskets. `BInv` adds what
a transaction that has summed an order knows: each price in its sum was agreed to
*when it looked* (`ChangesKnow`), and what is agreed to stays so
(`ConsentsGrow`), because only an open question is answered. That is why a
stale total, wrong as it may be about the lines, never charges what nobody agreed
to.

**IdentityProofs** (`TypeOK`, `CodesAreScarce`, `AccessIsCurrent`, the refinement
of `TokenChain`). `RowsAgree`: tokens of sessions differ, and an exchanged one is
no session's; `RequestsKnow`: rows a request carries are its user's;
`ConsumedOnce` and `LoginsMatchCodes`: a consumed code belongs to one request, and
one sign-in at most came of it; `GuessesCount` and `CodesCount` bound what is in
flight by counting the requests at a step, which is why requests are finitely
many; `SeenIsCurrent`: what a request read of an account has been true since it
looked. `ImplementsChain` maps sessions and retired hashes to a chain's tokens,
for any number of refreshes and log-outs at once.

**MessagingProofs, notifications** (`TypeOK`, `TellingIsSound`). `SendingIsHeldOnce`: a row is in
the hand of one worker at most, and SENDING while it is; `AnswersAreAwaited`, `TakenIsKnown`, `SentIsTaken`: what the provider took is
SENDING or SENT, and is marked by the worker that has it in hand. A row that was
taken can therefore never be QUEUED again, which no single statement says.
`RowsOnlyMoveOn` says what else none says: what is sent, failed or suppressed stays
so although no mark looks at the status it overwrites, and a row stranded by a
fault is stranded for ever. `WorkersAreNeverHeldUp` is to `QueueDrains` what
`SweepsComeToAnEnd` is to `SearchEnds`; beyond the end of a pass it counts the
passes, each of which begins with an attempt more.

**MessagingProofs, events** (`HubTypeOK`, `HubMatchesConnections`, `EventsArrive`,
and halves of `PublishingIsSafe` and `SlowClientsBlockNobody`). Of the
events that are not positions, each that was offered to an open connection is
delivered, buffered, counted as dropped, or in the hand of a publisher about to
count it: a count over sequences that a send, a write of the stream and an
overflow each move by one. `Latest` and `Ordered`: what a publisher at work
announces is newer than all it has sent, so that buffer and stream, one after the
other, keep its order. The quotas are cardinalities of sets that are finite
because opening a connection is a step (`Finite`). `PanicsNeedAClosedStream`: the panic that
`panic` shows has one cause, a stream that was found open and closed before the
send, so no publisher panics while nobody leaves. `PublishersAreNeverHeldUp`: a
publisher at work has an enabled step (the guards are written out, `CanGoOn`,
for want of ENABLED), each of its steps leaves it less to do - in the calls left,
the connections left, the stage of one send, lexicographically - and nobody
else's step touches its row; with weak fairness that is
`SlowClientsBlockNobody`.

**FiniteSums.** `MapThenSumSet` computes a sum by choosing elements. `TotalOf` is
the same sum with its recursion in the open; the recursion is shown to determine
it, and the order of choices not to matter, by a minimal counterexample
(`SetInduction`), since no induction principle of the library can be instantiated.

**Only model-checked.**

* Liveness: `SearchEnds`, `OffersEnd`, `AcceptanceEnds`, `PoolSettles`,
  `PositionCatchesUp`, `QueueDrains`, `SlowClientsBlockNobody`. TLAPS does not
  reason about fairness. What is proved is that nothing holds up a sweeper
  (`SweepsComeToAnEnd`), a worker (`WorkersAreNeverHeldUp`) or a publisher
  (`PublishersAreNeverHeldUp`), and that what each has begun grows less with every
  step; `QueueDrains` and `SlowClientsBlockNobody` follow from that by fairness
  alone, `SearchEnds` and `OffersEnd` need the round over all jobs besides.
* `PublishingIsSafe` and `RemittancesAreAccounted` are refuted (`panic`, `remit`);
  the theorems above say how far each is true.

## 5. Not modelled, and why

`PROJECT.json` lists every component with its reason. In short:

* queries, HTTP decoding and the catalogue (no state that anything decides on);
* routing, places and geometry (external services tried in turn, arithmetic on
  coordinates), scoring (floating point weights; any candidate may come first);
* configuration, health, tracing, migrations, code generation;
* the screens of the apps: the models let people call in any order;
* refunds, payouts, reversals, reconciliation cases, webhooks, proof of delivery
  and parcel custody: stores without a caller outside tests, or without anything
  registered to call them. So are `ExpireOffer`, `RespondToAssignment`,
  `SweepAcceptTimeouts`, `ClaimIdempotencyKey`, `Unsubscribe` and the merchant's
  `Reserve`/`ReleaseReservation`. The reviews of drivers, vehicles and documents
  have no caller yet either and *are* modelled (Vetting), because dispatch reads
  what they write;
* the pool of database connections, whose size one listed hazard depends on;
* the phones' mutation queue.

## 6. Where the code and its words differ

With a run:

* `remit` - an agent's request repeated with its key credits the driver twice:
  the ledger movement is posted without the key.
* `panic` - a publisher that found a connection open sends after `Disconnect`
  closed its channel, and panics, against `realtime_test.go`'s "Publishing to a
  dead channel must not panic on the closed channel".

Seen while modelling; the models do what the code does, and no run is about it:

*Orders.*

* An accepted substitute is never charged. What a customer is asked about is
  recorded with the action REQUEST_CUSTOMER_DECISION, and `recomputeTotal`
  (`merchant/store.go:176`) and `repricesLine` (`merchant/merchant.go:342`) look
  at the action SUBSTITUTE alone (`Reprices` in Basket); so the customer who
  accepts one pays the original price. `merchant/store.go:568` ("an accepted one
  is charged at what was actually supplied"), BD-11 at `merchant/customer.go:157`
  and `TestAcceptingADearerSubstituteRaisesTheTotal` say otherwise.
* Two changes of one order that overlap leave the total without one of them until
  the next change, against "the total and the lines cannot disagree"
  (`merchant/store.go:173`): the sum is taken in a snapshot.
* An answer that comes after the settlement still changes the total
  (`merchant/store.go:606`), and one to an older question revives a line that a
  newer report removed.
* `order_item_issues.reason` accepts five codes (migration 000009, line 221);
  `ReportIssue` and its tests send free text.
* A second tap on Mark Ready, or a retry after a failure, creates a second
  delivery job for the order, and the first stays in dispatch; a retry never
  consumes the stock (`merchant/service.go:304`, only from PREPARING).
* `DeliveryProgress` maps EXPIRED to FAILED, and the sweep that expires the job
  tells nobody: the order stays READY_FOR_PICKUP.
* Two follow-ups of one job race; the one that loses a compare-and-set stops, and
  the order may stay DELIVERING after its job completed.
* A release of stock lost after the cancellation committed is never retried
  (`sweeper/sweeper.go:80`).
* A line may reach an order after it was placed (`merchant/store.go:154` inserts
  without looking at the status `customer.go` checked), and holds no stock. One
  that arrives between the count of the lines and the statement that holds them
  (`merchant/store.go:884`) may make up the number for a line that is out of
  stock, and the order is placed without it.
* A cart with two lines of one product is refused as out of stock whatever the
  shelf holds (`merchant/store.go:903`).

*Drivers.*

* `jobs/store.go:550` says a driver holds at most one assignment and that an index
  enforces it; the index is on the job. A driver who accepted can go online again
  (ACCEPTED to AVAILABLE is a legal move) and is offered a second job.
* Of two overlapping sign-ins that both read ACCEPTED, the first makes the driver
  AVAILABLE, a job is won, and the second, which compares with ACCEPTED
  (`driver/driver.go:279`), takes that job's mark for the one it read. It is the
  exception in `AcceptedIsNotOverwritten`, and `shift` reaches it.
* An accepted assignment of a cancelled or completed job stays ACCEPTED, so the
  driver's app keeps reading it as current work (`jobs/store.go:547`), and the
  driver stays ACCEPTED until they go online again.
* A sign-off that commits between an acceptance's look at the driver and its last
  write leaves the holder of the job OFFLINE (`dispatch/store.go:207`, `:252`).
* A vehicle suspended while its driver selects it does "slip through"
  (`providers/store.go:121`): the condition of the update is read in its snapshot,
  and the suspension cleared the rows it saw. `OnlyOverlapsSlipThrough` says that
  nothing else does it; eligibility and `Accept` look at the vehicle again.
* The rollback of a sign-in from ACCEPTED is refused by the machine when nothing
  changed meanwhile, and the driver stays AVAILABLE outside the pool until the
  next report (`driver/driver.go:287`).
* A driver who was offered a job has left the pool, and joins it again only with
  the next report; one who is OFFLINE may be left in it, where nothing expires.
* Two overlapping reports may leave the older of two fixes as the live position.
* `mandatoryDocuments` joins every row of a driver's documents, so an old REJECTED
  or EXPIRED row refuses a driver who has resubmitted (`providers/store.go:473`);
  acceptance does not look at documents again.

*Trips, fares and money.*

* "A cancelled trip stops being watchable" (`booking/booking.go:605`): an accept
  that committed before the cancellation opens its session after it
  (`dispatch/handler.go:125`), and nothing ends that session. Nor does a
  cancellation whose record fails (`booking/booking.go:602`) end it, or tell the
  order.
* Two overlapping confirmations with one key book two rides (the lookup and the
  record are transactions of their own, `booking/booking.go:467`), and a
  confirmation whose key was not recorded after its price was locked is refused
  for ever, its quote being used. The fingerprint leaves the payment method out.
* The demand factor is always 1.0: `Supply` counts drivers whose verification is
  'VERIFIED' (`booking/store.go:408`), and a driver's is APPROVED. Were it not,
  a tariff saved without bounds would refuse every quote above 1.0, for the
  engine refuses rather than caps (`pricing/pricing.go:241`).
* A job's type and stops come from the request, its price from the quote, and
  nothing compares them (`booking/booking.go:531`).
* A settlement that failed is never repeated (`booking/booking.go:723`).
* `Clearing` is "what they must hand back to work again" (`finance/credit.go:52`),
  and it brings a driver down to the warning (`:173`), which unblocks them only
  where that is below the cap (`:166`). The schema and `SetCreditLimit` accept a
  warning equal to the cap (migration 000017, line 36; `credit.go:187`), and a
  small override makes it so (`credit.go:127`); such a driver hands back what they
  are told and stays blocked. `ClearingIsEnoughOnlyThen` says whom it unblocks:
  exactly the drivers whose warning is below the cap.

*Identity, events, notifications.*

* Guesses in flight exceed the attempts of a code by as many as they are
  (`identity/service.go:207`): `CodesAreScarce` bounds them.
* Positions may arrive at a client older after newer, and one coalesced after the
  buffer was drained waits for the next event (`realtime/realtime.go:218`).
  Membership of a job is checked when a client subscribes and not again.
* A notification whose worker dies stays SENDING for ever, as does the rest of
  its batch: a claim takes QUEUED rows alone (`notify/store.go:263`, and
  `RowsOnlyMoveOn`).
  `RetireDevice` goes by the device's row and may retire a token that replaced
  the dead one.
* Some moves of a job write no history row (release, SweepExpired, Accept from
  SEARCHING writes ASSIGNED).

## 7. Plan

Done: every module of section 2, its runs, and the proofs of section 4. Left, in
this order:

1. `MutationQueue`: load, enqueue, flush and clear of the phones at their awaits;
   nothing that was accepted is lost, or sent for another user.
2. The pool of database connections as a resource of Money's requests, for the
   wait on a second connection in `finance/store.go:65`.
