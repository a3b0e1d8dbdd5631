------------------------------- MODULE Booking -------------------------------
(***************************************************************************)
(* From a fare to a job (internal/booking): a customer is quoted a price,   *)
(* confirms it into a job under an idempotency key, and the price is locked *)
(* against the job; a delivery is priced after its job exists.  Operators   *)
(* add tariffs meanwhile.                                                   *)
(*                                                                         *)
(* A confirmation is four transactions and two reads, one action each, so   *)
(* that confirmations of one customer interleave and each may fail between  *)
(* any two.  A job is named by the call that creates it.                    *)
(***************************************************************************)
EXTENDS Fares

CONSTANTS
    Users,        \* customers
    Quotes,       \* quotes a customer asks for
    Trips,        \* what they ask a price for
    Areas,        \* who waits and who drives around the pickup
    Seeded,       \* the tariffs the platform starts with
    Added,        \* bodies of POST /admin/tariffs
    Keys, NoKey,  \* Idempotency-Key, and a request without one
    Enabled,      \* the payment methods configured
    Providers,    \* the digital methods a provider takes
    Calls,        \* requests that confirm a quote
    Deliveries,   \* grocery jobs, each with its quote
    None,
    MaxFaults     \* bound on failing requests

Methods == {"CASH", "CARD"}

\* The trip of a delivery job: no vehicle, city or zone, and the time a shop
\* is from a door.
DeliveryTrip == [type |-> "GROCERY", vehicle |-> "", city |-> "", zones |-> {},
                 meters |-> 2500, seconds |-> 90, grams |-> 0]

\* Rows of job_price_locks and of idempotency_keys.
LockRows == [quote : Quotes \cup Deliveries, total : Int]
KeyRows  == [job : Calls, print : Quotes]

ASSUME BookingAssumption ==
    /\ None \notin Quotes \cup Deliveries \cup Calls \cup Users \cup LockRows \cup KeyRows
    /\ Calls \cap Deliveries = {}
    /\ NoKey \notin Keys /\ Enabled \subseteq Methods /\ Providers \subseteq Methods
    /\ MaxFaults \in Nat

\* Tariffs are stored, and the CHECKs of pricing_tariffs let no other in.
Tariffs == Seeded \cup {Stored(t) : t \in Added}

ASSUME TariffsAssumption ==
    \A t \in Tariffs :
        /\ {t.minimum, t.base, t.perKM, t.perMinute, t.perKG, t.serviceFee} \subseteq Nat
        /\ t.taxBPS \in Nat /\ t.taxBPS <= 10000
        /\ {t.minBPS, t.maxBPS} \subseteq Nat /\ t.minBPS >= NeutralBPS
ASSUME TripsAssumption ==
    \A req \in Trips : /\ req.type \in {"RIDE", "PARCEL", "GROCERY", "CARGO", "FREIGHT"}
                       /\ {req.meters, req.seconds, req.grams} \subseteq Nat
ASSUME AreasAssumption == \A a \in Areas : a.waiting \in Nat /\ IsFiniteSet(a.drivers)

VARIABLES
    tariffs,  \* pricing_tariffs
    quote,    \* pricing_quotes
    stale,    \* the quotes whose expires_at has passed
    jobs,     \* the jobs created: by calls, and the deliveries
    lock,     \* job_price_locks
    keyed,    \* idempotency_keys of scope job.create, by key and user
    call,     \* where a confirmation is, and what it asks for
    pricing,  \* the deliveries PriceDelivery has a quote for and no lock yet
    after,    \* (history) the calls answered with a job before a call began
    faults

vars == <<tariffs, quote, stale, jobs, lock, keyed, call, pricing, after, faults>>

QuoteIds == Quotes \cup Deliveries
JobIds   == Calls \cup Deliveries

NoAsk == [user |-> None, quote |-> None, key |-> NoKey]
Asks  == [user : Users, quote : Quotes, key : Keys \cup {NoKey}]
Steps == {"idle", "lookup", "quote", "create", "lock", "record", "done"}

TypeOK ==
    /\ tariffs \subseteq Tariffs
    /\ stale \subseteq Quotes /\ \A q \in stale : quote[q] # None
    /\ \A q \in QuoteIds : quote[q] # None =>
          /\ quote[q].by \in Users \cup {None} /\ quote[q].tariff \in tariffs
          /\ Safe(quote[q].total)
    /\ jobs \subseteq JobIds /\ Deliveries \subseteq jobs
    /\ \A j \in JobIds : lock[j] # None =>
          j \in jobs /\ lock[j].quote \in QuoteIds /\ Safe(lock[j].total)
    /\ keyed \in [Keys \X Users -> {None} \cup KeyRows]
    /\ \A c \in Calls : /\ call[c].step \in Steps
                        /\ call[c].ask \in Asks \cup {NoAsk}
                        /\ call[c].answer \in Calls \cup {None}
                        /\ call[c].step \in {"lock", "record"} => c \in jobs
    /\ pricing \subseteq Deliveries
    /\ after \in [Calls -> SUBSET Calls] /\ faults \in 0 .. MaxFaults

Init ==
    /\ tariffs = Seeded
    /\ quote = [q \in QuoteIds |-> None]
    /\ stale = {}
    /\ jobs = Deliveries
    /\ lock = [j \in JobIds |-> None]
    /\ keyed = [k \in Keys \X Users |-> None]
    /\ call = [c \in Calls |-> [step |-> "idle", ask |-> NoAsk, answer |-> None]]
    /\ pricing = {}
    /\ after = [c \in Calls |-> {}]
    /\ faults = 0

Locked(j, q) == [lock EXCEPT ![j] = [quote |-> q, total |-> quote[q].total]]

Goes(c, step) == call' = [call EXCEPT ![c].step = step]
Answers(c, j) == call' = [call EXCEPT ![c].step = "done", ![c].answer = j]

KeyOf(c) == <<call[c].ask.key, call[c].ask.user>>

\* fingerprintOf: the quote stands for the body, which it does not compare
\* with the quote.  The payment method is not part of it.
Fingerprint(ask) == ask.quote

-----------------------------------------------------------------------------
(* Mistakes the properties are there to catch; Next has none of them.        *)

\* Bounds left at zero are stored as they came.
CreateTariffAsSent(t) ==
    /\ t \notin tariffs
    /\ tariffs' = tariffs \cup {t}
    /\ UNCHANGED <<quote, stale, jobs, lock, keyed, call, pricing, after, faults>>

\* The key is recorded with the job, ahead of the price.
CreateRecorded(c) ==
    /\ call[c].step = "create"
    /\ jobs' = jobs \cup {c}
    /\ Goes(c, "lock")
    /\ keyed' = [keyed EXCEPT ![KeyOf(c)] =
           IF @ = None THEN [job |-> c, print |-> Fingerprint(call[c].ask)] ELSE @]
    /\ UNCHANGED <<tariffs, quote, stale, lock, pricing, after, faults>>

\* A quote is used when a key was recorded for it.
UsedByKey(q) == \E k \in DOMAIN keyed : keyed[k] # None /\ keyed[k].print = q

-----------------------------------------------------------------------------
(* Quotes *)

\* The engine's answer as it is stored: its breakdown, and the tariff used.
Priced(user, req, t, bps) ==
    [by |-> user, tariff |-> t, total |-> Total(req, t, bps), lines |-> Breakdown(req, t, bps)]

\* Store.SaveQuote, for the tariff found and the demand measured.  A zone that
\* cannot be looked up is no zone.
SaveQuote(q, user, req, area) ==
    /\ quote[q] = None
    /\ \E zone \in {ZoneOf(req.zones), NoZone} : \E t \in TariffsFor(tariffs, req, zone) :
          /\ CanPrice(req, t, DemandBPS(area))
          /\ quote' = [quote EXCEPT ![q] = Priced(user, req, t, DemandBPS(area))]

Quote(q, user, req, area) ==
    /\ SaveQuote(q, user, req, area)
    /\ UNCHANGED <<tariffs, stale, jobs, lock, keyed, call, pricing, after, faults>>

\* QuoteTTL passes.
QuoteExpires(q) ==
    /\ quote[q] # None
    /\ stale' = stale \cup {q}
    /\ UNCHANGED <<tariffs, quote, jobs, lock, keyed, call, pricing, after, faults>>

CreateTariff(t) ==
    /\ Stored(t) \notin tariffs
    /\ tariffs' = tariffs \cup {Stored(t)}
    /\ UNCHANGED <<quote, stale, jobs, lock, keyed, call, pricing, after, faults>>

\* PriceDelivery: quoted and locked in two transactions, once; a delivery whose
\* pricing fails stays without a price.  Its quote, saved for the one who asked for
\* the job, has an id nobody is told: here it is nobody's.
PriceDelivery(d, area) ==
    /\ d \notin pricing
    /\ SaveQuote(d, None, DeliveryTrip, area)
    /\ pricing' = pricing \cup {d}
    /\ UNCHANGED <<tariffs, stale, jobs, lock, keyed, call, after, faults>>

LockDelivery(d) ==
    /\ d \in pricing
    /\ \/ lock' = Locked(d, d) /\ UNCHANGED faults
       \/ faults < MaxFaults /\ faults' = faults + 1 /\ UNCHANGED lock
    /\ pricing' = pricing \ {d}
    /\ UNCHANGED <<tariffs, quote, stale, jobs, keyed, call, after>>

-----------------------------------------------------------------------------
(* Create, one transaction or read at a time *)

\* payments.Gateway.Check: cash, or a method with a provider behind it.
Offered(m) == m \in Enabled /\ (m = "CASH" \/ m \in Providers)

Begin(c, ask, m) ==
    /\ call[c].step = "idle"
    /\ call' = [call EXCEPT ![c] =
           [step |-> IF ~Offered(m) THEN "done"
                     ELSE IF ask.key = NoKey THEN "quote" ELSE "lookup",
            ask |-> ask, answer |-> None]]
    /\ after' = [after EXCEPT ![c] = {e \in Calls : call[e].answer # None}]
    /\ UNCHANGED <<tariffs, quote, stale, jobs, lock, keyed, pricing, faults>>

\* LookupIdempotent: a key used for another request is refused.
Lookup(c) ==
    LET found == keyed[KeyOf(c)]
    IN  /\ call[c].step = "lookup"
        /\ \/ found = None /\ Goes(c, "quote")
           \/ found # None /\ Answers(c, IF found.print = Fingerprint(call[c].ask)
                                         THEN found.job ELSE None)
        /\ UNCHANGED <<tariffs, quote, stale, jobs, lock, keyed, pricing, after, faults>>

\* QuoteByID: a quote is used when some job's price is locked on it.
Used(q) == \E j \in JobIds : lock[j] # None /\ lock[j].quote = q

ReadQuote(c) ==
    LET q == call[c].ask.quote
    IN  /\ call[c].step = "quote"
        /\ IF /\ quote[q] # None
              /\ quote[q].by = call[c].ask.user
              /\ q \notin stale
              /\ ~Used(q)
           THEN Goes(c, "create")
           ELSE Answers(c, None)
        /\ UNCHANGED <<tariffs, quote, stale, jobs, lock, keyed, pricing, after, faults>>

\* jobs.Store.Create: the job, its stops and requirements, in one transaction.
CreateJob(c) ==
    /\ call[c].step = "create"
    /\ jobs' = jobs \cup {c}
    /\ Goes(c, "lock")
    /\ UNCHANGED <<tariffs, quote, stale, lock, keyed, pricing, after, faults>>

LockPrice(c) ==
    /\ call[c].step = "lock"
    /\ lock' = Locked(c, call[c].ask.quote)
    /\ IF call[c].ask.key = NoKey THEN Answers(c, c) ELSE Goes(c, "record")
    /\ UNCHANGED <<tariffs, quote, stale, jobs, keyed, pricing, after, faults>>

\* RecordIdempotent: the first job recorded for a key stays, and the call
\* answers with its own either way.
RecordIdempotent(c) ==
    /\ call[c].step = "record"
    /\ keyed' = [keyed EXCEPT ![KeyOf(c)] =
           IF @ = None THEN [job |-> c, print |-> Fingerprint(call[c].ask)] ELSE @]
    /\ Answers(c, c)
    /\ UNCHANGED <<tariffs, quote, stale, jobs, lock, pricing, after, faults>>

\* A statement fails, the request times out or its process dies: what was
\* committed stays, and the customer may call again.
Fails(c) ==
    /\ call[c].step \notin {"idle", "done"}
    /\ faults < MaxFaults
    /\ faults' = faults + 1
    /\ Answers(c, None)
    /\ UNCHANGED <<tariffs, quote, stale, jobs, lock, keyed, pricing, after>>

Next ==
    \/ \E q \in Quotes, u \in Users, req \in Trips, area \in Areas : Quote(q, u, req, area)
    \/ \E q \in Quotes : QuoteExpires(q)
    \/ \E t \in Added : CreateTariff(t)
    \/ \E d \in Deliveries, area \in Areas : PriceDelivery(d, area)
    \/ \E d \in Deliveries : LockDelivery(d)
    \/ \E c \in Calls, ask \in Asks, m \in Methods : Begin(c, ask, m)
    \/ \E c \in Calls : Lookup(c) \/ ReadQuote(c) \/ CreateJob(c) \/ LockPrice(c)
                        \/ RecordIdempotent(c) \/ Fails(c)

Spec == Init /\ [][Next]_vars

-----------------------------------------------------------------------------
(* Properties *)

\* What a customer is shown adds up: the lines of a quote sum to the total the
\* engine accumulated beside them, and neither demand nor tax has taken the
\* fare below the tariff's minimum or the demand line above half the fare.
\* (Engine.Quote; document 34: every quote carries its full breakdown.)
FaresAddUp ==
    \A q \in QuoteIds : quote[q] # None =>
        LET lines == quote[q].lines
        IN  /\ Sum(lines) = quote[q].total
            /\ quote[q].total >= quote[q].tariff.minimum
            /\ 2 * lines["demand"] <= quote[q].total

\* A call is answered only with a ride whose price is locked, at the total of
\* a quote of this very customer, whatever tariffs came later - also when the
\* answer is a ride an earlier call recorded under the key.  (Create: the price
\* lock is what settlement reads.)
AnsweredRidesArePriced ==
    \A c \in Calls : call[c].answer # None =>
        LET l == lock[call[c].answer]
        IN  /\ l # None
            /\ l.quote = call[c].ask.quote
            /\ l.total = quote[l.quote].total
            /\ quote[l.quote].by = call[c].ask.user

\* A customer who calls again after an answer books nothing more with the same
\* key or on the same quote, and under the key they get an earlier ride back.
\* (Create: "a customer whose network dropped mid-request must not find two
\* rides on the way".  Two calls that overlap do book two.)
RetriesBookNothing ==
    \A c \in Calls : \A e \in after[c] :
        LET mine == call[c].ask  its == call[e].ask
            sameKey == mine.user = its.user /\ mine.key = its.key /\ mine.key # NoKey
        IN  sameKey \/ mine.quote = its.quote => c \notin jobs

=============================================================================
