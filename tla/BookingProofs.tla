---------------------------- MODULE BookingProofs ----------------------------
(***************************************************************************)
(* What a booking promises, for any number of customers, quotes, tariffs,   *)
(* keys and overlapping calls, any of which may fail between two            *)
(* transactions any number of times.                                        *)
(***************************************************************************)
EXTENDS Booking, FiniteSetTheorems, TLAPS

-----------------------------------------------------------------------------
(* The inductive invariant *)

\* Every row is there from the start, empty or not.
RowsKnown ==
    /\ quote = [q \in QuoteIds |-> quote[q]]
    /\ lock \in [JobIds -> {None} \cup LockRows]
    /\ call \in [Calls -> [step : Steps, ask : Asks \cup {NoAsk}, answer : Calls \cup {None}]]
    /\ \A d \in pricing : Safe(quote[d].total)

\* What a call has seen and done by the step it is at.
Underway ==
    \A c \in Calls :
        LET s == call[c].step  ask == call[c].ask
        IN  /\ s # "idle" => ask \in Asks
            /\ s \in {"lookup", "record"} => ask.key # NoKey
            /\ s \in {"create", "lock", "record"} =>
                  quote[ask.quote] # None /\ quote[ask.quote].by = ask.user
            /\ c \in jobs => s \in {"lock", "record", "done"}
            /\ lock[c] # None => s \in {"record", "done"}
            /\ s = "record" => lock[c] # None /\ lock[c].quote = ask.quote
            /\ call[c].answer # None => s = "done"

\* A call's price is the total of a quote that was made.
PricesAreOfQuotes ==
    \A c \in Calls : lock[c] # None =>
        /\ quote[lock[c].quote] # None
        /\ lock[c].total = quote[lock[c].quote].total

\* A key stands for a ride whose price is locked on the quote asked for, of the
\* customer whose key it is, and every answer under a key has recorded one.
KeysAreOfRides ==
    /\ \A k \in Keys, u \in Users :
          LET r == keyed[<<k, u>>]
          IN  r # None => /\ lock[r.job] # None /\ lock[r.job].quote = r.print
                          /\ quote[r.print].by = u
    /\ \A c \in Calls :
          call[c].answer # None /\ call[c].ask.key # NoKey => keyed[KeyOf(c)] # None

\* Who began after an answer under the same key or on the same quote gets no
\* further than the key, or than the quote.
SameKey(c, e) ==
    /\ call[c].ask.user = call[e].ask.user
    /\ call[c].ask.key = call[e].ask.key
    /\ call[c].ask.key # NoKey

LatecomersStop ==
    \A c \in Calls : \A e \in after[c] :
        /\ e # c /\ call[e].answer # None /\ call[c].step # "idle"
        /\ SameKey(c, e) => call[c].step \in {"lookup", "done"}
        /\ SameKey(c, e) \/ call[c].ask.quote = call[e].ask.quote =>
              c \notin jobs /\ call[c].step \in {"lookup", "quote", "done"}

IInv ==
    /\ TypeOK /\ RowsKnown /\ Underway /\ PricesAreOfQuotes /\ KeysAreOfRides
    /\ AnsweredRidesArePriced /\ LatecomersStop

-----------------------------------------------------------------------------
(* Rows *)

CallRows == [step : Steps, ask : Asks \cup {NoAsk}, answer : Calls \cup {None}]

LEMMA CallType ==
    ASSUME IInv, NEW c \in Calls
    PROVE  call[c] \in CallRows /\ call[c] = [step |-> call[c].step, ask |-> call[c].ask,
                                              answer |-> call[c].answer]
  BY DEF IInv, RowsKnown, CallRows

\* A step of one call.
LEMMA OneCall ==
    ASSUME IInv, NEW c \in Calls, NEW r \in CallRows, call' = [call EXCEPT ![c] = r]
    PROVE  /\ call' \in [Calls -> CallRows] /\ call'[c] = r
           /\ \A e \in Calls : e # c => call'[e] = call[e]
  BY DEF IInv, RowsKnown, CallRows

LEMMA GoesTo ==
    ASSUME IInv, NEW c \in Calls, NEW step \in Steps, Goes(c, step)
    PROVE  /\ call' \in [Calls -> CallRows]
           /\ call'[c] = [step |-> step, ask |-> call[c].ask, answer |-> call[c].answer]
           /\ \A e \in Calls : e # c => call'[e] = call[e]
  <1>. DEFINE r == [step |-> step, ask |-> call[c].ask, answer |-> call[c].answer]
  <1>1. r \in CallRows
    BY CallType DEF CallRows
  <1>2. call \in [Calls -> CallRows]
    BY DEF IInv, RowsKnown, CallRows
  <1>3. call' = [call EXCEPT ![c] = r]
    <2>1. [call[c] EXCEPT !.step = step] = r
      BY <1>2 DEF CallRows
    <2>. QED BY <2>1 DEF Goes
  <1>. QED BY <1>1, <1>3, OneCall

LEMMA AnswersWith ==
    ASSUME IInv, NEW c \in Calls, NEW j \in Calls \cup {None}, Answers(c, j)
    PROVE  /\ call' \in [Calls -> CallRows]
           /\ call'[c] = [step |-> "done", ask |-> call[c].ask, answer |-> j]
           /\ \A e \in Calls : e # c => call'[e] = call[e]
  <1>. DEFINE r == [step |-> "done", ask |-> call[c].ask, answer |-> j]
  <1>1. r \in CallRows
    BY CallType DEF CallRows, Steps
  <1>2. call \in [Calls -> CallRows]
    BY DEF IInv, RowsKnown, CallRows
  <1>3. call' = [call EXCEPT ![c] = r]
    <2>. DEFINE m == [step |-> "done", ask |-> call[c].ask, answer |-> call[c].answer]
    <2>1. [call[c] EXCEPT !.step = "done"] = m
      BY <1>2 DEF CallRows
    <2>2. [m EXCEPT !.answer = j] = r
      OBVIOUS
    <2>. HIDE DEF m, r
    <2>3. call' = [call EXCEPT ![c] = [m EXCEPT !.answer = j]]
      BY <1>2, <2>1 DEF Answers
    <2>. QED BY <2>2, <2>3
  <1>. QED BY <1>1, <1>3, OneCall

\* The key of a call that has one is a key of a customer.
LEMMA KeyType ==
    ASSUME IInv, NEW c \in Calls, call[c].ask \in Asks, call[c].ask.key # NoKey
    PROVE  KeyOf(c) \in Keys \X Users /\ call[c].ask.quote \in Quotes /\ call[c].ask.user \in Users
  BY DEF Asks, KeyOf

LEMMA RowsAreSomething ==
    /\ \A r \in LockRows : r # None
    /\ \A r \in KeyRows : r # None
    /\ \A c \in Calls : c # None
    /\ \A j \in Calls : j \notin Deliveries
  BY BookingAssumption

-----------------------------------------------------------------------------
(* The fare *)

\* Rounding is to the nearest whole number.
LEMMA Rounded ==
    ASSUME NEW n \in Int, NEW d \in Nat \ {0}
    PROVE  /\ DivRound(n, d) \in Int
           /\ n >= 0 => /\ DivRound(n, d) \in Nat
                        /\ 2 * n <= 2 * (d * DivRound(n, d)) + d
                        /\ 2 * (d * DivRound(n, d)) <= 2 * n + d
  <1>. DEFINE m == Magnitude(n)
              q == m \div d
              r == m % d
              u == IF 2 * r >= d THEN 1 ELSE 0
  <1>1. m \in Nat /\ (n >= 0 => m = n)
    BY DEF Magnitude
  <1>2. q \in Nat /\ r \in Nat /\ r < d /\ m = d * q + r
    <2>. HIDE DEF m
    <2>. QED BY <1>1
  <1>3. DivRound(n, d) = IF n < 0 THEN -(q + u) ELSE q + u
    BY DEF DivRound
  <1>. HIDE DEF m, q, r
  <1>4. d * (q + u) = d * q + (IF 2 * r >= d THEN d ELSE 0) /\ q + u \in Nat /\ d * q \in Nat
    BY <1>2
  <1>5. /\ 2 * m <= 2 * (d * q + (IF 2 * r >= d THEN d ELSE 0)) + d
        /\ 2 * (d * q + (IF 2 * r >= d THEN d ELSE 0)) <= 2 * m + d
    <2>. DEFINE p == d * q
    <2>1. p \in Nat /\ m = p + r
      BY <1>2, <1>4
    <2>. HIDE DEF p
    <2>2. /\ 2 * m <= 2 * (p + (IF 2 * r >= d THEN d ELSE 0)) + d
          /\ 2 * (p + (IF 2 * r >= d THEN d ELSE 0)) <= 2 * m + d
      BY <1>2, <2>1
    <2>. QED BY <2>2 DEF p
  <1>6. CASE n < 0
    BY <1>3, <1>4, <1>6
  <1>7. CASE n >= 0
    BY <1>1, <1>3, <1>4, <1>5, <1>7
  <1>. QED BY <1>6, <1>7

\* A demand of 1.0 to 1.5 scales a fare to no less and to no more than twice it.
LEMMA DemandScales ==
    ASSUME NEW a \in Nat, NEW bps \in Nat, bps >= NeutralBPS, bps <= AbsoluteMaxBPS
    PROVE  /\ ApplyRate(a, bps, NeutralBPS) \in Nat
           /\ a <= ApplyRate(a, bps, NeutralBPS) /\ ApplyRate(a, bps, NeutralBPS) <= 2 * a
  <1>. DEFINE n == a * bps
              s == DivRound(n, NeutralBPS)
  <1>1. n \in Nat /\ 10000 * a <= n /\ n <= 15000 * a
    BY DEF NeutralBPS, AbsoluteMaxBPS
  <1>2. ApplyRate(a, bps, NeutralBPS) = s
    BY DEF ApplyRate
  <1>. HIDE DEF n
  <1>3. s \in Nat /\ 2 * n <= 2 * (NeutralBPS * s) + NeutralBPS /\ 2 * (NeutralBPS * s) <= 2 * n + NeutralBPS
    <2>1. n \in Int /\ n >= 0 /\ NeutralBPS \in Nat \ {0}
      BY <1>1 DEF NeutralBPS
    <2>. QED BY <2>1, Rounded, Zenon
  <1>. HIDE DEF s
  <1>4. 2 * n <= 2 * (10000 * s) + 10000 /\ 2 * (10000 * s) <= 2 * n + 10000 /\ s \in Nat
    BY <1>3 DEF NeutralBPS
  <1>5. a <= s /\ s <= 2 * a
    BY <1>1, <1>4
  <1>. QED BY <1>2, <1>4, <1>5

\* Tax is added.
LEMMA TaxAdds ==
    ASSUME NEW a \in Nat, NEW bps \in Nat, NEW d \in Nat \ {0}
    PROVE  ApplyRate(a, bps, d) \in Nat
  <1>1. a * bps \in Int /\ a * bps >= 0
    OBVIOUS
  <1>. QED BY <1>1, Rounded DEF ApplyRate

LEMMA DemandBounded ==
    ASSUME NEW area \in Areas, DemandBPS(area) \in Nat
    PROVE  DemandBPS(area) <= AbsoluteMaxBPS
  <1>. DEFINE w == Supply(area).waiting
              a == Supply(area).available
              x == (w * NeutralBPS) \div a
  <1>1. w \in Nat /\ a \in Nat
    <2>1. IsFiniteSet(Counted(area.drivers))
      BY AreasAssumption, FS_Subset DEF Counted
    <2>. QED BY <2>1, FS_CardinalityType, AreasAssumption DEF Supply
  <1>2. CASE DemandBPS(area) = NeutralBPS
    BY <1>2 DEF NeutralBPS, AbsoluteMaxBPS
  <1>3. CASE a > 0 /\ DemandBPS(area) = Min({x, Clamp(MaxBPS)})
    <2>1. Clamp(MaxBPS) \in Nat /\ Clamp(MaxBPS) <= AbsoluteMaxBPS
      BY FaresAssumption DEF Clamp, AbsoluteMaxBPS
    <2>2. w * NeutralBPS \in Nat
      BY <1>1 DEF NeutralBPS
    <2>. HIDE DEF w, a
    <2>3. x \in Int
      BY <1>1, <1>3, <2>2
    <2>. HIDE DEF x
    <2>4. \E m \in {x, Clamp(MaxBPS)} : \A y \in {x, Clamp(MaxBPS)} : m <= y
      BY <2>1, <2>3
    <2>5. Min({x, Clamp(MaxBPS)}) <= Clamp(MaxBPS)
      BY <2>1, <2>3, <2>4 DEF Min
    <2>6. Min({x, Clamp(MaxBPS)}) \in Int
      BY <2>1, <2>3, <2>4 DEF Min
    <2>. QED BY <1>3, <2>1, <2>5, <2>6 DEF AbsoluteMaxBPS
  <1>. QED BY <1>1, <1>2, <1>3 DEF DemandBPS, MultiplierBPS

\* The lines of the rules are whole amounts.
Priceable(req) ==
    /\ req.type \in {"RIDE", "PARCEL", "GROCERY", "CARGO", "FREIGHT"}
    /\ {req.meters, req.seconds, req.grams} \subseteq Nat

LEMMA LinesTyped ==
    ASSUME NEW req, Priceable(req), NEW t \in Tariffs, NEW c \in Rules(req.type)
    PROVE  Line(c, req, t) \in Int
  <1>1. c \in {"base", "distance", "time", "weight", "loading", "waiting", "service_fee"}
    BY DEF Rules, Priceable
  <1>2. ASSUME NEW rate \in Nat, NEW amount \in Nat, NEW per \in Nat \ {0}
        PROVE  Rate(rate, amount, per) \in Int
    <2>1. rate * amount \in Int
      OBVIOUS
    <2>2. DivRound(rate * amount, per) \in Int
      BY <2>1, Rounded
    <2>. QED BY <2>2 DEF Rate, ApplyRate
  <1>3. /\ {t.base, t.perKM, t.perMinute, t.perKG, t.serviceFee} \subseteq Nat
        /\ {req.meters, req.seconds, req.grams} \subseteq Nat
    BY TariffsAssumption DEF Priceable
  <1>4. /\ Rate(t.perKM, req.meters, 1000) \in Int /\ Rate(t.perMinute, req.seconds, 60) \in Int
        /\ Rate(t.perKG, req.grams, 1000) \in Int /\ t.base \in Int /\ t.serviceFee \in Int
    BY <1>2, <1>3
  <1>. QED BY <1>1, <1>4 DEF Line

LEMMA Greater ==
    ASSUME NEW a \in Int, NEW b \in Int
    PROVE  Max({a, b}) = IF a < b THEN b ELSE a
  <1>1. \E m \in {a, b} : \A y \in {a, b} : m >= y
    OBVIOUS
  <1>2. Max({a, b}) \in {a, b} /\ \A y \in {a, b} : Max({a, b}) >= y
    BY <1>1 DEF Max
  <1>. QED BY <1>2

\* The lines there are, added up.
AmountAt(f, c) == IF c \in DOMAIN f THEN f[c] ELSE 0

LEMMA SumIs ==
    ASSUME NEW f
    PROVE  Sum(f) = AmountAt(f, "base") + AmountAt(f, "distance") + AmountAt(f, "time")
                    + AmountAt(f, "weight") + AmountAt(f, "loading") + AmountAt(f, "waiting")
                    + AmountAt(f, "service_fee") + AmountAt(f, "minimum_fare_top_up")
                    + AmountAt(f, "demand") + AmountAt(f, "tax")
  BY DEF Sum, AmountAt

LEMMA SumTyped ==
    ASSUME NEW req, Priceable(req), NEW t \in Tariffs
    PROVE  Sum([c \in Rules(req.type) |-> Line(c, req, t)]) \in Int
  <1>. DEFINE f == [c \in Rules(req.type) |-> Line(c, req, t)]
  <1>1. \A c : AmountAt(f, c) \in Int
    BY LinesTyped DEF AmountAt
  <1>. HIDE DEF f
  <1>. QED BY <1>1, SumIs DEF f

\* What the three lines after the rules add makes the sum of the lines the total.
LEMMA LinesSum ==
    ASSUME NEW req, Priceable(req), NEW t \in Tariffs, NEW bps,
           NEW sum, sum = Sum([c \in Rules(req.type) |-> Line(c, req, t)]),
           NEW up, up = IF sum < t.minimum THEN t.minimum - sum ELSE 0,
           NEW scaled \in Int, scaled = ApplyRate(sum + up, bps, NeutralBPS),
           NEW tax \in Int, tax = ApplyRate(scaled, t.taxBPS, 10000)
    PROVE  /\ sum \in Int
           /\ Sum(Breakdown(req, t, bps)) = scaled + tax
           /\ Breakdown(req, t, bps)["demand"] = scaled - (sum + up)
  <1>. DEFINE lines == [c \in Rules(req.type) |-> Line(c, req, t)]
              all == Breakdown(req, t, bps)
              at(c) == IF c \in Rules(req.type) THEN Line(c, req, t) ELSE 0
  <1>1. Rules(req.type) \subseteq {"base", "distance", "time", "weight", "loading", "waiting", "service_fee"}
    BY DEF Rules, Priceable
  <1>2. DOMAIN lines = Rules(req.type) /\ \A c \in Rules(req.type) : lines[c] = Line(c, req, t)
    OBVIOUS
  <1>3. \A c : at(c) \in Int
    BY LinesTyped
  <1>4. t.minimum \in Int
    BY TariffsAssumption
  <1>5. sum = at("base") + at("distance") + at("time") + at("weight") + at("loading") + at("waiting")
              + at("service_fee")
    <2>1. /\ "minimum_fare_top_up" \notin Rules(req.type) /\ "demand" \notin Rules(req.type)
          /\ "tax" \notin Rules(req.type)
      BY <1>1
    <2>2. sum = at("base") + at("distance") + at("time") + at("weight") + at("loading") + at("waiting")
                + at("service_fee") + 0 + 0 + 0
      <3>. HIDE DEF lines
      <3>1. /\ AmountAt(lines, "base") = at("base") /\ AmountAt(lines, "distance") = at("distance")
            /\ AmountAt(lines, "time") = at("time") /\ AmountAt(lines, "weight") = at("weight")
            /\ AmountAt(lines, "loading") = at("loading")
            /\ AmountAt(lines, "waiting") = at("waiting")
            /\ AmountAt(lines, "service_fee") = at("service_fee")
            /\ AmountAt(lines, "minimum_fare_top_up") = 0 /\ AmountAt(lines, "demand") = 0
            /\ AmountAt(lines, "tax") = 0
        BY <1>2, <2>1 DEF AmountAt
      <3>2. sum = Sum(lines)
        BY DEF lines
      <3>. HIDE DEF at
      <3>. QED BY <3>1, <3>2, SumIs
    <2>. HIDE DEF at
    <2>. QED BY <1>3, <2>2
  <1>6. sum \in Int /\ up \in Int
    <2>. HIDE DEF at
    <2>. QED BY <1>3, <1>4, <1>5
  <1>7. /\ DOMAIN all = Rules(req.type) \cup {"minimum_fare_top_up", "demand", "tax"}
        /\ \A c \in Rules(req.type) : all[c] = Line(c, req, t)
        /\ all["minimum_fare_top_up"] = up
        /\ all["demand"] = scaled - (sum + up)
        /\ all["tax"] = tax
    <2>. DEFINE extras == [minimum_fare_top_up |-> up, demand |-> scaled - (sum + up), tax |-> tax]
    <2>. DEFINE floor == Sum(lines) + (IF Sum(lines) < t.minimum THEN t.minimum - Sum(lines) ELSE 0)
                made == [minimum_fare_top_up |-> IF Sum(lines) < t.minimum
                                                 THEN t.minimum - Sum(lines) ELSE 0,
                         demand |-> ApplyRate(floor, bps, NeutralBPS) - floor,
                         tax |-> ApplyRate(ApplyRate(floor, bps, NeutralBPS), t.taxBPS, 10000)]
    <2>4. all = [c \in DOMAIN lines \cup DOMAIN made |->
                   IF c \in DOMAIN lines THEN lines[c] ELSE made[c]]
      BY DEF Breakdown
    <2>5. made = extras
      OBVIOUS
    <2>1. all = [c \in Rules(req.type) \cup DOMAIN extras |->
                   IF c \in Rules(req.type) THEN lines[c] ELSE extras[c]]
      <3>. HIDE DEF all, made, lines, extras
      <3>. QED BY <1>2, <2>4, <2>5
    <2>2. DOMAIN extras = {"minimum_fare_top_up", "demand", "tax"}
      OBVIOUS
    <2>3. /\ extras["minimum_fare_top_up"] = up /\ extras["demand"] = scaled - (sum + up)
          /\ extras["tax"] = tax
      OBVIOUS
    <2>. HIDE DEF extras, all, lines
    <2>. QED BY <1>1, <1>2, <2>1, <2>2, <2>3
  <1>8. Sum(all) = at("base") + at("distance") + at("time") + at("weight") + at("loading") + at("waiting")
                   + at("service_fee") + up + (scaled - (sum + up)) + tax
    <2>. DEFINE in(c) == AmountAt(all, c)
    <2>1. \A c \in {"base", "distance", "time", "weight", "loading", "waiting", "service_fee"} : in(c) = at(c)
      <3>. HIDE DEF all
      <3>. QED BY <1>7 DEF AmountAt
    <2>2. in("minimum_fare_top_up") = up /\ in("demand") = scaled - (sum + up) /\ in("tax") = tax
      <3>. HIDE DEF all
      <3>. QED BY <1>7 DEF AmountAt
    <2>3. Sum(all) = in("base") + in("distance") + in("time") + in("weight") + in("loading") + in("waiting")
                     + in("service_fee") + in("minimum_fare_top_up") + in("demand") + in("tax")
      <3>. HIDE DEF all
      <3>. QED BY SumIs
    <2>4. /\ in("base") = at("base") /\ in("distance") = at("distance") /\ in("time") = at("time")
          /\ in("weight") = at("weight") /\ in("loading") = at("loading")
          /\ in("waiting") = at("waiting") /\ in("service_fee") = at("service_fee")
      <3>. HIDE DEF in, at
      <3>. QED BY <2>1
    <2>. HIDE DEF in, at, all
    <2>. QED BY <2>2, <2>3, <2>4
  <1>. HIDE DEF at, all
  <1>. QED BY <1>3, <1>5, <1>6, <1>7, <1>8 DEF all

LEMMA TariffType ==
    ASSUME NEW t \in Tariffs
    PROVE  /\ t.minimum \in Nat /\ t.taxBPS \in Nat
           /\ t.minBPS \in Nat /\ t.maxBPS \in Nat /\ t.minBPS >= NeutralBPS
  <1>1. /\ {t.minimum, t.base, t.perKM, t.perMinute, t.perKG, t.serviceFee} \subseteq Nat
        /\ {t.minBPS, t.maxBPS} \subseteq Nat
    BY TariffsAssumption
  <1>2. t.taxBPS \in Nat
    BY TariffsAssumption
  <1>3. t.minBPS >= NeutralBPS
    BY TariffsAssumption
  <1>. QED BY <1>1, <1>2, <1>3

\* A fare the engine answers with adds up.
LEMMA PricedAddsUp ==
    ASSUME NEW req, Priceable(req), NEW t \in Tariffs, NEW area \in Areas,
           CanPrice(req, t, DemandBPS(area))
    PROVE  /\ Sum(Breakdown(req, t, DemandBPS(area))) = Total(req, t, DemandBPS(area))
           /\ Total(req, t, DemandBPS(area)) >= t.minimum
           /\ 2 * Breakdown(req, t, DemandBPS(area))["demand"] <= Total(req, t, DemandBPS(area))
  <1>. DEFINE bps == DemandBPS(area)
              sum == Sum([c \in Rules(req.type) |-> Line(c, req, t)])
              up == IF sum < t.minimum THEN t.minimum - sum ELSE 0
              scaled == ApplyRate(sum + up, bps, NeutralBPS)
              tax == ApplyRate(scaled, t.taxBPS, 10000)
  <1>1. /\ bps \in Nat /\ bps >= NeutralBPS /\ t.minimum \in Nat /\ t.taxBPS \in Nat
        /\ t.minBPS \in Nat /\ t.maxBPS \in Nat
    <2>1. /\ t.minBPS \in Nat /\ t.maxBPS \in Nat /\ t.minBPS >= NeutralBPS
          /\ t.minimum \in Nat /\ t.taxBPS \in Nat
      BY TariffType
    <2>2. bps \in t.minBPS .. t.maxBPS
      BY DEF CanPrice
    <2>3. NeutralBPS \in Nat
      BY DEF NeutralBPS
    <2>. HIDE DEF bps
    <2>. QED BY <2>1, <2>2, <2>3
  <1>2. bps <= AbsoluteMaxBPS
    BY <1>1, DemandBounded
  <1>3. sum \in Int
    BY SumTyped
  <1>4. sum + up \in Nat /\ sum + up >= t.minimum /\ sum + up = Max({sum, t.minimum})
    <2>. HIDE DEF sum
    <2>. QED BY <1>1, <1>3, Greater
  <1>5. scaled \in Nat /\ sum + up <= scaled /\ scaled <= 2 * (sum + up)
    <2>. HIDE DEF sum, up, bps
    <2>. QED BY <1>1, <1>2, <1>4, DemandScales
  <1>6. tax \in Nat
    <2>1. NeutralBPS \in Nat \ {0}
      BY DEF NeutralBPS
    <2>. HIDE DEF scaled
    <2>2. ApplyRate(scaled, t.taxBPS, NeutralBPS) \in Nat
      BY <1>1, <1>5, <2>1, TaxAdds
    <2>. QED BY <2>2 DEF NeutralBPS
  <1>7. /\ Sum(Breakdown(req, t, bps)) = scaled + tax
        /\ Breakdown(req, t, bps)["demand"] = scaled - (sum + up)
    <2>1. scaled \in Int /\ tax \in Int
      BY <1>5, <1>6
    <2>. QED BY <2>1, LinesSum
  <1>8. Total(req, t, bps) = scaled + tax
    BY <1>4 DEF Total
  <1>. HIDE DEF sum, up, scaled, tax, bps
  <1>9. /\ scaled + tax >= t.minimum /\ 2 * (scaled - (sum + up)) <= scaled + tax
    BY <1>1, <1>4, <1>5, <1>6
  <1>. QED BY <1>7, <1>8, <1>9 DEF bps

-----------------------------------------------------------------------------
(* Quotes and tariffs *)

\* What the steps of the engine leave alone.
callVars == <<jobs, keyed, call, after>>

\* Quotes that were made stay as they are.
QuotesStay == \A q \in QuoteIds : quote[q] # None => quote'[q] = quote[q]

LEMMA AfterQuote ==
    ASSUME IInv, QuotesStay, UNCHANGED callVars, \A c \in Calls : lock'[c] = lock[c]
    PROVE  /\ Underway' /\ PricesAreOfQuotes' /\ KeysAreOfRides' /\ AnsweredRidesArePriced'
           /\ LatecomersStop'
  <1>1. /\ jobs' = jobs /\ keyed' = keyed /\ call' = call /\ after' = after
    BY DEF callVars
  <1>2. \A c \in Calls : call[c].step # "idle" => call[c].ask \in Asks /\ call[c].ask.quote \in QuoteIds
    BY DEF IInv, Underway, Asks, QuoteIds
  <1>3. \A c \in Calls : lock[c] # None => lock[c].quote \in QuoteIds
    BY DEF IInv, TypeOK, JobIds
  <1>4. Underway'
    <2>1. \A c \in Calls : call[c].step \in {"create", "lock", "record"} =>
               quote'[call[c].ask.quote] # None /\ quote'[call[c].ask.quote].by = call[c].ask.user
      BY <1>2 DEF IInv, Underway, QuotesStay
    <2>. QED BY <1>1, <2>1 DEF IInv, Underway
  <1>5. PricesAreOfQuotes'
    BY <1>1, <1>3 DEF IInv, PricesAreOfQuotes, QuotesStay
  <1>6. KeysAreOfRides'
    <2>1. ASSUME NEW k \in Keys, NEW u \in Users, keyed[<<k, u>>] # None
          PROVE  LET r == keyed[<<k, u>>]
                 IN  r.job \in Calls /\ quote'[r.print] = quote[r.print]
      <3>. DEFINE r == keyed[<<k, u>>]
      <3>1. r \in KeyRows
        BY <2>1 DEF IInv, TypeOK
      <3>2. r.job \in Calls /\ lock[r.job] # None /\ lock[r.job].quote = r.print
        BY <2>1, <3>1 DEF IInv, KeysAreOfRides, KeyRows
      <3>3. quote[r.print] # None
        BY <3>2 DEF IInv, PricesAreOfQuotes
      <3>. QED BY <1>3, <3>2, <3>3 DEF QuotesStay
    <2>2. \A c \in Calls : KeyOf(c)' = KeyOf(c)
      BY <1>1 DEF KeyOf
    <2>. QED BY <1>1, <2>1, <2>2 DEF IInv, KeysAreOfRides
  <1>7. AnsweredRidesArePriced'
    <2>1. ASSUME NEW c \in Calls, call[c].answer # None
          PROVE  LET l == lock[call[c].answer]
                 IN  lock'[call[c].answer] = l /\ quote'[l.quote] = quote[l.quote]
      <3>1. call[c].answer \in Calls /\ lock[call[c].answer] # None
        BY <2>1 DEF IInv, TypeOK, AnsweredRidesArePriced
      <3>. QED BY <1>3, <3>1 DEF IInv, PricesAreOfQuotes, QuotesStay
    <2>. QED BY <1>1, <2>1 DEF IInv, AnsweredRidesArePriced
  <1>8. LatecomersStop'
    BY <1>1 DEF IInv, LatecomersStop, SameKey
  <1>. QED BY <1>4, <1>5, <1>6, <1>7, <1>8

LEMMA SavedQuote ==
    ASSUME IInv, NEW q \in QuoteIds, NEW user, NEW req, NEW area, SaveQuote(q, user, req, area)
    PROVE  /\ quote' = [x \in QuoteIds |-> quote'[x]]
           /\ \A x \in QuoteIds : x # q => quote'[x] = quote[x]
           /\ quote[q] = None
           /\ quote'[q].by = user /\ quote'[q].tariff \in tariffs /\ Safe(quote'[q].total)
           /\ QuotesStay
  <1>1. quote = [x \in QuoteIds |-> quote[x]] /\ quote[q] = None
    BY DEF IInv, RowsKnown, SaveQuote
  <1>2. PICK t \in tariffs : /\ CanPrice(req, t, DemandBPS(area))
                             /\ quote' = [quote EXCEPT ![q] = Priced(user, req, t, DemandBPS(area))]
    BY DEF SaveQuote, TariffsFor
  <1>. DEFINE r == Priced(user, req, t, DemandBPS(area))
  <1>3. r.by = user /\ r.tariff = t /\ r.total = Total(req, t, DemandBPS(area))
    BY DEF Priced
  <1>4. t \in tariffs /\ Safe(Total(req, t, DemandBPS(area)))
    BY <1>2 DEF CanPrice
  <1>. HIDE DEF r
  <1>5. quote' = [quote EXCEPT ![q] = r]
    BY <1>2 DEF r
  <1>6. quote'[q] = r /\ (\A x \in QuoteIds : x # q => quote'[x] = quote[x])
    BY <1>1, <1>5
  <1>7. quote' = [x \in QuoteIds |-> quote'[x]]
    BY <1>1, <1>5
  <1>8. QuotesStay
    BY <1>1, <1>6 DEF QuotesStay
  <1>. QED BY <1>1, <1>3, <1>4, <1>6, <1>7, <1>8

LEMMA QuoteKept ==
    ASSUME IInv, NEW q \in QuoteIds, NEW user \in Users \cup {None}, NEW req, NEW area,
           SaveQuote(q, user, req, area), pricing' \in {pricing, pricing \cup ({q} \cap Deliveries)},
           UNCHANGED <<tariffs, stale, jobs, lock, keyed, call, after, faults>>
    PROVE  IInv'
  <1>1. /\ quote' = [x \in QuoteIds |-> quote'[x]]
        /\ \A x \in QuoteIds : x # q => quote'[x] = quote[x]
        /\ quote[q] = None
        /\ quote'[q].by = user /\ quote'[q].tariff \in tariffs /\ Safe(quote'[q].total)
        /\ QuotesStay
    BY SavedQuote
  <1>2. Underway' /\ PricesAreOfQuotes' /\ KeysAreOfRides' /\ AnsweredRidesArePriced' /\ LatecomersStop'
    BY <1>1, AfterQuote DEF callVars
  <1>3. TypeOK'
    <2>1. \A x \in stale : quote'[x] # None
      BY <1>1 DEF IInv, TypeOK, QuoteIds
    <2>2. \A x \in QuoteIds : quote'[x] # None =>
              /\ quote'[x].by \in Users \cup {None} /\ quote'[x].tariff \in tariffs
              /\ Safe(quote'[x].total)
      BY <1>1 DEF IInv, TypeOK
    <2>. QED BY <2>1, <2>2 DEF IInv, TypeOK
  <1>4. RowsKnown'
    <2>1. \A d \in pricing' : Safe(quote'[d].total)
      BY <1>1 DEF IInv, RowsKnown, TypeOK, QuoteIds
    <2>. QED BY <1>1, <2>1 DEF IInv, RowsKnown
  <1>. QED BY <1>2, <1>3, <1>4 DEF IInv

LEMMA TariffsKept ==
    ASSUME IInv, NEW t \in Added, CreateTariff(t)
    PROVE  IInv'
  <1>1. /\ tariffs' = tariffs \cup {Stored(t)} /\ UNCHANGED <<quote, stale, lock, pricing, faults>>
        /\ UNCHANGED callVars
    BY DEF CreateTariff, callVars
  <1>2. Underway' /\ PricesAreOfQuotes' /\ KeysAreOfRides' /\ AnsweredRidesArePriced' /\ LatecomersStop'
    BY <1>1, AfterQuote DEF QuotesStay
  <1>3. TypeOK'
    BY <1>1 DEF IInv, TypeOK, callVars, Tariffs
  <1>4. RowsKnown'
    BY <1>1 DEF IInv, RowsKnown, callVars
  <1>. QED BY <1>2, <1>3, <1>4 DEF IInv

LEMMA ExpiryKept ==
    ASSUME IInv, NEW q \in Quotes, QuoteExpires(q)
    PROVE  IInv'
  <1>1. /\ stale' = stale \cup {q} /\ UNCHANGED <<quote, tariffs, lock, pricing, faults>>
        /\ UNCHANGED callVars /\ quote[q] # None
    BY DEF QuoteExpires, callVars
  <1>2. Underway' /\ PricesAreOfQuotes' /\ KeysAreOfRides' /\ AnsweredRidesArePriced' /\ LatecomersStop'
    BY <1>1, AfterQuote DEF QuotesStay
  <1>3. TypeOK'
    BY <1>1 DEF IInv, TypeOK, callVars
  <1>4. RowsKnown'
    BY <1>1 DEF IInv, RowsKnown, callVars
  <1>. QED BY <1>2, <1>3, <1>4 DEF IInv

\* A delivery's price is locked for the delivery alone.
LEMMA DeliveryLockKept ==
    ASSUME IInv, NEW d \in Deliveries, LockDelivery(d)
    PROVE  IInv'
  <1>1. /\ lock' \in {lock, Locked(d, d)} /\ pricing' = pricing \ {d}
        /\ faults' \in 0 .. MaxFaults /\ UNCHANGED <<quote, stale, tariffs>> /\ UNCHANGED callVars
        /\ d \in pricing
    <2>1. faults \in 0 .. MaxFaults /\ MaxFaults \in Nat
      BY BookingAssumption DEF IInv, TypeOK
    <2>. QED BY <2>1 DEF LockDelivery, callVars
  <1>. DEFINE r == [quote |-> d, total |-> quote[d].total]
  <1>2. r \in LockRows /\ Safe(r.total) /\ r.quote = d
    BY <1>1 DEF IInv, RowsKnown, LockRows, Safe
  <1>3. lock' = lock \/ lock' = [lock EXCEPT ![d] = r]
    BY <1>1 DEF Locked
  <1>. HIDE DEF r
  <1>4. \A c \in Calls : lock'[c] = lock[c]
    BY <1>3, RowsAreSomething DEF IInv, RowsKnown, JobIds
  <1>5. Underway' /\ PricesAreOfQuotes' /\ KeysAreOfRides' /\ AnsweredRidesArePriced' /\ LatecomersStop'
    BY <1>1, <1>4, AfterQuote DEF QuotesStay
  <1>6. \A j \in JobIds : lock'[j] = lock[j] \/ (j = d /\ lock'[j] = r)
    BY <1>3 DEF IInv, RowsKnown, JobIds
  <1>7. TypeOK'
    BY <1>1, <1>2, <1>6 DEF IInv, TypeOK, callVars, QuoteIds
  <1>8. RowsKnown'
    BY <1>1, <1>2, <1>3 DEF IInv, RowsKnown, callVars
  <1>. QED BY <1>5, <1>7, <1>8 DEF IInv

-----------------------------------------------------------------------------
(* A call *)

\* What holds of one call, and of one call and one answered before it began.
CallFine(c) ==
    LET s == call[c].step  ask == call[c].ask
    IN  /\ s # "idle" => ask \in Asks
        /\ s \in {"lookup", "record"} => ask.key # NoKey
        /\ s \in {"create", "lock", "record"} =>
              quote[ask.quote] # None /\ quote[ask.quote].by = ask.user
        /\ c \in jobs => s \in {"lock", "record", "done"}
        /\ lock[c] # None => s \in {"record", "done"}
        /\ s = "record" => lock[c] # None /\ lock[c].quote = ask.quote
        /\ call[c].answer # None => s = "done"
        /\ s \in {"lock", "record"} => c \in jobs

AnswerFine(c) ==
    call[c].answer # None =>
        /\ LET l == lock[call[c].answer]
           IN  /\ l # None
               /\ l.quote = call[c].ask.quote
               /\ l.total = quote[l.quote].total
               /\ quote[l.quote].by = call[c].ask.user
        /\ call[c].ask.key # NoKey => keyed[KeyOf(c)] # None

StopsFor(c, e) ==
    /\ e # c /\ call[e].answer # None /\ call[c].step # "idle"
    /\ SameKey(c, e) => call[c].step \in {"lookup", "done"}
    /\ SameKey(c, e) \/ call[c].ask.quote = call[e].ask.quote =>
          c \notin jobs /\ call[c].step \in {"lookup", "quote", "done"}

LEMMA OneByOne ==
    IInv <=> /\ TypeOK /\ RowsKnown /\ PricesAreOfQuotes
             /\ \A c \in Calls : CallFine(c) /\ AnswerFine(c) /\ \A e \in after[c] : StopsFor(c, e)
             /\ \A k \in Keys, u \in Users :
                   LET r == keyed[<<k, u>>]
                   IN  r # None => /\ lock[r.job] # None /\ lock[r.job].quote = r.print
                                   /\ quote[r.print].by = u
  BY DEF IInv, TypeOK, Underway, KeysAreOfRides, AnsweredRidesArePriced, LatecomersStop, CallFine,
     AnswerFine, StopsFor

\* A step of call c leaves quotes, prices and keys that are there, and the other
\* calls, as they are.
StepOf(c) ==
    /\ UNCHANGED <<tariffs, quote, stale, pricing>> /\ faults' \in 0 .. MaxFaults
    /\ call[c].answer = None
    /\ call' \in [Calls -> CallRows]
    /\ \A e \in Calls : e # c => call'[e] = call[e]
    /\ jobs' \in {jobs, jobs \cup {c}}
    /\ after' \in [Calls -> SUBSET Calls]
    /\ \A e \in Calls : e # c => after'[e] = after[e]
    /\ lock' \in [JobIds -> {None} \cup LockRows]
    /\ \A j \in JobIds : j # c \/ lock[c] # None => lock'[j] = lock[j]
    /\ keyed' \in [Keys \X Users -> {None} \cup KeyRows]
    /\ \A k \in Keys \X Users : keyed[k] # None => keyed'[k] = keyed[k]

LEMMA OthersStay ==
    ASSUME IInv, NEW c \in Calls, StepOf(c), NEW e \in Calls, e # c
    PROVE  CallFine(e)' /\ AnswerFine(e)' /\ \A x \in after'[e] : StopsFor(e, x)'
  <1>1. CallFine(e) /\ AnswerFine(e) /\ \A x \in after[e] : StopsFor(e, x)
    BY OneByOne
  <1>2. /\ call'[e] = call[e] /\ lock'[e] = lock[e] /\ after'[e] = after[e]
        /\ quote' = quote /\ (e \in jobs' <=> e \in jobs)
    BY DEF StepOf, JobIds
  <1>3. CallFine(e)'
    BY <1>1, <1>2 DEF CallFine
  <1>4. AnswerFine(e)'
    <2>1. CASE call[e].answer = None
      BY <1>2, <2>1 DEF AnswerFine
    <2>2. CASE call[e].answer # None
      <3>1. call[e].answer \in JobIds /\ lock[call[e].answer] # None
        BY <1>1, <2>2 DEF AnswerFine, IInv, TypeOK, JobIds
      <3>2. lock'[call[e].answer] = lock[call[e].answer]
        BY <3>1 DEF StepOf
      <3>3. call[e].ask.key # NoKey => KeyOf(e) \in Keys \X Users
        <4>1. call[e].ask \in Asks
          BY <1>1, <2>2 DEF CallFine
        <4>. QED BY <4>1, KeyType
      <3>4. call[e].ask.key # NoKey => keyed'[KeyOf(e)] # None
        BY <1>1, <2>2, <3>3 DEF AnswerFine, StepOf
      <3>5. KeyOf(e)' = KeyOf(e)
        BY <1>2 DEF KeyOf
      <3>. QED BY <1>1, <1>2, <2>2, <3>2, <3>4, <3>5 DEF AnswerFine
    <2>. QED BY <2>1, <2>2
  <1>5. ASSUME NEW x \in after[e]
        PROVE  StopsFor(e, x)'
    <2>1. StopsFor(e, x) /\ x \in Calls
      BY <1>1 DEF IInv, TypeOK
    <2>2. x # c /\ call'[x] = call[x]
      BY <2>1 DEF StopsFor, StepOf
    <2>. QED BY <1>2, <2>1, <2>2 DEF StopsFor, SameKey
  <1>. QED BY <1>2, <1>3, <1>4, <1>5

\* What is left to show of a step of a call.
LEMMA CallKept ==
    ASSUME IInv, NEW c \in Calls, StepOf(c), CallFine(c)', AnswerFine(c)',
           \A e \in after'[c] : StopsFor(c, e)',
           lock'[c] # None =>
               /\ lock'[c].quote \in QuoteIds /\ quote[lock'[c].quote] # None
               /\ lock'[c].total = quote[lock'[c].quote].total /\ c \in jobs',
           \A k \in Keys, u \in Users : keyed[<<k, u>>] = None /\ keyed'[<<k, u>>] # None =>
               LET r == keyed'[<<k, u>>]
               IN  r.job = c /\ lock'[c] # None /\ lock'[c].quote = r.print /\ quote[r.print].by = u
    PROVE  IInv'
  <1>1. \A e \in Calls : CallFine(e)' /\ AnswerFine(e)' /\ \A x \in after'[e] : StopsFor(e, x)'
    BY OthersStay
  <1>2. c \in JobIds /\ \A j \in JobIds : j # c => lock'[j] = lock[j]
    BY DEF JobIds, StepOf
  <1>3. TypeOK'
    <2>1. /\ tariffs' \subseteq Tariffs
          /\ stale' \subseteq Quotes /\ \A q \in stale' : quote'[q] # None
          /\ \A q \in QuoteIds : quote'[q] # None =>
                /\ quote'[q].by \in Users \cup {None} /\ quote'[q].tariff \in tariffs'
                /\ Safe(quote'[q].total)
          /\ pricing' \subseteq Deliveries
      BY DEF IInv, TypeOK, StepOf
    <2>2. jobs' \subseteq JobIds /\ Deliveries \subseteq jobs'
      BY DEF IInv, TypeOK, StepOf, JobIds
    <2>3. \A j \in JobIds : lock'[j] # None =>
              j \in jobs' /\ lock'[j].quote \in QuoteIds /\ Safe(lock'[j].total)
      <3>1. \A j \in JobIds : j # c /\ lock'[j] # None =>
                j \in jobs' /\ lock'[j].quote \in QuoteIds /\ Safe(lock'[j].total)
        BY <1>2 DEF IInv, TypeOK, StepOf
      <3>2. lock'[c] # None => c \in jobs' /\ lock'[c].quote \in QuoteIds /\ Safe(lock'[c].total)
        BY DEF IInv, TypeOK
      <3>. QED BY <3>1, <3>2
    <2>4. /\ keyed' \in [Keys \X Users -> {None} \cup KeyRows]
          /\ after' \in [Calls -> SUBSET Calls] /\ faults' \in 0 .. MaxFaults
          /\ \A e \in Calls : /\ call'[e].step \in Steps /\ call'[e].ask \in Asks \cup {NoAsk}
                              /\ call'[e].answer \in Calls \cup {None}
                              /\ call'[e].step \in {"lock", "record"} => e \in jobs'
      BY <1>1 DEF StepOf, CallRows, CallFine
    <2>. QED BY <2>1, <2>2, <2>3, <2>4 DEF TypeOK
  <1>4. RowsKnown'
    BY DEF IInv, RowsKnown, StepOf, CallRows
  <1>5. PricesAreOfQuotes'
    BY <1>2 DEF IInv, PricesAreOfQuotes, StepOf, JobIds
  <1>6. ASSUME NEW k \in Keys, NEW u \in Users, keyed'[<<k, u>>] # None
        PROVE  LET r == keyed'[<<k, u>>]
               IN  /\ lock'[r.job] # None /\ lock'[r.job].quote = r.print
                   /\ quote'[r.print].by = u
    <2>1. quote' = quote /\ <<k, u>> \in Keys \X Users
      BY DEF StepOf
    <2>2. CASE keyed[<<k, u>>] = None
      BY <1>6, <2>1, <2>2
    <2>3. CASE keyed[<<k, u>>] # None
      <3>. DEFINE r == keyed[<<k, u>>]
      <3>1. keyed'[<<k, u>>] = r
        BY <2>1, <2>3 DEF StepOf
      <3>2. r \in KeyRows
        BY <2>1, <2>3 DEF IInv, TypeOK
      <3>3. r.job \in JobIds
        BY <3>2 DEF KeyRows, JobIds
      <3>4. lock[r.job] # None /\ lock[r.job].quote = r.print /\ quote[r.print].by = u
        BY <2>3 DEF IInv, KeysAreOfRides
      <3>. HIDE DEF r
      <3>5. lock'[r.job] = lock[r.job]
        BY <3>3, <3>4 DEF StepOf
      <3>. QED BY <2>1, <3>1, <3>4, <3>5
    <2>. QED BY <2>2, <2>3
  <1>. QED BY <1>1, <1>3, <1>4, <1>5, <1>6 DEF IInv, Underway, KeysAreOfRides, AnsweredRidesArePriced,
       LatecomersStop, CallFine, AnswerFine, StopsFor

-----------------------------------------------------------------------------
(* The steps of a call *)

\* A call under way has no answer, and asks for a quote of a customer.
LEMMA NoAnswerYet ==
    ASSUME IInv, NEW c \in Calls, call[c].step \notin {"idle", "done"}
    PROVE  /\ call[c].answer = None
           /\ call[c].ask \in Asks /\ call[c].ask.quote \in Quotes
           /\ CallFine(c) /\ \A e \in after[c] : StopsFor(c, e) /\ e \in Calls /\ AnswerFine(e)
  <1>1. CallFine(c)
    BY OneByOne
  <1>2. \A e \in after[c] : e \in Calls
    BY DEF IInv, TypeOK
  <1>. QED BY <1>1, <1>2, OneByOne DEF CallFine, Asks

\* A step that goes on, or ends without an answer, and writes nothing else.
LEMMA OnlyCall ==
    ASSUME IInv, NEW c \in Calls, call[c].step \notin {"idle", "done"},
           UNCHANGED <<tariffs, quote, stale, jobs, lock, keyed, pricing, after>>,
           faults' \in 0 .. MaxFaults, call' \in [Calls -> CallRows],
           \A e \in Calls : e # c => call'[e] = call[e]
    PROVE  StepOf(c)
  <1>1. call[c].answer = None
    BY NoAnswerYet
  <1>. QED BY <1>1 DEF StepOf, IInv, TypeOK, RowsKnown

\* What was asked stays asked, so the same calls are latecomers.
LEMMA SameLatecomers ==
    ASSUME IInv, NEW c \in Calls, StepOf(c), call'[c].ask = call[c].ask, NEW e \in Calls
    PROVE  /\ SameKey(c, e)' = SameKey(c, e) /\ call'[e].ask = call[e].ask
           /\ e # c => call'[e].answer = call[e].answer
  BY DEF StepOf, SameKey

LEMMA FailsKept ==
    ASSUME IInv, NEW c \in Calls, Fails(c)
    PROVE  IInv'
  <1>1. /\ call[c].step \notin {"idle", "done"} /\ Answers(c, None)
        /\ UNCHANGED <<tariffs, quote, stale, jobs, lock, keyed, pricing, after>>
        /\ faults' \in 0 .. MaxFaults
    <2>1. faults \in 0 .. MaxFaults /\ MaxFaults \in Nat
      BY BookingAssumption DEF IInv, TypeOK
    <2>. QED BY <2>1 DEF Fails
  <1>2. /\ call' \in [Calls -> CallRows] /\ \A e \in Calls : e # c => call'[e] = call[e]
        /\ call'[c] = [step |-> "done", ask |-> call[c].ask, answer |-> None]
    BY <1>1, AnswersWith
  <1>3. StepOf(c)
    BY <1>1, <1>2, OnlyCall
  <1>4. /\ call[c].ask \in Asks /\ CallFine(c)
        /\ \A e \in after[c] : StopsFor(c, e) /\ e \in Calls
    BY <1>1, NoAnswerYet
  <1>5. CallFine(c)' /\ AnswerFine(c)'
    BY <1>1, <1>2, <1>4 DEF CallFine, AnswerFine
  <1>6. ASSUME NEW e \in after[c]
        PROVE  StopsFor(c, e)'
    <2>1. c \notin jobs \/ ~(SameKey(c, e) \/ call[c].ask.quote = call[e].ask.quote)
      BY <1>4 DEF StopsFor
    <2>2. /\ SameKey(c, e)' = SameKey(c, e) /\ call'[e].ask = call[e].ask
          /\ e # c /\ call'[e].answer = call[e].answer
      BY <1>2, <1>3, <1>4, SameLatecomers DEF StopsFor
    <2>. QED BY <1>1, <1>2, <1>4, <2>1, <2>2 DEF StopsFor
  <1>7. lock'[c] # None =>
            /\ lock'[c].quote \in QuoteIds /\ quote[lock'[c].quote] # None
            /\ lock'[c].total = quote[lock'[c].quote].total /\ c \in jobs'
    BY <1>1 DEF IInv, TypeOK, PricesAreOfQuotes, JobIds
  <1>. QED BY <1>1, <1>3, <1>5, <1>6, <1>7, CallKept

LEMMA LookupKept ==
    ASSUME IInv, NEW c \in Calls, Lookup(c)
    PROVE  IInv'
  <1>. DEFINE found == keyed[KeyOf(c)]
              j == IF found.print = call[c].ask.quote THEN found.job ELSE None
  <1>1. /\ call[c].step = "lookup" /\ faults' = faults
        /\ UNCHANGED <<tariffs, quote, stale, jobs, lock, keyed, pricing, after>>
        /\ \/ found = None /\ Goes(c, "quote")
           \/ found # None /\ Answers(c, j)
    BY DEF Lookup, Fingerprint
  <1>2. /\ call[c].ask \in Asks /\ call[c].answer = None /\ CallFine(c)
        /\ \A e \in after[c] : StopsFor(c, e) /\ e \in Calls /\ AnswerFine(e)
    BY <1>1, NoAnswerYet
  <1>3. /\ KeyOf(c) \in Keys \X Users /\ c \notin jobs /\ call[c].ask.key # NoKey
        /\ KeyOf(c) = <<call[c].ask.key, call[c].ask.user>>
        /\ call[c].ask.key \in Keys /\ call[c].ask.user \in Users
    <2>1. call[c].ask.key # NoKey /\ c \notin jobs
      BY <1>1, <1>2 DEF CallFine
    <2>. QED BY <1>2, <2>1, KeyType DEF KeyOf, Asks
  <1>4. found # None =>
            /\ found.job \in Calls /\ lock[found.job] # None /\ lock[found.job].quote = found.print
            /\ quote[found.print].by = call[c].ask.user
            /\ lock[found.job].total = quote[found.print].total
    <2>1. ASSUME found # None PROVE found \in KeyRows
      BY <1>3, <2>1 DEF IInv, TypeOK
    <2>2. ASSUME found # None
          PROVE  lock[found.job] # None /\ lock[found.job].quote = found.print
                 /\ quote[found.print].by = call[c].ask.user
      BY <1>3, <2>2 DEF IInv, KeysAreOfRides
    <2>. QED BY <2>1, <2>2 DEF IInv, PricesAreOfQuotes, KeyRows
  <1>5. lock'[c] # None =>
            /\ lock'[c].quote \in QuoteIds /\ quote[lock'[c].quote] # None
            /\ lock'[c].total = quote[lock'[c].quote].total /\ c \in jobs'
    BY <1>1 DEF IInv, TypeOK, PricesAreOfQuotes, JobIds
  <1>. HIDE DEF found
  <1>6. CASE found = None /\ Goes(c, "quote")
    <2>1. /\ call' \in [Calls -> CallRows] /\ \A e \in Calls : e # c => call'[e] = call[e]
          /\ call'[c] = [step |-> "quote", ask |-> call[c].ask, answer |-> None]
      BY <1>2, <1>6, GoesTo DEF Steps
    <2>2. StepOf(c)
      BY <1>1, <2>1, OnlyCall DEF IInv, TypeOK
    <2>3. CallFine(c)' /\ AnswerFine(c)'
      BY <1>1, <1>2, <1>3, <2>1 DEF CallFine, AnswerFine
    <2>4. ASSUME NEW e \in after[c]
          PROVE  StopsFor(c, e)'
      <3>1. /\ SameKey(c, e)' = SameKey(c, e) /\ call'[e].ask = call[e].ask
            /\ e # c /\ call'[e].answer = call[e].answer
        BY <1>2, <2>1, <2>2, SameLatecomers DEF StopsFor
      <3>2. ~SameKey(c, e)
        <4>1. SameKey(c, e) => KeyOf(e) = KeyOf(c) /\ call[e].ask.key # NoKey
          BY DEF SameKey, KeyOf
        <4>2. SameKey(c, e) => keyed[KeyOf(e)] # None
          BY <1>2, <4>1 DEF StopsFor, AnswerFine
        <4>. QED BY <1>6, <4>1, <4>2 DEF found
      <3>. QED BY <1>1, <1>2, <1>3, <2>1, <3>1, <3>2 DEF StopsFor
    <2>. QED BY <1>1, <1>5, <2>2, <2>3, <2>4, CallKept
  <1>7. CASE found # None /\ Answers(c, j)
    <2>0. j \in Calls \cup {None}
      BY <1>4, <1>7
    <2>1. /\ call' \in [Calls -> CallRows] /\ \A e \in Calls : e # c => call'[e] = call[e]
          /\ call'[c] = [step |-> "done", ask |-> call[c].ask, answer |-> j]
      <3>. HIDE DEF j
      <3>. QED BY <1>7, <2>0, AnswersWith
    <2>2. StepOf(c)
      BY <1>1, <2>1, OnlyCall DEF IInv, TypeOK
    <2>3. CallFine(c)'
      BY <1>1, <1>2, <1>3, <2>1 DEF CallFine
    <2>4. AnswerFine(c)'
      <3>1. call'[c].answer = j /\ call'[c].ask = call[c].ask /\ KeyOf(c)' = KeyOf(c)
        BY <2>1 DEF KeyOf
      <3>. QED BY <1>1, <1>4, <1>7, <3>1 DEF AnswerFine, found
    <2>5. ASSUME NEW e \in after[c]
          PROVE  StopsFor(c, e)'
      <3>1. /\ SameKey(c, e)' = SameKey(c, e) /\ call'[e].ask = call[e].ask
            /\ e # c /\ call'[e].answer = call[e].answer
        BY <1>2, <2>1, <2>2, SameLatecomers DEF StopsFor
      <3>. QED BY <1>1, <1>2, <1>3, <2>1, <3>1 DEF StopsFor
    <2>. QED BY <1>1, <1>5, <2>2, <2>3, <2>4, <2>5, CallKept
  <1>. QED BY <1>1, <1>6, <1>7

\* A latecomer that reads the quote finds it used.
LEMMA ReadQuoteKept ==
    ASSUME IInv, NEW c \in Calls, ReadQuote(c)
    PROVE  IInv'
  <1>. DEFINE q == call[c].ask.quote
  <1>1. /\ call[c].step = "quote" /\ faults' = faults
        /\ UNCHANGED <<tariffs, quote, stale, jobs, lock, keyed, pricing, after>>
        /\ \/ quote[q] # None /\ quote[q].by = call[c].ask.user /\ ~Used(q) /\ Goes(c, "create")
           \/ Answers(c, None)
    BY DEF ReadQuote
  <1>2. /\ call[c].ask \in Asks /\ call[c].answer = None /\ CallFine(c)
        /\ \A e \in after[c] : StopsFor(c, e) /\ e \in Calls /\ AnswerFine(e)
    BY <1>1, NoAnswerYet
  <1>3. lock'[c] # None =>
            /\ lock'[c].quote \in QuoteIds /\ quote[lock'[c].quote] # None
            /\ lock'[c].total = quote[lock'[c].quote].total /\ c \in jobs'
    BY <1>1 DEF IInv, TypeOK, PricesAreOfQuotes, JobIds
  <1>. HIDE DEF q
  <1>4. CASE quote[q] # None /\ quote[q].by = call[c].ask.user /\ ~Used(q) /\ Goes(c, "create")
    <2>1. /\ call' \in [Calls -> CallRows] /\ \A e \in Calls : e # c => call'[e] = call[e]
          /\ call'[c] = [step |-> "create", ask |-> call[c].ask, answer |-> None]
      BY <1>2, <1>4, GoesTo DEF Steps
    <2>2. StepOf(c)
      BY <1>1, <2>1, OnlyCall DEF IInv, TypeOK
    <2>3. CallFine(c)' /\ AnswerFine(c)'
      BY <1>1, <1>2, <1>4, <2>1 DEF CallFine, AnswerFine, q
    <2>4. ASSUME NEW e \in after[c]
          PROVE  StopsFor(c, e)'
      <3>1. /\ SameKey(c, e)' = SameKey(c, e) /\ call'[e].ask = call[e].ask
            /\ e # c /\ call'[e].answer = call[e].answer
        BY <1>2, <2>1, <2>2, SameLatecomers DEF StopsFor
      <3>2. ~SameKey(c, e)
        BY <1>1, <1>2 DEF StopsFor
      <3>3. call[c].ask.quote # call[e].ask.quote
        <4>1. /\ lock[call[e].answer] # None /\ lock[call[e].answer].quote = call[e].ask.quote
              /\ call[e].answer \in JobIds
          BY <1>2 DEF StopsFor, AnswerFine, IInv, TypeOK, JobIds
        <4>. QED BY <1>4, <4>1 DEF Used, q
      <3>. QED BY <1>2, <2>1, <3>1, <3>2, <3>3 DEF StopsFor
    <2>. QED BY <1>1, <1>3, <2>2, <2>3, <2>4, CallKept
  <1>5. CASE Answers(c, None)
    <2>1. /\ call' \in [Calls -> CallRows] /\ \A e \in Calls : e # c => call'[e] = call[e]
          /\ call'[c] = [step |-> "done", ask |-> call[c].ask, answer |-> None]
      BY <1>5, AnswersWith
    <2>2. StepOf(c)
      BY <1>1, <2>1, OnlyCall DEF IInv, TypeOK
    <2>3. CallFine(c)' /\ AnswerFine(c)'
      BY <1>1, <1>2, <2>1 DEF CallFine, AnswerFine
    <2>4. ASSUME NEW e \in after[c]
          PROVE  StopsFor(c, e)'
      <3>1. /\ SameKey(c, e)' = SameKey(c, e) /\ call'[e].ask = call[e].ask
            /\ e # c /\ call'[e].answer = call[e].answer
        BY <1>2, <2>1, <2>2, SameLatecomers DEF StopsFor
      <3>. QED BY <1>1, <1>2, <2>1, <3>1 DEF StopsFor
    <2>. QED BY <1>1, <1>3, <2>2, <2>3, <2>4, CallKept
  <1>. QED BY <1>1, <1>4, <1>5

\* Only a call that is nobody's latecomer creates a job.
LEMMA NoLatecomer ==
    ASSUME IInv, NEW c \in Calls, call[c].step \in {"create", "lock", "record"}, NEW e \in after[c]
    PROVE  ~SameKey(c, e) /\ call[c].ask.quote # call[e].ask.quote /\ e # c /\ e \in Calls
           /\ call[e].answer # None
  BY NoAnswerYet DEF StopsFor

LEMMA StillNoLatecomer ==
    ASSUME IInv, NEW c \in Calls, StepOf(c), call[c].step \in {"create", "lock", "record"},
           call'[c].ask = call[c].ask, call'[c].step # "idle", after' = after
    PROVE  \A e \in after'[c] : StopsFor(c, e)'
  <1>1. ASSUME NEW e \in after[c]
        PROVE  StopsFor(c, e)'
    <2>1. ~SameKey(c, e) /\ call[c].ask.quote # call[e].ask.quote /\ e # c /\ e \in Calls
          /\ call[e].answer # None
      BY NoLatecomer
    <2>2. /\ SameKey(c, e)' = SameKey(c, e) /\ call'[e].ask = call[e].ask
          /\ call'[e].answer = call[e].answer
      BY <2>1, SameLatecomers
    <2>. QED BY <2>1, <2>2 DEF StopsFor
  <1>. QED BY <1>1

LEMMA CreateKept ==
    ASSUME IInv, NEW c \in Calls, CreateJob(c)
    PROVE  IInv'
  <1>1. /\ call[c].step = "create" /\ faults' = faults /\ jobs' = jobs \cup {c} /\ Goes(c, "lock")
        /\ UNCHANGED <<tariffs, quote, stale, lock, keyed, pricing, after>>
    BY DEF CreateJob
  <1>2. call[c].ask \in Asks /\ call[c].answer = None /\ CallFine(c)
    BY <1>1, NoAnswerYet
  <1>3. /\ call' \in [Calls -> CallRows] /\ \A e \in Calls : e # c => call'[e] = call[e]
        /\ call'[c] = [step |-> "lock", ask |-> call[c].ask, answer |-> None]
    BY <1>1, <1>2, GoesTo DEF Steps
  <1>4. StepOf(c)
    BY <1>1, <1>2, <1>3 DEF StepOf, IInv, TypeOK, RowsKnown
  <1>5. CallFine(c)' /\ AnswerFine(c)'
    BY <1>1, <1>2, <1>3 DEF CallFine, AnswerFine
  <1>6. \A e \in after'[c] : StopsFor(c, e)'
    BY <1>1, <1>3, <1>4, StillNoLatecomer
  <1>7. lock'[c] = None
    BY <1>1, <1>2 DEF CallFine
  <1>. QED BY <1>1, <1>4, <1>5, <1>6, <1>7, CallKept

LEMMA LockKept ==
    ASSUME IInv, NEW c \in Calls, LockPrice(c)
    PROVE  IInv'
  <1>. DEFINE q == call[c].ask.quote
              r == [quote |-> q, total |-> quote[q].total]
  <1>1. /\ call[c].step = "lock" /\ faults' = faults /\ lock' = [lock EXCEPT ![c] = r]
        /\ UNCHANGED <<tariffs, quote, stale, jobs, keyed, pricing, after>>
        /\ \/ call[c].ask.key = NoKey /\ Answers(c, c)
           \/ call[c].ask.key # NoKey /\ Goes(c, "record")
    BY DEF LockPrice, Locked
  <1>2. /\ call[c].ask \in Asks /\ call[c].answer = None /\ CallFine(c) /\ q \in Quotes
        /\ quote[q] # None /\ quote[q].by = call[c].ask.user /\ c \in jobs /\ lock[c] = None
    BY <1>1, NoAnswerYet DEF CallFine
  <1>3. /\ r \in LockRows /\ r # None /\ r.quote = q /\ r.total = quote[q].total /\ q \in QuoteIds
    BY <1>2, RowsAreSomething DEF IInv, TypeOK, LockRows, QuoteIds, Safe
  <1>. HIDE DEF q, r
  <1>4. /\ lock' \in [JobIds -> {None} \cup LockRows] /\ lock'[c] = r
        /\ \A j \in JobIds : j # c => lock'[j] = lock[j]
    BY <1>1, <1>3 DEF IInv, RowsKnown, JobIds
  <1>5. /\ call' \in [Calls -> CallRows] /\ \A e \in Calls : e # c => call'[e] = call[e]
        /\ call'[c].ask = call[c].ask
        /\ \/ call[c].ask.key = NoKey /\ call'[c].step = "done" /\ call'[c].answer = c
           \/ call[c].ask.key # NoKey /\ call'[c].step = "record" /\ call'[c].answer = None
    <2>1. CASE call[c].ask.key = NoKey /\ Answers(c, c)
      <3>1. /\ call' \in [Calls -> CallRows] /\ \A e \in Calls : e # c => call'[e] = call[e]
            /\ call'[c] = [step |-> "done", ask |-> call[c].ask, answer |-> c]
        BY <2>1, AnswersWith
      <3>. QED BY <2>1, <3>1
    <2>2. CASE call[c].ask.key # NoKey /\ Goes(c, "record")
      <3>1. /\ call' \in [Calls -> CallRows] /\ \A e \in Calls : e # c => call'[e] = call[e]
            /\ call'[c] = [step |-> "record", ask |-> call[c].ask, answer |-> None]
        BY <1>2, <2>2, GoesTo DEF Steps
      <3>. QED BY <2>2, <3>1
    <2>. QED BY <1>1, <2>1, <2>2
  <1>6. StepOf(c)
    BY <1>1, <1>2, <1>4, <1>5 DEF StepOf, IInv, TypeOK, RowsKnown
  <1>7. CallFine(c)'
    BY <1>1, <1>2, <1>3, <1>4, <1>5 DEF CallFine, q
  <1>8. AnswerFine(c)'
    BY <1>1, <1>2, <1>3, <1>4, <1>5 DEF AnswerFine, q
  <1>9. \A e \in after'[c] : StopsFor(c, e)'
    BY <1>1, <1>5, <1>6, StillNoLatecomer
  <1>. QED BY <1>1, <1>2, <1>3, <1>4, <1>6, <1>7, <1>8, <1>9, CallKept

LEMMA RecordKept ==
    ASSUME IInv, NEW c \in Calls, RecordIdempotent(c)
    PROVE  IInv'
  <1>. DEFINE k == KeyOf(c)
              r == [job |-> c, print |-> call[c].ask.quote]
  <1>1. /\ call[c].step = "record" /\ faults' = faults /\ Answers(c, c)
        /\ keyed' = [keyed EXCEPT ![k] = IF keyed[k] = None THEN r ELSE keyed[k]]
        /\ UNCHANGED <<tariffs, quote, stale, jobs, lock, pricing, after>>
    BY DEF RecordIdempotent, Fingerprint
  <1>2. /\ call[c].ask \in Asks /\ call[c].answer = None /\ CallFine(c) /\ call[c].ask.quote \in Quotes
        /\ call[c].ask.key # NoKey
        /\ lock[c] # None /\ lock[c].quote = call[c].ask.quote
        /\ quote[call[c].ask.quote] # None /\ quote[call[c].ask.quote].by = call[c].ask.user
    BY <1>1, NoAnswerYet DEF CallFine
  <1>3. k \in Keys \X Users /\ k = <<call[c].ask.key, call[c].ask.user>>
        /\ call[c].ask.key \in Keys /\ call[c].ask.user \in Users
    BY <1>2, KeyType DEF KeyOf, Asks
  <1>4. r \in KeyRows /\ r # None /\ r.job = c /\ r.print = call[c].ask.quote
    BY <1>2, RowsAreSomething DEF KeyRows
  <1>. HIDE DEF r
  <1>5. /\ keyed' \in [Keys \X Users -> {None} \cup KeyRows] /\ keyed'[k] # None
        /\ \A x \in Keys \X Users : keyed[x] # None => keyed'[x] = keyed[x]
        /\ \A x \in Keys \X Users : keyed[x] = None /\ keyed'[x] # None => x = k /\ keyed'[x] = r
    <2>1. keyed \in [Keys \X Users -> {None} \cup KeyRows]
      BY DEF IInv, TypeOK
    <2>. HIDE DEF k
    <2>. QED BY <1>1, <1>3, <1>4, <2>1
  <1>6. /\ call' \in [Calls -> CallRows] /\ \A e \in Calls : e # c => call'[e] = call[e]
        /\ call'[c] = [step |-> "done", ask |-> call[c].ask, answer |-> c]
    BY <1>1, AnswersWith
  <1>7. StepOf(c)
    BY <1>1, <1>2, <1>5, <1>6 DEF StepOf, IInv, TypeOK, RowsKnown
  <1>8. lock[c].total = quote[lock[c].quote].total /\ c \in jobs /\ c \in JobIds
    BY <1>2 DEF IInv, PricesAreOfQuotes, TypeOK, JobIds
  <1>9. CallFine(c)'
    BY <1>1, <1>2, <1>6 DEF CallFine
  <1>10. AnswerFine(c)'
    <2>1. KeyOf(c)' = k
      BY <1>6 DEF KeyOf
    <2>. HIDE DEF k
    <2>. QED BY <1>1, <1>2, <1>5, <1>6, <1>8, <2>1 DEF AnswerFine
  <1>11. \A e \in after'[c] : StopsFor(c, e)'
    BY <1>1, <1>6, <1>7, StillNoLatecomer
  <1>12. ASSUME NEW n \in Keys, NEW u \in Users, keyed[<<n, u>>] = None, keyed'[<<n, u>>] # None
         PROVE  LET x == keyed'[<<n, u>>]
                IN  x.job = c /\ lock'[c] # None /\ lock'[c].quote = x.print /\ quote[x.print].by = u
    <2>1. <<n, u>> = k /\ keyed'[<<n, u>>] = r
      BY <1>5, <1>12
    <2>2. u = call[c].ask.user
      BY <1>3, <2>1
    <2>. QED BY <1>1, <1>2, <1>4, <2>1, <2>2
  <1>13. lock'[c].quote \in QuoteIds
    BY <1>1, <1>2 DEF QuoteIds
  <1>. QED BY <1>1, <1>2, <1>7, <1>8, <1>9, <1>10, <1>11, <1>12, <1>13, CallKept

LEMMA BeginKept ==
    ASSUME IInv, NEW c \in Calls, NEW ask \in Asks, NEW m, Begin(c, ask, m)
    PROVE  IInv'
  <1>. DEFINE s == IF ~Offered(m) THEN "done" ELSE IF ask.key = NoKey THEN "quote" ELSE "lookup"
              r == [step |-> s, ask |-> ask, answer |-> None]
              told == {e \in Calls : call[e].answer # None}
  <1>1. /\ call[c].step = "idle" /\ faults' = faults /\ call' = [call EXCEPT ![c] = r]
        /\ after' = [after EXCEPT ![c] = told]
        /\ UNCHANGED <<tariffs, quote, stale, jobs, lock, keyed, pricing>>
    BY DEF Begin
  <1>2. CallFine(c) /\ call[c].answer = None /\ c \notin jobs /\ lock[c] = None
    <2>1. CallFine(c)
      BY OneByOne
    <2>. QED BY <1>1, <2>1 DEF CallFine
  <1>3. s \in {"done", "quote", "lookup"} /\ (s = "lookup" => ask.key # NoKey)
        /\ (s = "quote" => ask.key = NoKey)
    OBVIOUS
  <1>4. r \in CallRows
    BY DEF CallRows, Steps
  <1>. HIDE DEF s
  <1>5. /\ call' \in [Calls -> CallRows] /\ \A e \in Calls : e # c => call'[e] = call[e]
        /\ call'[c].step = s /\ call'[c].ask = ask /\ call'[c].answer = None
    <2>. HIDE DEF r
    <2>1. /\ call' \in [Calls -> CallRows] /\ call'[c] = r /\ \A e \in Calls : e # c => call'[e] = call[e]
      BY <1>1, <1>4, OneCall
    <2>. QED BY <2>1 DEF r
  <1>6. after' \in [Calls -> SUBSET Calls] /\ after'[c] = told /\ \A e \in Calls : e # c => after'[e] = after[e]
    BY <1>1 DEF IInv, TypeOK
  <1>7. StepOf(c)
    BY <1>1, <1>2, <1>5, <1>6 DEF StepOf, IInv, TypeOK, RowsKnown
  <1>8. CallFine(c)' /\ AnswerFine(c)'
    BY <1>1, <1>2, <1>3, <1>5 DEF CallFine, AnswerFine
  <1>9. ASSUME NEW e \in after'[c]
        PROVE  StopsFor(c, e)'
    <2>1. e \in Calls /\ call[e].answer # None /\ e # c /\ call'[e] = call[e]
      BY <1>2, <1>5, <1>6, <1>9
    <2>2. SameKey(c, e)' => s # "quote"
      BY <1>3, <1>5 DEF SameKey
    <2>. QED BY <1>1, <1>2, <1>3, <1>5, <2>1, <2>2 DEF StopsFor
  <1>. QED BY <1>1, <1>2, <1>7, <1>8, <1>9, CallKept

-----------------------------------------------------------------------------
(* Theorems *)

LEMMA InitIInv == Init => IInv
  <1>. SUFFICES ASSUME Init PROVE IInv
    OBVIOUS
  <1>1. /\ \A q \in QuoteIds : quote[q] = None
        /\ \A j \in JobIds : lock[j] = None
        /\ \A k \in Keys \X Users : keyed[k] = None
        /\ \A c \in Calls : /\ call[c].step = "idle" /\ call[c].ask = NoAsk /\ call[c].answer = None
                            /\ after[c] = {} /\ c \notin jobs /\ lock[c] = None
    BY RowsAreSomething DEF Init, JobIds
  <1>2. TypeOK
    <2>1. 0 \in 0 .. MaxFaults
      BY BookingAssumption
    <2>2. keyed \in [Keys \X Users -> {None} \cup KeyRows] /\ after \in [Calls -> SUBSET Calls]
      BY DEF Init
    <2>3. \A c \in Calls : call[c].step \in Steps
      BY <1>1 DEF Steps
    <2>. QED BY <1>1, <2>1, <2>2, <2>3 DEF Init, TypeOK, JobIds, Tariffs
  <1>3. RowsKnown
    BY DEF Init, RowsKnown, Steps
  <1>4. PricesAreOfQuotes
    BY <1>1 DEF PricesAreOfQuotes
  <1>5. \A c \in Calls : CallFine(c) /\ AnswerFine(c) /\ \A e \in after[c] : StopsFor(c, e)
    BY <1>1 DEF CallFine, AnswerFine
  <1>6. \A k \in Keys, u \in Users : keyed[<<k, u>>] = None
    BY <1>1
  <1>. QED BY <1>2, <1>3, <1>4, <1>5, <1>6, OneByOne

LEMMA Inductive == Spec => []IInv
  <1>1. ASSUME IInv, [Next]_vars
        PROVE  IInv'
    <2>1. CASE UNCHANGED vars
      <3>1. Underway' /\ PricesAreOfQuotes' /\ KeysAreOfRides' /\ AnsweredRidesArePriced' /\ LatecomersStop'
        BY <1>1, <2>1, AfterQuote DEF vars, callVars, QuotesStay
      <3>2. TypeOK' /\ RowsKnown'
        BY <1>1, <2>1 DEF vars, IInv, TypeOK, RowsKnown
      <3>. QED BY <3>1, <3>2 DEF IInv
    <2>2. ASSUME NEW q \in Quotes, NEW u \in Users, NEW req, NEW area, Quote(q, u, req, area)
          PROVE  IInv'
      BY <1>1, <2>2, QuoteKept DEF Quote, QuoteIds
    <2>3. ASSUME NEW d \in Deliveries, NEW area, PriceDelivery(d, area)
          PROVE  IInv'
      <3>1. {d} \cap Deliveries = {d} /\ d \in QuoteIds
        BY DEF QuoteIds
      <3>. QED BY <1>1, <2>3, <3>1, QuoteKept DEF PriceDelivery
    <2>4. ASSUME NEW c \in Calls,
                 \/ Lookup(c) \/ ReadQuote(c) \/ CreateJob(c) \/ LockPrice(c)
                 \/ RecordIdempotent(c) \/ Fails(c)
          PROVE  IInv'
      BY <1>1, <2>4, LookupKept, ReadQuoteKept, CreateKept, LockKept, RecordKept, FailsKept
    <2>. QED BY <1>1, <2>1, <2>2, <2>3, <2>4, ExpiryKept, TariffsKept, DeliveryLockKept, BeginKept
             DEF Next
  <1>. QED BY InitIInv, <1>1, PTL DEF Spec

\* Quotes, price locks, keys and calls stay what the code declares them to be:
\* every quote names a tariff there is, every price locked is of a job there is.
THEOREM TypeCorrect == Spec => []TypeOK
  <1>1. IInv => TypeOK
    BY DEF IInv
  <1>. QED BY <1>1, Inductive, PTL

\* An answer is a ride with a locked price, on the quote and of the customer who
\* asked (Create, LookupIdempotent, LockPrice), whatever overlaps or fails.
THEOREM AnswersArePriced == Spec => []AnsweredRidesArePriced
  <1>1. IInv => AnsweredRidesArePriced
    BY DEF IInv
  <1>. QED BY <1>1, Inductive, PTL

\* Calling again after an answer books nothing more (LookupIdempotent,
\* QuoteByID), with the key or on the quote of that answer.
THEOREM NothingIsBookedAgain == Spec => []RetriesBookNothing
  <1>1. IInv => RetriesBookNothing
    BY DEF IInv, LatecomersStop, SameKey, RetriesBookNothing
  <1>. QED BY <1>1, Inductive, PTL

-----------------------------------------------------------------------------
(* What a customer is shown *)

AddsUp(r) ==
    /\ Sum(r.lines) = r.total
    /\ r.total >= r.tariff.minimum
    /\ 2 * r.lines["demand"] <= r.total

LEMMA SavedQuoteAddsUp ==
    ASSUME IInv, FaresAddUp, NEW q \in QuoteIds, NEW user, NEW req, Priceable(req),
           NEW area \in Areas, SaveQuote(q, user, req, area)
    PROVE  FaresAddUp'
  <1>1. /\ \A x \in QuoteIds : x # q => quote'[x] = quote[x]
        /\ quote = [x \in QuoteIds |-> quote[x]]
    BY SavedQuote DEF IInv, RowsKnown
  <1>2. PICK t \in tariffs : /\ CanPrice(req, t, DemandBPS(area))
                             /\ quote' = [quote EXCEPT ![q] = Priced(user, req, t, DemandBPS(area))]
    BY DEF SaveQuote, TariffsFor
  <1>. DEFINE r == Priced(user, req, t, DemandBPS(area))
  <1>3. r.tariff = t /\ r.total = Total(req, t, DemandBPS(area)) /\ r.lines = Breakdown(req, t, DemandBPS(area))
    BY DEF Priced
  <1>4. t \in Tariffs
    BY DEF IInv, TypeOK
  <1>5. AddsUp(r)
    <2>1. /\ Sum(Breakdown(req, t, DemandBPS(area))) = Total(req, t, DemandBPS(area))
          /\ Total(req, t, DemandBPS(area)) >= t.minimum
          /\ 2 * Breakdown(req, t, DemandBPS(area))["demand"] <= Total(req, t, DemandBPS(area))
      BY <1>2, <1>4, PricedAddsUp
    <2>. HIDE DEF r
    <2>. QED BY <1>3, <2>1 DEF AddsUp
  <1>. HIDE DEF r
  <1>6. quote'[q] = r
    BY <1>1, <1>2 DEF r
  <1>7. \A x \in QuoteIds : quote'[x] # None => AddsUp(quote'[x])
    BY <1>1, <1>5, <1>6 DEF FaresAddUp, AddsUp
  <1>. QED BY <1>7 DEF FaresAddUp, AddsUp

\* A quote's lines sum to its total, which neither falls below the tariff's
\* minimum nor is more than half demand (Engine.Quote): for every tariff the
\* schema lets in, every trip and every crowd at the pickup.
THEOREM QuotesAddUp == Spec => []FaresAddUp
  <1>1. Init => FaresAddUp
    BY DEF Init, FaresAddUp
  <1>2. ASSUME IInv, FaresAddUp, [Next]_vars
        PROVE  FaresAddUp'
    <2>1. CASE quote' = quote
      BY <1>2, <2>1 DEF FaresAddUp
    <2>2. ASSUME NEW q \in Quotes, NEW u \in Users, NEW req \in Trips, NEW area \in Areas,
                 Quote(q, u, req, area)
          PROVE  FaresAddUp'
      <3>1. Priceable(req)
        BY TripsAssumption DEF Priceable
      <3>. QED BY <1>2, <2>2, <3>1, SavedQuoteAddsUp DEF Quote, QuoteIds
    <2>3. ASSUME NEW d \in Deliveries, NEW area \in Areas, PriceDelivery(d, area)
          PROVE  FaresAddUp'
      <3>1. Priceable(DeliveryTrip)
        BY DEF Priceable, DeliveryTrip
      <3>. QED BY <1>2, <2>3, <3>1, SavedQuoteAddsUp DEF PriceDelivery, QuoteIds
    <2>4. quote' = quote \/ (\E q \in Quotes, u \in Users, req \in Trips, area \in Areas : Quote(q, u, req, area))
                         \/ (\E d \in Deliveries, area \in Areas : PriceDelivery(d, area))
      BY <1>2 DEF Next, vars, QuoteExpires, CreateTariff, LockDelivery, Begin, Lookup, ReadQuote,
                  CreateJob, LockPrice, RecordIdempotent, Fails
    <2>. QED BY <2>1, <2>2, <2>3, <2>4
  <1>. QED BY <1>1, <1>2, Inductive, PTL DEF Spec

=============================================================================
