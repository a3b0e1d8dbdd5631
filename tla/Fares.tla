-------------------------------- MODULE Fares --------------------------------
(***************************************************************************)
(* How a fare is computed (internal/pricing, pkg/money) and which tariff    *)
(* it is computed from (internal/booking).  Amounts are whole minor units,  *)
(* rates are rationals of whole numbers, and a rate is rounded once.        *)
(***************************************************************************)
EXTENDS Integers, FiniteSets, FiniteSetsExt

CONSTANTS MaxSafe,   \* money.MaxSafeMinor
          MaxBPS,    \* surge.max_bps
          MinSupply  \* surge.min_supply

NeutralBPS     == 10000
AbsoluteMaxBPS == 15000

ASSUME FaresAssumption ==
    /\ MaxSafe \in Nat \ {0}
    /\ MaxBPS \in Nat /\ MaxBPS >= NeutralBPS
    /\ MinSupply \in Nat

-----------------------------------------------------------------------------
(* Money *)

Safe(a) == a \in -MaxSafe .. MaxSafe

Magnitude(a) == IF a < 0 THEN -a ELSE a

\* Half away from zero.
DivRound(n, d) ==
    LET q == Magnitude(n) \div d
        up == IF 2 * (Magnitude(n) % d) >= d THEN 1 ELSE 0
    IN  IF n < 0 THEN -(q + up) ELSE q + up

ApplyRate(a, num, den) == DivRound(a * num, den)

-----------------------------------------------------------------------------
(* Demand *)

Clamp(bps) == IF bps > AbsoluteMaxBPS THEN AbsoluteMaxBPS ELSE bps

\* DemandPolicy.MultiplierBPS: requests waiting for each driver available.
MultiplierBPS(waiting, available) ==
    IF available < MinSupply \/ available <= 0 \/ waiting <= available
    THEN NeutralBPS
    ELSE Min({(waiting * NeutralBPS) \div available, Clamp(MaxBPS)})

\* The drivers Store.Supply counts are AVAILABLE and 'VERIFIED'; a driver's
\* verification is APPROVED when it is done, and no status is VERIFIED.
Counted(drivers) == {d \in drivers : d.status = "AVAILABLE" /\ d.verification = "VERIFIED"}

\* Jobs that are SEARCHING around the pickup, and drivers there.
Supply(area) == [waiting |-> area.waiting, available |-> Cardinality(Counted(area.drivers))]

DemandBPS(area) == MultiplierBPS(Supply(area).waiting, Supply(area).available)

-----------------------------------------------------------------------------
(* The zone and the tariff: most specific first *)

\* FindContaining: of the active zones around the pickup, the smallest, and the
\* newest of those; a point outside all has none.
NoZone == ""
ZoneOf(zones) ==
    LET active == {z \in zones : z.active}
        first(z) == \A y \in active : \/ z.radius < y.radius
                                      \/ z.radius = y.radius /\ z.born >= y.born
    IN  IF active = {} THEN NoZone ELSE (CHOOSE z \in active : first(z)).id

\* A NULL column.
AnyOf == "any"

Applies(t, req, zone) ==
    /\ t.type = req.type
    /\ t.vehicle \in {req.vehicle, AnyOf}
    /\ t.city \in {req.city, AnyOf}
    /\ t.zone \in {zone, AnyOf}

\* ORDER BY zone, vehicle, city, version.
Bit(b) == IF b THEN 1 ELSE 0
Specificity(t) == 4 * Bit(t.zone # AnyOf) + 2 * Bit(t.vehicle # AnyOf) + Bit(t.city # AnyOf)
Outranks(t, u) ==
    \/ Specificity(t) > Specificity(u)
    \/ Specificity(t) = Specificity(u) /\ t.version > u.version

\* Ties are for the database to break.
TariffsFor(tariffs, req, zone) ==
    LET apply == {t \in tariffs : Applies(t, req, zone)}
    IN  {t \in apply : \A u \in apply : ~Outranks(u, t)}

\* SaveTariff: bounds left at zero become 1.0, and no handler sets any.
Stored(t) == [t EXCEPT !.minBPS = IF @ = 0 THEN NeutralBPS ELSE @,
                       !.maxBPS = IF @ = 0 THEN NeutralBPS ELSE @]

-----------------------------------------------------------------------------
(* The fare *)

\* ruleSets.  Nobody asks for a fare with waiting or loading time.
Rules(type) ==
    CASE type \in {"RIDE", "GROCERY"}   -> {"base", "distance", "time", "service_fee"}
      [] type = "PARCEL"                -> {"base", "distance", "weight", "service_fee"}
      [] type \in {"CARGO", "FREIGHT"}  -> {"base", "distance", "weight", "loading",
                                            "waiting", "service_fee"}

Rate(rate, amount, per) == IF rate = 0 \/ amount <= 0 THEN 0 ELSE ApplyRate(rate, amount, per)

Line(c, req, t) ==
    CASE c = "base"        -> t.base
      [] c = "distance"    -> Rate(t.perKM, req.meters, 1000)
      [] c = "time"        -> Rate(t.perMinute, req.seconds, 60)
      [] c = "weight"      -> Rate(t.perKG, req.grams, 1000)
      [] c \in {"loading", "waiting"} -> 0
      [] c = "service_fee" -> t.serviceFee

\* The lines there are, added up.
Sum(lines) ==
    LET at(c) == IF c \in DOMAIN lines THEN lines[c] ELSE 0
    IN  at("base") + at("distance") + at("time") + at("weight") + at("loading") + at("waiting")
        + at("service_fee") + at("minimum_fare_top_up") + at("demand") + at("tax")

\* Engine.Quote: the rules' lines, the minimum, demand, tax, in this order.  The
\* discount before tax, which no caller asks for, is left out.
Breakdown(req, t, bps) ==
    LET lines  == [c \in Rules(req.type) |-> Line(c, req, t)]
        topUp  == IF Sum(lines) < t.minimum THEN t.minimum - Sum(lines) ELSE 0
        floor  == Sum(lines) + topUp
        scaled == ApplyRate(floor, bps, NeutralBPS)
        extras == [minimum_fare_top_up |-> topUp,
                   demand |-> scaled - floor,
                   tax |-> ApplyRate(scaled, t.taxBPS, 10000)]
    IN  [c \in DOMAIN lines \cup DOMAIN extras |->
            IF c \in DOMAIN lines THEN lines[c] ELSE extras[c]]

\* A mistake for the properties to catch: the minimum is shown and not charged.
TotalWithoutTopUp(req, t, bps) ==
    LET scaled == ApplyRate(Sum([c \in Rules(req.type) |-> Line(c, req, t)]), bps, NeutralBPS)
    IN  scaled + ApplyRate(scaled, t.taxBPS, 10000)

\* The total the engine accumulates on its way through the lines.
Total(req, t, bps) ==
    LET lines  == [c \in Rules(req.type) |-> Line(c, req, t)]
        floor  == Max({Sum(lines), t.minimum})
        scaled == ApplyRate(floor, bps, NeutralBPS)
    IN  scaled + ApplyRate(scaled, t.taxBPS, 10000)

\* The engine refuses a demand outside the tariff's bounds and an amount that
\* leaves the safe range; every amount before the total is below it.
CanPrice(req, t, bps) == bps \in t.minBPS .. t.maxBPS /\ Safe(Total(req, t, bps))

=============================================================================
