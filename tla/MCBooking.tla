------------------------------ MODULE MCBooking ------------------------------
(* Booking on a small instance. *)
EXTENDS Booking, TLC

CONSTANTS u1, u2, q1, q2, k1, c1, c2, del

TwoUsers  == {u1, u2}
TwoQuotes == {q1, q2}
OneKey    == {k1}
TwoCalls  == {c1, c2}
OneDelivery == {del}

Trip(type, vehicle, zones, meters, seconds, grams) ==
    [type |-> type, vehicle |-> vehicle, city |-> "KHI", zones |-> zones,
     meters |-> meters, seconds |-> seconds, grams |-> grams]

Zone(id, radius, born, active) == [id |-> id, radius |-> radius, born |-> born, active |-> active]

\* A short ride, and a long one by car from where three zones meet.
SomeTrips == {Trip("RIDE", "BIKE", {}, 450, 30, 0),
              Trip("RIDE", "CAR", {Zone("old", 500, 1, TRUE), Zone("center", 500, 2, TRUE),
                                   Zone("closed", 300, 3, FALSE)}, 7650, 1000, 0)}

Tariff(type, vehicle, zone, version, minimum, perKM, bps) ==
    [type |-> type, vehicle |-> vehicle, city |-> AnyOf, zone |-> zone, version |-> version,
     minimum |-> minimum, base |-> 20, perKM |-> perKM, perMinute |-> 3, perKG |-> 2,
     serviceFee |-> 5, taxBPS |-> 1300, minBPS |-> bps[1], maxBPS |-> bps[2]]

SeededTariffs == {Tariff("RIDE", AnyOf, AnyOf, 1, 50, 11, <<10000, 15000>>),
                  Tariff("GROCERY", AnyOf, AnyOf, 1, 40, 11, <<10000, 15000>>)}
AddedTariffs  == {Tariff("RIDE", "CAR", "center", 1, 90, 13, <<0, 0>>)}

Driver(n, v) == [id |-> n, status |-> "AVAILABLE", verification |-> v]
Busy == {[waiting |-> 3, drivers |-> {Driver(1, "APPROVED"), Driver(2, "APPROVED")}]}

Cash == {"CASH", "CARD"}
NoProviders == {}

Symmetry == Permutations({c1, c2}) \cup Permutations({u1, u2}) \cup Permutations({q1, q2})
=============================================================================
