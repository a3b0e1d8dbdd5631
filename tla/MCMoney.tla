------------------------------ MODULE MCMoney -------------------------------
(* Money on small instances. *)
EXTENDS Money, TLC

CONSTANTS ride, grocery, cargo, walk, ali, bina, q1, q2, k1

\* A ride, a delivery with goods and a fee, a job of a kind without a rate,
\* and one with neither fare nor goods.
FourJobs == {ride, grocery, cargo, walk}
OneRide  == {ride}

RiderOf == ride :> ali @@ grocery :> ali @@ cargo :> bina @@ walk :> bina
Fares   == ride :> 10 @@ grocery :> 4 @@ cargo :> 3 @@ walk :> 0
Baskets == ride :> 0 @@ grocery :> 6 @@ cargo :> 0 @@ walk :> 0
Ten     == [bps |-> 1000, flat |-> 0]
Rates   == ride :> Ten @@ grocery :> [bps |-> 1000, flat |-> 1]
           @@ cargo :> NoRate @@ walk :> Ten

RideOf     == ride :> ali
RideFare   == ride :> 10
RideBasket == ride :> 0
RideRate   == ride :> Ten

TwoDrivers == {ali, bina}
OneDriver  == {ali}
Requests2  == {q1, q2}
Requests1  == {q1}
OneKey     == {k1}
Five       == {5}

\* Both are stopped at 10 and warned at 8, but for bina's own cap of 3, which is
\* what the cash of her one job comes to.
Limits     == ali :> [cap |-> 10, warn |-> 8] @@ bina :> [cap |-> 10, warn |-> 8]
Overrides  == ali :> 0 @@ bina :> 3

NoOverride == ali :> 0

Interchangeable == Permutations(Requests2)

=============================================================================
