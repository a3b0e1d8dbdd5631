------------------------------ MODULE MCBasket ------------------------------
(* Basket on small instances. *)
EXTENDS Basket, TLC

CONSTANTS o1, o2, l1, l2, l3, rice, milk, t1

TwoOrders   == {o1, o2}
ThreeLines  == {l1, l2, l3}
TwoProducts == {rice, milk}
OneTap      == {t1}

\* Two lines for rice, one of them for two bags, and one for milk.
LineProduct == [l \in ThreeLines |-> IF l = l3 THEN milk ELSE rice]
LineQty     == [l \in ThreeLines |-> IF l = l2 THEN 2 ELSE 1]
TwoOfEach   == [p \in TwoProducts |-> 2]

\* One bag is to be asked about, what replaces the others is dearer by three.
OneEach        == [l \in ThreeLines |-> 1]
LinePreference == [l \in ThreeLines |-> IF l = l1 THEN "ASK_ME" ELSE "ALLOW"]
Dearer         == {4}

Symmetry == Permutations({o1, o2})

\* Runs in which a line that AddItem was inserting reached a cart, not an
\* order that had been placed in between.
LinesArriveInTime == \A x \in inFlight : status[x[1]] = "CART"

\* Runs in which an order with two problems is not marked ready.
SecondProblemStays == Len(issues) < 2 \/ \A t \in Taps : taps[t] = Idle

=============================================================================
