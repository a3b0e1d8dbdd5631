--------------------------- MODULE MCGroceryOrder ---------------------------
(* GroceryOrder on small instances. *)
EXTENDS GroceryOrder, TLC

CONSTANTS o1, l1, l2, rice, j1, j2, t1, t2

OneOrder      == {o1}
TwoLines      == {l1, l2}
OneProduct    == {rice}
TwoDeliveries == {j1, j2}
TwoTaps       == {t1, t2}

\* Two lines for rice, one of them for two bags.
RiceLines   == l1 :> rice @@ l2 :> rice
RiceQty     == l1 :> 1 @@ l2 :> 2
Rice2       == rice :> 2

=============================================================================
