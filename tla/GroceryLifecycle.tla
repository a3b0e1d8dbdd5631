-------------------------- MODULE GroceryLifecycle --------------------------
(***************************************************************************)
(* The lifecycle of a grocery order (internal/merchant), who may cancel it  *)
(* when, and the part of it a delivery job drives.                          *)
(***************************************************************************)
OrderStatuses ==
    {"CART", "PLACED", "PAYMENT_PENDING", "CONFIRMED", "PREPARING",
     "READY_FOR_PICKUP", "PICKED_UP", "DELIVERING", "DELIVERED", "CANCELLED",
     "FAILED"}

OrderTerminal == {"DELIVERED", "CANCELLED", "FAILED"}

\* Every move of merchant.Machine, as a set of <<from, to>> pairs.
OrderMachine ==
       {"CART"}             \X {"PLACED", "CANCELLED"}
  \cup {"PLACED"}           \X {"PAYMENT_PENDING", "CONFIRMED", "CANCELLED", "FAILED"}
  \cup {"PAYMENT_PENDING"}  \X {"CONFIRMED", "CANCELLED", "FAILED"}
  \cup {"CONFIRMED"}        \X {"PREPARING", "CANCELLED"}
  \cup {"PREPARING"}        \X {"READY_FOR_PICKUP", "CANCELLED", "FAILED"}
  \cup {"READY_FOR_PICKUP"} \X {"PICKED_UP", "CANCELLED", "FAILED"}
  \cup {"PICKED_UP"}        \X {"DELIVERING", "FAILED"}
  \cup {"DELIVERING"}       \X {"DELIVERED", "FAILED"}

OrderCan(from, to) == <<from, to>> \in OrderMachine

MerchantCancellable(s) == s \in {"PLACED", "PAYMENT_PENDING", "CONFIRMED"}
CustomerCancellable(s) == s \in {"CART", "PLACED", "PAYMENT_PENDING", "CONFIRMED"}

\* deliveryFlow: the order's side of a delivery, one move after another.
DeliveryFlow ==
    {<<"READY_FOR_PICKUP", "PICKED_UP">>, <<"PICKED_UP", "DELIVERING">>,
     <<"DELIVERING", "DELIVERED">>}

\* FollowDelivery has something to do for an order in status s.
Behind(s, target) ==
    IF target = "FAILED" THEN s \notin OrderTerminal
    ELSE \/ s \in {"READY_FOR_PICKUP", "PICKED_UP"}
         \/ s = "DELIVERING" /\ target = "DELIVERED"

\* The next status of the walk from s: failing is one move.
StepTowards(s, target) ==
    IF target = "FAILED" THEN "FAILED"
    ELSE CHOOSE t \in OrderStatuses : <<s, t>> \in DeliveryFlow

=============================================================================
