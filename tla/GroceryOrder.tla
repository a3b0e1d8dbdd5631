---------------------------- MODULE GroceryOrder ----------------------------
(***************************************************************************)
(* A grocery order: the cart, the stock it holds, the shop's answer or its  *)
(* deadline, the delivery job it becomes, and the news of that job.         *)
(*                                                                          *)
(* A database transaction is one action.  A request that runs several (read *)
(* then write, cancel then release the stock, move to READY_FOR_PICKUP then *)
(* consume, create and attach) keeps its place in inFlight, releasing, taps *)
(* or news, and a failing statement or process drops it there.  Stock is    *)
(* counted (inventory.quantity is not null) and the merchant is active.     *)
(***************************************************************************)
EXTENDS Integers, FiniteSets, FiniteSetsExt, GroceryLifecycle

CONSTANTS
    Orders,      \* rows of orders
    Lines,       \* rows of order_items, in no order yet or in one for good
    Products,    \* the (store, product, variant) rows of inventory
    ProductOf,   \* the product of a line
    QtyOf,       \* the quantity of a line
    Shelf,       \* inventory.quantity at the start
    Deliveries,  \* rows of jobs that MarkReady may create
    Taps,        \* requests of the merchant's app in flight at once
    CanFail,     \* statements and processes fail
    None

ASSUME LinesAssumption ==
    /\ ProductOf \in [Lines -> Products]
    /\ QtyOf \in [Lines -> Nat \ {0}]
    /\ Shelf \in [Products -> Nat]
ASSUME NoneAssumption == None \notin Orders \cup Deliveries
ASSUME CanFailAssumption == CanFail \in BOOLEAN

VARIABLES
    status,      \* orders.status
    linesOf,     \* the lines of each order
    stock,       \* orders.stock_state
    onShelf,     \* inventory.quantity
    held,        \* inventory.reserved_quantity
    late,        \* orders whose accept_deadline has passed
    jobOf,       \* orders.job_id
    delivery,    \* status of each delivery job
    madeFor,     \* the order a delivery job was created for
    inFlight,    \* <<order, line>> that AddItem will insert: it read a cart
    releasing,   \* orders cancelled by a request that has yet to release
    taps,        \* what each MarkReady request is doing
    news         \* <<job, target, from>>: FollowDelivery calls under way

orderVars    == <<status, linesOf, late>>
stockVars    == <<stock, onShelf, held>>
deliveryVars == <<jobOf, delivery, madeFor>>
requestVars  == <<inFlight, releasing, taps, news>>
vars         == <<orderVars, stockVars, deliveryVars, requestVars>>

-----------------------------------------------------------------------------
(* States *)

TapSteps == {"idle", "ready", "consume", "create", "attach"}
Tap(step, o, j) == [step |-> step, order |-> o, job |-> j]
Idle == Tap("idle", None, None)

JobStates == {"none", "REQUESTED", "IN_PROGRESS", "COMPLETED", "CANCELLED", "EXPIRED"}

TypeOK ==
    /\ status \in [Orders -> OrderStatuses]
    /\ linesOf \in [Orders -> SUBSET Lines]
    /\ stock \in [Orders -> {"NONE", "RESERVED", "RELEASED", "CONSUMED"}]
    /\ onShelf \in [Products -> Nat]
    /\ held \in [Products -> Nat]
    /\ late \subseteq Orders
    /\ jobOf \in [Orders -> Deliveries \cup {None}]
    /\ delivery \in [Deliveries -> JobStates]
    /\ madeFor \in [Deliveries -> Orders \cup {None}]
    /\ inFlight \subseteq Orders \X Lines
    /\ releasing \subseteq Orders
    /\ taps \in [Taps -> [step : TapSteps, order : Orders \cup {None},
                          job : Deliveries \cup {None}]]
    /\ news \subseteq Deliveries \X {"DELIVERING", "DELIVERED", "FAILED"}
                                 \X (OrderStatuses \cup {"unread"})

\* The customers' carts are open (the unique index on carts allows one each).
Init ==
    /\ status = [o \in Orders |-> "CART"]
    /\ linesOf = [o \in Orders |-> {}]
    /\ stock = [o \in Orders |-> "NONE"]
    /\ onShelf = Shelf
    /\ held = [p \in Products |-> 0]
    /\ late = {}
    /\ jobOf = [o \in Orders |-> None]
    /\ delivery = [j \in Deliveries |-> "none"]
    /\ madeFor = [j \in Deliveries |-> None]
    /\ inFlight = {}
    /\ releasing = {}
    /\ taps = [t \in Taps |-> Idle]
    /\ news = {}

\* Store.Transition: compare-and-set, validated by the machine.
Transition(o, from, to) ==
    /\ status[o] = from
    /\ OrderCan(from, to)
    /\ status' = [status EXCEPT ![o] = to]

\* UPDATE inventory ... FROM order_items joins each inventory row with one of
\* the order's lines for it, whichever the plan meets first: the sets of lines
\* that may be the ones joined.
Joined(o) ==
    {S \in SUBSET linesOf[o] :
        /\ \A l, k \in S : ProductOf[l] = ProductOf[k] => l = k
        /\ \A l \in linesOf[o] : \E k \in S : ProductOf[k] = ProductOf[l]}

\* What the joined lines take of product p.
QtyIn(S, p) == MapThenSumSet(LAMBDA l : QtyOf[l], {l \in S : ProductOf[l] = p})

-----------------------------------------------------------------------------
(* Mistakes the properties are there to catch: a definition with one         *)
(* condition or one write of the code left out or moved.  Next uses none.     *)

\* Stock is given back without comparing the order's stock state first.
SettleAgain(o, to) ==
    /\ stock' = [stock EXCEPT ![o] = to]
    /\ \E S \in Joined(o) :
          held' = [p \in Products |-> IF held[p] >= QtyIn(S, p) THEN held[p] - QtyIn(S, p) ELSE 0]
    /\ UNCHANGED onShelf

\* A second call replaces the job the first one attached.
AttachAgain(t) ==
    /\ taps[t].step = "attach"
    /\ jobOf' = [jobOf EXCEPT ![taps[t].order] = taps[t].job]
    /\ taps' = [taps EXCEPT ![t] = Idle]
    /\ UNCHANGED <<orderVars, stockVars, delivery, madeFor, inFlight, releasing, news>>

\* The sweep cancels what is due without looking at the status.
ExpireAnswered ==
    /\ status' = [o \in Orders |-> IF o \in late THEN "CANCELLED" ELSE status[o]]
    /\ releasing' = releasing \cup late
    /\ UNCHANGED <<linesOf, late, stockVars, deliveryVars, inFlight, taps, news>>

\* The sweep looks for orders waiting for a payment.
ExpireUnpaid ==
    \E o \in late :
        /\ status[o] = "PAYMENT_PENDING"
        /\ status' = [status EXCEPT ![o] = "CANCELLED"]
        /\ releasing' = releasing \cup {o}
        /\ UNCHANGED <<linesOf, late, stockVars, deliveryVars, inFlight, taps, news>>

-----------------------------------------------------------------------------
(* Settling what an order holds *)

\* GREATEST(0, a - b)
Less(a, b) == IF a >= b THEN a - b ELSE 0

\* settleOrderStock: compare-and-set on RESERVED, then one update of the
\* inventory, which gives the hold back and, for CONSUMED, takes the goods.
SettleStock(o, to) ==
    \/ /\ stock[o] = "RESERVED"
       /\ stock' = [stock EXCEPT ![o] = to]
       /\ \E S \in Joined(o) :
             /\ held' = [p \in Products |-> Less(held[p], QtyIn(S, p))]
             /\ onShelf' = IF to = "CONSUMED"
                           THEN [p \in Products |-> Less(onShelf[p], QtyIn(S, p))]
                           ELSE onShelf
    \/ stock[o] # "RESERVED" /\ UNCHANGED stockVars

\* reserveOrderStock: every line is held, each by its own inventory row, or
\* none is.
ReserveOrderStock(o) ==
    /\ linesOf[o] \in Joined(o)
    /\ \A l \in linesOf[o] : held[ProductOf[l]] + QtyOf[l] <= onShelf[ProductOf[l]]
    /\ held' = [p \in Products |-> held[p] + QtyIn(linesOf[o], p)]
    /\ stock' = [stock EXCEPT ![o] = "RESERVED"]
    /\ UNCHANGED onShelf

-----------------------------------------------------------------------------
(* The customer *)

\* CustomerService.AddItem reads a cart; Store.AddItem inserts the line and
\* does not look at the order again.
ReadCart(o, l) ==
    /\ status[o] = "CART"
    /\ \A q \in Orders : l \notin linesOf[q] /\ <<q, l>> \notin inFlight
    /\ inFlight' = inFlight \cup {<<o, l>>}
    /\ UNCHANGED <<orderVars, stockVars, deliveryVars, releasing, taps, news>>

AddItem(o, l) ==
    /\ <<o, l>> \in inFlight
    /\ inFlight' = inFlight \ {<<o, l>>}
    /\ linesOf' = [linesOf EXCEPT ![o] = @ \cup {l}]
    /\ UNCHANGED <<status, late, stockVars, deliveryVars, releasing, taps, news>>

\* Store.Place: the lines are counted and held as one.  A line that comes between
\* the two statements is not told from one that comes after.
Place(o) ==
    /\ status[o] = "CART" /\ linesOf[o] # {}
    /\ ReserveOrderStock(o)
    /\ status' = [status EXCEPT ![o] = "PLACED"]
    /\ UNCHANGED <<linesOf, late, deliveryVars, requestVars>>

\* CancelByCustomer: the status in one transaction, the stock in another.
CancelByCustomer(o) ==
    /\ CustomerCancellable(status[o])
    /\ Transition(o, status[o], "CANCELLED")
    /\ releasing' = releasing \cup {o}
    /\ UNCHANGED <<linesOf, late, stockVars, deliveryVars, inFlight, taps, news>>

-----------------------------------------------------------------------------
(* The merchant *)

Accept(o) ==
    /\ Transition(o, "PLACED", "CONFIRMED")
    /\ UNCHANGED <<linesOf, late, stockVars, deliveryVars, requestVars>>

Reject(o) ==
    /\ MerchantCancellable(status[o])
    /\ Transition(o, status[o], "CANCELLED")
    /\ releasing' = releasing \cup {o}
    /\ UNCHANGED <<linesOf, late, stockVars, deliveryVars, inFlight, taps, news>>

StartPreparing(o) ==
    /\ Transition(o, "CONFIRMED", "PREPARING")
    /\ UNCHANGED <<linesOf, late, stockVars, deliveryVars, requestVars>>

\* MarkReady reads the order: a first tap moves it, a tap on a ready order
\* without a job goes on from there, any other is answered or refused at once.
MarkReady(t, o) ==
    /\ taps[t] = Idle
    /\ \/ /\ status[o] = "PREPARING"
          /\ taps' = [taps EXCEPT ![t] = Tap("ready", o, None)]
       \/ /\ status[o] = "READY_FOR_PICKUP" /\ jobOf[o] = None
          /\ taps' = [taps EXCEPT ![t] = Tap("create", o, None)]
    /\ UNCHANGED <<orderVars, stockVars, deliveryVars, inFlight, releasing, news>>

MoveToReady(t) ==
    LET o == taps[t].order
    IN  /\ taps[t].step = "ready"
        /\ \/ /\ Transition(o, "PREPARING", "READY_FOR_PICKUP")
              /\ taps' = [taps EXCEPT ![t] = Tap("consume", o, None)]
           \/ /\ status[o] # "PREPARING"
              /\ taps' = [taps EXCEPT ![t] = Idle]
              /\ UNCHANGED status
        /\ UNCHANGED <<linesOf, late, stockVars, deliveryVars, inFlight, releasing, news>>

ConsumeStock(t) ==
    LET o == taps[t].order
    IN  /\ taps[t].step = "consume"
        /\ SettleStock(o, "CONSUMED")
        /\ taps' = [taps EXCEPT ![t] = Tap("create", o, None)]
        /\ UNCHANGED <<orderVars, deliveryVars, inFlight, releasing, news>>

CreateDelivery(t) ==
    LET o == taps[t].order
    IN  /\ taps[t].step = "create"
        /\ \E j \in Deliveries :
              /\ madeFor[j] = None
              /\ madeFor' = [madeFor EXCEPT ![j] = o]
              /\ delivery' = [delivery EXCEPT ![j] = "REQUESTED"]
              /\ taps' = [taps EXCEPT ![t] = Tap("attach", o, j)]
        /\ UNCHANGED <<orderVars, stockVars, jobOf, inFlight, releasing, news>>

\* AttachJob: compare-and-set on the column being empty.
AttachJob(t) ==
    LET o == taps[t].order
    IN  /\ taps[t].step = "attach"
        /\ jobOf' = IF jobOf[o] = None THEN [jobOf EXCEPT ![o] = taps[t].job] ELSE jobOf
        /\ taps' = [taps EXCEPT ![t] = Idle]
        /\ UNCHANGED <<orderVars, stockVars, delivery, madeFor, inFlight, releasing, news>>

-----------------------------------------------------------------------------
(* The sweeper, and the second half of every cancellation *)

DeadlinePasses(o) ==
    /\ status[o] = "PLACED" /\ o \notin late
    /\ late' = late \cup {o}
    /\ UNCHANGED <<status, linesOf, stockVars, deliveryVars, requestVars>>

\* ExpireOverdue: the due orders nobody else has locked, in one transaction.
ExpireOverdue ==
    \E due \in SUBSET {o \in late : status[o] = "PLACED"} :
        /\ due # {}
        /\ status' = [o \in Orders |-> IF o \in due THEN "CANCELLED" ELSE status[o]]
        /\ releasing' = releasing \cup due
        /\ UNCHANGED <<linesOf, late, stockVars, deliveryVars, inFlight, taps, news>>

ReleaseStock(o) ==
    /\ o \in releasing
    /\ releasing' = releasing \ {o}
    /\ SettleStock(o, "RELEASED")
    /\ UNCHANGED <<orderVars, deliveryVars, inFlight, taps, news>>

-----------------------------------------------------------------------------
(* The delivery job, driven by dispatch, the driver and the customer *)

\* Execute and Cancel tell the order what the job did; dispatch's expiry of a
\* search does not.
JobMoves(j, from, to, target) ==
    /\ delivery[j] \in from
    /\ delivery' = [delivery EXCEPT ![j] = to]
    /\ news' = news \cup {<<j, target, "unread">>}
    /\ UNCHANGED <<orderVars, stockVars, jobOf, madeFor, inFlight, releasing, taps>>

JobStarts(j)    == JobMoves(j, {"REQUESTED"}, "IN_PROGRESS", "DELIVERING")
JobCompletes(j) == JobMoves(j, {"REQUESTED", "IN_PROGRESS"}, "COMPLETED", "DELIVERED")
JobCancelled(j) == JobMoves(j, {"REQUESTED"}, "CANCELLED", "FAILED")

JobExpires(j) ==
    /\ delivery[j] = "REQUESTED"
    /\ delivery' = [delivery EXCEPT ![j] = "EXPIRED"]
    /\ UNCHANGED <<orderVars, stockVars, jobOf, madeFor, requestVars>>

OrderByJobID(j) == {o \in Orders : jobOf[o] = j}

\* FollowDelivery finds the order by its job and reads its status; a job that
\* is linked to no order, or an order already there, is not news.
ReadNews(j, target) ==
    LET linked == OrderByJobID(j)
        heard  == news \ {<<j, target, "unread">>}
    IN  /\ <<j, target, "unread">> \in news
        /\ news' = IF \E o \in linked : Behind(status[o], target)
                   THEN heard \cup {<<j, target, status[o]>> : o \in linked}
                   ELSE heard
        /\ UNCHANGED <<orderVars, stockVars, deliveryVars, inFlight, releasing, taps>>

\* One compare-and-set of the walk; a step that finds the order elsewhere ends
\* it, and the error goes to the log.
FollowStep(j, target, from) ==
    LET heard == news \ {<<j, target, from>>}
        to    == StepTowards(from, target)
    IN  /\ <<j, target, from>> \in news /\ from # "unread"
        /\ \E o \in OrderByJobID(j) :
              \/ /\ Transition(o, from, to)
                 /\ news' = IF to = target THEN heard ELSE heard \cup {<<j, target, to>>}
              \/ /\ status[o] # from
                 /\ news' = heard
                 /\ UNCHANGED status
        /\ UNCHANGED <<linesOf, late, stockVars, deliveryVars, inFlight, releasing, taps>>

-----------------------------------------------------------------------------
(* Failure: a statement or a process fails and the request goes no further *)

LoseAdd(o, l) ==
    /\ CanFail
    /\ <<o, l>> \in inFlight
    /\ inFlight' = inFlight \ {<<o, l>>}
    /\ UNCHANGED <<orderVars, stockVars, deliveryVars, releasing, taps, news>>

LoseRelease(o) ==
    /\ CanFail
    /\ o \in releasing
    /\ releasing' = releasing \ {o}
    /\ UNCHANGED <<orderVars, stockVars, deliveryVars, inFlight, taps, news>>

LoseTap(t) ==
    /\ CanFail
    /\ taps[t] # Idle
    /\ taps' = [taps EXCEPT ![t] = Idle]
    /\ UNCHANGED <<orderVars, stockVars, deliveryVars, inFlight, releasing, news>>

LoseNews(n) ==
    /\ CanFail
    /\ n \in news
    /\ news' = news \ {n}
    /\ UNCHANGED <<orderVars, stockVars, deliveryVars, inFlight, releasing, taps>>

-----------------------------------------------------------------------------
(* The system *)

Customer ==
    \E o \in Orders :
        \/ \E l \in Lines : ReadCart(o, l) \/ AddItem(o, l)
        \/ Place(o) \/ CancelByCustomer(o)

Merchant ==
    \/ \E o \in Orders : Accept(o) \/ Reject(o) \/ StartPreparing(o)
    \/ \E t \in Taps :
        \/ \E o \in Orders : MarkReady(t, o)
        \/ MoveToReady(t) \/ ConsumeStock(t) \/ CreateDelivery(t) \/ AttachJob(t)

Sweeper ==
    \/ ExpireOverdue
    \/ \E o \in Orders : DeadlinePasses(o) \/ ReleaseStock(o)

Targets == {"DELIVERING", "DELIVERED", "FAILED"}

Follow(j) ==
    \E target \in Targets :
        ReadNews(j, target) \/ \E from \in OrderStatuses : FollowStep(j, target, from)

Job ==
    \E j \in Deliveries :
        JobStarts(j) \/ JobCompletes(j) \/ JobCancelled(j) \/ JobExpires(j) \/ Follow(j)

Failure ==
    \/ \E o \in Orders : LoseRelease(o) \/ \E l \in Lines : LoseAdd(o, l)
    \/ \E t \in Taps : LoseTap(t)
    \/ \E n \in news : LoseNews(n)

Next == Customer \/ Merchant \/ Sweeper \/ Job \/ Failure

Spec == Init /\ [][Next]_vars

\* Time passes, the sweeper ticks, and a request that is running goes on.
\* Nobody has to tap, drive or cancel anything.
Fairness ==
    /\ \A o \in Orders : WF_vars(DeadlinePasses(o)) /\ WF_vars(ReleaseStock(o))
    /\ WF_vars(ExpireOverdue)
    /\ \A t \in Taps : WF_vars(MoveToReady(t) \/ ConsumeStock(t) \/ CreateDelivery(t) \/ AttachJob(t))
    /\ \A j \in Deliveries : WF_vars(Follow(j))

FairSpec == Spec /\ Fairness

-----------------------------------------------------------------------------
(* Properties *)

\* No more of a product is promised than the shop has.
StockNeverOversold == \A p \in Products : held[p] <= onShelf[p]

\* Quantity of product p in the orders whose stock is in state st.
QtyOfOrders(st, p) ==
    MapThenSumSet(LAMBDA o : QtyIn(linesOf[o], p), {o \in Orders : stock[o] = st})

\* Every unit held is held for a RESERVED order, and every unit gone went with
\* a CONSUMED one.
StockIsAccounted ==
    \A p \in Products :
        /\ held[p] = QtyOfOrders("RESERVED", p)
        /\ Shelf[p] = onShelf[p] + QtyOfOrders("CONSUMED", p)

\* As long as no line reaches an order after it was placed, two customers
\* reaching for the last bag of rice are not both told yes, and no release or
\* consumption runs twice or is invented, whatever is cancelled, expired,
\* consumed or lost in between.
StockIsSound == StockNeverOversold /\ StockIsAccounted

\* An order's stock follows its status, though they are written by different
\* transactions: nothing is held by a cart, goods leave the shelf only for an
\* order that became ready, and are given back only for one that was cancelled.
StockMatchesOrder ==
    \A o \in Orders :
        /\ status[o] = "CART" => stock[o] = "NONE"
        /\ stock[o] = "CONSUMED" =>
              status[o] \in {"READY_FOR_PICKUP", "PICKED_UP", "DELIVERING", "DELIVERED", "FAILED"}
        /\ stock[o] = "RELEASED" => status[o] = "CANCELLED"

\* A delivery job is never offered for an order that has not become ready.
DeliveriesAreOfReadyOrders ==
    \A j \in Deliveries : madeFor[j] # None =>
        status[madeFor[j]] \in
            {"READY_FOR_PICKUP", "PICKED_UP", "DELIVERING", "DELIVERED", "FAILED"}

\* An order is on its way only when its job has started, delivered only when it
\* is completed, and failed only when it ended otherwise.
OrderNeverAheadOfDelivery ==
    \A o \in Orders :
        LET job == IF jobOf[o] = None THEN "none" ELSE delivery[jobOf[o]]
        IN  /\ status[o] \in {"PICKED_UP", "DELIVERING"} => job \in {"IN_PROGRESS", "COMPLETED"}
            /\ status[o] = "DELIVERED" => job = "COMPLETED"
            /\ status[o] = "FAILED" => job = "CANCELLED"

\* The order, its stock and its job are written by different transactions of
\* different requests, any of which may be lost; the stock follows the order,
\* no driver is sent for an order that is not ready, and the customer is never
\* told more than the driver did.
OrdersAgree ==
    StockMatchesOrder /\ DeliveriesAreOfReadyOrders /\ OrderNeverAheadOfDelivery

\* Once a picker has started, nobody cancels the order: not the customer, not
\* the shop, and not a sweep whose deadline passed while the shop answered.
PickedOrdersAreNotCancelled ==
    [][\A o \in Orders :
          status[o] \notin {"CART", "PLACED", "PAYMENT_PENDING", "CONFIRMED"}
          => status'[o] = status[o] \/ status'[o] # "CANCELLED"]_vars

\* An order does not wait for an answer for ever.
AcceptanceEnds == \A o \in Orders : status[o] = "PLACED" ~> status[o] # "PLACED"

=============================================================================
