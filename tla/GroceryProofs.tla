---------------------------- MODULE GroceryProofs ----------------------------
(***************************************************************************)
(* What a grocery order promises, for any number of orders, lines, products *)
(* and delivery jobs, any stock, and any requests of the shop at once; and   *)
(* what it costs, for any number of problems with its lines.                *)
(***************************************************************************)
EXTENDS Basket, FiniteSums

-----------------------------------------------------------------------------
(* The inductive invariant *)

\* From the moment the goods stand ready nobody cancels an order.
ReadyOrLater == {"READY_FOR_PICKUP", "PICKED_UP", "DELIVERING", "DELIVERED", "FAILED"}

\* A request of the shop that is past the move works on an order that is ready,
\* and attaches the job it made for it.
TapsKnow ==
    \A t \in Taps :
        /\ taps[t].step # "idle" => taps[t].order \in Orders
        /\ taps[t].step \in {"consume", "create", "attach"} =>
              status[taps[t].order] \in ReadyOrLater
        /\ taps[t].step = "attach" =>
              taps[t].job \in Deliveries /\ madeFor[taps[t].job] = taps[t].order

\* Jobs exist once they are made for an order, and are attached to that one.
JobsAgree ==
    /\ \A j \in Deliveries : delivery[j] = "none" <=> madeFor[j] = None
    /\ \A o \in Orders : jobOf[o] # None => madeFor[jobOf[o]] = o

\* What the news of a job says has happened, and the walk starts on the way.
Reached(target) ==
    IF target = "DELIVERED" THEN {"COMPLETED"}
    ELSE IF target = "DELIVERING" THEN {"IN_PROGRESS", "COMPLETED"} ELSE {"CANCELLED"}

OnTheWay(from, target) ==
    \/ target = "FAILED"
    \/ from \in {"unread", "READY_FOR_PICKUP", "PICKED_UP"}
    \/ from = "DELIVERING" /\ target = "DELIVERED"

NewsIsTrue ==
    \A j \in Deliveries, target \in Targets, from \in OrderStatuses \cup {"unread"} :
        <<j, target, from>> \in news =>
            delivery[j] \in Reached(target) /\ OnTheWay(from, target)

\* Stock is given back for orders that are cancelled.
ReleasesAreOfCancelled == \A o \in releasing : status[o] = "CANCELLED"

IInv ==
    /\ TypeOK /\ TapsKnow /\ JobsAgree /\ NewsIsTrue /\ ReleasesAreOfCancelled
    /\ OrdersAgree /\ StockNeverOversold

-----------------------------------------------------------------------------
(* Lemmas on quantities *)

\* The sum over no line, and over one.
LEMMA SumOfNone == MapThenSumSet(LAMBDA l : QtyOf[l], {}) = 0
  <1>. DEFINE eq(g) == g = [s \in SUBSET {} |-> IF s = {} THEN 0
                            ELSE LET x == CHOOSE x \in s : TRUE IN QtyOf[x] + g[s \ {x}]]
              iter == CHOOSE g : eq(g)
  <1>1. eq([s \in SUBSET {} |-> 0])
    OBVIOUS
  <1>2. iter[{}] = 0
    BY <1>1
  <1>3. MapThenSumSet(LAMBDA l : QtyOf[l], {}) = iter[{}]
    BY DEF MapThenSumSet, MapThenFoldSet
  <1>. QED BY <1>2, <1>3

LEMMA SumOfOne ==
    ASSUME NEW l \in Lines
    PROVE  MapThenSumSet(LAMBDA k : QtyOf[k], {l}) = QtyOf[l]
  <1>. DEFINE eq(g) == g = [s \in SUBSET {l} |-> IF s = {} THEN 0
                            ELSE LET x == CHOOSE x \in s : TRUE IN QtyOf[x] + g[s \ {x}]]
              f == [s \in SUBSET {l} |-> IF s = {} THEN 0 ELSE QtyOf[l]]
              iter == CHOOSE g : eq(g)
  <1>1. QtyOf[l] \in Nat
    BY LinesAssumption
  <1>2. eq(f)
    <2>1. ASSUME NEW s \in SUBSET {l}
          PROVE  f[s] = IF s = {} THEN 0 ELSE LET x == CHOOSE x \in s : TRUE IN QtyOf[x] + f[s \ {x}]
      <3>1. CASE s = {}
        BY <3>1
      <3>2. CASE s = {l}
        <4>1. (CHOOSE x \in s : TRUE) = l
          BY <3>2
        <4>2. f[s \ {l}] = 0
          BY <3>2
        <4>. QED BY <1>1, <3>2, <4>1, <4>2
      <3>. QED BY <3>1, <3>2
    <2>. QED BY <2>1
  <1>3. eq(iter)
    BY <1>2
  <1>4. iter[{l}] = QtyOf[l]
    <2>1. iter[{}] = 0
      BY <1>3
    <2>2. (CHOOSE x \in {l} : TRUE) = l
      OBVIOUS
    <2>3. iter[{l}] = LET x == CHOOSE x \in {l} : TRUE IN QtyOf[x] + iter[{l} \ {x}]
      BY <1>3
    <2>4. {l} \ {l} = {}
      OBVIOUS
    <2>. HIDE DEF iter
    <2>. QED BY <1>1, <2>1, <2>2, <2>3, <2>4
  <1>5. MapThenSumSet(LAMBDA k : QtyOf[k], {l}) = iter[{l}]
    BY DEF MapThenSumSet, MapThenFoldSet
  <1>. QED BY <1>4, <1>5

\* An update joins one line of a product, or none.
LEMMA JoinedQuantity ==
    ASSUME TypeOK, NEW o \in Orders, NEW S \in Joined(o), NEW p \in Products
    PROVE  /\ QtyIn(S, p) \in Nat
           /\ QtyIn(S, p) = 0 \/ \E l \in S : ProductOf[l] = p /\ QtyIn(S, p) = QtyOf[l]
  <1>1. S \subseteq Lines /\ \A l, k \in S : ProductOf[l] = ProductOf[k] => l = k
    BY DEF Joined, TypeOK
  <1>. DEFINE L == {l \in S : ProductOf[l] = p}
  <1>2. CASE L = {}
    <2>1. QtyIn(S, p) = MapThenSumSet(LAMBDA k : QtyOf[k], {})
      BY <1>2 DEF QtyIn
    <2>2. QtyIn(S, p) = 0
      BY <2>1, SumOfNone, Zenon
    <2>. QED BY <2>2
  <1>3. ASSUME NEW l \in L
        PROVE  QtyIn(S, p) = QtyOf[l] /\ QtyOf[l] \in Nat /\ l \in S /\ ProductOf[l] = p
    <2>1. L = {l} /\ l \in Lines
      BY <1>1
    <2>2. QtyIn(S, p) = MapThenSumSet(LAMBDA k : QtyOf[k], {l})
      BY <2>1 DEF QtyIn
    <2>. QED BY <2>1, <2>2, SumOfOne, LinesAssumption
  <1>. QED BY <1>2, <1>3

\* Settling gives back and takes the same, and never below nothing.
LEMMA SettleSound ==
    ASSUME TypeOK, StockNeverOversold, NEW o \in Orders, NEW to \in {"RELEASED", "CONSUMED"},
           SettleStock(o, to)
    PROVE  /\ stock' \in [Orders -> {"NONE", "RESERVED", "RELEASED", "CONSUMED"}]
           /\ held' \in [Products -> Nat] /\ onShelf' \in [Products -> Nat]
           /\ StockNeverOversold'
           /\ \A q \in Orders : stock'[q] = stock[q] \/ (q = o /\ stock'[q] = to /\ stock[q] = "RESERVED")
  <1>1. CASE stock[o] # "RESERVED" /\ UNCHANGED stockVars
    BY <1>1 DEF TypeOK, StockNeverOversold, stockVars
  <1>2. ASSUME NEW S \in Joined(o), stock[o] = "RESERVED",
               stock' = [stock EXCEPT ![o] = to],
               held' = [p \in Products |-> Less(held[p], QtyIn(S, p))],
               onShelf' = IF to = "CONSUMED"
                          THEN [p \in Products |-> Less(onShelf[p], QtyIn(S, p))]
                          ELSE onShelf
        PROVE  /\ stock' \in [Orders -> {"NONE", "RESERVED", "RELEASED", "CONSUMED"}]
               /\ held' \in [Products -> Nat] /\ onShelf' \in [Products -> Nat]
               /\ StockNeverOversold'
               /\ \A q \in Orders : stock'[q] = stock[q] \/ (q = o /\ stock'[q] = to /\ stock[q] = "RESERVED")
    <2>1. \A p \in Products : QtyIn(S, p) \in Nat /\ held[p] \in Nat /\ onShelf[p] \in Nat
                              /\ held[p] <= onShelf[p]
      BY JoinedQuantity DEF TypeOK, StockNeverOversold
    <2>2. \A p \in Products : /\ Less(held[p], QtyIn(S, p)) \in Nat
                              /\ Less(onShelf[p], QtyIn(S, p)) \in Nat
                              /\ Less(held[p], QtyIn(S, p)) <= Less(onShelf[p], QtyIn(S, p))
                              /\ Less(held[p], QtyIn(S, p)) <= onShelf[p]
      BY <2>1 DEF Less
    <2>3. held' \in [Products -> Nat] /\ onShelf' \in [Products -> Nat]
      BY <1>2, <2>2 DEF TypeOK
    <2>4. StockNeverOversold'
      BY <1>2, <2>2 DEF StockNeverOversold
    <2>. QED BY <1>2, <2>3, <2>4 DEF TypeOK
  <1>. QED BY <1>1, <1>2 DEF SettleStock

\* An order is placed when everything it wants is there, or not at all.
LEMMA ReserveSound ==
    ASSUME TypeOK, NEW o \in Orders, ReserveOrderStock(o), StockNeverOversold
    PROVE  held' \in [Products -> Nat] /\ StockNeverOversold'
  <1>1. linesOf[o] \in Joined(o) /\ linesOf[o] \subseteq Lines
        /\ held' = [p \in Products |-> held[p] + QtyIn(linesOf[o], p)] /\ onShelf' = onShelf
    BY DEF ReserveOrderStock, TypeOK
  <1>2. ASSUME NEW p \in Products
        PROVE  /\ held[p] + QtyIn(linesOf[o], p) \in Nat
               /\ held[p] + QtyIn(linesOf[o], p) <= onShelf[p]
    <2>1. QtyIn(linesOf[o], p) \in Nat /\ held[p] \in Nat /\ onShelf[p] \in Nat /\ held[p] <= onShelf[p]
      BY <1>1, JoinedQuantity DEF TypeOK, StockNeverOversold
    <2>2. CASE QtyIn(linesOf[o], p) = 0
      BY <2>1, <2>2
    <2>3. ASSUME NEW l \in linesOf[o], ProductOf[l] = p, QtyIn(linesOf[o], p) = QtyOf[l]
          PROVE  held[p] + QtyIn(linesOf[o], p) <= onShelf[p]
      BY <2>3 DEF ReserveOrderStock
    <2>4. QtyIn(linesOf[o], p) = 0 \/ \E l \in linesOf[o] : ProductOf[l] = p /\ QtyIn(linesOf[o], p) = QtyOf[l]
      BY <1>1, JoinedQuantity
    <2>. QED BY <2>1, <2>2, <2>3, <2>4
  <1>. QED BY <1>1, <1>2 DEF StockNeverOversold

-----------------------------------------------------------------------------
(* Lemmas on statuses *)

LEMMA Machine ==
    ASSUME NEW from, NEW to, OrderCan(from, to)
    PROVE  /\ to \in OrderStatuses /\ to # "CART"
           /\ from \notin OrderTerminal
           /\ from \in ReadyOrLater => to \in ReadyOrLater \cup {"CANCELLED"}
  BY DEF OrderCan, OrderMachine, OrderStatuses, OrderTerminal, ReadyOrLater

\* Each step of the walk of a delivery.
LEMMA Towards ==
    ASSUME NEW target \in Targets, NEW from \in OrderStatuses, OnTheWay(from, target)
    PROVE  \/ target = "FAILED" /\ StepTowards(from, target) = "FAILED"
           \/ /\ target # "FAILED" /\ from = "READY_FOR_PICKUP" /\ StepTowards(from, target) = "PICKED_UP"
           \/ /\ target # "FAILED" /\ from = "PICKED_UP" /\ StepTowards(from, target) = "DELIVERING"
           \/ /\ target = "DELIVERED" /\ from = "DELIVERING" /\ StepTowards(from, target) = "DELIVERED"
  <1>1. (CHOOSE t \in OrderStatuses : <<"READY_FOR_PICKUP", t>> \in DeliveryFlow) = "PICKED_UP"
    BY DEF OrderStatuses, DeliveryFlow
  <1>2. (CHOOSE t \in OrderStatuses : <<"PICKED_UP", t>> \in DeliveryFlow) = "DELIVERING"
    BY DEF OrderStatuses, DeliveryFlow
  <1>3. (CHOOSE t \in OrderStatuses : <<"DELIVERING", t>> \in DeliveryFlow) = "DELIVERED"
    BY DEF OrderStatuses, DeliveryFlow
  <1>. QED BY <1>1, <1>2, <1>3 DEF OnTheWay, Targets, OrderStatuses, StepTowards

\* What a step of FollowDelivery does to its order and its news.
LEMMA FollowMoves ==
    ASSUME IInv, NEW j \in Deliveries, NEW target \in Targets, NEW from \in OrderStatuses,
           FollowStep(j, target, from)
    PROVE  /\ delivery[j] \in Reached(target) /\ UNCHANGED <<linesOf, late, stockVars, deliveryVars,
                                                             inFlight, releasing, taps>>
           /\ \E o \in Orders :
                 /\ jobOf[o] = j /\ status[o] \in ReadyOrLater
                 /\ \/ status' = status /\ news' \subseteq news
                    \/ \E to \in ReadyOrLater \ {"READY_FOR_PICKUP"} :
                          /\ status' = [status EXCEPT ![o] = to]
                          /\ \/ target = "FAILED" /\ to = "FAILED"
                             \/ target = "DELIVERED" /\ to = "DELIVERED"
                             \/ target # "FAILED" /\ to \in {"PICKED_UP", "DELIVERING"}
                          /\ \/ news' \subseteq news
                             \/ news' \subseteq news \cup {<<j, target, to>>} /\ OnTheWay(to, target)
  <1>1. delivery[j] \in Reached(target) /\ OnTheWay(from, target)
    BY DEF FollowStep, IInv, NewsIsTrue
  <1>2. ASSUME NEW o \in OrderByJobID(j)
        PROVE  o \in Orders /\ jobOf[o] = j /\ status[o] \in ReadyOrLater
    <2>1. o \in Orders /\ jobOf[o] = j /\ j # None
      BY NoneAssumption DEF OrderByJobID
    <2>2. madeFor[j] = o /\ o # None
      BY <2>1, NoneAssumption DEF IInv, JobsAgree
    <2>. QED BY <2>1, <2>2 DEF IInv, OrdersAgree, DeliveriesAreOfReadyOrders, ReadyOrLater
  <1>. DEFINE to == StepTowards(from, target)
  <1>3. /\ to \in ReadyOrLater \ {"READY_FOR_PICKUP"}
        /\ \/ target = "FAILED" /\ to = "FAILED"
           \/ target = "DELIVERED" /\ to = "DELIVERED"
           \/ target # "FAILED" /\ to \in {"PICKED_UP", "DELIVERING"}
        /\ to # target => OnTheWay(to, target)
    BY <1>1, Towards DEF ReadyOrLater, OnTheWay, Targets
  <1>. HIDE DEF to
  <1>4. PICK o \in OrderByJobID(j) :
            \/ /\ Transition(o, from, to)
               /\ news' = IF to = target THEN news \ {<<j, target, from>>}
                          ELSE (news \ {<<j, target, from>>}) \cup {<<j, target, to>>}
            \/ /\ status' = status
               /\ news' = news \ {<<j, target, from>>}
    BY DEF FollowStep, to
  <1>5. CASE /\ Transition(o, from, to)
             /\ news' = IF to = target THEN news \ {<<j, target, from>>}
                        ELSE (news \ {<<j, target, from>>}) \cup {<<j, target, to>>}
    <2>1. status' = [status EXCEPT ![o] = to]
      BY <1>5 DEF Transition
    <2>2. \/ news' \subseteq news
          \/ news' \subseteq news \cup {<<j, target, to>>} /\ OnTheWay(to, target)
      BY <1>3, <1>5
    <2>. QED BY <1>1, <1>2, <1>3, <2>1, <2>2 DEF FollowStep
  <1>6. CASE status' = status /\ news' = news \ {<<j, target, from>>}
    BY <1>1, <1>2, <1>6 DEF FollowStep
  <1>. QED BY <1>4, <1>5, <1>6

\* Where the status of an order goes in one step.
Cancellable == {"CART", "PLACED", "PAYMENT_PENDING", "CONFIRMED"}

Moves(o) ==
    \/ status'[o] = status[o]
    \/ status[o] = "CART" /\ status'[o] = "PLACED"
    \/ status[o] \in Cancellable /\ status'[o] = "CANCELLED"
    \/ status[o] = "PLACED" /\ status'[o] = "CONFIRMED"
    \/ status[o] = "CONFIRMED" /\ status'[o] = "PREPARING"
    \/ status[o] = "PREPARING" /\ status'[o] = "READY_FOR_PICKUP"
    \/ status[o] \in ReadyOrLater /\ status'[o] \in ReadyOrLater

\* A step that moves one order.
LEMMA OneMoves ==
    ASSUME TypeOK, NEW o \in Orders, NEW to, status' = [status EXCEPT ![o] = to],
           \/ status[o] = "CART" /\ to = "PLACED"
           \/ status[o] \in Cancellable /\ to = "CANCELLED"
           \/ status[o] = "PLACED" /\ to = "CONFIRMED"
           \/ status[o] = "CONFIRMED" /\ to = "PREPARING"
           \/ status[o] = "PREPARING" /\ to = "READY_FOR_PICKUP"
           \/ status[o] \in ReadyOrLater /\ to \in ReadyOrLater
    PROVE  status' \in [Orders -> OrderStatuses] /\ \A q \in Orders : Moves(q)
  <1>1. status'[o] = to /\ \A q \in Orders : q # o => status'[q] = status[q]
    BY DEF TypeOK
  <1>2. Moves(o)
    BY <1>1 DEF Moves
  <1>3. \A q \in Orders : q # o => Moves(q)
    BY <1>1 DEF Moves
  <1>. QED BY <1>2, <1>3 DEF TypeOK, OrderStatuses, ReadyOrLater

LEMMA EveryMove ==
    ASSUME IInv, [Next]_vars
    PROVE  status' \in [Orders -> OrderStatuses] /\ \A o \in Orders : Moves(o)
  <1>. USE DEF orderVars, stockVars, deliveryVars, requestVars
  <1>0. TypeOK
    BY DEF IInv
  <1>1. CASE UNCHANGED status
    BY <1>0, <1>1 DEF TypeOK, Moves
  <1>2. ASSUME NEW o \in Orders, Place(o)
        PROVE  status' \in [Orders -> OrderStatuses] /\ \A q \in Orders : Moves(q)
    BY <1>0, <1>2, OneMoves DEF Place
  <1>3. ASSUME NEW o \in Orders, CancelByCustomer(o) \/ Reject(o)
        PROVE  status' \in [Orders -> OrderStatuses] /\ \A q \in Orders : Moves(q)
    <2>1. status[o] \in Cancellable /\ status' = [status EXCEPT ![o] = "CANCELLED"]
      BY <1>3 DEF CancelByCustomer, Reject, Transition, CustomerCancellable, MerchantCancellable, Cancellable
    <2>. QED BY <1>0, <2>1, OneMoves
  <1>4. ASSUME NEW o \in Orders, Accept(o)
        PROVE  status' \in [Orders -> OrderStatuses] /\ \A q \in Orders : Moves(q)
    BY <1>0, <1>4, OneMoves DEF Accept, Transition
  <1>5. ASSUME NEW o \in Orders, StartPreparing(o)
        PROVE  status' \in [Orders -> OrderStatuses] /\ \A q \in Orders : Moves(q)
    BY <1>0, <1>5, OneMoves DEF StartPreparing, Transition
  <1>6. ASSUME NEW t \in Taps, MoveToReady(t)
        PROVE  status' \in [Orders -> OrderStatuses] /\ \A q \in Orders : Moves(q)
    <2>1. taps[t].order \in Orders
      BY <1>6 DEF MoveToReady, IInv, TapsKnow
    <2>2. CASE Transition(taps[t].order, "PREPARING", "READY_FOR_PICKUP")
      BY <1>0, <2>1, <2>2, OneMoves DEF Transition
    <2>. QED BY <1>1, <1>6, <2>2 DEF MoveToReady
  <1>7. CASE ExpireOverdue
    <2>1. PICK due \in SUBSET {o \in late : status[o] = "PLACED"} :
              status' = [o \in Orders |-> IF o \in due THEN "CANCELLED" ELSE status[o]]
      BY <1>7 DEF ExpireOverdue
    <2>. QED BY <1>0, <2>1 DEF TypeOK, Moves, Cancellable, OrderStatuses
  <1>8. ASSUME NEW j \in Deliveries, NEW target \in Targets, NEW from \in OrderStatuses,
               FollowStep(j, target, from)
        PROVE  status' \in [Orders -> OrderStatuses] /\ \A q \in Orders : Moves(q)
    <2>1. PICK o \in Orders :
              /\ status[o] \in ReadyOrLater
              /\ \/ status' = status
                 \/ \E to \in ReadyOrLater : status' = [status EXCEPT ![o] = to]
      BY <1>8, FollowMoves
    <2>. QED BY <1>0, <1>1, <2>1, OneMoves
  <1>. QED BY <1>1, <1>2, <1>3, <1>4, <1>5, <1>6, <1>7, <1>8 DEF Next, vars, Customer, Merchant,
       Sweeper, Job, Failure, ReadCart, AddItem, MarkReady, ConsumeStock, CreateDelivery, AttachJob,
       DeadlinePasses, ReleaseStock, JobStarts, JobCompletes, JobCancelled, JobMoves, JobExpires,
       Follow, ReadNews, LoseAdd, LoseRelease, LoseTap, LoseNews

-----------------------------------------------------------------------------
(* What is typed stays typed *)

TapRows == [step : TapSteps, order : Orders \cup {None}, job : Deliveries \cup {None}]

LEMMA TapType ==
    ASSUME TypeOK, NEW t \in Taps, NEW r \in TapRows, taps' = [taps EXCEPT ![t] = r]
    PROVE  /\ taps' \in [Taps -> TapRows]
           /\ taps'[t] = r /\ \A x \in Taps : x # t => taps'[x] = taps[x]
  BY DEF TypeOK, TapRows

LEMMA TypedOrders ==
    ASSUME IInv, [Next]_vars
    PROVE  linesOf' \in [Orders -> SUBSET Lines] /\ late' \subseteq Orders
           /\ inFlight' \subseteq Orders \X Lines /\ releasing' \subseteq Orders
  <1>. USE DEF orderVars, stockVars, deliveryVars, requestVars
  <1>1. /\ linesOf \in [Orders -> SUBSET Lines] /\ late \subseteq Orders
        /\ inFlight \subseteq Orders \X Lines /\ releasing \subseteq Orders
    BY DEF IInv, TypeOK
  <1>2. CASE UNCHANGED <<linesOf, late, inFlight, releasing>>
    BY <1>1, <1>2
  <1>3. ASSUME NEW o \in Orders, NEW l \in Lines, ReadCart(o, l) \/ AddItem(o, l) \/ LoseAdd(o, l)
        PROVE  linesOf' \in [Orders -> SUBSET Lines] /\ late' \subseteq Orders
               /\ inFlight' \subseteq Orders \X Lines /\ releasing' \subseteq Orders
    BY <1>1, <1>3 DEF ReadCart, AddItem, LoseAdd
  <1>4. ASSUME NEW o \in Orders,
               \/ CancelByCustomer(o) \/ Reject(o) \/ DeadlinePasses(o)
               \/ ReleaseStock(o) \/ LoseRelease(o)
        PROVE  linesOf' \in [Orders -> SUBSET Lines] /\ late' \subseteq Orders
               /\ inFlight' \subseteq Orders \X Lines /\ releasing' \subseteq Orders
    BY <1>1, <1>4 DEF CancelByCustomer, Reject, DeadlinePasses, ReleaseStock, LoseRelease
  <1>5. CASE ExpireOverdue
    BY <1>1, <1>5 DEF ExpireOverdue
  <1>6. ASSUME NEW j \in Deliveries, NEW target \in Targets, NEW from \in OrderStatuses,
               FollowStep(j, target, from)
        PROVE  UNCHANGED <<linesOf, late, inFlight, releasing>>
    BY <1>6, FollowMoves
  <1>. QED BY <1>2, <1>3, <1>4, <1>5, <1>6 DEF Next, vars, Customer, Merchant, Sweeper, Job, Failure,
       Place, Accept, StartPreparing, MoveToReady, MarkReady, ConsumeStock, CreateDelivery, AttachJob,
       JobStarts, JobCompletes, JobCancelled, JobMoves, JobExpires, Follow, ReadNews, LoseTap, LoseNews

\* What happens to the stock of an order, and when.
LEMMA StockMoves ==
    ASSUME IInv, [Next]_vars
    PROVE  /\ stock' \in [Orders -> {"NONE", "RESERVED", "RELEASED", "CONSUMED"}]
           /\ held' \in [Products -> Nat] /\ onShelf' \in [Products -> Nat]
           /\ StockNeverOversold'
           /\ \A o \in Orders :
                 \/ stock'[o] = stock[o]
                 \/ stock'[o] = "RESERVED" /\ status'[o] = "PLACED"
                 \/ stock[o] = "RESERVED" /\ stock'[o] = "CONSUMED" /\ status[o] \in ReadyOrLater
                 \/ stock[o] = "RESERVED" /\ stock'[o] = "RELEASED" /\ status[o] = "CANCELLED"
  <1>. USE DEF orderVars, stockVars, deliveryVars, requestVars
  <1>. DEFINE Fine == /\ stock' \in [Orders -> {"NONE", "RESERVED", "RELEASED", "CONSUMED"}]
                      /\ held' \in [Products -> Nat] /\ onShelf' \in [Products -> Nat]
                      /\ StockNeverOversold'
                      /\ \A o \in Orders :
                            \/ stock'[o] = stock[o]
                            \/ stock'[o] = "RESERVED" /\ status'[o] = "PLACED"
                            \/ stock[o] = "RESERVED" /\ stock'[o] = "CONSUMED" /\ status[o] \in ReadyOrLater
                            \/ stock[o] = "RESERVED" /\ stock'[o] = "RELEASED" /\ status[o] = "CANCELLED"
  <1>0. TypeOK /\ StockNeverOversold
    BY DEF IInv
  <1>1. CASE UNCHANGED stockVars
    BY <1>0, <1>1 DEF TypeOK, StockNeverOversold
  <1>2. ASSUME NEW o \in Orders, Place(o)
        PROVE  Fine
    <2>1. held' \in [Products -> Nat] /\ StockNeverOversold'
      BY <1>0, <1>2, ReserveSound DEF Place
    <2>2. stock' = [stock EXCEPT ![o] = "RESERVED"] /\ onShelf' = onShelf /\ status'[o] = "PLACED"
      BY <1>0, <1>2 DEF Place, ReserveOrderStock, TypeOK
    <2>. QED BY <1>0, <2>1, <2>2 DEF TypeOK
  <1>3. ASSUME NEW t \in Taps, ConsumeStock(t)
        PROVE  Fine
    <2>1. /\ taps[t].order \in Orders /\ status[taps[t].order] \in ReadyOrLater
          /\ SettleStock(taps[t].order, "CONSUMED")
      BY <1>3 DEF ConsumeStock, IInv, TapsKnow
    <2>. QED BY <1>0, <2>1, SettleSound
  <1>4. ASSUME NEW o \in Orders, ReleaseStock(o)
        PROVE  Fine
    <2>1. status[o] = "CANCELLED" /\ SettleStock(o, "RELEASED")
      BY <1>4 DEF ReleaseStock, IInv, ReleasesAreOfCancelled
    <2>. QED BY <1>0, <2>1, SettleSound
  <1>5. ASSUME NEW j \in Deliveries, NEW target \in Targets, NEW from \in OrderStatuses,
               FollowStep(j, target, from)
        PROVE  UNCHANGED stockVars
    BY <1>5, FollowMoves
  <1>. QED BY <1>1, <1>2, <1>3, <1>4, <1>5 DEF Next, vars, Customer, Merchant, Sweeper, Job, Failure,
       ReadCart, AddItem, CancelByCustomer, Accept, Reject, StartPreparing, MoveToReady, MarkReady,
       CreateDelivery, AttachJob, ExpireOverdue, DeadlinePasses, JobStarts, JobCompletes, JobCancelled,
       JobMoves, JobExpires, Follow, ReadNews, LoseAdd, LoseRelease, LoseTap, LoseNews

-----------------------------------------------------------------------------
(* Jobs, the requests that make them, and their news *)

\* A job is made once, for an order that is ready, attached once, and goes on.
JobGoesOn(j) ==
    \/ delivery'[j] = delivery[j]
    \/ delivery[j] = "none" /\ delivery'[j] = "REQUESTED"
    \/ delivery[j] = "REQUESTED" /\ delivery'[j] \in {"IN_PROGRESS", "COMPLETED", "CANCELLED", "EXPIRED"}
    \/ delivery[j] = "IN_PROGRESS" /\ delivery'[j] = "COMPLETED"

Linked ==
    /\ \A j \in Deliveries :
          \/ madeFor'[j] = madeFor[j]
          \/ /\ madeFor[j] = None /\ madeFor'[j] \in Orders
             /\ status[madeFor'[j]] \in ReadyOrLater /\ status' = status
    /\ \A o \in Orders :
          \/ jobOf'[o] = jobOf[o]
          \/ jobOf[o] = None /\ status' = status /\ delivery' = delivery
    /\ \A j \in Deliveries : JobGoesOn(j)

DeliveryTyped ==
    /\ jobOf \in [Orders -> Deliveries \cup {None}]
    /\ delivery \in [Deliveries -> JobStates]
    /\ madeFor \in [Deliveries -> Orders \cup {None}]

LEMMA DeliveryMoves ==
    ASSUME IInv, [Next]_vars
    PROVE  DeliveryTyped' /\ JobsAgree' /\ Linked
  <1>. USE DEF orderVars, stockVars, deliveryVars, requestVars
  <1>0. DeliveryTyped /\ JobsAgree /\ TypeOK
    BY DEF IInv, TypeOK, DeliveryTyped
  <1>1. CASE UNCHANGED deliveryVars
    BY <1>0, <1>1 DEF DeliveryTyped, JobsAgree, Linked, JobGoesOn
  <1>2. ASSUME NEW t \in Taps, CreateDelivery(t)
        PROVE  DeliveryTyped' /\ JobsAgree' /\ Linked
    <2>. DEFINE o == taps[t].order
    <2>1. o \in Orders /\ status[o] \in ReadyOrLater /\ o # None
      BY <1>2, NoneAssumption DEF CreateDelivery, IInv, TapsKnow
    <2>2. PICK j \in Deliveries :
              /\ madeFor[j] = None
              /\ madeFor' = [madeFor EXCEPT ![j] = o]
              /\ delivery' = [delivery EXCEPT ![j] = "REQUESTED"]
      BY <1>2 DEF CreateDelivery
    <2>3. jobOf' = jobOf /\ status' = status
      BY <1>2 DEF CreateDelivery
    <2>. HIDE DEF o
    <2>4. /\ madeFor'[j] = o /\ delivery'[j] = "REQUESTED" /\ delivery[j] = "none"
          /\ \A i \in Deliveries : i # j => madeFor'[i] = madeFor[i] /\ delivery'[i] = delivery[i]
      BY <1>0, <2>2 DEF DeliveryTyped, JobsAgree
    <2>5. DeliveryTyped'
      BY <1>0, <2>1, <2>2, <2>3 DEF DeliveryTyped, JobStates
    <2>6. JobsAgree'
      <3>1. \A i \in Deliveries : delivery'[i] = "none" <=> madeFor'[i] = None
        BY <1>0, <2>1, <2>4 DEF JobsAgree
      <3>2. ASSUME NEW q \in Orders, jobOf'[q] # None
            PROVE  madeFor'[jobOf'[q]] = q
        <4>1. jobOf[q] \in Deliveries /\ madeFor[jobOf[q]] = q /\ q # None
          BY <1>0, <2>3, <3>2, NoneAssumption DEF DeliveryTyped, JobsAgree
        <4>2. jobOf[q] # j
          BY <2>2, <4>1
        <4>. QED BY <2>3, <2>4, <4>1, <4>2
      <3>. QED BY <3>1, <3>2 DEF JobsAgree
    <2>7. Linked
      BY <2>1, <2>2, <2>3, <2>4 DEF Linked, JobGoesOn
    <2>. QED BY <2>5, <2>6, <2>7
  <1>3. ASSUME NEW t \in Taps, AttachJob(t)
        PROVE  DeliveryTyped' /\ JobsAgree' /\ Linked
    <2>1. /\ taps[t].order \in Orders /\ taps[t].job \in Deliveries
          /\ madeFor[taps[t].job] = taps[t].order
          /\ UNCHANGED <<delivery, madeFor, status>>
      BY <1>3 DEF AttachJob, IInv, TapsKnow
    <2>2. CASE jobOf' = jobOf
      BY <1>1, <2>1, <2>2
    <2>3. CASE jobOf[taps[t].order] = None /\ jobOf' = [jobOf EXCEPT ![taps[t].order] = taps[t].job]
      BY <1>0, <2>1, <2>3 DEF DeliveryTyped, JobsAgree, Linked, JobGoesOn
    <2>. QED BY <1>3, <2>2, <2>3 DEF AttachJob
  <1>4. ASSUME NEW j \in Deliveries,
               JobStarts(j) \/ JobCompletes(j) \/ JobCancelled(j) \/ JobExpires(j)
        PROVE  DeliveryTyped' /\ JobsAgree' /\ Linked
    <2>1. PICK to \in {"IN_PROGRESS", "COMPLETED", "CANCELLED", "EXPIRED"} :
              /\ delivery' = [delivery EXCEPT ![j] = to]
              /\ \/ delivery[j] = "REQUESTED"
                 \/ delivery[j] = "IN_PROGRESS" /\ to = "COMPLETED"
              /\ UNCHANGED <<jobOf, madeFor, status>>
      BY <1>4 DEF JobStarts, JobCompletes, JobCancelled, JobMoves, JobExpires
    <2>2. delivery'[j] = to /\ \A i \in Deliveries : i # j => delivery'[i] = delivery[i]
      BY <1>0, <2>1 DEF DeliveryTyped
    <2>3. DeliveryTyped'
      BY <1>0, <2>1 DEF DeliveryTyped, JobStates
    <2>4. JobsAgree'
      BY <1>0, <2>1, <2>2 DEF JobsAgree
    <2>5. Linked
      BY <2>1, <2>2 DEF Linked, JobGoesOn
    <2>. QED BY <2>3, <2>4, <2>5
  <1>5. ASSUME NEW j \in Deliveries, NEW target \in Targets, NEW from \in OrderStatuses,
               FollowStep(j, target, from)
        PROVE  UNCHANGED deliveryVars
    BY <1>5, FollowMoves
  <1>. QED BY <1>1, <1>2, <1>3, <1>4, <1>5 DEF Next, vars, Customer, Merchant, Sweeper, Job, Failure,
       ReadCart, AddItem, Place, CancelByCustomer, Accept, Reject, StartPreparing, MarkReady, MoveToReady,
       ConsumeStock, ExpireOverdue, DeadlinePasses, ReleaseStock, Follow, ReadNews, LoseAdd, LoseRelease,
       LoseTap, LoseNews

\* What a request of the shop knows goes on being so.
TapKnows(t) ==
    /\ taps[t].step # "idle" => taps[t].order \in Orders
    /\ taps[t].step \in {"consume", "create", "attach"} => status[taps[t].order] \in ReadyOrLater
    /\ taps[t].step = "attach" =>
          taps[t].job \in Deliveries /\ madeFor[taps[t].job] = taps[t].order

LEMMA TapFrame ==
    ASSUME IInv, [Next]_vars, NEW t \in Taps, taps'[t] = taps[t]
    PROVE  TapKnows(t)'
  <1>1. \A o \in Orders : status[o] \in ReadyOrLater => status'[o] \in ReadyOrLater
    BY EveryMove DEF Moves, ReadyOrLater, Cancellable
  <1>2. \A j \in Deliveries : madeFor[j] # None => madeFor'[j] = madeFor[j]
    BY DeliveryMoves DEF Linked
  <1>3. \A o \in Orders : o # None
    BY NoneAssumption
  <1>4. TapKnows(t)
    BY DEF IInv, TapsKnow, TapKnows
  <1>. QED BY <1>1, <1>2, <1>3, <1>4 DEF TapKnows

LEMMA TapsKept ==
    ASSUME IInv, [Next]_vars
    PROVE  taps' \in [Taps -> TapRows] /\ TapsKnow'
  <1>. USE DEF orderVars, stockVars, deliveryVars, requestVars
  <1>0. TypeOK
    BY DEF IInv
  <1>1. CASE UNCHANGED taps
    BY <1>0, <1>1, TapFrame DEF TypeOK, TapRows, TapsKnow, TapKnows
  <1>2. ASSUME NEW t \in Taps, NEW r \in TapRows, taps' = [taps EXCEPT ![t] = r],
               taps'[t] = r => TapKnows(t)'
        PROVE  taps' \in [Taps -> TapRows] /\ TapsKnow'
    <2>1. /\ taps' \in [Taps -> TapRows]
          /\ taps'[t] = r /\ \A x \in Taps : x # t => taps'[x] = taps[x]
      BY <1>0, <1>2, TapType
    <2>2. \A x \in Taps : TapKnows(x)'
      BY <1>2, <2>1, TapFrame
    <2>. QED BY <2>1, <2>2 DEF TapsKnow, TapKnows
  <1>3. /\ Idle \in TapRows
        /\ \A o \in Orders : /\ Tap("ready", o, None) \in TapRows
                             /\ Tap("consume", o, None) \in TapRows
                             /\ Tap("create", o, None) \in TapRows
                             /\ \A j \in Deliveries : Tap("attach", o, j) \in TapRows
    BY DEF Idle, Tap, TapRows, TapSteps
  <1>4. ASSUME NEW t \in Taps, taps' = [taps EXCEPT ![t] = Idle]
        PROVE  taps' \in [Taps -> TapRows] /\ TapsKnow'
    <2>1. taps'[t] = Idle => TapKnows(t)'
      BY DEF TapKnows, Idle, Tap
    <2>. QED BY <1>2, <1>3, <1>4, <2>1
  <1>5. ASSUME NEW t \in Taps, NEW o \in Orders, MarkReady(t, o)
        PROVE  taps' \in [Taps -> TapRows] /\ TapsKnow'
    <2>1. CASE taps' = [taps EXCEPT ![t] = Tap("ready", o, None)]
      <3>1. taps'[t] = Tap("ready", o, None) => TapKnows(t)'
        BY DEF TapKnows, Tap
      <3>. QED BY <1>2, <1>3, <2>1, <3>1
    <2>2. CASE status[o] = "READY_FOR_PICKUP" /\ taps' = [taps EXCEPT ![t] = Tap("create", o, None)]
      <3>1. taps'[t] = Tap("create", o, None) => TapKnows(t)'
        BY <1>5, <2>2 DEF MarkReady, TapKnows, Tap, ReadyOrLater
      <3>. QED BY <1>2, <1>3, <2>2, <3>1
    <2>. QED BY <1>5, <2>1, <2>2 DEF MarkReady
  <1>6. ASSUME NEW t \in Taps, MoveToReady(t)
        PROVE  taps' \in [Taps -> TapRows] /\ TapsKnow'
    <2>. DEFINE o == taps[t].order
    <2>1. o \in Orders
      BY <1>6 DEF MoveToReady, IInv, TapsKnow
    <2>2. CASE /\ Transition(o, "PREPARING", "READY_FOR_PICKUP")
               /\ taps' = [taps EXCEPT ![t] = Tap("consume", o, None)]
      <3>1. status'[o] = "READY_FOR_PICKUP"
        BY <1>0, <2>1, <2>2 DEF Transition, TypeOK
      <3>. HIDE DEF o
      <3>2. taps'[t] = Tap("consume", o, None) => TapKnows(t)'
        BY <2>1, <3>1 DEF TapKnows, Tap, ReadyOrLater
      <3>. QED BY <1>2, <1>3, <2>1, <2>2, <3>2
    <2>. QED BY <1>4, <1>6, <2>2 DEF MoveToReady
  <1>7. ASSUME NEW t \in Taps, ConsumeStock(t)
        PROVE  taps' \in [Taps -> TapRows] /\ TapsKnow'
    <2>. DEFINE o == taps[t].order
    <2>1. /\ o \in Orders /\ status[o] \in ReadyOrLater /\ status' = status
          /\ taps' = [taps EXCEPT ![t] = Tap("create", o, None)]
      BY <1>7 DEF ConsumeStock, IInv, TapsKnow
    <2>. HIDE DEF o
    <2>2. taps'[t] = Tap("create", o, None) => TapKnows(t)'
      BY <2>1 DEF TapKnows, Tap
    <2>. QED BY <1>2, <1>3, <2>1, <2>2
  <1>8. ASSUME NEW t \in Taps, CreateDelivery(t)
        PROVE  taps' \in [Taps -> TapRows] /\ TapsKnow'
    <2>. DEFINE o == taps[t].order
    <2>1. o \in Orders /\ status[o] \in ReadyOrLater /\ status' = status
      BY <1>8 DEF CreateDelivery, IInv, TapsKnow
    <2>2. PICK j \in Deliveries :
              /\ madeFor' = [madeFor EXCEPT ![j] = o]
              /\ taps' = [taps EXCEPT ![t] = Tap("attach", o, j)]
      BY <1>8 DEF CreateDelivery
    <2>3. madeFor'[j] = o
      BY <1>0, <2>2 DEF TypeOK
    <2>. HIDE DEF o
    <2>4. taps'[t] = Tap("attach", o, j) => TapKnows(t)'
      BY <2>1, <2>3 DEF TapKnows, Tap
    <2>. QED BY <1>2, <1>3, <2>1, <2>2, <2>4
  <1>9. ASSUME NEW j \in Deliveries, NEW target \in Targets, NEW from \in OrderStatuses,
               FollowStep(j, target, from)
        PROVE  UNCHANGED taps
    BY <1>9, FollowMoves
  <1>. QED BY <1>1, <1>4, <1>5, <1>6, <1>7, <1>8, <1>9 DEF Next, vars, Customer, Merchant, Sweeper, Job,
       Failure, ReadCart, AddItem, Place, CancelByCustomer, Accept, Reject, StartPreparing, AttachJob,
       ExpireOverdue, DeadlinePasses, ReleaseStock, JobStarts, JobCompletes, JobCancelled, JobMoves,
       JobExpires, Follow, ReadNews, LoseAdd, LoseRelease, LoseTap, LoseNews

NewsRows == Deliveries \X Targets \X (OrderStatuses \cup {"unread"})

LEMMA NewsKept ==
    ASSUME IInv, [Next]_vars
    PROVE  news' \subseteq NewsRows /\ NewsIsTrue'
  <1>. USE DEF orderVars, stockVars, deliveryVars, requestVars
  <1>0. TypeOK /\ news \subseteq NewsRows
    BY DEF IInv, TypeOK, NewsRows, Targets
  <1>1. ASSUME NEW j \in Deliveries, NEW target \in Targets, delivery[j] \in Reached(target)
        PROVE  delivery'[j] \in Reached(target)
    <2>1. JobGoesOn(j)
      BY DeliveryMoves DEF Linked
    <2>. QED BY <1>1, <2>1 DEF JobGoesOn, Reached, Targets
  <1>2. CASE news' \subseteq news
    BY <1>0, <1>1, <1>2 DEF IInv, NewsIsTrue
  <1>3. ASSUME NEW j \in Deliveries, NEW target \in Targets,
               NEW from \in OrderStatuses \cup {"unread"},
               news' \subseteq news \cup {<<j, target, from>>},
               delivery'[j] \in Reached(target), OnTheWay(from, target)
        PROVE  news' \subseteq NewsRows /\ NewsIsTrue'
    <2>1. news' \subseteq NewsRows
      BY <1>0, <1>3 DEF NewsRows
    <2>2. ASSUME NEW i \in Deliveries, NEW aim \in Targets, NEW f \in OrderStatuses \cup {"unread"},
                 <<i, aim, f>> \in news'
          PROVE  delivery'[i] \in Reached(aim) /\ OnTheWay(f, aim)
      <3>1. CASE <<i, aim, f>> \in news
        BY <1>1, <3>1 DEF IInv, NewsIsTrue
      <3>2. CASE i = j /\ aim = target /\ f = from
        BY <1>3, <3>2
      <3>. QED BY <1>3, <2>2, <3>1, <3>2
    <2>. QED BY <2>1, <2>2 DEF NewsIsTrue
  <1>4. ASSUME NEW j \in Deliveries, JobStarts(j) \/ JobCompletes(j) \/ JobCancelled(j)
        PROVE  news' \subseteq NewsRows /\ NewsIsTrue'
    <2>1. PICK target \in Targets :
              /\ news' = news \cup {<<j, target, "unread">>}
              /\ \/ target = "DELIVERING" /\ delivery' = [delivery EXCEPT ![j] = "IN_PROGRESS"]
                 \/ target = "DELIVERED" /\ delivery' = [delivery EXCEPT ![j] = "COMPLETED"]
                 \/ target = "FAILED" /\ delivery' = [delivery EXCEPT ![j] = "CANCELLED"]
      BY <1>4 DEF JobStarts, JobCompletes, JobCancelled, JobMoves, Targets
    <2>2. delivery'[j] \in Reached(target)
      BY <1>0, <2>1 DEF Reached, TypeOK
    <2>. QED BY <1>3, <2>1, <2>2 DEF OnTheWay
  <1>5. ASSUME NEW j \in Deliveries, NEW target \in Targets, ReadNews(j, target)
        PROVE  news' \subseteq NewsRows /\ NewsIsTrue'
    <2>. DEFINE linked == OrderByJobID(j)
    <2>1. CASE news' = news \ {<<j, target, "unread">>}
      BY <1>2, <2>1
    <2>2. ASSUME NEW o \in linked, Behind(status[o], target),
                 news' = (news \ {<<j, target, "unread">>}) \cup {<<j, target, status[q]>> : q \in linked}
          PROVE  news' \subseteq NewsRows /\ NewsIsTrue'
      <3>1. \A q \in linked : q \in Orders /\ jobOf[q] = j /\ j # None
        BY NoneAssumption DEF OrderByJobID
      <3>2. linked = {o}
        BY <3>1 DEF IInv, JobsAgree
      <3>3. news' \subseteq news \cup {<<j, target, status[o]>>}
        BY <2>2, <3>2
      <3>4. status[o] \in OrderStatuses /\ OnTheWay(status[o], target)
        BY <1>0, <2>2, <3>1 DEF TypeOK, Behind, OnTheWay
      <3>5. delivery'[j] \in Reached(target)
        <4>1. <<j, target, "unread">> \in news
          BY <1>5 DEF ReadNews
        <4>. QED BY <1>1, <4>1 DEF IInv, NewsIsTrue
      <3>. QED BY <1>3, <3>3, <3>4, <3>5
    <2>. QED BY <1>5, <2>1, <2>2 DEF ReadNews
  <1>6. ASSUME NEW j \in Deliveries, NEW target \in Targets, NEW from \in OrderStatuses,
               FollowStep(j, target, from)
        PROVE  news' \subseteq NewsRows /\ NewsIsTrue'
    <2>1. /\ delivery[j] \in Reached(target)
          /\ \/ news' \subseteq news
             \/ \E to \in ReadyOrLater :
                   news' \subseteq news \cup {<<j, target, to>>} /\ OnTheWay(to, target)
      BY <1>6, FollowMoves
    <2>2. ReadyOrLater \subseteq OrderStatuses
      BY DEF ReadyOrLater, OrderStatuses
    <2>. QED BY <1>1, <1>2, <1>3, <2>1, <2>2
  <1>. QED BY <1>2, <1>4, <1>5, <1>6 DEF Next, vars, Customer, Merchant, Sweeper, Job, Failure, ReadCart,
       AddItem, Place, CancelByCustomer, Accept, Reject, StartPreparing, MarkReady, MoveToReady,
       ConsumeStock, CreateDelivery, AttachJob, ExpireOverdue, DeadlinePasses, ReleaseStock, JobExpires,
       Follow, LoseAdd, LoseRelease, LoseTap, LoseNews

-----------------------------------------------------------------------------
(* The order, its stock and its job *)

LEMMA TypeKept ==
    ASSUME IInv, [Next]_vars
    PROVE  TypeOK'
  BY EveryMove, TypedOrders, StockMoves, DeliveryMoves, TapsKept, NewsKept
     DEF TypeOK, DeliveryTyped, TapRows, NewsRows, Targets

LEMMA ReleasesKept ==
    ASSUME IInv, [Next]_vars
    PROVE  ReleasesAreOfCancelled'
  <1>. USE DEF orderVars, stockVars, deliveryVars, requestVars
  <1>1. ASSUME NEW o \in releasing PROVE status'[o] = "CANCELLED"
    BY EveryMove DEF IInv, TypeOK, ReleasesAreOfCancelled, Moves, Cancellable, ReadyOrLater
  <1>2. CASE releasing' \subseteq releasing
    BY <1>1, <1>2 DEF ReleasesAreOfCancelled
  <1>3. ASSUME NEW o \in Orders, CancelByCustomer(o) \/ Reject(o)
        PROVE  ReleasesAreOfCancelled'
    <2>1. releasing' = releasing \cup {o} /\ status'[o] = "CANCELLED"
      BY <1>3 DEF CancelByCustomer, Reject, Transition, IInv, TypeOK
    <2>. QED BY <1>1, <2>1 DEF ReleasesAreOfCancelled
  <1>4. CASE ExpireOverdue
    <2>1. PICK due \in SUBSET {o \in late : status[o] = "PLACED"} :
              /\ status' = [o \in Orders |-> IF o \in due THEN "CANCELLED" ELSE status[o]]
              /\ releasing' = releasing \cup due
      BY <1>4 DEF ExpireOverdue
    <2>2. \A o \in due : status'[o] = "CANCELLED"
      BY <2>1 DEF IInv, TypeOK
    <2>. QED BY <1>1, <2>1, <2>2 DEF ReleasesAreOfCancelled
  <1>5. ASSUME NEW j \in Deliveries, NEW target \in Targets, NEW from \in OrderStatuses,
               FollowStep(j, target, from)
        PROVE  releasing' = releasing
    BY <1>5, FollowMoves
  <1>. QED BY <1>2, <1>3, <1>4, <1>5 DEF Next, vars, Customer, Merchant, Sweeper, Job, Failure, ReadCart,
       AddItem, Place, Accept, StartPreparing, MarkReady, MoveToReady, ConsumeStock, CreateDelivery,
       AttachJob, DeadlinePasses, ReleaseStock, JobStarts, JobCompletes, JobCancelled, JobMoves,
       JobExpires, Follow, ReadNews, LoseAdd, LoseRelease, LoseTap, LoseNews

LEMMA StockMatches ==
    ASSUME IInv, [Next]_vars
    PROVE  StockMatchesOrder'
  <1>. SUFFICES ASSUME NEW o \in Orders
                PROVE  /\ status'[o] = "CART" => stock'[o] = "NONE"
                       /\ stock'[o] = "CONSUMED" => status'[o] \in ReadyOrLater
                       /\ stock'[o] = "RELEASED" => status'[o] = "CANCELLED"
    BY DEF StockMatchesOrder, ReadyOrLater
  <1>1. /\ status[o] = "CART" => stock[o] = "NONE"
        /\ stock[o] = "CONSUMED" => status[o] \in ReadyOrLater
        /\ stock[o] = "RELEASED" => status[o] = "CANCELLED"
    BY DEF IInv, OrdersAgree, StockMatchesOrder, ReadyOrLater
  <1>2. /\ status[o] \in ReadyOrLater => status'[o] \in ReadyOrLater
        /\ status[o] = "CANCELLED" => status'[o] = "CANCELLED"
        /\ status'[o] = "CART" => status[o] = "CART"
    BY EveryMove DEF Moves, ReadyOrLater, Cancellable
  <1>3. \/ stock'[o] = stock[o]
        \/ stock'[o] = "RESERVED" /\ status'[o] = "PLACED"
        \/ stock[o] = "RESERVED" /\ stock'[o] = "CONSUMED" /\ status[o] \in ReadyOrLater
        \/ stock[o] = "RESERVED" /\ stock'[o] = "RELEASED" /\ status[o] = "CANCELLED"
    BY StockMoves
  <1>. QED BY <1>1, <1>2, <1>3 DEF ReadyOrLater

LEMMA DeliveriesReady ==
    ASSUME IInv, [Next]_vars
    PROVE  DeliveriesAreOfReadyOrders'
  <1>. SUFFICES ASSUME NEW j \in Deliveries, madeFor'[j] # None
                PROVE  status'[madeFor'[j]] \in ReadyOrLater
    BY DEF DeliveriesAreOfReadyOrders, ReadyOrLater
  <1>1. CASE madeFor'[j] = madeFor[j]
    <2>1. madeFor[j] \in Orders /\ status[madeFor[j]] \in ReadyOrLater
      BY <1>1 DEF IInv, TypeOK, OrdersAgree, DeliveriesAreOfReadyOrders, ReadyOrLater
    <2>2. Moves(madeFor[j])
      BY <2>1, EveryMove
    <2>. QED BY <1>1, <2>1, <2>2 DEF Moves, ReadyOrLater, Cancellable
  <1>2. CASE madeFor'[j] # madeFor[j]
    BY <1>2, DeliveryMoves DEF Linked
  <1>. QED BY <1>1, <1>2

\* Only following a job brings an order to a status past READY_FOR_PICKUP.
LEMMA AheadByFollowing ==
    ASSUME IInv, [Next]_vars, NEW o \in Orders, status'[o] # status[o],
           status'[o] \in ReadyOrLater \ {"READY_FOR_PICKUP"}
    PROVE  /\ jobOf[o] \in Deliveries /\ jobOf' = jobOf /\ delivery' = delivery
           /\ status'[o] \in {"PICKED_UP", "DELIVERING"} => delivery[jobOf[o]] \in {"IN_PROGRESS", "COMPLETED"}
           /\ status'[o] = "DELIVERED" => delivery[jobOf[o]] = "COMPLETED"
           /\ status'[o] = "FAILED" => delivery[jobOf[o]] = "CANCELLED"
  <1>. USE DEF orderVars, stockVars, deliveryVars, requestVars
  <1>1. PICK j \in Deliveries, target \in Targets, from \in OrderStatuses : FollowStep(j, target, from)
    <2>1. ASSUME NEW q \in Orders, NEW to, status' = [status EXCEPT ![q] = to],
                 to \notin ReadyOrLater \ {"READY_FOR_PICKUP"}
          PROVE  FALSE
      BY <2>1 DEF IInv, TypeOK
    <2>2. ~(\E q \in Orders : Place(q) \/ CancelByCustomer(q) \/ Accept(q) \/ Reject(q) \/ StartPreparing(q))
      BY <2>1 DEF Place, CancelByCustomer, Accept, Reject, StartPreparing, Transition, ReadyOrLater
    <2>3. ASSUME NEW t \in Taps, MoveToReady(t)
          PROVE  FALSE
      <3>1. taps[t].order \in Orders
        BY <2>3 DEF MoveToReady, IInv, TapsKnow
      <3>. QED BY <2>1, <2>3, <3>1 DEF MoveToReady, Transition, ReadyOrLater
    <2>4. ~ExpireOverdue
      BY DEF ExpireOverdue, ReadyOrLater
    <2>. QED BY <2>2, <2>3, <2>4 DEF Next, vars, Customer, Merchant, Sweeper, Job, Failure, ReadCart,
         AddItem, MarkReady, ConsumeStock, CreateDelivery, AttachJob, DeadlinePasses, ReleaseStock,
         JobStarts, JobCompletes, JobCancelled, JobMoves, JobExpires, Follow, ReadNews, LoseAdd,
         LoseRelease, LoseTap, LoseNews
  <1>2. delivery[j] \in Reached(target) /\ jobOf' = jobOf /\ delivery' = delivery
    BY <1>1, FollowMoves
  <1>3. PICK q \in Orders, to \in ReadyOrLater :
            /\ jobOf[q] = j /\ status' = [status EXCEPT ![q] = to]
            /\ \/ target = "FAILED" /\ to = "FAILED"
               \/ target = "DELIVERED" /\ to = "DELIVERED"
               \/ target # "FAILED" /\ to \in {"PICKED_UP", "DELIVERING"}
    BY <1>1, FollowMoves
  <1>4. q = o /\ status'[o] = to
    BY <1>3 DEF IInv, TypeOK
  <1>. QED BY <1>2, <1>3, <1>4 DEF Reached, Targets

LEMMA NeverAhead ==
    ASSUME IInv, [Next]_vars
    PROVE  OrderNeverAheadOfDelivery'
  <1>. DEFINE job(o) == IF jobOf[o] = None THEN "none" ELSE delivery[jobOf[o]]
              jobNext(o) == IF jobOf'[o] = None THEN "none" ELSE delivery'[jobOf'[o]]
  <1>. SUFFICES ASSUME NEW o \in Orders
                PROVE  /\ status'[o] \in {"PICKED_UP", "DELIVERING"} => jobNext(o) \in {"IN_PROGRESS", "COMPLETED"}
                       /\ status'[o] = "DELIVERED" => jobNext(o) = "COMPLETED"
                       /\ status'[o] = "FAILED" => jobNext(o) = "CANCELLED"
    BY DEF OrderNeverAheadOfDelivery
  <1>1. /\ status[o] \in {"PICKED_UP", "DELIVERING"} => job(o) \in {"IN_PROGRESS", "COMPLETED"}
        /\ status[o] = "DELIVERED" => job(o) = "COMPLETED"
        /\ status[o] = "FAILED" => job(o) = "CANCELLED"
    BY DEF IInv, OrdersAgree, OrderNeverAheadOfDelivery
  <1>2. CASE status'[o] = status[o]
    <2>1. CASE jobOf[o] = None
      BY <1>1, <1>2, <2>1
    <2>2. CASE jobOf[o] # None
      <3>1. jobOf[o] \in Deliveries /\ jobOf'[o] = jobOf[o]
        BY <2>2, DeliveryMoves DEF Linked, IInv, TypeOK
      <3>2. JobGoesOn(jobOf[o])
        BY <3>1, DeliveryMoves DEF Linked
      <3>. QED BY <1>1, <1>2, <2>2, <3>1, <3>2 DEF JobGoesOn
    <2>. QED BY <2>1, <2>2
  <1>3. CASE status'[o] # status[o] /\ status'[o] \in ReadyOrLater \ {"READY_FOR_PICKUP"}
    BY <1>3, AheadByFollowing, NoneAssumption DEF IInv, TypeOK
  <1>. QED BY <1>2, <1>3 DEF ReadyOrLater

-----------------------------------------------------------------------------
(* Theorems *)

LEMMA InitIInv == Init => IInv
  <1>. SUFFICES ASSUME Init PROVE IInv
    OBVIOUS
  <1>1. TypeOK /\ StockNeverOversold
    BY LinesAssumption DEF Init, TypeOK, OrderStatuses, JobStates, Idle, Tap, TapSteps, StockNeverOversold
  <1>2. TapsKnow
    BY DEF Init, TapsKnow, Idle, Tap
  <1>3. JobsAgree /\ NewsIsTrue /\ ReleasesAreOfCancelled
    BY DEF Init, JobsAgree, NewsIsTrue, ReleasesAreOfCancelled
  <1>4. OrdersAgree
    BY DEF Init, OrdersAgree, StockMatchesOrder, DeliveriesAreOfReadyOrders, OrderNeverAheadOfDelivery
  <1>. QED BY <1>1, <1>2, <1>3, <1>4 DEF IInv

LEMMA StepKept ==
    ASSUME IInv, [Next]_vars
    PROVE  IInv'
  BY TypeKept, TapsKept, DeliveryMoves, NewsKept, ReleasesKept, StockMatches, DeliveriesReady,
     NeverAhead, StockMoves DEF IInv, OrdersAgree

LEMMA Inductive == Spec => []IInv
  BY InitIInv, StepKept, PTL DEF Spec

\* Rows, requests and news stay what the code declares them to be; no count of
\* the inventory goes below nothing.
THEOREM TypeCorrect == Spec => []TypeOK
  <1>1. IInv => TypeOK
    BY DEF IInv
  <1>. QED BY <1>1, Inductive, PTL

\* An order, its stock and its delivery job are never at odds (settleOrderStock,
\* MarkReady, FollowDelivery), whatever overlaps and whatever is lost.
THEOREM OrdersStayInStep == Spec => []OrdersAgree
  <1>1. IInv => OrdersAgree
    BY DEF IInv
  <1>. QED BY <1>1, Inductive, PTL

\* The last bag of rice is promised once (reserveOrderStock), also when lines
\* reach an order after it was placed.
THEOREM NothingIsOversold == Spec => []StockNeverOversold
  <1>1. IInv => StockNeverOversold
    BY DEF IInv
  <1>. QED BY <1>1, Inductive, PTL

\* Nobody cancels an order that is being picked or later (Cancel, Reject,
\* ExpireOverdue).
THEOREM PickingIsFinal == Spec => PickedOrdersAreNotCancelled
  <1>1. IInv /\ [Next]_vars =>
          [\A o \in Orders :
              status[o] \notin {"CART", "PLACED", "PAYMENT_PENDING", "CONFIRMED"}
              => status'[o] = status[o] \/ status'[o] # "CANCELLED"]_vars
    BY EveryMove DEF Moves, Cancellable, ReadyOrLater
  <1>. QED BY <1>1, Inductive, PTL DEF Spec, PickedOrdersAreNotCancelled

-----------------------------------------------------------------------------
(* Stock is accounted for *)

\* Lines reach a cart, not an order that was placed while they were on the way.
LinesArriveInTime == \A x \in inFlight : status[x[1]] = "CART"

InState(st) == {o \in Orders : stock[o] = st}

\* Quantity of product p in a set of orders, and the same by lines of any value.
SumQty(lo, S, p) == MapThenSumSet(LAMBDA o : QtyIn(lo[o], p), S)
Wanted(lo, p)    == [o \in Orders |-> QtyIn(lo[o], p)]

LEMMA SumIsTotal ==
    ASSUME NEW lo, NEW p, NEW S \in SUBSET Orders, IsFiniteSet(S)
    PROVE  SumQty(lo, S, p) = TotalOf(Wanted(lo, p), S)
  <1>. DEFINE eq(g) == g = [s \in SUBSET S |-> IF s = {} THEN 0
                            ELSE LET x == CHOOSE x \in s : TRUE
                                 IN QtyIn(lo[x], p) + g[s \ {x}]]
              iter == CHOOSE g : eq(g)
              f == Wanted(lo, p)
  <1>1. \A s \in SUBSET S : s # {} => Choice(s) \in s /\ f[Choice(s)] = QtyIn(lo[Choice(s)], p)
    BY DEF Choice, Wanted
  <1>2. ASSUME NEW g
        PROVE  eq(g) <=> SumsUp(f, S, g)
    <2>. DEFINE L == [s \in SUBSET S |-> IF s = {} THEN 0 ELSE QtyIn(lo[Choice(s)], p) + g[s \ {Choice(s)}]]
                R == [s \in SUBSET S |-> IF s = {} THEN 0 ELSE f[Choice(s)] + g[s \ {Choice(s)}]]
    <2>1. L = R
      <3>. HIDE DEF f
      <3>. QED BY <1>1
    <2>2. eq(g) <=> g = L
      BY DEF Choice
    <2>3. SumsUp(f, S, g) <=> g = R
      BY DEF SumsUp
    <2>. HIDE DEF L, R, eq
    <2>. QED BY <2>1, <2>2, <2>3
  <1>. HIDE DEF f
  <1>3. \E g : eq(g)
    <2>. HIDE DEF eq
    <2>1. SumsUp(f, S, CHOOSE g : SumsUp(f, S, g))
      BY TotalIsSum
    <2>. QED BY <1>2, <2>1
  <1>4. eq(iter)
    <2>. HIDE DEF eq
    <2>. QED BY <1>3
  <1>5. iter[S] = TotalOf(f, S)
    <2>. HIDE DEF eq, iter
    <2>. QED BY <1>2, <1>4, TotalIsSum
  <1>6. SumQty(lo, S, p) = iter[S]
    BY DEF SumQty, MapThenSumSet, MapThenFoldSet
  <1>. QED BY <1>5, <1>6 DEF f

\* One order more, and the same orders.
LEMMA SumGains ==
    ASSUME NEW lo, NEW p, NEW S \in SUBSET Orders, IsFiniteSet(S), NEW o \in Orders \ S,
           \A q \in S \cup {o} : QtyIn(lo[q], p) \in Nat
    PROVE  /\ IsFiniteSet(S \cup {o})
           /\ SumQty(lo, S, p) \in Nat
           /\ SumQty(lo, S \cup {o}, p) = SumQty(lo, S, p) + QtyIn(lo[o], p)
  <1>. DEFINE f == Wanted(lo, p)
              T == S \cup {o}
  <1>1. IsFiniteSet(T) /\ T \ {o} = S /\ T \in SUBSET Orders /\ o \in T /\ S \in SUBSET T
    BY FS_AddElement
  <1>2. (\A q \in T : f[q] \in Nat) /\ f[o] = QtyIn(lo[o], p)
    BY <1>1 DEF Wanted
  <1>. HIDE DEF f, T
  <1>3. TotalOf(f, S) \in Nat
    BY <1>1, <1>2, TotalType
  <1>4. T \in SUBSET T
    OBVIOUS
  <1>5. TotalOf(f, T) = f[o] + TotalOf(f, T \ {o})
    BY <1>1, <1>2, <1>4, TotalWithout
  <1>6. SumQty(lo, S, p) = TotalOf(f, S) /\ SumQty(lo, T, p) = TotalOf(f, T)
    BY <1>1, SumIsTotal DEF f
  <1>7. SumQty(lo, T, p) = SumQty(lo, S, p) + QtyIn(lo[o], p)
    BY <1>1, <1>2, <1>3, <1>5, <1>6
  <1>. QED BY <1>1, <1>3, <1>6, <1>7 DEF T

LEMMA SumOfSame ==
    ASSUME NEW lo, NEW ln, NEW p, NEW S \in SUBSET Orders, IsFiniteSet(S),
           \A q \in S : lo[q] = ln[q]
    PROVE  SumQty(lo, S, p) = SumQty(ln, S, p)
  <1>1. \A q \in S : Wanted(lo, p)[q] = Wanted(ln, p)[q]
    BY DEF Wanted
  <1>2. TotalOf(Wanted(lo, p), S) = TotalOf(Wanted(ln, p), S)
    BY <1>1, TotalOfSame
  <1>. QED BY <1>2, SumIsTotal

\* What is accounted for, of orders whose lines are of different products.
Accounted ==
    /\ StockIsAccounted
    /\ IsFiniteSet(InState("RESERVED")) /\ IsFiniteSet(InState("CONSUMED"))
    /\ \A o \in Orders : stock[o] \in {"RESERVED", "CONSUMED"} => linesOf[o] \in Joined(o)

LEMMA JoinedIsAll ==
    ASSUME NEW o, linesOf[o] \in Joined(o)
    PROVE  Joined(o) = {linesOf[o]}
  BY DEF Joined

\* The sums of the two states as sums over the lines of now and of then.
LEMMA Sums ==
    ASSUME NEW p
    PROVE  /\ QtyOfOrders("RESERVED", p) = SumQty(linesOf, InState("RESERVED"), p)
           /\ QtyOfOrders("CONSUMED", p) = SumQty(linesOf, InState("CONSUMED"), p)
           /\ QtyOfOrders("RESERVED", p)' = SumQty(linesOf', InState("RESERVED")', p)
           /\ QtyOfOrders("CONSUMED", p)' = SumQty(linesOf', InState("CONSUMED")', p)
  <1>1. /\ QtyOfOrders("RESERVED", p) = SumQty(linesOf, InState("RESERVED"), p)
        /\ QtyOfOrders("CONSUMED", p) = SumQty(linesOf, InState("CONSUMED"), p)
    BY Zenon DEF QtyOfOrders, SumQty, InState, MapThenSumSet, MapThenFoldSet
  <1>2. QtyOfOrders("RESERVED", p)' = SumQty(linesOf', InState("RESERVED")', p)
    BY Zenon DEF QtyOfOrders, SumQty, InState, MapThenSumSet, MapThenFoldSet
  <1>3. QtyOfOrders("CONSUMED", p)' = SumQty(linesOf', InState("CONSUMED")', p)
    BY Zenon DEF QtyOfOrders, SumQty, InState, MapThenSumSet, MapThenFoldSet
  <1>. QED BY <1>1, <1>2, <1>3

\* Lines are of orders nothing is held for when they arrive.
LEMMA LinesStay ==
    ASSUME IInv, [Next]_vars, LinesArriveInTime
    PROVE  \A o \in Orders : stock[o] # "NONE" => linesOf'[o] = linesOf[o]
  <1>. USE DEF orderVars, stockVars, deliveryVars, requestVars
  <1>1. CASE UNCHANGED linesOf
    BY <1>1
  <1>2. ASSUME NEW o \in Orders, NEW l \in Lines, AddItem(o, l)
        PROVE  \A q \in Orders : stock[q] # "NONE" => linesOf'[q] = linesOf[q]
    <2>1. status[o] = "CART" /\ linesOf' = [linesOf EXCEPT ![o] = linesOf[o] \cup {l}]
      BY <1>2 DEF AddItem, LinesArriveInTime
    <2>2. stock[o] = "NONE"
      BY <2>1 DEF IInv, OrdersAgree, StockMatchesOrder
    <2>. QED BY <2>1, <2>2 DEF IInv, TypeOK
  <1>3. ASSUME NEW j \in Deliveries, NEW target \in Targets, NEW from \in OrderStatuses,
               FollowStep(j, target, from)
        PROVE  UNCHANGED linesOf
    BY <1>3, FollowMoves
  <1>. QED BY <1>1, <1>2, <1>3 DEF Next, vars, Customer, Merchant, Sweeper, Job, Failure, ReadCart,
       Place, CancelByCustomer, Accept, Reject, StartPreparing, MoveToReady, MarkReady, ConsumeStock,
       CreateDelivery, AttachJob, ExpireOverdue, DeadlinePasses, ReleaseStock, JobStarts, JobCompletes,
       JobCancelled, JobMoves, JobExpires, Follow, ReadNews, LoseAdd, LoseRelease, LoseTap, LoseNews

LEMMA SameStockAccounted ==
    ASSUME IInv, [Next]_vars, LinesArriveInTime, Accounted, UNCHANGED stockVars
    PROVE  Accounted'
  <1>1. /\ InState("RESERVED")' = InState("RESERVED") /\ InState("CONSUMED")' = InState("CONSUMED")
        /\ held' = held /\ onShelf' = onShelf /\ stock' = stock
    BY DEF stockVars, InState
  <1>2. \A o \in InState("RESERVED") \cup InState("CONSUMED") : linesOf[o] = linesOf'[o]
    BY LinesStay DEF InState
  <1>3. ASSUME NEW p \in Products
        PROVE  /\ held'[p] = QtyOfOrders("RESERVED", p)'
               /\ Shelf[p] = onShelf'[p] + QtyOfOrders("CONSUMED", p)'
    <2>1. /\ SumQty(linesOf, InState("RESERVED"), p) = SumQty(linesOf', InState("RESERVED"), p)
          /\ SumQty(linesOf, InState("CONSUMED"), p) = SumQty(linesOf', InState("CONSUMED"), p)
      <3>1. IsFiniteSet(InState("RESERVED")) /\ IsFiniteSet(InState("CONSUMED"))
        BY DEF Accounted
      <3>2. InState("RESERVED") \in SUBSET Orders /\ InState("CONSUMED") \in SUBSET Orders
        BY DEF InState
      <3>3. /\ \A o \in InState("RESERVED") : linesOf[o] = linesOf'[o]
            /\ \A o \in InState("CONSUMED") : linesOf[o] = linesOf'[o]
        BY <1>2
      <3>. QED BY <3>1, <3>2, <3>3, SumOfSame
    <2>2. held[p] = QtyOfOrders("RESERVED", p) /\ Shelf[p] = onShelf[p] + QtyOfOrders("CONSUMED", p)
      BY DEF Accounted, StockIsAccounted
    <2>. QED BY <1>1, <2>1, <2>2, Sums
  <1>4. ASSUME NEW o \in Orders, stock'[o] \in {"RESERVED", "CONSUMED"}
        PROVE  (linesOf[o] \in Joined(o))'
    BY <1>1, <1>2, <1>4 DEF Accounted, Joined, InState
  <1>5. IsFiniteSet(InState("RESERVED")') /\ IsFiniteSet(InState("CONSUMED")')
    BY <1>1 DEF Accounted
  <1>. QED BY <1>3, <1>4, <1>5 DEF Accounted, StockIsAccounted

\* The quantities an order whose lines are of different products holds.
LEMMA QuantitiesTyped ==
    ASSUME TypeOK, NEW o \in Orders, linesOf[o] \in Joined(o)
    PROVE  \A p \in Products : QtyIn(linesOf[o], p) \in Nat
  BY JoinedQuantity

LEMMA PlaceAccounted ==
    ASSUME IInv, Accounted, NEW o \in Orders, Place(o)
    PROVE  Accounted'
  <1>. DEFINE R == InState("RESERVED")
              C == InState("CONSUMED")
  <1>0. /\ linesOf' = linesOf /\ onShelf' = onShelf /\ stock' = [stock EXCEPT ![o] = "RESERVED"]
        /\ held' = [p \in Products |-> held[p] + QtyIn(linesOf[o], p)]
        /\ stock[o] = "NONE" /\ linesOf[o] \in Joined(o) /\ TypeOK
    BY DEF Place, ReserveOrderStock, IInv, OrdersAgree, StockMatchesOrder
  <1>1. InState("RESERVED")' = R \cup {o} /\ InState("CONSUMED")' = C
    BY <1>0 DEF InState, TypeOK
  <1>2. /\ IsFiniteSet(R) /\ IsFiniteSet(C) /\ R \in SUBSET Orders /\ o \in Orders \ R
    BY <1>0 DEF Accounted, InState
  <1>3. \A q \in R \cup {o} : \A p \in Products : QtyIn(linesOf[q], p) \in Nat
    BY <1>0, QuantitiesTyped DEF Accounted, InState
  <1>. HIDE DEF R, C
  <1>4. ASSUME NEW p \in Products
        PROVE  /\ held'[p] = QtyOfOrders("RESERVED", p)'
               /\ Shelf[p] = onShelf'[p] + QtyOfOrders("CONSUMED", p)'
    <2>1. /\ SumQty(linesOf, R \cup {o}, p) = SumQty(linesOf, R, p) + QtyIn(linesOf[o], p)
      BY <1>2, <1>3, SumGains
    <2>2. held[p] = QtyOfOrders("RESERVED", p) /\ Shelf[p] = onShelf[p] + QtyOfOrders("CONSUMED", p)
      BY DEF Accounted, StockIsAccounted
    <2>3. /\ QtyOfOrders("RESERVED", p) = SumQty(linesOf, R, p)
          /\ QtyOfOrders("CONSUMED", p) = SumQty(linesOf, C, p)
          /\ QtyOfOrders("RESERVED", p)' = SumQty(linesOf, R \cup {o}, p)
          /\ QtyOfOrders("CONSUMED", p)' = SumQty(linesOf, C, p)
      BY <1>0, <1>1, Sums DEF R, C
    <2>4. held'[p] = held[p] + QtyIn(linesOf[o], p)
      BY <1>0
    <2>. QED BY <1>0, <2>1, <2>2, <2>3, <2>4
  <1>5. ASSUME NEW q \in Orders, stock'[q] \in {"RESERVED", "CONSUMED"}
        PROVE  (linesOf[q] \in Joined(q))'
    <2>1. linesOf[q] \in Joined(q)
      BY <1>0, <1>5 DEF Accounted, TypeOK
    <2>. QED BY <1>0, <2>1 DEF Joined
  <1>6. IsFiniteSet(R \cup {o})
    BY <1>2, FS_AddElement
  <1>. QED BY <1>1, <1>2, <1>4, <1>5, <1>6 DEF Accounted, StockIsAccounted

LEMMA SettleAccounted ==
    ASSUME IInv, Accounted, NEW o \in Orders, NEW to \in {"RELEASED", "CONSUMED"},
           SettleStock(o, to), stock[o] = "RESERVED", linesOf' = linesOf
    PROVE  Accounted'
  <1>. DEFINE R == InState("RESERVED") \ {o}
              C == InState("CONSUMED")
              Cn == IF to = "CONSUMED" THEN C \cup {o} ELSE C
              q(p) == QtyIn(linesOf[o], p)
  <1>0. TypeOK /\ linesOf[o] \in Joined(o) /\ StockNeverOversold
    BY DEF Accounted, IInv
  <1>1. /\ stock' = [stock EXCEPT ![o] = to]
        /\ held' = [p \in Products |-> Less(held[p], q(p))]
        /\ onShelf' = IF to = "CONSUMED" THEN [p \in Products |-> Less(onShelf[p], q(p))] ELSE onShelf
    <2>1. Joined(o) = {linesOf[o]}
      BY <1>0, JoinedIsAll
    <2>. QED BY <2>1 DEF SettleStock
  <1>2. InState("RESERVED")' = R /\ InState("CONSUMED")' = Cn /\ InState("RESERVED") = R \cup {o}
    BY <1>0, <1>1 DEF InState, TypeOK
  <1>3. /\ IsFiniteSet(R) /\ IsFiniteSet(C) /\ R \in SUBSET Orders /\ o \in Orders \ R
        /\ C \in SUBSET Orders /\ o \in Orders \ C
    <2>1. IsFiniteSet(InState("RESERVED")) /\ IsFiniteSet(C)
      BY DEF Accounted
    <2>. QED BY <2>1, FS_Subset DEF InState
  <1>4. \A r \in R \cup C \cup {o} : \A p \in Products : QtyIn(linesOf[r], p) \in Nat
    BY <1>0, QuantitiesTyped DEF Accounted, InState
  <1>5. ASSUME NEW p \in Products
        PROVE  /\ held'[p] = QtyOfOrders("RESERVED", p)'
               /\ Shelf[p] = onShelf'[p] + QtyOfOrders("CONSUMED", p)'
    <2>1. /\ QtyOfOrders("RESERVED", p) = SumQty(linesOf, R \cup {o}, p)
          /\ QtyOfOrders("CONSUMED", p) = SumQty(linesOf, C, p)
          /\ QtyOfOrders("RESERVED", p)' = SumQty(linesOf, R, p)
          /\ QtyOfOrders("CONSUMED", p)' = SumQty(linesOf, Cn, p)
      <3>. HIDE DEF R, Cn
      <3>. QED BY <1>2, Sums
    <2>2. held[p] = QtyOfOrders("RESERVED", p) /\ Shelf[p] = onShelf[p] + QtyOfOrders("CONSUMED", p)
      BY DEF Accounted, StockIsAccounted
    <2>3. /\ SumQty(linesOf, R \cup {o}, p) = SumQty(linesOf, R, p) + q(p)
          /\ SumQty(linesOf, R, p) \in Nat
      <3>. HIDE DEF R
      <3>. QED BY <1>3, <1>4, SumGains
    <2>4. SumQty(linesOf, C \cup {o}, p) = SumQty(linesOf, C, p) + q(p) /\ SumQty(linesOf, C, p) \in Nat
      <3>. HIDE DEF C
      <3>. QED BY <1>3, <1>4, SumGains
    <2>5. /\ q(p) \in Nat /\ held[p] \in Nat /\ onShelf[p] \in Nat /\ held[p] <= onShelf[p]
          /\ Shelf[p] \in Nat
      BY <1>0, <1>4, LinesAssumption DEF TypeOK, StockNeverOversold
    <2>6. /\ held'[p] = Less(held[p], q(p))
          /\ onShelf'[p] = IF to = "CONSUMED" THEN Less(onShelf[p], q(p)) ELSE onShelf[p]
      BY <1>1
    <2>. DEFINE r == SumQty(linesOf, R, p)
                c == SumQty(linesOf, C, p)
                k == q(p)
    <2>7. held[p] = r + k /\ r \in Nat /\ k \in Nat /\ c \in Nat
      BY <2>1, <2>2, <2>3, <2>4, <2>5
    <2>8. /\ QtyOfOrders("RESERVED", p)' = r
          /\ QtyOfOrders("CONSUMED", p)' = IF to = "CONSUMED" THEN c + k ELSE c
          /\ Shelf[p] = onShelf[p] + c
      BY <2>1, <2>2, <2>4
    <2>. HIDE DEF r, c, k
    <2>9. held'[p] = Less(held[p], k) /\ onShelf'[p] = IF to = "CONSUMED" THEN Less(onShelf[p], k) ELSE onShelf[p]
      BY <2>6 DEF k
    <2>10. Less(held[p], k) = r /\ Less(onShelf[p], k) = onShelf[p] - k
      BY <2>5, <2>7 DEF Less
    <2>. QED BY <2>5, <2>7, <2>8, <2>9, <2>10
  <1>6. ASSUME NEW r \in Orders, stock'[r] \in {"RESERVED", "CONSUMED"}
        PROVE  (linesOf[r] \in Joined(r))'
    <2>1. linesOf[r] \in Joined(r)
      BY <1>0, <1>1, <1>6 DEF Accounted, TypeOK
    <2>. QED BY <2>1 DEF Joined
  <1>7. IsFiniteSet(R) /\ IsFiniteSet(Cn)
    BY <1>3, FS_AddElement
  <1>. QED BY <1>2, <1>5, <1>6, <1>7 DEF Accounted, StockIsAccounted

LEMMA AccountsKept ==
    ASSUME IInv, Accounted, LinesArriveInTime, [Next]_vars
    PROVE  Accounted'
  <1>. USE DEF orderVars, stockVars, deliveryVars, requestVars
  <1>1. CASE UNCHANGED stockVars
    BY <1>1, SameStockAccounted
  <1>2. ASSUME NEW o \in Orders, Place(o)
        PROVE  Accounted'
    BY <1>2, PlaceAccounted
  <1>3. ASSUME NEW o \in Orders, NEW to \in {"RELEASED", "CONSUMED"}, SettleStock(o, to),
               linesOf' = linesOf
        PROVE  Accounted'
    BY <1>1, <1>3, SettleAccounted DEF SettleStock
  <1>4. ASSUME NEW t \in Taps, ConsumeStock(t)
        PROVE  Accounted'
    BY <1>3, <1>4 DEF ConsumeStock, IInv, TapsKnow
  <1>5. ASSUME NEW o \in Orders, ReleaseStock(o)
        PROVE  Accounted'
    BY <1>3, <1>5 DEF ReleaseStock
  <1>6. ASSUME NEW j \in Deliveries, NEW target \in Targets, NEW from \in OrderStatuses,
               FollowStep(j, target, from)
        PROVE  UNCHANGED stockVars
    BY <1>6, FollowMoves
  <1>. QED BY <1>1, <1>2, <1>4, <1>5, <1>6 DEF Next, vars, Customer, Merchant, Sweeper, Job, Failure,
       ReadCart, AddItem, CancelByCustomer, Accept, Reject, StartPreparing, MoveToReady, MarkReady,
       CreateDelivery, AttachJob, ExpireOverdue, DeadlinePasses, JobStarts, JobCompletes, JobCancelled,
       JobMoves, JobExpires, Follow, ReadNews, LoseAdd, LoseRelease, LoseTap, LoseNews

\* At the start nothing is held, nothing is gone, and the shelf is full.
LEMMA InitAccounted == Init => Accounted
  <1>. SUFFICES ASSUME Init PROVE Accounted
    OBVIOUS
  <1>1. InState("RESERVED") = {} /\ InState("CONSUMED") = {}
    BY DEF Init, InState
  <1>2. IsFiniteSet({}) /\ {} \in SUBSET Orders
    BY FS_EmptySet
  <1>3. ASSUME NEW p \in Products
        PROVE  held[p] = QtyOfOrders("RESERVED", p) /\ Shelf[p] = onShelf[p] + QtyOfOrders("CONSUMED", p)
    <2>1. TotalOf(Wanted(linesOf, p), {}) = 0
      BY TotalOfNone
    <2>2. SumQty(linesOf, {}, p) = 0
      BY <1>2, <2>1, SumIsTotal
    <2>3. held[p] = 0 /\ onShelf[p] = Shelf[p] /\ Shelf[p] \in Nat
      BY LinesAssumption DEF Init
    <2>. QED BY <1>1, <2>2, <2>3, Sums
  <1>4. \A o \in Orders : stock[o] = "NONE"
    BY DEF Init
  <1>. QED BY <1>1, <1>2, <1>3, <1>4 DEF Accounted, StockIsAccounted

\* No bag of rice is promised twice, given back twice, or lost between the
\* inventory and the orders (reserveOrderStock, settleOrderStock), as long as
\* no line reaches an order after it was placed (Store.AddItem).
THEOREM StockStaysSound == Spec /\ []LinesArriveInTime => []StockIsSound
  <1>1. IInv /\ Accounted /\ LinesArriveInTime /\ [Next]_vars => Accounted'
    BY AccountsKept
  <1>2. IInv /\ Accounted => StockIsSound
    BY DEF IInv, Accounted, StockIsSound
  <1>. QED BY <1>1, <1>2, InitAccounted, Inductive, PTL DEF Spec

-----------------------------------------------------------------------------
(* Sums of prices *)

\* What lines cost at a price each.
Worth(price) == [l \in Lines |-> price[l] * QtyOf[l]]

LEMMA CostIsTotal ==
    ASSUME NEW price, NEW S \in SUBSET Lines, IsFiniteSet(S)
    PROVE  MapThenSumSet(LAMBDA l : price[l] * QtyOf[l], S) = TotalOf(Worth(price), S)
  <1>. DEFINE eq(g) == g = [s \in SUBSET S |-> IF s = {} THEN 0
                            ELSE LET x == CHOOSE x \in s : TRUE
                                 IN price[x] * QtyOf[x] + g[s \ {x}]]
              iter == CHOOSE g : eq(g)
              f == Worth(price)
  <1>1. \A s \in SUBSET S : s # {} =>
            Choice(s) \in s /\ f[Choice(s)] = price[Choice(s)] * QtyOf[Choice(s)]
    BY DEF Choice, Worth
  <1>2. ASSUME NEW g
        PROVE  eq(g) <=> SumsUp(f, S, g)
    <2>. DEFINE L == [s \in SUBSET S |-> IF s = {} THEN 0
                      ELSE price[Choice(s)] * QtyOf[Choice(s)] + g[s \ {Choice(s)}]]
                R == [s \in SUBSET S |-> IF s = {} THEN 0 ELSE f[Choice(s)] + g[s \ {Choice(s)}]]
    <2>1. L = R
      <3>. HIDE DEF f
      <3>. QED BY <1>1
    <2>2. eq(g) <=> g = L
      BY DEF Choice
    <2>3. SumsUp(f, S, g) <=> g = R
      BY DEF SumsUp
    <2>. HIDE DEF L, R, eq
    <2>. QED BY <2>1, <2>2, <2>3
  <1>. HIDE DEF f
  <1>3. \E g : eq(g)
    <2>. HIDE DEF eq
    <2>1. SumsUp(f, S, CHOOSE g : SumsUp(f, S, g))
      BY TotalIsSum
    <2>. QED BY <1>2, <2>1
  <1>4. eq(iter)
    <2>. HIDE DEF eq
    <2>. QED BY <1>3
  <1>5. iter[S] = TotalOf(f, S)
    <2>. HIDE DEF eq, iter
    <2>. QED BY <1>2, <1>4, TotalIsSum
  <1>6. MapThenSumSet(LAMBDA l : price[l] * QtyOf[l], S) = iter[S]
    BY DEF MapThenSumSet, MapThenFoldSet
  <1>. QED BY <1>5, <1>6 DEF f

\* The unit prices of lines by the issues iss, as a function.
UnitPrices(iss) == [l \in Lines |-> UnitPrice(l, iss)]

LEMMA PricesAreTotal ==
    ASSUME NEW iss, NEW S \in SUBSET Lines, IsFiniteSet(S)
    PROVE  MapThenSumSet(LAMBDA l : UnitPrice(l, iss) * QtyOf[l], S) = TotalOf(Worth(UnitPrices(iss)), S)
  <1>. DEFINE eq(g) == g = [s \in SUBSET S |-> IF s = {} THEN 0
                            ELSE LET x == CHOOSE x \in s : TRUE
                                 IN UnitPrice(x, iss) * QtyOf[x] + g[s \ {x}]]
              iter == CHOOSE g : eq(g)
              f == Worth(UnitPrices(iss))
  <1>1. \A s \in SUBSET S : s # {} =>
            Choice(s) \in s /\ f[Choice(s)] = UnitPrice(Choice(s), iss) * QtyOf[Choice(s)]
    BY DEF Choice, Worth, UnitPrices
  <1>2. ASSUME NEW g
        PROVE  eq(g) <=> SumsUp(f, S, g)
    <2>. DEFINE L == [s \in SUBSET S |-> IF s = {} THEN 0
                      ELSE UnitPrice(Choice(s), iss) * QtyOf[Choice(s)] + g[s \ {Choice(s)}]]
                R == [s \in SUBSET S |-> IF s = {} THEN 0 ELSE f[Choice(s)] + g[s \ {Choice(s)}]]
    <2>1. L = R
      <3>. HIDE DEF f
      <3>. QED BY <1>1
    <2>2. eq(g) <=> g = L
      BY DEF Choice
    <2>3. SumsUp(f, S, g) <=> g = R
      BY DEF SumsUp
    <2>. HIDE DEF L, R, eq
    <2>. QED BY <2>1, <2>2, <2>3
  <1>. HIDE DEF f
  <1>3. \E g : eq(g)
    <2>. HIDE DEF eq
    <2>1. SumsUp(f, S, CHOOSE g : SumsUp(f, S, g))
      BY TotalIsSum
    <2>. QED BY <1>2, <2>1
  <1>4. eq(iter)
    <2>. HIDE DEF eq
    <2>. QED BY <1>3
  <1>5. iter[S] = TotalOf(f, S)
    <2>. HIDE DEF eq, iter
    <2>. QED BY <1>2, <1>4, TotalIsSum
  <1>6. MapThenSumSet(LAMBDA l : UnitPrice(l, iss) * QtyOf[l], S) = iter[S]
    BY DEF MapThenSumSet, MapThenFoldSet
  <1>. QED BY <1>5, <1>6 DEF f

\* n is a sum over the lines of S at prices the sets of cons allow.
Agreed(cons, S, n) ==
    \E price \in [S -> Nat] :
        (\A l \in S : price[l] \in cons[l]) /\ n = TotalOf(Worth(price), S)

LEMMA AgreedType ==
    ASSUME NEW cons, NEW S \in SUBSET Lines, IsFiniteSet(S), NEW n, Agreed(cons, S, n)
    PROVE  n \in Nat
  <1>1. PICK price \in [S -> Nat] : n = TotalOf(Worth(price), S)
    BY DEF Agreed
  <1>2. \A l \in S : Worth(price)[l] \in Nat
    BY LinesAssumption DEF Worth
  <1>3. S \in SUBSET S
    OBVIOUS
  <1>. QED BY <1>1, <1>2, <1>3, TotalType

\* It stays one when more is allowed, and when lines join that cost nothing.
LEMMA AgreedGrows ==
    ASSUME NEW cons, NEW more, NEW S, NEW T \in SUBSET Lines, S \subseteq T, IsFiniteSet(T),
           \A l \in T : cons[l] \subseteq more[l] /\ 0 \in more[l],
           NEW n, Agreed(cons, S, n)
    PROVE  Agreed(more, T, n)
  <1>1. PICK price \in [S -> Nat] :
            (\A l \in S : price[l] \in cons[l]) /\ n = TotalOf(Worth(price), S)
    BY DEF Agreed
  <1>. DEFINE wide == [l \in T |-> IF l \in S THEN price[l] ELSE 0]
  <1>2. wide \in [T -> Nat] /\ \A l \in T : wide[l] \in more[l]
    BY <1>1
  <1>3. /\ \A l \in T : Worth(wide)[l] \in Nat
        /\ \A l \in T \ S : Worth(wide)[l] = 0
        /\ \A l \in S : Worth(wide)[l] = Worth(price)[l]
    BY LinesAssumption DEF Worth
  <1>. HIDE DEF wide
  <1>4. TotalOf(Worth(wide), T) = TotalOf(Worth(wide), S)
    BY <1>3, ZerosAddNothing
  <1>5. TotalOf(Worth(wide), S) = TotalOf(Worth(price), S)
    <2>1. IsFiniteSet(S)
      BY FS_Subset
    <2>. QED BY <1>3, <2>1, TotalOfSame
  <1>. QED BY <1>1, <1>2, <1>4, <1>5 DEF Agreed

\* What recomputeTotal sums is one if every unit price is allowed.
LEMMA SumIsAgreed ==
    ASSUME NEW S \in SUBSET Lines, IsFiniteSet(S), NEW st, NEW iss, NEW cons,
           \A l \in S : UnitPrice(l, iss) \in Nat /\ UnitPrice(l, iss) \in cons[l] /\ 0 \in cons[l]
    PROVE  Agreed(cons, S, SumOf(S, st, iss))
  <1>. DEFINE T == {l \in S : st[l] # "REMOVED"}
              price == [l \in T |-> UnitPrice(l, iss)]
  <1>1. T \in SUBSET S /\ T \in SUBSET Lines /\ IsFiniteSet(T)
    BY FS_Subset
  <1>2. price \in [T -> Nat] /\ \A l \in T : price[l] \in cons[l]
    OBVIOUS
  <1>3. SumOf(S, st, iss) = TotalOf(Worth(UnitPrices(iss)), T)
    <2>1. SumOf(S, st, iss) = MapThenSumSet(LAMBDA l : UnitPrice(l, iss) * QtyOf[l], T)
      BY Zenon DEF SumOf, MapThenSumSet, MapThenFoldSet
    <2>. HIDE DEF T
    <2>. QED BY <1>1, <2>1, PricesAreTotal
  <1>4. TotalOf(Worth(UnitPrices(iss)), T) = TotalOf(Worth(price), T)
    <2>1. \A l \in T : Worth(UnitPrices(iss))[l] = Worth(price)[l]
      BY DEF Worth, UnitPrices
    <2>. HIDE DEF T, price
    <2>. QED BY <1>1, <2>1, TotalOfSame
  <1>5. Agreed(cons, T, SumOf(S, st, iss))
    <2>. HIDE DEF T, price
    <2>. QED BY <1>2, <1>3, <1>4 DEF Agreed
  <1>. HIDE DEF T, price
  <1>6. \A l \in S : cons[l] \subseteq cons[l] /\ 0 \in cons[l]
    OBVIOUS
  <1>. QED BY <1>1, <1>5, <1>6, AgreedGrows

-----------------------------------------------------------------------------
(* Issues *)

IssueRows == [line : Lines, action : Proposals, offer : Offers \cup {None},
              resolution : Resolutions \cup {"unwritten", "lost"}]

\* What every line may cost by the issues iss: Consented, of any issues.
Settled(issue, l) ==
    /\ issue.line = l /\ issue.offer # None
    /\ \/ issue.resolution = "CUSTOMER_ACCEPTED"
       \/ issue.resolution = "AUTO_APPLIED" /\ PreferenceOf[l] = "ALLOW"

Consents(iss) ==
    [l \in Lines |-> {0, PriceOf[l]} \cup {iss[i].offer : i \in {k \in DOMAIN iss : Settled(iss[k], l)}}]

\* A shop substitutes only what the customer allowed to be substituted.
Allowed(iss) ==
    \A i \in DOMAIN iss : iss[i].action = "SUBSTITUTE" => PreferenceOf[iss[i].line] = "ALLOW"

LEMMA IssueType ==
    ASSUME NEW iss \in Seq(IssueRows)
    PROVE  /\ DOMAIN iss = 1 .. Len(iss) /\ Len(iss) \in Nat
           /\ \A i \in 1 .. Len(iss) :
                 /\ iss[i] \in IssueRows /\ iss[i].line \in Lines /\ iss[i].action \in Proposals
                 /\ iss[i].offer # None => iss[i].offer \in Nat
  <1>1. DOMAIN iss = 1 .. Len(iss) /\ Len(iss) \in Nat /\ \A i \in 1 .. Len(iss) : iss[i] \in IssueRows
    OBVIOUS
  <1>2. \A r \in IssueRows : r.line \in Lines /\ r.action \in Proposals
                             /\ (r.offer # None => r.offer \in Nat)
    BY BasketAssumption DEF IssueRows
  <1>. QED BY <1>1, <1>2

LEMMA ConsentsType ==
    ASSUME NEW iss \in Seq(IssueRows), NEW l \in Lines
    PROVE  /\ Consents(iss)[l] \subseteq Nat
           /\ 0 \in Consents(iss)[l] /\ PriceOf[l] \in Consents(iss)[l]
           /\ \A i \in DOMAIN iss : Settled(iss[i], l) => iss[i].offer \in Consents(iss)[l]
  <1>1. \A i \in DOMAIN iss : Settled(iss[i], l) => iss[i].offer \in Nat
    BY IssueType DEF Settled
  <1>2. PriceOf[l] \in Nat
    BY BasketAssumption
  <1>. QED BY <1>1, <1>2 DEF Consents

\* There is a latest of the issues that price a line.
LEMMA LatestExists ==
    ASSUME NEW N \in Nat, NEW S \in SUBSET (1 .. N), S # {}
    PROVE  Max(S) \in S
  <1>. DEFINE D == {N - x : x \in S}
  <1>1. D \in SUBSET Nat /\ D # {}
    <2>1. \A x \in S : N - x \in Nat
      OBVIOUS
    <2>. QED BY <2>1
  <1>2. PICK n \in D : \A m \in D : ~(m < n)
    BY <1>1, LeastNumber
  <1>3. PICK x \in S : n = N - x
    BY <1>2
  <1>4. \A y \in S : x >= y
    <2>1. ASSUME NEW y \in S PROVE x >= y
      <3>1. N - y \in D
        OBVIOUS
      <3>2. ~(N - y < N - x)
        BY <1>2, <1>3, <3>1
      <3>. QED BY <3>2
    <2>. QED BY <2>1
  <1>. QED BY <1>4 DEF Max

\* What recomputeTotal takes for the price of a line was ordered, accepted or
\* allowed.
LEMMA PricesAreConsented ==
    ASSUME NEW iss \in Seq(IssueRows), Allowed(iss), NEW l \in Lines
    PROVE  UnitPrice(l, iss) \in Consents(iss)[l] /\ UnitPrice(l, iss) \in Nat
  <1>. DEFINE S == {i \in DOMAIN iss : iss[i].line = l /\ Reprices(iss[i])}
  <1>1. DOMAIN iss = 1 .. Len(iss) /\ Len(iss) \in Nat
    BY IssueType
  <1>2. UnitPrice(l, iss) \in Consents(iss)[l]
    <2>1. CASE S = {}
      BY <2>1, ConsentsType DEF UnitPrice
    <2>2. CASE S # {}
      <3>1. S \in SUBSET (1 .. Len(iss))
        BY <1>1
      <3>2. Max(S) \in S
        <4>. HIDE DEF S
        <4>. QED BY <1>1, <2>2, <3>1, LatestExists
      <3>3. Settled(iss[Max(S)], l)
        BY <3>2 DEF Reprices, Settled, Allowed
      <3>4. UnitPrice(l, iss) = iss[Max(S)].offer
        BY <2>2 DEF UnitPrice
      <3>. QED BY <3>2, <3>3, <3>4, ConsentsType
    <2>. QED BY <2>1, <2>2
  <1>. QED BY <1>2, ConsentsType

\* Issues get more, and decided ones stay as they are.
Advances(iss, later) ==
    /\ Len(iss) <= Len(later)
    /\ \A i \in 1 .. Len(iss) :
          /\ later[i].line = iss[i].line /\ later[i].offer = iss[i].offer
          /\ \/ later[i].resolution = iss[i].resolution
             \/ iss[i].resolution \in {"unwritten", "PENDING"}

LEMMA ConsentsGrow ==
    ASSUME NEW iss \in Seq(IssueRows), NEW later \in Seq(IssueRows), Advances(iss, later)
    PROVE  \A l \in Lines : Consents(iss)[l] \subseteq Consents(later)[l] /\ 0 \in Consents(later)[l]
  <1>. SUFFICES ASSUME NEW l \in Lines, NEW n \in Consents(iss)[l]
                PROVE  n \in Consents(later)[l]
    BY ConsentsType
  <1>1. CASE n \in {0, PriceOf[l]}
    BY <1>1, ConsentsType
  <1>2. ASSUME NEW i \in DOMAIN iss, Settled(iss[i], l), n = iss[i].offer
        PROVE  n \in Consents(later)[l]
    <2>1. i \in 1 .. Len(iss) /\ i \in 1 .. Len(later) /\ i \in DOMAIN later
      BY <1>2, IssueType DEF Advances
    <2>2. Settled(later[i], l) /\ later[i].offer = n
      BY <1>2, <2>1 DEF Advances, Settled
    <2>. QED BY <2>1, <2>2, ConsentsType
  <1>. QED BY <1>1, <1>2 DEF Consents

\* One issue is given a resolution.
Resolved(iss, i, r) == [iss EXCEPT ![i].resolution = r]

LEMMA Resolving ==
    ASSUME NEW iss \in Seq(IssueRows), NEW i \in 1 .. Len(iss),
           NEW r \in Resolutions \cup {"unwritten", "lost"}
    PROVE  /\ Resolved(iss, i, r) \in Seq(IssueRows) /\ Len(Resolved(iss, i, r)) = Len(iss)
           /\ Resolved(iss, i, r)[i].resolution = r
           /\ \A k \in 1 .. Len(iss) :
                 /\ k # i => Resolved(iss, i, r)[k] = iss[k]
                 /\ Resolved(iss, i, r)[k].line = iss[k].line /\ Resolved(iss, i, r)[k].action = iss[k].action
                 /\ Resolved(iss, i, r)[k].offer = iss[k].offer
                 /\ k # i => Resolved(iss, i, r)[k].resolution = iss[k].resolution
           /\ Allowed(iss) => Allowed(Resolved(iss, i, r))
           /\ iss[i].resolution \in {"unwritten", "PENDING"} => Advances(iss, Resolved(iss, i, r))
  <1>. DEFINE e == [line |-> iss[i].line, action |-> iss[i].action,
                    offer |-> iss[i].offer, resolution |-> r]
              later == Resolved(iss, i, r)
  <1>1. DOMAIN iss = 1 .. Len(iss) /\ Len(iss) \in Nat /\ iss[i] \in IssueRows
    BY IssueType
  <1>2. e \in IssueRows /\ [iss[i] EXCEPT !.resolution = r] = e
    BY <1>1 DEF IssueRows
  <1>3. later = [iss EXCEPT ![i] = e]
    BY <1>2 DEF Resolved
  <1>. HIDE DEF e, later
  <1>4. later \in Seq(IssueRows) /\ Len(later) = Len(iss) /\ DOMAIN later = 1 .. Len(iss)
        /\ later[i] = e /\ \A k \in 1 .. Len(iss) : k # i => later[k] = iss[k]
    BY ONLY iss \in Seq(IssueRows), i \in 1 .. Len(iss), <1>1, <1>2, <1>3
  <1>5. \A k \in 1 .. Len(iss) :
            /\ later[k].line = iss[k].line /\ later[k].action = iss[k].action
            /\ later[k].offer = iss[k].offer
            /\ k # i => later[k].resolution = iss[k].resolution
    BY <1>4 DEF e
  <1>6. Allowed(iss) => Allowed(later)
    BY <1>1, <1>4, <1>5 DEF Allowed
  <1>7. iss[i].resolution \in {"unwritten", "PENDING"} => Advances(iss, later)
    BY <1>1, <1>4, <1>5 DEF Advances
  <1>8. later[i].resolution = r
    BY <1>4 DEF e
  <1>. QED BY <1>4, <1>5, <1>6, <1>7, <1>8 DEF later

\* With the same issue given the same resolution, what was later stays later.
LEMMA ResolvingLater ==
    ASSUME NEW iss \in Seq(IssueRows), NEW later \in Seq(IssueRows), Advances(iss, later),
           NEW i \in 1 .. Len(iss), later[i] = iss[i],
           NEW r \in Resolutions \cup {"unwritten", "lost"}
    PROVE  Advances(Resolved(iss, i, r), Resolved(later, i, r))
  <1>1. i \in 1 .. Len(later)
    BY IssueType DEF Advances
  <1>2. PICK a, b : a = Resolved(iss, i, r) /\ b = Resolved(later, i, r)
    OBVIOUS
  <1>3. /\ Len(a) = Len(iss) /\ a[i].line = iss[i].line /\ a[i].offer = iss[i].offer /\ a[i].resolution = r
        /\ \A k \in 1 .. Len(iss) : k # i => a[k] = iss[k]
    BY <1>2, Resolving
  <1>4. /\ Len(b) = Len(later) /\ b[i].line = later[i].line /\ b[i].offer = later[i].offer /\ b[i].resolution = r
        /\ \A k \in 1 .. Len(later) : k # i => b[k] = later[k]
    BY <1>1, <1>2, Resolving
  <1>5. Len(iss) \in Nat /\ Len(later) \in Nat
    BY IssueType
  <1>6. Advances(a, b)
    BY <1>3, <1>4, <1>5 DEF Advances
  <1>. QED BY <1>2, <1>6

-----------------------------------------------------------------------------
(* The inductive invariant of the basket *)

\* The issues as a change will leave them, and what it knows: its line is its
\* order's, its issue is of that line and undecided, and what it has summed is
\* consented to once it commits.
After(c) == IF c.issue = 0 THEN issues ELSE Resolved(issues, c.issue, c.resolution)

Decides(c) ==
    \/ /\ issues[c.issue].resolution = "unwritten" /\ c.resolution = "AUTO_APPLIED"
       /\ issues[c.issue].action # "REQUEST_CUSTOMER_DECISION"
    \/ /\ issues[c.issue].resolution = "PENDING"
       /\ c.resolution \in {"CUSTOMER_ACCEPTED", "CUSTOMER_DECLINED"}

ChangeKnows(c) ==
    /\ c.order \in Orders /\ c.line \in Lines /\ c.issue \in 0 .. Len(issues)
    /\ c.issue = 0 => c.resolution = "none"
    /\ c.issue # 0 => issues[c.issue].line = c.line /\ c.line \in linesOf[c.order] /\ Decides(c)
    /\ Agreed(Consents(After(c)), linesOf[c.order] \cup {c.line}, c.sum)

\* The first half of ChargesAreConsented.
SubstitutesAreConsented ==
    \A l \in Lines : lineStatus[l] = "SUBSTITUTED" =>
        \/ PreferenceOf[l] = "ALLOW"
        \/ \E i \in DOMAIN issues : /\ issues[i].line = l
                                    /\ issues[i].resolution = "CUSTOMER_ACCEPTED"

TotalsAreConsented == \A o \in Orders : Agreed(Consents(issues), linesOf[o], total[o])

ChangesKnow ==
    /\ \A c \in changes : ChangeKnows(c)
    /\ \A c, d \in changes : c.line = d.line => c = d

BInv ==
    /\ IInv
    /\ \A o \in Orders : IsFiniteSet(linesOf[o])
    /\ issues \in Seq(IssueRows) /\ Allowed(issues)
    /\ lineStatus \in [Lines -> {"ORDERED", "SUBSTITUTED", "REMOVED"}]
    /\ total \in [Orders -> Nat]
    /\ ChangesKnow /\ SubstitutesAreConsented /\ TotalsAreConsented

\* An order of the basket takes the steps of an order.
LEMMA BasketSteps ==
    ASSUME ChangesKnow, [BasketNext]_allVars
    PROVE  [Next]_vars
  <1>1. CASE UNCHANGED allVars
    BY <1>1 DEF allVars
  <1>2. CASE OrderStep
    <2>1. ASSUME NEW o \in Orders, NEW l \in Lines, ReadCart(o, l) PROVE Next
      BY <2>1 DEF Next, Customer
    <2>2. ASSUME NEW o \in Orders, Place(o) \/ CancelByCustomer(o) PROVE Next
      BY <2>2 DEF Next, Customer
    <2>3. CASE Merchant \/ Sweeper \/ Job
      BY <2>3 DEF Next
    <2>4. ASSUME NEW o \in Orders, LoseRelease(o) \/ \E l \in Lines : LoseAdd(o, l) PROVE Next
      BY <2>4 DEF Next, Failure
    <2>5. ASSUME NEW t \in Taps, LoseTap(t) PROVE Next
      BY <2>5 DEF Next, Failure
    <2>6. ASSUME NEW n \in news, LoseNews(n) PROVE Next
      BY <2>6 DEF Next, Failure
    <2>. QED BY <1>2, <2>1, <2>2, <2>3, <2>4, <2>5, <2>6 DEF OrderStep
  <1>3. ASSUME NEW o \in Orders, NEW l \in Lines,
               \/ SumWithLine(o, l)
               \/ \E proposed \in Proposals, offer \in Offers \cup {None} :
                     ReportIssue(o, l, proposed, offer)
        PROVE  UNCHANGED vars
    BY <1>3 DEF SumWithLine, ReportIssue
  <1>4. ASSUME NEW i \in DOMAIN issues,
               \/ RecordQuestion(i) \/ LoseReport(i)
               \/ \E o \in Orders :
                     RecordIssue(o, i) \/ \E answer \in Resolutions : SettleIssue(o, i, answer)
        PROVE  UNCHANGED vars
    BY <1>4 DEF RecordQuestion, LoseReport, RecordIssue, SettleIssue, SumWithIssue
  <1>5. ASSUME NEW c \in changes, CommitLine(c)
        PROVE  Next
    <2>1. c.order \in Orders /\ c.line \in Lines /\ AddItem(c.order, c.line)
      BY <1>5 DEF ChangesKnow, ChangeKnows, CommitLine
    <2>. QED BY <2>1 DEF Next, Customer
  <1>6. ASSUME NEW c \in changes, CommitIssue(c)
        PROVE  UNCHANGED vars
    BY <1>6 DEF CommitIssue
  <1>7. ASSUME NEW c \in changes, LoseChange(c)
        PROVE  [Next]_vars
    <2>1. c.order \in Orders /\ c.line \in Lines
      BY DEF ChangesKnow, ChangeKnows
    <2>2. CASE c.issue = 0 /\ <<c.order, c.line>> \in inFlight
      <3>1. LoseAdd(c.order, c.line)
        BY <1>7, <2>2 DEF LoseChange, LoseAdd
      <3>. QED BY <2>1, <3>1 DEF Next, Failure
    <2>3. CASE ~(c.issue = 0 /\ <<c.order, c.line>> \in inFlight)
      <3>1. inFlight' = inFlight
        BY <1>7, <2>3 DEF LoseChange
      <3>. QED BY <1>7, <3>1 DEF LoseChange, vars, requestVars
    <2>. QED BY <2>2, <2>3
  <1>8. CASE LineStep
    BY <1>3, <1>4, <1>5, <1>6, <1>7, <1>8 DEF LineStep
  <1>. QED BY <1>1, <1>2, <1>8 DEF BasketNext

-----------------------------------------------------------------------------
(* What a step leaves true *)

\* A change that goes on, while issues are added and others decided.
LEMMA ChangeKept ==
    ASSUME BInv, NEW c \in changes,
           issues' \in Seq(IssueRows), Advances(issues, issues'),
           c.issue # 0 => issues'[c.issue] = issues[c.issue],
           linesOf[c.order] \subseteq linesOf'[c.order],
           linesOf'[c.order] \subseteq Lines, IsFiniteSet(linesOf'[c.order])
    PROVE  ChangeKnows(c)'
  <1>. DEFINE S == linesOf[c.order] \cup {c.line}
              T == linesOf'[c.order] \cup {c.line}
  <1>1. /\ ChangeKnows(c) /\ issues \in Seq(IssueRows)
        /\ c.order \in Orders /\ c.line \in Lines /\ c.issue \in 0 .. Len(issues)
        /\ Len(issues) \in Nat /\ Len(issues') \in Nat /\ Len(issues) <= Len(issues')
    BY IssueType DEF BInv, ChangesKnow, ChangeKnows, Advances
  <1>2. S \subseteq T /\ T \in SUBSET Lines /\ IsFiniteSet(T)
    BY <1>1, FS_AddElement
  <1>3. PICK a, b : a = After(c) /\ b = After(c)'
    OBVIOUS
  <1>4. a \in Seq(IssueRows) /\ b \in Seq(IssueRows) /\ Advances(a, b)
    <2>1. CASE c.issue = 0
      BY <1>1, <1>3, <2>1 DEF After
    <2>2. CASE c.issue # 0
      <3>1. c.issue \in 1 .. Len(issues) /\ c.issue \in 1 .. Len(issues')
        BY <1>1, <2>2
      <3>2. c.resolution \in Resolutions \cup {"unwritten", "lost"}
        BY <1>1, <2>2 DEF ChangeKnows, Decides, Resolutions
      <3>3. a = Resolved(issues, c.issue, c.resolution)
            /\ b = Resolved(issues', c.issue, c.resolution)
        BY <1>3, <2>2 DEF After, Resolved
      <3>4. a \in Seq(IssueRows)
        BY <1>1, <3>1, <3>2, <3>3, Resolving
      <3>5. b \in Seq(IssueRows)
        BY <3>1, <3>2, <3>3, Resolving
      <3>. QED BY <1>1, <2>2, <3>1, <3>2, <3>3, <3>4, <3>5, ResolvingLater
    <2>. QED BY <2>1, <2>2
  <1>5. Agreed(Consents(a), S, c.sum)
    BY <1>1, <1>3 DEF ChangeKnows
  <1>6. \A l \in T : Consents(a)[l] \subseteq Consents(b)[l] /\ 0 \in Consents(b)[l]
    BY <1>2, <1>4, ConsentsGrow
  <1>7. Agreed(Consents(b), T, c.sum)
    <2>. HIDE DEF S, T
    <2>. QED BY <1>2, <1>5, <1>6, AgreedGrows
  <1>8. c.issue # 0 => Decides(c)'
    BY <1>1 DEF ChangeKnows, Decides
  <1>9. c.issue # 0 => issues'[c.issue].line = c.line /\ c.line \in linesOf'[c.order]
    BY <1>1 DEF ChangeKnows
  <1>10. c.issue \in 0 .. Len(issues')
    BY <1>1
  <1>. QED BY <1>1, <1>3, <1>7, <1>8, <1>9, <1>10 DEF ChangeKnows

\* A total that was consented to.
LEMMA TotalKept ==
    ASSUME BInv, NEW o \in Orders,
           issues' \in Seq(IssueRows), Advances(issues, issues'),
           linesOf'[o] \subseteq Lines, linesOf[o] \subseteq linesOf'[o],
           IsFiniteSet(linesOf'[o]), total'[o] = total[o]
    PROVE  Agreed(Consents(issues'), linesOf'[o], total'[o])
  <1>1. PICK b, T : b = issues' /\ T = linesOf'[o]
    OBVIOUS
  <1>2. Agreed(Consents(issues), linesOf[o], total[o]) /\ issues \in Seq(IssueRows)
    BY DEF BInv, TotalsAreConsented
  <1>3. \A l \in T : Consents(issues)[l] \subseteq Consents(b)[l] /\ 0 \in Consents(b)[l]
    BY <1>1, <1>2, ConsentsGrow
  <1>4. Agreed(Consents(b), T, total[o])
    BY <1>1, <1>2, <1>3, AgreedGrows
  <1>. QED BY <1>1, <1>4

\* A consent is not taken back.
LEMMA SubstituteKept ==
    ASSUME BInv, issues' \in Seq(IssueRows), Advances(issues, issues'),
           NEW l \in Lines, lineStatus'[l] = lineStatus[l] \/ lineStatus'[l] # "SUBSTITUTED"
    PROVE  lineStatus'[l] = "SUBSTITUTED" =>
              \/ PreferenceOf[l] = "ALLOW"
              \/ \E i \in DOMAIN issues' : /\ issues'[i].line = l
                                           /\ issues'[i].resolution = "CUSTOMER_ACCEPTED"
  <1>. SUFFICES ASSUME lineStatus[l] = "SUBSTITUTED", PreferenceOf[l] # "ALLOW"
                PROVE  \E i \in DOMAIN issues' : /\ issues'[i].line = l
                                                 /\ issues'[i].resolution = "CUSTOMER_ACCEPTED"
    OBVIOUS
  <1>1. PICK i \in DOMAIN issues : issues[i].line = l /\ issues[i].resolution = "CUSTOMER_ACCEPTED"
    BY DEF BInv, SubstitutesAreConsented
  <1>2. i \in DOMAIN issues' /\ i \in 1 .. Len(issues)
    BY <1>1, IssueType DEF BInv, Advances
  <1>. QED BY <1>1, <1>2 DEF Advances

\* What a step has to show.
LEMMA StepConsented ==
    ASSUME BInv, IInv', issues' \in Seq(IssueRows), Allowed(issues'), Advances(issues, issues'),
           lineStatus' \in [Lines -> {"ORDERED", "SUBSTITUTED", "REMOVED"}],
           \A o \in Orders : linesOf[o] \subseteq linesOf'[o] /\ IsFiniteSet(linesOf'[o]),
           total' = [o \in Orders |-> total'[o]],
           \A o \in Orders : \/ total'[o] = total[o]
                             \/ Agreed(Consents(issues'), linesOf'[o], total'[o]),
           \A c \in changes' :
               \/ c \in changes /\ (c.issue # 0 => issues'[c.issue] = issues[c.issue])
               \/ ChangeKnows(c)',
           \A c, d \in changes' : c.line = d.line => c = d,
           \A l \in Lines :
               \/ lineStatus'[l] = lineStatus[l] \/ lineStatus'[l] # "SUBSTITUTED"
               \/ PreferenceOf[l] = "ALLOW"
               \/ \E i \in DOMAIN issues' : /\ issues'[i].line = l
                                            /\ issues'[i].resolution = "CUSTOMER_ACCEPTED"
    PROVE  BInv'
  <1>1. \A o \in Orders : linesOf'[o] \subseteq Lines
    BY DEF IInv, TypeOK
  <1>2. \A c \in changes' : ChangeKnows(c)'
    <2>1. ASSUME NEW c \in changes, c.issue # 0 => issues'[c.issue] = issues[c.issue]
          PROVE  ChangeKnows(c)'
      <3>1. c.order \in Orders
        BY DEF BInv, ChangesKnow, ChangeKnows
      <3>. QED BY <1>1, <2>1, <3>1, ChangeKept
    <2>. QED BY <2>1
  <1>3. \A o \in Orders : Agreed(Consents(issues'), linesOf'[o], total'[o])
    <2>1. ASSUME NEW o \in Orders, total'[o] = total[o]
          PROVE  Agreed(Consents(issues'), linesOf'[o], total'[o])
      BY <1>1, <2>1, TotalKept
    <2>. QED BY <2>1
  <1>4. total' \in [Orders -> Nat]
    <2>1. \A o \in Orders : total'[o] \in Nat
      BY <1>1, <1>3, AgreedType
    <2>. QED BY <2>1
  <1>5. SubstitutesAreConsented'
    <2>1. ASSUME NEW l \in Lines
          PROVE  lineStatus'[l] = "SUBSTITUTED" =>
                    \/ PreferenceOf[l] = "ALLOW"
                    \/ \E i \in DOMAIN issues' : /\ issues'[i].line = l
                                                 /\ issues'[i].resolution = "CUSTOMER_ACCEPTED"
      BY SubstituteKept
    <2>. QED BY <2>1 DEF SubstitutesAreConsented
  <1>. QED BY <1>2, <1>3, <1>4, <1>5 DEF BInv, ChangesKnow, TotalsAreConsented

LEMMA AdvancesSame ==
    ASSUME NEW iss \in Seq(IssueRows)
    PROVE  Advances(iss, iss)
  BY IssueType DEF Advances

\* The order's own steps.
LEMMA OrderKept ==
    ASSUME BInv, IInv', UNCHANGED linesOf, UNCHANGED basketVars
    PROVE  BInv'
  <1>1. /\ issues' = issues /\ total' = total /\ lineStatus' = lineStatus
        /\ changes' = changes /\ linesOf' = linesOf
    BY DEF basketVars
  <1>2. Advances(issues, issues)
    BY AdvancesSame DEF BInv
  <1>3. /\ issues' \in Seq(IssueRows) /\ Allowed(issues') /\ Advances(issues, issues')
        /\ lineStatus' \in [Lines -> {"ORDERED", "SUBSTITUTED", "REMOVED"}]
        /\ \A o \in Orders : linesOf[o] \subseteq linesOf'[o] /\ IsFiniteSet(linesOf'[o])
        /\ total' = [o \in Orders |-> total'[o]]
        /\ \A c, d \in changes' : c.line = d.line => c = d
    BY <1>1, <1>2 DEF BInv, ChangesKnow
  <1>. QED BY <1>1, <1>3, StepConsented

LEMMA OrderLines ==
    ASSUME OrderStep
    PROVE  UNCHANGED linesOf
  <1>. USE DEF orderVars
  <1>1. ASSUME NEW o \in Orders, NEW l \in Lines, ReadCart(o, l) \/ LoseAdd(o, l) PROVE UNCHANGED linesOf
    BY <1>1 DEF ReadCart, LoseAdd
  <1>2. ASSUME NEW o \in Orders, Place(o) \/ CancelByCustomer(o) \/ LoseRelease(o) PROVE UNCHANGED linesOf
    BY <1>2 DEF Place, CancelByCustomer, LoseRelease
  <1>3. CASE Merchant
    BY <1>3 DEF Merchant, Accept, Reject, StartPreparing, MarkReady, MoveToReady, ConsumeStock,
                CreateDelivery, AttachJob
  <1>4. CASE Sweeper
    BY <1>4 DEF Sweeper, ExpireOverdue, DeadlinePasses, ReleaseStock
  <1>5. CASE Job
    <2>1. PICK j \in Deliveries :
             \/ JobStarts(j) \/ JobCompletes(j) \/ JobCancelled(j) \/ JobExpires(j)
             \/ \E target \in Targets : \/ ReadNews(j, target)
                                        \/ \E from \in OrderStatuses : FollowStep(j, target, from)
      BY <1>5 DEF Job, Follow
    <2>. QED BY <2>1 DEF JobStarts, JobCompletes, JobCancelled, JobMoves, JobExpires, ReadNews, FollowStep
  <1>6. CASE (\E t \in Taps : LoseTap(t)) \/ (\E n \in news : LoseNews(n))
    BY <1>6 DEF LoseTap, LoseNews
  <1>. QED BY <1>1, <1>2, <1>3, <1>4, <1>5, <1>6 DEF OrderStep

\* A change begins: a transaction sums its order and holds its line.
LEMMA ChangeBegins ==
    ASSUME BInv, IInv', NEW c, changes' = changes \cup {c}, ChangeKnows(c), Unlocked(c.line),
           UNCHANGED <<linesOf, lineStatus, issues, total>>
    PROVE  BInv'
  <1>1. Advances(issues, issues)
    BY AdvancesSame DEF BInv
  <1>2. \A d \in changes : ChangeKnows(d)
    BY DEF BInv, ChangesKnow
  <1>3. \A d \in changes' :
            \/ d \in changes /\ (d.issue # 0 => issues'[d.issue] = issues[d.issue])
            \/ ChangeKnows(d)'
    <2>1. ChangeKnows(c)'
      BY DEF ChangeKnows, After, Decides
    <2>. QED BY <2>1
  <1>4. \A d, e \in changes' : d.line = e.line => d = e
    BY DEF BInv, ChangesKnow, Unlocked
  <1>5. /\ issues' \in Seq(IssueRows) /\ Allowed(issues') /\ Advances(issues, issues')
        /\ lineStatus' \in [Lines -> {"ORDERED", "SUBSTITUTED", "REMOVED"}]
        /\ \A o \in Orders : linesOf[o] \subseteq linesOf'[o] /\ IsFiniteSet(linesOf'[o])
        /\ total' = [o \in Orders |-> total'[o]]
    BY <1>1 DEF BInv
  <1>. QED BY <1>3, <1>4, <1>5, StepConsented

LEMMA SumWithLineKept ==
    ASSUME BInv, IInv', NEW o \in Orders, NEW l \in Lines, SumWithLine(o, l)
    PROVE  BInv'
  <1>. DEFINE S == linesOf[o] \cup {l}
              n == SumOf(S, lineStatus, issues)
              c == Change(o, l, 0, "none", n)
  <1>1. c.order = o /\ c.line = l /\ c.issue = 0 /\ c.resolution = "none" /\ c.sum = n
    BY DEF Change
  <1>2. S \in SUBSET Lines /\ IsFiniteSet(S) /\ issues \in Seq(IssueRows) /\ Allowed(issues)
    BY FS_AddElement DEF BInv, IInv, TypeOK
  <1>3. \A k \in S : /\ UnitPrice(k, issues) \in Nat /\ UnitPrice(k, issues) \in Consents(issues)[k]
                     /\ 0 \in Consents(issues)[k]
    BY <1>2, PricesAreConsented, ConsentsType
  <1>4. Agreed(Consents(issues), S, n)
    <2>. HIDE DEF S
    <2>. QED BY <1>2, <1>3, SumIsAgreed
  <1>5. changes' = changes \cup {c} /\ Unlocked(l) /\ UNCHANGED <<linesOf, lineStatus, issues, total>>
    BY DEF SumWithLine, vars, orderVars
  <1>. HIDE DEF n, c
  <1>6. ChangeKnows(c)
    <2>1. After(c) = issues /\ Len(issues) \in Nat
      BY <1>1, <1>2, IssueType DEF After
    <2>. QED BY <1>1, <1>4, <2>1 DEF ChangeKnows
  <1>. QED BY <1>1, <1>5, <1>6, ChangeBegins

LEMMA SumWithIssueKept ==
    ASSUME BInv, IInv', NEW o \in Orders, NEW i \in DOMAIN issues,
           NEW r \in {"AUTO_APPLIED", "CUSTOMER_ACCEPTED", "CUSTOMER_DECLINED"},
           \/ /\ issues[i].resolution = "unwritten" /\ r = "AUTO_APPLIED"
              /\ issues[i].action # "REQUEST_CUSTOMER_DECISION"
           \/ issues[i].resolution = "PENDING" /\ r \in {"CUSTOMER_ACCEPTED", "CUSTOMER_DECLINED"},
           SumWithIssue(o, i, r)
    PROVE  BInv'
  <1>. DEFINE l == issues[i].line
              iss == [issues EXCEPT ![i].resolution = r]
              st == [lineStatus EXCEPT ![l] = StatusAfter(iss[i])]
              n == SumOf(linesOf[o], st, iss)
              c == Change(o, l, i, r, n)
  <1>1. c.order = o /\ c.line = l /\ c.issue = i /\ c.resolution = r /\ c.sum = n
    BY DEF Change
  <1>2. /\ changes' = changes \cup {c} /\ Unlocked(l) /\ l \in linesOf[o]
        /\ UNCHANGED <<linesOf, lineStatus, issues, total>>
    BY DEF SumWithIssue, vars, orderVars
  <1>3. /\ issues \in Seq(IssueRows) /\ Allowed(issues) /\ i \in 1 .. Len(issues) /\ Len(issues) \in Nat
        /\ linesOf[o] \in SUBSET Lines /\ IsFiniteSet(linesOf[o]) /\ l \in Lines
    BY IssueType DEF BInv, IInv, TypeOK
  <1>4. iss \in Seq(IssueRows) /\ Allowed(iss)
    <2>1. iss = Resolved(issues, i, r) /\ r \in Resolutions \cup {"unwritten", "lost"}
      BY DEF Resolved, Resolutions
    <2>. HIDE DEF iss
    <2>. QED BY ONLY <1>3, <2>1, Resolving
  <1>. HIDE DEF iss, st, c
  <1>5. \A k \in linesOf[o] : /\ UnitPrice(k, iss) \in Nat /\ UnitPrice(k, iss) \in Consents(iss)[k]
                              /\ 0 \in Consents(iss)[k]
    BY <1>3, <1>4, PricesAreConsented, ConsentsType
  <1>6. Agreed(Consents(iss), linesOf[o], n)
    BY <1>3, <1>5, SumIsAgreed
  <1>. HIDE DEF n, l
  <1>7. After(c) = iss
    BY <1>1, <1>3 DEF After, Resolved, iss
  <1>8. linesOf[o] \cup {l} = linesOf[o]
    BY <1>2
  <1>9. ChangeKnows(c)
    <2>1. issues[i].line = l /\ Decides(c)
      BY <1>1 DEF Decides, l
    <2>2. i # 0 /\ i \in 0 .. Len(issues)
      BY <1>3
    <2>. QED BY <1>1, <1>2, <1>3, <1>6, <1>7, <1>8, <2>1, <2>2 DEF ChangeKnows
  <1>. QED BY <1>1, <1>2, <1>9, ChangeBegins

\* A line joins its order, with the sum of before.
LEMMA CommitLineKept ==
    ASSUME BInv, IInv', NEW c \in changes, CommitLine(c)
    PROVE  BInv'
  <1>. DEFINE o == c.order
  <1>1. /\ ChangeKnows(c) /\ o \in Orders /\ c.line \in Lines /\ c.issue = 0
        /\ linesOf \in [Orders -> SUBSET Lines] /\ total \in [Orders -> Nat]
        /\ \A q \in Orders : IsFiniteSet(linesOf[q])
    BY DEF BInv, ChangesKnow, ChangeKnows, CommitLine, IInv, TypeOK
  <1>2. /\ linesOf' = [linesOf EXCEPT ![o] = linesOf[o] \cup {c.line}]
        /\ total' = [total EXCEPT ![o] = c.sum]
        /\ changes' = changes \ {c} /\ UNCHANGED <<lineStatus, issues>>
    BY DEF CommitLine, AddItem
  <1>3. Advances(issues, issues')
    BY <1>2, AdvancesSame DEF BInv
  <1>4. Agreed(Consents(issues), linesOf[o] \cup {c.line}, c.sum)
    BY <1>1 DEF ChangeKnows, After
  <1>. HIDE DEF o
  <1>5. /\ linesOf'[o] = linesOf[o] \cup {c.line} /\ total'[o] = c.sum
        /\ \A q \in Orders : q # o => linesOf'[q] = linesOf[q] /\ total'[q] = total[q]
        /\ total' = [q \in Orders |-> total'[q]]
    BY <1>1, <1>2
  <1>6. \A q \in Orders : linesOf[q] \subseteq linesOf'[q] /\ IsFiniteSet(linesOf'[q])
    <2>1. IsFiniteSet(linesOf[o] \cup {c.line})
      BY <1>1, FS_AddElement
    <2>. QED BY <1>1, <1>5, <2>1
  <1>7. \A q \in Orders : \/ total'[q] = total[q]
                          \/ Agreed(Consents(issues'), linesOf'[q], total'[q])
    BY <1>2, <1>4, <1>5
  <1>8. /\ issues' \in Seq(IssueRows) /\ Allowed(issues')
        /\ lineStatus' \in [Lines -> {"ORDERED", "SUBSTITUTED", "REMOVED"}]
        /\ \A d \in changes' : d \in changes /\ issues'[d.issue] = issues[d.issue]
        /\ \A d, e \in changes' : d.line = e.line => d = e
    BY <1>2 DEF BInv, ChangesKnow
  <1>9. \A k \in Lines : lineStatus'[k] = lineStatus[k]
    BY <1>2
  <1>. QED BY <1>3, <1>5, <1>6, <1>7, <1>8, <1>9, StepConsented

\* An undecided issue that no change is about is given another state.
LEMMA DecidedAlone ==
    ASSUME BInv, IInv', NEW i \in 1 .. Len(issues),
           NEW r \in Resolutions \cup {"unwritten", "lost"},
           issues[i].resolution \in {"unwritten", "PENDING"},
           issues' = Resolved(issues, i, r),
           changes' \subseteq changes, \A c \in changes' : c.issue # i,
           UNCHANGED <<linesOf, lineStatus, total>>
    PROVE  BInv'
  <1>1. issues \in Seq(IssueRows) /\ Allowed(issues)
    BY DEF BInv
  <1>2. PICK later : later = issues'
    OBVIOUS
  <1>3. /\ later \in Seq(IssueRows) /\ Allowed(later) /\ Advances(issues, later)
        /\ \A k \in 1 .. Len(issues) : k # i => later[k] = issues[k]
    BY <1>1, <1>2, Resolving
  <1>4. \A c \in changes' : c \in changes /\ (c.issue # 0 => issues'[c.issue] = issues[c.issue])
    <2>1. \A c \in changes : c.issue \in 0 .. Len(issues)
      BY DEF BInv, ChangesKnow, ChangeKnows
    <2>2. Len(issues) \in Nat
      BY <1>1, IssueType
    <2>. QED BY <1>2, <1>3, <2>1, <2>2
  <1>5. /\ lineStatus' \in [Lines -> {"ORDERED", "SUBSTITUTED", "REMOVED"}]
        /\ \A o \in Orders : linesOf[o] \subseteq linesOf'[o] /\ IsFiniteSet(linesOf'[o])
        /\ total' = [o \in Orders |-> total'[o]]
        /\ \A o \in Orders : total'[o] = total[o]
        /\ \A c, d \in changes' : c.line = d.line => c = d
        /\ \A l \in Lines : lineStatus'[l] = lineStatus[l]
    BY DEF BInv, ChangesKnow
  <1>. QED BY <1>2, <1>3, <1>4, <1>5, StepConsented

\* A change is alone with its issue.
LEMMA IssuesAreHeld ==
    ASSUME BInv, NEW c \in changes, c.issue # 0
    PROVE  /\ c.issue \in 1 .. Len(issues) /\ issues[c.issue].line = c.line /\ Decides(c)
           /\ c.line \in Lines /\ c.order \in Orders
           /\ \A d \in changes \ {c} : d.issue # c.issue
  <1>1. \A d \in changes : ChangeKnows(d)
    BY DEF BInv, ChangesKnow
  <1>2. \A d \in changes : d.issue = c.issue => d.line = c.line
    BY <1>1 DEF ChangeKnows
  <1>3. \A d \in changes : d.line = c.line => d = c
    BY DEF BInv, ChangesKnow
  <1>4. ChangeKnows(c) /\ Len(issues) \in Nat
    BY <1>1, IssueType DEF BInv
  <1>5. \A d \in changes \ {c} : d.issue # c.issue
    BY <1>2, <1>3
  <1>. QED BY <1>4, <1>5 DEF ChangeKnows

LEMMA RecordQuestionKept ==
    ASSUME BInv, IInv', NEW i \in DOMAIN issues, RecordQuestion(i)
    PROVE  BInv'
  <1>1. i \in 1 .. Len(issues)
    BY IssueType DEF BInv
  <1>2. \A c \in changes : c.issue # i
    <2>1. ASSUME NEW c \in changes, c.issue = i PROVE FALSE
      <3>1. c.issue # 0
        BY <1>1, <2>1
      <3>2. Decides(c)
        BY <2>1, <3>1, IssuesAreHeld
      <3>. QED BY <2>1, <3>2 DEF Decides, RecordQuestion
    <2>. QED BY <2>1
  <1>3. /\ issues[i].resolution = "unwritten" /\ issues' = Resolved(issues, i, "PENDING")
        /\ changes' = changes /\ UNCHANGED <<linesOf, lineStatus, total>>
    BY DEF RecordQuestion, Resolved, vars, orderVars
  <1>4. "PENDING" \in Resolutions \cup {"unwritten", "lost"}
    BY DEF Resolutions
  <1>. QED BY <1>1, <1>2, <1>3, <1>4, DecidedAlone

LEMMA LoseReportKept ==
    ASSUME BInv, IInv', NEW i \in DOMAIN issues, LoseReport(i)
    PROVE  BInv'
  <1>1. i \in 1 .. Len(issues)
    BY IssueType DEF BInv
  <1>2. \A c \in changes : c.issue # i
    <2>1. ASSUME NEW c \in changes, c.issue = i PROVE FALSE
      <3>1. c.issue # 0
        BY <1>1, <2>1
      <3>2. issues[i].line = c.line
        BY <2>1, <3>1, IssuesAreHeld
      <3>. QED BY <3>2 DEF LoseReport, Unlocked
    <2>. QED BY <2>1
  <1>3. /\ issues[i].resolution = "unwritten" /\ issues' = Resolved(issues, i, "lost")
        /\ changes' = changes /\ UNCHANGED <<linesOf, lineStatus, total>>
    BY DEF LoseReport, Resolved, vars, orderVars
  <1>. QED BY <1>1, <1>2, <1>3, DecidedAlone

LEMMA LoseChangeKept ==
    ASSUME BInv, IInv', NEW c \in changes, LoseChange(c)
    PROVE  BInv'
  <1>1. changes' = changes \ {c} /\ UNCHANGED <<linesOf, lineStatus, total>>
    BY DEF LoseChange, orderVars
  <1>2. CASE c.resolution = "AUTO_APPLIED"
    <2>1. c.issue # 0
      BY <1>2 DEF BInv, ChangesKnow, ChangeKnows
    <2>2. /\ c.issue \in 1 .. Len(issues) /\ Decides(c)
          /\ \A d \in changes \ {c} : d.issue # c.issue
      BY <2>1, IssuesAreHeld
    <2>3. issues[c.issue].resolution = "unwritten" /\ issues' = Resolved(issues, c.issue, "lost")
      BY <1>2, <2>2 DEF Decides, LoseChange, Resolved
    <2>. QED BY <1>1, <2>2, <2>3, DecidedAlone
  <1>3. CASE c.resolution # "AUTO_APPLIED"
    <2>1. issues' = issues
      BY <1>3 DEF LoseChange
    <2>2. Advances(issues, issues')
      BY <2>1, AdvancesSame DEF BInv
    <2>3. /\ issues' \in Seq(IssueRows) /\ Allowed(issues')
          /\ lineStatus' \in [Lines -> {"ORDERED", "SUBSTITUTED", "REMOVED"}]
          /\ \A o \in Orders : linesOf[o] \subseteq linesOf'[o] /\ IsFiniteSet(linesOf'[o])
          /\ total' = [o \in Orders |-> total'[o]]
          /\ \A o \in Orders : total'[o] = total[o]
          /\ \A d \in changes' : d \in changes /\ issues'[d.issue] = issues[d.issue]
          /\ \A d, e \in changes' : d.line = e.line => d = e
          /\ \A l \in Lines : lineStatus'[l] = lineStatus[l]
      BY <1>1, <2>1 DEF BInv, ChangesKnow
    <2>. QED BY <2>2, <2>3, StepConsented
  <1>. QED BY <1>2, <1>3

\* A report is read: the customer's instruction decides what becomes of it.
LEMMA ReportKept ==
    ASSUME BInv, IInv', NEW o \in Orders, NEW l \in Lines, NEW proposed \in Proposals,
           NEW offer \in Offers \cup {None}, ReportIssue(o, l, proposed, offer)
    PROVE  BInv'
  <1>. DEFINE action == ResolveIssue(PreferenceOf[l], proposed)
              e == [line |-> l, action |-> action,
                    offer |-> IF action = "REMOVE" THEN None ELSE offer,
                    resolution |-> "unwritten"]
  <1>1. action \in Proposals /\ (action = "SUBSTITUTE" => PreferenceOf[l] = "ALLOW")
    <2>1. PreferenceOf[l] \in {"ALLOW", "DO_NOT_ALLOW", "ASK_ME"}
      BY BasketAssumption
    <2>. QED BY <2>1 DEF ResolveIssue, Proposals
  <1>2. /\ issues' = Append(issues, e) /\ changes' = changes
        /\ UNCHANGED <<linesOf, lineStatus, total>>
    BY DEF ReportIssue, vars, orderVars
  <1>. HIDE DEF action
  <1>3. e \in IssueRows /\ e.line = l /\ e.action = action
    BY <1>1 DEF IssueRows
  <1>4. /\ issues \in Seq(IssueRows) /\ Allowed(issues) /\ Len(issues) \in Nat
        /\ DOMAIN issues = 1 .. Len(issues)
    BY IssueType DEF BInv
  <1>. HIDE DEF e
  <1>5. PICK later : later = issues' /\ later = Append(issues, e)
    BY <1>2
  <1>6. /\ later \in Seq(IssueRows) /\ Len(later) = Len(issues) + 1
        /\ DOMAIN later = 1 .. Len(issues) + 1 /\ later[Len(issues) + 1] = e
        /\ \A i \in 1 .. Len(issues) : later[i] = issues[i]
    BY <1>3, <1>4, <1>5
  <1>7. Advances(issues, later)
    BY <1>4, <1>6 DEF Advances
  <1>8. Allowed(later)
    <2>1. ASSUME NEW i \in DOMAIN later, later[i].action = "SUBSTITUTE"
          PROVE  PreferenceOf[later[i].line] = "ALLOW"
      <3>1. CASE i = Len(issues) + 1
        BY <1>1, <1>3, <1>6, <2>1, <3>1
      <3>2. CASE i # Len(issues) + 1
        <4>1. i \in 1 .. Len(issues)
          BY <1>4, <1>6, <3>2
        <4>. QED BY <1>4, <1>6, <2>1, <4>1 DEF Allowed
      <3>. QED BY <3>1, <3>2
    <2>. QED BY <2>1 DEF Allowed
  <1>9. \A c \in changes' : c \in changes /\ (c.issue # 0 => issues'[c.issue] = issues[c.issue])
    <2>1. \A c \in changes : c.issue \in 0 .. Len(issues)
      BY DEF BInv, ChangesKnow, ChangeKnows
    <2>. QED BY <1>2, <1>4, <1>5, <1>6, <2>1
  <1>10. /\ lineStatus' \in [Lines -> {"ORDERED", "SUBSTITUTED", "REMOVED"}]
         /\ \A q \in Orders : linesOf[q] \subseteq linesOf'[q] /\ IsFiniteSet(linesOf'[q])
         /\ total' = [q \in Orders |-> total'[q]]
         /\ \A q \in Orders : total'[q] = total[q]
         /\ \A c, d \in changes' : c.line = d.line => c = d
         /\ \A k \in Lines : lineStatus'[k] = lineStatus[k]
    BY <1>2 DEF BInv, ChangesKnow
  <1>. QED BY <1>5, <1>6, <1>7, <1>8, <1>9, <1>10, StepConsented

\* An issue is decided, its line follows, and the order costs what was summed.
LEMMA CommitIssueKept ==
    ASSUME BInv, IInv', NEW c \in changes, CommitIssue(c)
    PROVE  BInv'
  <1>. DEFINE i == c.issue
              o == c.order
              l == c.line
  <1>1. /\ i # 0 /\ changes' = changes \ {c} /\ total' = [total EXCEPT ![o] = c.sum]
        /\ issues' = Resolved(issues, i, c.resolution)
        /\ lineStatus' = [lineStatus EXCEPT ![l] = StatusAfter(issues'[i])]
        /\ UNCHANGED linesOf
    BY DEF CommitIssue, Resolved, vars, orderVars
  <1>2. /\ i \in 1 .. Len(issues) /\ issues[i].line = l /\ Decides(c) /\ l \in Lines /\ o \in Orders
        /\ \A d \in changes \ {c} : d.issue # i
    BY <1>1, IssuesAreHeld
  <1>3. /\ issues \in Seq(IssueRows) /\ Allowed(issues) /\ Len(issues) \in Nat
        /\ issues[i].action \in Proposals
        /\ c.resolution \in {"AUTO_APPLIED", "CUSTOMER_ACCEPTED", "CUSTOMER_DECLINED"}
        /\ total \in [Orders -> Nat] /\ lineStatus \in [Lines -> {"ORDERED", "SUBSTITUTED", "REMOVED"}]
    BY <1>2, IssueType DEF BInv, Decides
  <1>4. PICK later : later = issues'
    OBVIOUS
  <1>5. /\ later \in Seq(IssueRows) /\ Len(later) = Len(issues) /\ Allowed(later) /\ Advances(issues, later)
        /\ \A k \in 1 .. Len(issues) : k # i => later[k] = issues[k]
        /\ later[i].line = l /\ later[i].action = issues[i].action /\ later[i].resolution = c.resolution
    <2>1. c.resolution \in Resolutions \cup {"unwritten", "lost"}
      BY <1>3 DEF Resolutions
    <2>2. issues[i].resolution \in {"unwritten", "PENDING"}
      BY <1>2 DEF Decides
    <2>3. later = Resolved(issues, i, c.resolution)
      BY <1>1, <1>4
    <2>. HIDE DEF i, l
    <2>4. PICK iss, r : iss = issues /\ r = c.resolution
      OBVIOUS
    <2>5. /\ iss \in Seq(IssueRows) /\ Allowed(iss) /\ i \in 1 .. Len(iss)
          /\ r \in Resolutions \cup {"unwritten", "lost"} /\ iss[i].line = l
          /\ iss[i].resolution \in {"unwritten", "PENDING"} /\ later = Resolved(iss, i, r)
      BY ONLY <1>2, <1>3, <2>1, <2>2, <2>3, <2>4
    <2>6. /\ later \in Seq(IssueRows) /\ Len(later) = Len(iss)
          /\ Allowed(later) /\ Advances(iss, later) /\ later[i].resolution = r
      BY ONLY <2>5, Resolving
    <2>7. \A k \in 1 .. Len(iss) :
             (k # i => later[k] = iss[k]) /\ later[k].line = iss[k].line /\ later[k].action = iss[k].action
      BY ONLY <2>5, Resolving
    <2>. QED BY ONLY <2>4, <2>5, <2>6, <2>7
  <1>6. Agreed(Consents(later), linesOf[o], c.sum)
    <2>1. ChangeKnows(c)
      BY DEF BInv, ChangesKnow
    <2>2. After(c) = later /\ linesOf[o] \cup {l} = linesOf[o]
      BY <1>1, <1>4, <2>1 DEF ChangeKnows, After
    <2>. QED BY <2>1, <2>2 DEF ChangeKnows
  <1>7. lineStatus'[l] = "SUBSTITUTED" =>
            PreferenceOf[l] = "ALLOW" \/ c.resolution = "CUSTOMER_ACCEPTED"
    <2>. SUFFICES ASSUME lineStatus'[l] = "SUBSTITUTED", c.resolution # "CUSTOMER_ACCEPTED"
                  PROVE  PreferenceOf[l] = "ALLOW"
      OBVIOUS
    <2>1. StatusAfter(later[i]) = "SUBSTITUTED"
      BY <1>1, <1>2, <1>3, <1>4
    <2>2. issues[i].action # "REMOVE" /\ c.resolution # "CUSTOMER_DECLINED"
      BY <1>5, <2>1 DEF StatusAfter
    <2>3. issues[i].action = "SUBSTITUTE"
      BY <1>2, <1>3, <2>2 DEF Decides, Proposals
    <2>. QED BY <1>2, <1>3, <2>3, IssueType DEF Allowed
  <1>. HIDE DEF i, o, l
  <1>8. \A k \in Lines :
            \/ lineStatus'[k] = lineStatus[k] \/ lineStatus'[k] # "SUBSTITUTED"
            \/ PreferenceOf[k] = "ALLOW"
            \/ \E j \in DOMAIN issues' : /\ issues'[j].line = k
                                         /\ issues'[j].resolution = "CUSTOMER_ACCEPTED"
    <2>1. i \in DOMAIN later
      BY <1>2, <1>5, IssueType
    <2>2. \A k \in Lines : k # l => lineStatus'[k] = lineStatus[k]
      BY <1>1, <1>3
    <2>. QED BY <1>4, <1>5, <1>7, <2>1, <2>2
  <1>9. lineStatus' \in [Lines -> {"ORDERED", "SUBSTITUTED", "REMOVED"}]
    <2>1. StatusAfter(issues'[i]) \in {"ORDERED", "SUBSTITUTED", "REMOVED"}
      BY DEF StatusAfter
    <2>. QED BY <1>1, <1>3, <2>1
  <1>10. /\ \A q \in Orders : \/ total'[q] = total[q]
                              \/ Agreed(Consents(issues'), linesOf'[q], total'[q])
         /\ total' = [q \in Orders |-> total'[q]]
    BY <1>1, <1>2, <1>3, <1>4, <1>6
  <1>11. \A d \in changes' : d \in changes /\ (d.issue # 0 => issues'[d.issue] = issues[d.issue])
    <2>1. \A d \in changes : d.issue \in 0 .. Len(issues)
      BY DEF BInv, ChangesKnow, ChangeKnows
    <2>. QED BY <1>1, <1>2, <1>3, <1>4, <1>5, <2>1
  <1>12. /\ \A q \in Orders : linesOf[q] \subseteq linesOf'[q] /\ IsFiniteSet(linesOf'[q])
         /\ \A d, e \in changes' : d.line = e.line => d = e
    BY <1>1 DEF BInv, ChangesKnow
  <1>. QED BY <1>4, <1>5, <1>8, <1>9, <1>10, <1>11, <1>12, StepConsented

-----------------------------------------------------------------------------
(* The theorems of the basket *)

LEMMA BasketStepKept ==
    ASSUME BInv, [BasketNext]_allVars
    PROVE  BInv'
  <1>1. IInv'
    BY BasketSteps, StepKept DEF BInv
  <1>2. CASE UNCHANGED allVars
    BY <1>1, <1>2, OrderKept DEF allVars, vars, orderVars
  <1>3. CASE OrderStep
    BY <1>1, <1>3, OrderLines, OrderKept DEF OrderStep
  <1>4. ASSUME NEW o \in Orders, NEW i \in DOMAIN issues, RecordIssue(o, i)
        PROVE  BInv'
    BY <1>1, <1>4, SumWithIssueKept DEF RecordIssue
  <1>5. ASSUME NEW o \in Orders, NEW i \in DOMAIN issues, NEW answer \in Resolutions,
               SettleIssue(o, i, answer)
        PROVE  BInv'
    BY <1>1, <1>5, SumWithIssueKept DEF SettleIssue
  <1>6. CASE LineStep
    BY <1>1, <1>4, <1>5, <1>6, SumWithLineKept, ReportKept, RecordQuestionKept, LoseReportKept,
       CommitLineKept, CommitIssueKept, LoseChangeKept DEF LineStep
  <1>. QED BY <1>2, <1>3, <1>6 DEF BasketNext

LEMMA BasketInitHolds ==
    ASSUME BasketInit
    PROVE  BInv
  <1>1. IInv
    BY InitIInv DEF BasketInit
  <1>2. /\ \A o \in Orders : linesOf[o] = {} /\ total[o] = 0
        /\ issues = <<>> /\ changes = {} /\ \A l \in Lines : lineStatus[l] = "ORDERED"
    BY DEF BasketInit, Init
  <1>3. issues \in Seq(IssueRows) /\ Allowed(issues)
    BY <1>2 DEF Allowed
  <1>4. IsFiniteSet({}) /\ {} \in SUBSET Lines
    BY FS_EmptySet
  <1>5. \A o \in Orders : Agreed(Consents(issues), linesOf[o], total[o])
    <2>1. \A f : TotalOf(f, {}) = 0
      BY TotalOfNone
    <2>2. [l \in {} |-> 0] \in [{} -> Nat]
      OBVIOUS
    <2>. QED BY <1>2, <2>1, <2>2 DEF Agreed
  <1>. QED BY <1>1, <1>2, <1>3, <1>4, <1>5
           DEF BInv, BasketInit, ChangesKnow, SubstitutesAreConsented, TotalsAreConsented

LEMMA BasketInductive == BasketSpec => []BInv
  BY BasketInitHolds, BasketStepKept, PTL DEF BasketSpec

\* Lines, issues, totals and changes stay what the code declares them to be.
THEOREM BasketTypeCorrect == BasketSpec => []BasketTypeOK
  <1>1. BInv => BasketTypeOK
    <2>. SUFFICES ASSUME BInv PROVE BasketTypeOK
      OBVIOUS
    <2>1. ASSUME NEW c \in changes
          PROVE  /\ c.order \in Orders /\ c.line \in Lines /\ c.sum \in Nat
                 /\ c.issue \in 0..Len(issues)
      <3>1. ChangeKnows(c)
        BY DEF BInv, ChangesKnow
      <3>2. linesOf[c.order] \cup {c.line} \in SUBSET Lines /\ IsFiniteSet(linesOf[c.order] \cup {c.line})
        <4>1. c.order \in Orders /\ c.line \in Lines
          BY <3>1 DEF ChangeKnows
        <4>2. linesOf[c.order] \in SUBSET Lines /\ IsFiniteSet(linesOf[c.order])
          BY <4>1 DEF BInv, IInv, TypeOK
        <4>. QED BY <4>1, <4>2, FS_AddElement
      <3>3. c.sum \in Nat
        BY <3>1, <3>2, AgreedType DEF ChangeKnows
      <3>. QED BY <3>1, <3>3 DEF ChangeKnows
    <2>. QED BY <2>1 DEF BInv, IInv, BasketTypeOK, IssueRows
  <1>. QED BY <1>1, BasketInductive, PTL

\* An order whose lines have problems is an order: whatever is proved of
\* GroceryOrder holds of Basket (recomputeTotal and RecordIssue write no column
\* the order's own requests read).
THEOREM BasketsAreOrders == BasketSpec => Spec
  <1>1. BasketInit => Init
    BY DEF BasketInit
  <1>2. BInv /\ [BasketNext]_allVars => [Next]_vars
    BY BasketSteps DEF BInv
  <1>. QED BY <1>1, <1>2, BasketInductive, PTL DEF BasketSpec, Spec

\* So the stock of orders whose baskets change is sound as well.
THEOREM BasketStockStaysSound == BasketSpec /\ []LinesArriveInTime => []StockIsSound
  BY BasketsAreOrders, StockStaysSound, PTL

\* Whatever a shop proposes and however reports, answers and additions overlap,
\* nothing is substituted and nothing charged that the customer did not order,
\* allow or accept (ResolveIssue, SettleIssue, recomputeTotal).
THEOREM ChargesStayConsented == BasketSpec => []ChargesAreConsented
  <1>1. BInv => ChargesAreConsented
    <2>. SUFFICES ASSUME BInv PROVE ChargesAreConsented
      OBVIOUS
    <2>1. \A l \in Lines : Consented(l) = Consents(issues)[l]
      BY DEF Consented, Consents, Settled
    <2>2. ASSUME NEW o \in Orders
          PROVE  \E price \in [linesOf[o] -> UNION {Consented(l) : l \in linesOf[o]}] :
                    /\ \A l \in linesOf[o] : price[l] \in Consented(l)
                    /\ total[o] = MapThenSumSet(LAMBDA l : price[l] * QtyOf[l], linesOf[o])
      <3>1. linesOf[o] \in SUBSET Lines /\ IsFiniteSet(linesOf[o])
        BY DEF BInv, IInv, TypeOK
      <3>2. PICK price \in [linesOf[o] -> Nat] :
               /\ \A l \in linesOf[o] : price[l] \in Consents(issues)[l]
               /\ total[o] = TotalOf(Worth(price), linesOf[o])
        BY DEF BInv, TotalsAreConsented, Agreed
      <3>3. MapThenSumSet(LAMBDA l : price[l] * QtyOf[l], linesOf[o]) = TotalOf(Worth(price), linesOf[o])
        BY <3>1, CostIsTotal
      <3>4. \A l \in linesOf[o] : price[l] \in Consented(l)
        BY <2>1, <3>1, <3>2
      <3>5. price \in [linesOf[o] -> UNION {Consented(l) : l \in linesOf[o]}]
        BY <3>2, <3>4
      <3>. QED BY <3>2, <3>3, <3>4, <3>5
    <2>. QED BY <2>2 DEF BInv, ChargesAreConsented, SubstitutesAreConsented
  <1>. QED BY <1>1, BasketInductive, PTL

=============================================================================
