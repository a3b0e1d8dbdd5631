SPECIFICATION FairSpec
CONSTANTS
    o1 = o1  l1 = l1  l2 = l2  rice = rice
    j1 = j1  j2 = j2  t1 = t1  t2 = t2
    Orders <- OneOrder
    Lines <- TwoLines
    Products <- OneProduct
    ProductOf <- RiceLines
    QtyOf <- RiceQty
    Shelf <- Rice2
    Deliveries <- TwoDeliveries
    Taps <- TwoTaps
    CanFail = TRUE
    None = None
INVARIANTS OrdersAgree
PROPERTIES PickedOrdersAreNotCancelled AcceptanceEnds
CHECK_DEADLOCK FALSE
