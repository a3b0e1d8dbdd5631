SPECIFICATION BasketSpec
CONSTANTS
    o1 = o1  o2 = o2  l1 = l1  l2 = l2  l3 = l3  rice = rice  milk = milk  t1 = t1
    Orders <- TwoOrders
    Lines <- ThreeLines
    Products <- TwoProducts
    ProductOf <- LineProduct
    QtyOf <- LineQty
    Shelf <- TwoOfEach
    Deliveries = {}
    Taps <- OneTap
    CanFail = TRUE
    None = None
    PriceOf <- OneEach
    PreferenceOf <- LinePreference
    Offers <- Dearer
    MaxIssues = 2
SYMMETRY Symmetry
CONSTRAINTS LinesArriveInTime SecondProblemStays
INVARIANTS StockIsSound ChargesAreConsented
CHECK_DEADLOCK FALSE
