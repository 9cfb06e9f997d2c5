\* One customer, two shops, one with two products: every handler, a whole order life.
CONSTANTS
    s1 = s1  s2 = s2  p1 = p1  p2 = p2  p3 = p3
    Customer = {c1}
    Shop = {s1, s2}
    Product = {p1,p2,p3}
    OrderId = {o1}
    ShopOf <- ThreeProductsOf
    NoShop = NoShop
    RequestQty = {2}
    MaxLine = 2
    Count = {1,2}
    MaxHistory = 7
SPECIFICATION Spec
SYMMETRY CustomersAndOrders
INVARIANTS TypeOK HistoryTellsStatus NeverUndoneOncePrepared CartOfOneShop OrderOfOneShop
PROPERTIES UnitsConserved LedgerSpec
