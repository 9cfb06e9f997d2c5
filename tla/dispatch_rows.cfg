\* The life of delivery rows.
CONSTANTS
    OrderId = {o1, o2}
    Rider = {1, 2, 3}
    MaxAttempts = 3
SPECIFICATION Spec
SYMMETRY Orders
INVARIANTS TypeOK OneLiveRow RowFitsOrder OrderHasItsRow FreshOrderWaitsForRiders
PROPERTIES RowsAreHistory CustodySpec
