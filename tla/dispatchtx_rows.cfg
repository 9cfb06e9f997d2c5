\* Three requests about one order.
CONSTANTS
    Tx = {t1, t2, t3}
    OrderId = {1}
    Rider = {1, 2}
    MaxAttempts = 4
    Kinds = {"online", "ready", "picked_up", "delivered", "failed"}
SPECIFICATION Spec
SYMMETRY Requests
INVARIANTS TypeOK ReadyAndFailKeepIndex
PROPERTIES CustodySpec
