\* Requests that wait for one another's rows.
CONSTANTS
    Tx = {t1, t2}
    OrderId = {1, 2}
    Rider = {1, 2}
    MaxAttempts = 3
    Kinds = {"online", "ready"}
SPECIFICATION FairSpec
INVARIANTS NoDoubleAssign
PROPERTIES EveryRequestEnds
