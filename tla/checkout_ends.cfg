\* Two transactions on the rows of two products, which may wait for one another.
CONSTANTS
    Tx = {t1, t2}
    Customer = {c1}
    Product = {p1, p2}
    OrderId = {o1, o2}
    Kinds = {"checkout", "move"}
    Count = {2}
    MaxLine = 1
SPECIFICATION FairSpec
PROPERTY EveryRequestEnds
