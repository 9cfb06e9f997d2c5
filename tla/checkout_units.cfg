\* Two customers, a contested product, requests of every kind, any of them sent twice.
CONSTANTS
    Tx = {t1, t2}
    Customer = {c1, c2}
    Product = {p1}
    OrderId = {o1, o2}
    Kinds = {"checkout", "move", "recount", "delist"}
    Count = {2}
    MaxLine = 2
SPECIFICATION Spec
SYMMETRY Alike
INVARIANTS TypeOK
PROPERTIES OrderIsTheCart LedgerSpec
