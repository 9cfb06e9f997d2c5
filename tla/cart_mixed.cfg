\* Two requests that add to an empty cart.
CONSTANTS
    p1 = p1  p2 = p2  s1 = s1  s2 = s2
    Tx = {t1, t2}
    Product = {p1, p2}
    Shop = {s1, s2}
    ShopOf <- TwoSellers
    Item = {i1, i2}
    Kinds = {"add"}
    MaxLine = 1
SPECIFICATION Spec
INVARIANTS OneShop
