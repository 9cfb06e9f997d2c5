\* Two requests of any kind about one cart, products of two shops.
CONSTANTS
    p1 = p1  p2 = p2  s1 = s1  s2 = s2
    Tx = {t1, t2}
    Product = {p1, p2}
    Shop = {s1, s2}
    ShopOf <- TwoSellers
    Item = {i1, i2}
    Kinds = {"add", "update", "delete", "clear", "checkout"}
    MaxLine = 2
SPECIFICATION FairSpec
INVARIANTS TypeOK OrderOfOneShop
PROPERTIES OrderIsTheCart EveryRequestEnds
