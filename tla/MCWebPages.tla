----------------------------- MODULE MCWebPages -----------------------------
\* Small instances of the pages, one beside the other.
EXTENDS WebPages

\* Two products of one shop and one of another.
Sellers == [p1 |-> "s1", p2 |-> "s1", p3 |-> "s2"]

\* A role the platform knows and one it does not; a string.
Metadata ==
    {[roles |-> {"rider", "auditor"}, isList |-> TRUE],
     [roles |-> {"super_admin"}, isList |-> FALSE]}

People == {{}, {"shopkeeper"}, {"super_admin"}}

\* A page of every kind; of the areas, the shop's and the administrators'.
FirstPaths == {Root.path, Login.path, ShopDetail.path, ShopDashboard.path, AdminOrders.path}
AgainPaths == {Home.path, Cart.path}
=============================================================================
