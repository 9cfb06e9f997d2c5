------------------------------ MODULE Sitemap ------------------------------
(***************************************************************************)
(* The pages of the web app.  A path is the sequence of its segments.  A   *)
(* page is shown to guests or asks for a session first; it fails with any  *)
(* of the reads it must have, does without those it can spare, and some    *)
(* show a 404 in a way of their own.                                       *)
(***************************************************************************)
EXTENDS Sequences, FiniteSets

Guest(path, must, spare) ==
    [path |-> path, kind |-> "guest", must |-> must, spare |-> spare, missing |-> "error",
     to |-> << >>]

Signed(path, must, spare) == [Guest(path, must, spare) EXCEPT !.kind = "signed"]

Forward(path, to) == [Guest(path, {}, {}) EXCEPT !.kind = "forward", !.to = to]

On404(page, shows) == [page EXCEPT !.missing = shows]

\* The customer layout reads the profile and the addresses of who is signed in.
InCustomerShell(page) == [page EXCEPT !.spare = @ \cup {"profile", "addresses"}]

Root == Forward(<< >>, <<"home">>)
About == Guest(<<"about">>, {}, {})
Login == Guest(<<"login">>, {}, {})
Callback == Guest(<<"auth", "callback">>, {}, {})

Home == InCustomerShell(Guest(<<"home">>, {"shops"}, {"categories", "products"}))
Shops == InCustomerShell(Guest(<<"shops">>, {"shops"}, {}))
ShopDetail ==
    InCustomerShell(On404(Guest(<<"shops", "id">>, {"shop", "products"}, {"favorites"}), "notFound"))
ProductDetail == InCustomerShell(On404(Guest(<<"products", "id">>, {"product"}, {}), "notFound"))
Search == InCustomerShell(Guest(<<"search">>, {"products"}, {}))
Categories == InCustomerShell(Guest(<<"categories">>, {"categories"}, {}))
Support == InCustomerShell(Guest(<<"support">>, {}, {}))
Cart == InCustomerShell(Signed(<<"cart">>, {"cart"}, {}))
Checkout == InCustomerShell(Signed(<<"checkout">>, {"cart", "addresses"}, {}))
Orders == InCustomerShell(Signed(<<"orders">>, {"orders"}, {}))
OrderDetail == InCustomerShell(On404(Signed(<<"orders", "id">>, {"order"}, {}), "notFound"))
Profile == InCustomerShell(Signed(<<"profile">>, {"profile", "addresses"}, {}))
Favorites == InCustomerShell(Signed(<<"favorites">>, {"favorites"}, {}))

\* An owner without a shop is shown the form that registers one.
ShopDashboard == On404(Signed(<<"shop">>, {"shop"}, {"orders"}), "register")
ShopOrders == Signed(<<"shop", "orders">>, {"orders"}, {})
ShopOrderDetail == On404(Signed(<<"shop", "orders", "id">>, {"order"}, {}), "notFound")
ShopProducts == Signed(<<"shop", "products">>, {"products"}, {"categories"})

Rider == Forward(<<"rider">>, <<"rider", "dashboard">>)
RiderDashboard == Signed(<<"rider", "dashboard">>, {"dashboard"}, {})
RiderDeliveries == Signed(<<"rider", "deliveries">>, {"deliveries"}, {})
RiderEarnings == Signed(<<"rider", "earnings">>, {"earnings"}, {})
RiderProfile == Signed(<<"rider", "profile">>, {"profile"}, {})

AdminRoot == Forward(<<"admin">>, <<"admin", "dashboard">>)
AdminDashboard == Signed(<<"admin", "dashboard">>, {"dashboard"}, {})
AdminOrders == Signed(<<"admin", "orders">>, {"orders"}, {})
AdminRiders == Signed(<<"admin", "riders">>, {"riders"}, {})
AdminCustomers == Signed(<<"admin", "customers">>, {"users"}, {})
AdminShops == Signed(<<"admin", "shops">>, {"shops"}, {})
AdminProducts == Signed(<<"admin", "products">>, {"products"}, {})
AdminAnalytics == Signed(<<"admin", "analytics">>, {"analytics"}, {})
AdminSettings == Signed(<<"admin", "settings">>, {"settings"}, {})

Pages == {
    Root, About, Login, Callback, Home, Shops, ShopDetail, ProductDetail, Search, Categories,
    Support, Cart, Checkout, Orders, OrderDetail, Profile, Favorites,
    ShopDashboard, ShopOrders, ShopOrderDetail, ShopProducts,
    Rider, RiderDashboard, RiderDeliveries, RiderEarnings, RiderProfile,
    AdminRoot, AdminDashboard, AdminOrders, AdminRiders, AdminCustomers, AdminShops,
    AdminProducts, AdminAnalytics, AdminSettings }

PageAt(path) == CHOOSE p \in Pages : p.path = path

-----------------------------------------------------------------------------
(* lib/supabase/middleware.ts and lib/auth/redirect.ts. *)

CustomerProtected == {"cart", "checkout", "orders", "profile", "favorites"}

\* The list of the middleware, apart from what the pages ask for themselves.
IsProtected(path) ==
    path # << >> /\ Head(path) \in CustomerProtected \cup {"shop", "rider", "admin"}

AreaRole == [shop |-> "shopkeeper", rider |-> "rider", admin |-> "admin"]

\* areaRoles: no role is asked for outside the three areas.
MayEnter(roles, path) ==
    path # << >> /\ Head(path) \in DOMAIN AreaRole =>
        {AreaRole[Head(path)], "super_admin"} \cap roles # {}

LandingFor(roles) ==
    IF {"admin", "super_admin"} \cap roles # {} THEN AdminDashboard.path
    ELSE IF "shopkeeper" \in roles THEN ShopDashboard.path
    ELSE IF "rider" \in roles THEN RiderDashboard.path
    ELSE Home.path
=============================================================================
