----------------------------- MODULE Storefront -----------------------------
(***************************************************************************)
(* One customer with three tabs: the cart page, the page of a product with *)
(* its "Add to cart" button and the checkout form.  They share one cart on *)
(* the server (a request is one step here; CartTx and CheckoutTx take them *)
(* apart) and each shows what it was last told.  The cart page may have    *)
(* several requests on the way at once, the other two have one each.       *)
(***************************************************************************)
EXTENDS Integers, FiniteSets

CONSTANTS
    Product, Shop,
    ShopOf,    \* products.shop_id
    CartCall,  \* bound: requests the cart page has on the way, at most
    MaxLineId, \* bound: cart lines created
    MaxQty,    \* bound: units of one line
    MaxPress   \* bound: buttons pressed

ASSUME StoreAssumption ==
    /\ Product # {} /\ ShopOf \in [Product -> Shop]
    /\ MaxLineId \in Nat \ {0} /\ MaxQty \in Nat \ {0} /\ MaxPress \in Nat
    /\ {"button", "form"} \cap CartCall = {}

VARIABLES
    cart,   \* the server's lines: id |-> product and quantity
    used,   \* line ids given so far
    page,   \* the cart page: lines shown, the busy line, "Clearing..."
    button, \* the product page: its product, "Loading", the conflict dialog
    placing,\* the checkout form: what placeOrder awaits
    calls,  \* requests on the way and answers not yet taken over
    stray,  \* requests the browser gave up and the server has yet to serve
    presses,\* buttons pressed so far
    apart   \* ghost: why the cart page may differ from the cart

storeVars == <<cart, used, page, button, placing, calls, stray, presses, apart>>

-----------------------------------------------------------------------------
LineId == 1..MaxLineId
NoLine == 0
Quantity == 1..MaxQty
Caller == CartCall \cup {"button", "form"}

Request ==
    [op : {"get", "clear", "order"}]
    \cup [op : {"add"}, product : Product]
    \cup [op : {"patch"}, line : LineId, quantity : Quantity]
    \cup [op : {"delete"}, line : LineId]

NoCall == [state |-> "idle"]

\* A cart the server can have: one line for a product, products of one shop.
IsCart(c) ==
    /\ DOMAIN c \subseteq LineId
    /\ \A i \in DOMAIN c : c[i] \in [product : Product, quantity : Quantity]
    /\ \A i, j \in DOMAIN c :
          /\ ShopOf[c[i].product] = ShopOf[c[j].product]
          /\ c[i].product = c[j].product => i = j

Without(c, S) == [i \in DOMAIN c \ S |-> c[i]]

LineOf(p) == {i \in DOMAIN cart : cart[i].product = p}

\* carts.shop_id: cleared with the last line.
BoundShops == {ShopOf[cart[i].product] : i \in DOMAIN cart}

-----------------------------------------------------------------------------
(* The server. *)

\* 409 cart_cross_shop.
CrossShop(q) == q.op = "add" /\ ~(BoundShops \subseteq {ShopOf[q.product]})

\* 404 for a line that is gone, 409 empty_cart.
Unserved(q) ==
    \/ q.op \in {"patch", "delete"} /\ q.line \notin DOMAIN cart
    \/ q.op = "order" /\ cart = << >>

\* Mutant: what is added is always a new line.
AddNewLine(p) ==
    /\ used < MaxLineId
    /\ used' = used + 1
    /\ cart' = [i \in DOMAIN cart \cup {used'} |->
                  IF i = used' THEN [product |-> p, quantity |-> 1] ELSE cart[i]]

Add(p) ==
    IF LineOf(p) # {}
    THEN /\ \A i \in LineOf(p) :
               /\ cart[i].quantity < MaxQty
               /\ cart' = [cart EXCEPT ![i].quantity = @ + 1]
         /\ used' = used
    ELSE /\ used < MaxLineId
         /\ used' = used + 1
         /\ cart' = [i \in DOMAIN cart \cup {used'} |->
                        IF i = used' THEN [product |-> p, quantity |-> 1] ELSE cart[i]]

Serves(q) ==
    \/ q.op = "get" /\ UNCHANGED <<cart, used>>
    \/ q.op \in {"clear", "order"} /\ cart' = << >> /\ UNCHANGED used
    \/ q.op = "add" /\ Add(q.product)
    \/ q.op = "patch" /\ cart' = [cart EXCEPT ![q.line].quantity = q.quantity] /\ UNCHANGED used
    \/ q.op = "delete" /\ cart' = Without(cart, {q.line}) /\ UNCHANGED used

Answer(c, a) == calls' = [calls EXCEPT ![c] = a]

Send(c, q) == Answer(c, [state |-> "sent", request |-> q])

\* Every answer of the cart router is the whole cart.
Serve(c) ==
    /\ calls[c].state = "sent"
    /\ LET q == calls[c].request IN
       \/ /\ CrossShop(q)
          /\ Answer(c, [state |-> "conflict", request |-> q])
          /\ UNCHANGED <<cart, used, apart>>
       \/ /\ Unserved(q)
          /\ Answer(c, [state |-> "failed", request |-> q])
          /\ UNCHANGED <<cart, used, apart>>
       \/ /\ ~CrossShop(q) /\ ~Unserved(q)
          /\ Serves(q)
          /\ Answer(c, [state |-> "ok", request |-> q, cart |-> cart'])
          /\ apart' = (apart \/ (c \notin CartCall /\ cart' # cart))
    /\ UNCHANGED <<page, button, placing, stray, presses>>

\* Any other error: a rate limit, sold out, a dropped connection, 15 seconds.  The server may serve the request all the same.
GiveUp(c) ==
    /\ calls[c].state = "sent"
    /\ Answer(c, [state |-> "failed", request |-> calls[c].request])
    /\ \/ UNCHANGED <<stray, presses, apart>>
       \/ /\ stray = {}
          /\ stray' = {calls[c].request}
          /\ apart' = TRUE
    /\ UNCHANGED <<cart, used, page, button, placing, presses>>

ServeStray(q) ==
    /\ q \in stray
    /\ stray' = stray \ {q}
    /\ \/ ~CrossShop(q) /\ ~Unserved(q) /\ Serves(q)
       \/ UNCHANGED <<cart, used>>
    /\ apart' = (apart \/ cart' # cart)
    /\ UNCHANGED <<page, button, placing, calls, presses>>

-----------------------------------------------------------------------------
(* The cart page. *)

Quiet == \A c \in CartCall : calls[c].state = "idle"

Press == presses < MaxPress /\ presses' = presses + 1

\* The page is loaded with the cart as it is.
OpenCart ==
    /\ Quiet
    /\ page' = [shown |-> cart, busy |-> NoLine, clearing |-> FALSE]
    /\ apart' = (stray # {})
    /\ UNCHANGED <<cart, used, button, placing, calls, stray, presses>>

\* The slot c is one that is free; which one does not matter.
Start(c, q) ==
    /\ calls[c].state = "idle"
    /\ Quiet => c = CHOOSE d \in CartCall : TRUE
    /\ Press
    /\ Send(c, q)
    /\ apart' = (apart \/ ~Quiet)
    /\ UNCHANGED <<cart, used, button, placing, stray>>

\* The line whose buttons are disabled is the last one pressed, no other.
ChangeQty(c, i, n) ==
    /\ i \in DOMAIN page.shown /\ i # page.busy
    /\ n \in {page.shown[i].quantity - 1, page.shown[i].quantity + 1} \cap Quantity
    /\ Start(c, [op |-> "patch", line |-> i, quantity |-> n])
    /\ page' = [page EXCEPT !.busy = i]

RemoveItem(c, i) ==
    /\ i \in DOMAIN page.shown /\ i # page.busy
    /\ Start(c, [op |-> "delete", line |-> i])
    /\ page' = [page EXCEPT !.busy = i]

ClearAll(c) ==
    /\ page.shown # << >> /\ ~page.clearing
    /\ Start(c, [op |-> "clear"])
    /\ page' = [page EXCEPT !.clearing = TRUE]

\* The finally of clearAll, or of changeQty and removeItem.
Settle(q) ==
    IF q.op = "clear" THEN [page EXCEPT !.clearing = FALSE] ELSE [page EXCEPT !.busy = NoLine]

\* Mutant: the finally of changeQty does not cover its refresh.
TakeCartWithoutFinally(c) ==
    LET q == calls[c].request IN
    /\ \/ /\ calls[c].state = "ok"
          /\ page' = [Settle(q) EXCEPT !.shown = calls[c].cart]
          /\ Answer(c, NoCall)
       \/ /\ calls[c].state = "failed" /\ q.op = "patch"
          /\ Send(c, [op |-> "get"])
          /\ page' = page
       \/ /\ calls[c].state = "failed" /\ q.op # "patch"
          /\ page' = IF q.op = "get" THEN page ELSE Settle(q)
          /\ Answer(c, NoCall)
    /\ UNCHANGED <<cart, used, button, placing, stray, presses, apart>>

\* What was answered replaces all that is shown; only changeQty reloads the cart
\* after an error, within the same try and with the line still busy.
TakeCart(c) ==
    LET q == calls[c].request IN
    /\ \/ /\ calls[c].state = "ok"
          /\ page' = [Settle(q) EXCEPT !.shown = calls[c].cart]
          /\ Answer(c, NoCall)
       \/ /\ calls[c].state = "failed" /\ q.op = "patch"
          /\ Send(c, [op |-> "get"])
          /\ page' = page
       \/ /\ calls[c].state = "failed" /\ q.op # "patch"
          /\ page' = Settle(q)
          /\ Answer(c, NoCall)
    /\ UNCHANGED <<cart, used, button, placing, stray, presses, apart>>

-----------------------------------------------------------------------------
(* The product page. *)

PressButton(q, dialog) ==
    /\ ~button.loading
    /\ button' = [button EXCEPT !.loading = TRUE, !.dialog = dialog]
    /\ Press
    /\ Send("button", q)
    /\ UNCHANGED <<cart, used, page, placing, stray, apart>>

PressAdd == ~button.dialog /\ PressButton([op |-> "add", product |-> button.product], FALSE)

\* Mutant: the dialog is closed when the switch begins.
PressSwitchAndClose == button.dialog /\ PressButton([op |-> "clear"], FALSE)

\* "Empty & add".
PressSwitch == button.dialog /\ PressButton([op |-> "clear"], TRUE)

\* "Keep cart".
KeepCart ==
    /\ button.dialog /\ ~button.loading
    /\ button' = [button EXCEPT !.dialog = FALSE, !.emptied = FALSE]
    /\ UNCHANGED <<cart, used, page, placing, calls, stray, presses, apart>>

\* add and switchShop after their answer: the switch adds once the cart is
\* empty.  A conflict opens the dialog of add; to switchShop it is one more
\* error, and an error leaves the dialog as it is.
TakeAdd ==
    LET a == calls["button"] IN
    /\ \/ /\ a.state = "ok" /\ a.request.op = "clear"
          /\ Send("button", [op |-> "add", product |-> button.product])
          /\ button' = [button EXCEPT !.emptied = TRUE]
       \/ /\ a.state = "ok" /\ a.request.op = "add"
          /\ Answer("button", NoCall)
          /\ button' = [button EXCEPT !.loading = FALSE, !.dialog = FALSE, !.emptied = FALSE]
       \/ /\ a.state \in {"conflict", "failed"}
          /\ Answer("button", NoCall)
          /\ button' = [button EXCEPT !.loading = FALSE, !.dialog = @ \/ a.state = "conflict"]
    /\ UNCHANGED <<cart, used, page, placing, stray, presses, apart>>

-----------------------------------------------------------------------------
(* The checkout form. *)

\* placeOrder looks at the live cart first.
PressPlace ==
    /\ ~placing
    /\ placing' = TRUE
    /\ Press
    /\ Send("form", [op |-> "get"])
    /\ UNCHANGED <<cart, used, page, button, stray, apart>>

TakeOrder ==
    LET a == calls["form"] IN
    /\ \/ /\ a.state = "ok" /\ a.request.op = "get" /\ a.cart # << >>
          /\ Send("form", [op |-> "order"])
          /\ placing' = placing
       \/ /\ a.state = "ok" => a.request.op = "order" \/ a.cart = << >>
          /\ a.state \in {"ok", "failed"}
          /\ Answer("form", NoCall)
          /\ placing' = FALSE
    /\ UNCHANGED <<cart, used, page, button, stray, presses, apart>>

-----------------------------------------------------------------------------
StoreInit ==
    /\ used = 1
    /\ cart = [i \in 1..used |-> [product |-> CHOOSE p \in Product : TRUE, quantity |-> 1]]
    /\ page = [shown |-> cart, busy |-> NoLine, clearing |-> FALSE]
    /\ \E p \in Product :
          button = [product |-> p, loading |-> FALSE, dialog |-> FALSE, emptied |-> FALSE]
    /\ placing = FALSE
    /\ calls = [c \in Caller |-> NoCall]
    /\ stray = {}
    /\ presses = 0
    /\ apart = FALSE

StoreNext ==
    \/ \E c \in Caller : Serve(c) \/ GiveUp(c)
    \/ \E q \in stray : ServeStray(q)
    \/ OpenCart
    \/ \E c \in CartCall :
          \/ \E i \in LineId, n \in Quantity : ChangeQty(c, i, n)
          \/ \E i \in LineId : RemoveItem(c, i)
          \/ ClearAll(c)
          \/ TakeCart(c)
    \/ PressAdd \/ PressSwitch \/ KeepCart \/ TakeAdd
    \/ PressPlace \/ TakeOrder

StoreSpec == StoreInit /\ [][StoreNext]_storeVars

\* Requests are answered or given up (apiFetch's timer), and the browser runs
\* what awaits them.  Nobody has to press anything; since presses are bounded,
\* one condition for all requests is enough.
StoreFair ==
    WF_storeVars(\/ \E c \in Caller : Serve(c) \/ GiveUp(c)
                 \/ \E c \in CartCall : TakeCart(c)
                 \/ TakeAdd \/ TakeOrder)

-----------------------------------------------------------------------------
(* Properties *)

\* The cart and every page are well typed; a busy widget has its request on the
\* way, and a page shows only carts the server can have.
StoreTypeOK ==
    /\ IsCart(cart) /\ IsCart(page.shown)
    /\ used \in 0..MaxLineId /\ DOMAIN cart \subseteq 1..used
    /\ page.busy \in LineId \cup {NoLine} /\ page.clearing \in BOOLEAN
    /\ button.product \in Product
    /\ button.loading <=> calls["button"].state # "idle"
    /\ placing <=> calls["form"].state # "idle"
    /\ stray \subseteq Request
    /\ presses \in 0..MaxPress
    /\ apart \in BOOLEAN

\* CartManager.tsx: a cart page with nothing on the way shows the cart, unless
\* two of its requests overlapped (its busyId disables one line only, and the
\* answers may come swapped), one was given up and is still served, or the cart
\* was changed from another page.
QuietPageShowsTheCart == Quiet /\ ~apart => page.shown = cart

\* AddProductButton.tsx: "Empty & add" is two requests.  When the second fails
\* the cart is gone, but then the dialog is still open to try again.
EmptiedCartKeepsDialog == button.emptied => button.loading \/ button.dialog

\* No widget stays disabled: busyId, "Clearing...", the button's spinner and
\* "Placing..." always end, after errors inside the error handling as well.
WidgetsComeBack ==
    /\ []<>(page.busy = NoLine) /\ []<>(~page.clearing)
    /\ []<>(~button.loading) /\ []<>(~placing)
=============================================================================
