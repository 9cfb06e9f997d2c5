------------------------ MODULE CustomerPages_proofs ------------------------
(***************************************************************************)
(* Machine-checked theorems about the customers' pages, for every set of   *)
(* products, shops, tabs and requests and every bound: the storefront, the *)
(* address book and first requests.                                        *)
(***************************************************************************)
EXTENDS Storefront, AddressBook, FirstRow, FiniteSetTheorems, TLAPS

-----------------------------------------------------------------------------
(***************************************************************************)
(* The storefront: the conflict dialog and "Empty & add".                  *)
(***************************************************************************)

Sent(c) == calls[c].state # "idle"

\* The button waits for its request; while its switch empties the cart, and as
\* long as the cart it emptied is not filled again, the dialog is open.
DialogInv ==
    /\ calls = [c \in Caller |-> calls[c]]
    /\ button \in [product : Product, loading : BOOLEAN, dialog : BOOLEAN, emptied : BOOLEAN]
    /\ Sent("button") => button.loading
    /\ Sent("button") /\ calls["button"].request.op = "clear" => button.dialog
    /\ button.emptied => button.dialog

-----------------------------------------------------------------------------
\* The button's call is only changed by what is done for it.
LEMMA OthersCall ==
    ASSUME DialogInv, NEW c \in Caller \ {"button"}, NEW a, Answer(c, a), UNCHANGED button
    PROVE  DialogInv'
<1>1. "button" \in Caller
  BY DEF Caller
<1>2. calls'["button"] = calls["button"] /\ calls' = [d \in Caller |-> calls'[d]]
  BY <1>1 DEF DialogInv, Answer
<1>. QED
  BY <1>2 DEF DialogInv, Sent

\* A request that is served or given up stays the same request.
LEMMA ServedCall ==
    ASSUME DialogInv, NEW c \in Caller, Serve(c) \/ GiveUp(c)
    PROVE  DialogInv'
<1>1. PICK a : /\ Answer(c, a) /\ calls[c].state = "sent"
               /\ a.request = calls[c].request /\ a.state # "idle"
  BY DEF Serve, GiveUp
<1>2. UNCHANGED button
  BY DEF Serve, GiveUp
<1>3. CASE c # "button"
  BY <1>1, <1>2, <1>3, OthersCall
<1>4. CASE c = "button"
  <2>1. calls'["button"] = a /\ calls' = [d \in Caller |-> calls'[d]]
    BY <1>1, <1>4 DEF DialogInv, Answer
  <2>. QED
    BY <1>1, <1>2, <1>4, <2>1 DEF DialogInv, Sent
<1>. QED
  BY <1>3, <1>4

LEMMA ButtonCall ==
    ASSUME DialogInv, NEW a, Answer("button", a)
    PROVE  calls'["button"] = a /\ calls' = [d \in Caller |-> calls'[d]]
BY DEF DialogInv, Answer, Caller

LEMMA PressedButton ==
    ASSUME DialogInv, PressAdd \/ PressSwitch
    PROVE  DialogInv'
<1>1. CASE PressAdd
  <2>. DEFINE q == [op |-> "add", product |-> button.product]
  <2>1. calls'["button"] = [state |-> "sent", request |-> q]
        /\ calls' = [d \in Caller |-> calls'[d]]
    BY <1>1, ButtonCall DEF PressAdd, PressButton, Send
  <2>2. button' = [button EXCEPT !.loading = TRUE, !.dialog = FALSE] /\ ~button.dialog
    BY <1>1 DEF PressAdd, PressButton
  <2>3. button'.loading /\ ~button'.emptied
        /\ button' \in [product : Product, loading : BOOLEAN, dialog : BOOLEAN, emptied : BOOLEAN]
    BY <2>2 DEF DialogInv
  <2>4. calls'["button"].request.op = "add"
    BY <2>1
  <2>. HIDE DEF q
  <2>. QED
    BY <2>1, <2>3, <2>4 DEF DialogInv
<1>2. CASE PressSwitch
  <2>1. calls'["button"] = [state |-> "sent", request |-> [op |-> "clear"]]
        /\ calls' = [d \in Caller |-> calls'[d]]
    BY <1>2, ButtonCall DEF PressSwitch, PressButton, Send
  <2>2. button' = [button EXCEPT !.loading = TRUE, !.dialog = TRUE]
    BY <1>2 DEF PressSwitch, PressButton
  <2>3. button'.loading /\ button'.dialog
        /\ button' \in [product : Product, loading : BOOLEAN, dialog : BOOLEAN, emptied : BOOLEAN]
    BY <2>2 DEF DialogInv
  <2>. QED
    BY <2>1, <2>3 DEF DialogInv
<1>. QED
  BY <1>1, <1>2

LEMMA AnsweredButton ==
    ASSUME DialogInv, TakeAdd
    PROVE  DialogInv'
<1>. DEFINE a == calls["button"]
<1>1. CASE a.state = "ok" /\ a.request.op = "clear"
  <2>. DEFINE q == [op |-> "add", product |-> button.product]
  <2>1. Send("button", q) /\ button' = [button EXCEPT !.emptied = TRUE]
    BY <1>1 DEF TakeAdd
  <2>2. calls'["button"] = [state |-> "sent", request |-> q]
        /\ calls' = [d \in Caller |-> calls'[d]]
    BY <2>1, ButtonCall DEF Send
  <2>. QED
    BY <1>1, <2>1, <2>2 DEF DialogInv, Sent
<1>2. CASE ~(a.state = "ok" /\ a.request.op = "clear")
  <2>1. /\ Answer("button", NoCall)
        /\ \/ button' = [button EXCEPT !.loading = FALSE, !.dialog = FALSE, !.emptied = FALSE]
           \/ button' = [button EXCEPT !.loading = FALSE,
                                       !.dialog = button.dialog \/ a.state = "conflict"]
    BY <1>2 DEF TakeAdd
  <2>2. calls'["button"] = NoCall /\ calls' = [d \in Caller |-> calls'[d]]
    BY <2>1, ButtonCall
  <2>3. ~Sent("button")'
    BY <2>2 DEF Sent, NoCall
  <2>. QED
    BY <2>1, <2>2, <2>3 DEF DialogInv
<1>. QED
  BY <1>1, <1>2

\* The cart page and the form ask and take in their own name.
LEMMA OtherPages ==
    ASSUME DialogInv,
           \/ \E c \in CartCall :
                 \/ \E i \in LineId, n \in Quantity : ChangeQty(c, i, n)
                 \/ \E i \in LineId : RemoveItem(c, i)
                 \/ ClearAll(c)
                 \/ TakeCart(c)
           \/ PressPlace \/ TakeOrder
    PROVE  DialogInv'
<1>1. UNCHANGED button /\ \E c \in CartCall \cup {"form"} : \E a : Answer(c, a)
  BY DEF ChangeQty, RemoveItem, ClearAll, Start, TakeCart, PressPlace, TakeOrder, Send
<1>2. \A c \in CartCall \cup {"form"} : c \in Caller \ {"button"}
  BY StoreAssumption DEF Caller
<1>. QED
  BY <1>1, <1>2, OthersCall

LEMMA NoCallChanges ==
    ASSUME DialogInv,
           \/ \E q \in stray : ServeStray(q)
           \/ OpenCart \/ KeepCart
           \/ UNCHANGED storeVars
    PROVE  DialogInv'
<1>1. CASE KeepCart
  <2>1. UNCHANGED calls /\ ~button.loading
        /\ button' = [button EXCEPT !.dialog = FALSE, !.emptied = FALSE]
    BY <1>1 DEF KeepCart
  <2>. QED
    BY <2>1 DEF DialogInv, Sent
<1>2. CASE ~KeepCart
  <2>1. UNCHANGED <<calls, button>>
    BY <1>2 DEF ServeStray, OpenCart, storeVars
  <2>. QED
    BY <2>1 DEF DialogInv, Sent
<1>. QED
  BY <1>1, <1>2

LEMMA DialogKept == DialogInv /\ [StoreNext]_storeVars => DialogInv'
BY ServedCall, PressedButton, AnsweredButton, OtherPages, NoCallChanges DEF StoreNext

-----------------------------------------------------------------------------
\* AddProductButton.tsx: whatever fails, and whatever the other pages do, a cart
\* that "Empty & add" has emptied leaves its dialog open.
THEOREM EmptiedCartTheorem == StoreSpec => []EmptiedCartKeepsDialog
<1>1. StoreInit => DialogInv
  BY DEF StoreInit, DialogInv, Sent, NoCall, Caller
<1>2. DialogInv => EmptiedCartKeepsDialog
  BY DEF DialogInv, EmptiedCartKeepsDialog
<1>. QED
  BY <1>1, <1>2, DialogKept, PTL DEF StoreSpec

-----------------------------------------------------------------------------
(* The storefront: the cart page and the cart *)

\* A request of some page, and the cart of its answer.
CallFits(a) ==
    /\ a.state # "idle" => a.request \in Request
    /\ a.state = "ok" => IsCart(a.cart)

CartTypes ==
    /\ IsCart(cart) /\ used \in 0..MaxLineId /\ DOMAIN cart \subseteq 1..used

PageTypes ==
    /\ page = [shown |-> page.shown, busy |-> page.busy, clearing |-> page.clearing]
    /\ IsCart(page.shown) /\ page.busy \in LineId \cup {NoLine} /\ page.clearing \in BOOLEAN
    /\ placing \in BOOLEAN /\ stray \subseteq Request
    /\ presses \in 0..MaxPress /\ apart \in BOOLEAN

CallTypes ==
    /\ \A c \in Caller : CallFits(calls[c])
    /\ button.loading => Sent("button")
    /\ placing <=> Sent("form")

\* As long as nothing has set the cart page apart, it has one request on the way
\* at most: it shows the cart, or is about to be shown it.
CartShown ==
    ~apart =>
        /\ stray = {}
        /\ \A c, d \in CartCall : Sent(c) /\ Sent(d) => c = d
        /\ \A c \in CartCall : calls[c].state = "ok" => calls[c].cart = cart
        /\ (\A c \in CartCall : calls[c].state # "ok") => page.shown = cart

StoreInv == DialogInv /\ CartTypes /\ PageTypes /\ CallTypes /\ CartShown

-----------------------------------------------------------------------------
LEMMA RequestParts ==
    ASSUME NEW q \in Request
    PROVE  /\ q.op \in {"get", "clear", "order", "add", "patch", "delete"}
           /\ q.op = "add" => q.product \in Product
           /\ q.op = "patch" => q.line \in LineId /\ q.quantity \in Quantity
           /\ q.op = "delete" => q.line \in LineId
BY DEF Request

\* The server takes one cart to another.
LEMMA ServedCart ==
    ASSUME CartTypes, NEW q \in Request, ~CrossShop(q), ~Unserved(q), Serves(q)
    PROVE  CartTypes'
<1>. USE DEF CartTypes
<1>0. MaxLineId \in Nat /\ MaxQty \in Nat \ {0} /\ ShopOf \in [Product -> Shop]
  BY StoreAssumption
<1>1. CASE q.op = "get" /\ UNCHANGED <<cart, used>>
  BY <1>1 DEF IsCart
<1>2. CASE cart' = << >> /\ UNCHANGED used
  <2>1. DOMAIN cart' = {}
    BY <1>2
  <2>. QED
    BY <1>2, <2>1 DEF IsCart
<1>3. CASE q.op = "add" /\ Add(q.product)
  <2>. DEFINE p == q.product
  <2>0. p \in Product
    BY <1>3, RequestParts
  <2>1. CASE LineOf(p) # {}
    <3>1. PICK i \in LineOf(p) : cart[i].quantity < MaxQty
                                 /\ cart' = [cart EXCEPT ![i].quantity = @ + 1]
      BY <1>3, <2>1 DEF Add
    <3>2. used' = used /\ i \in DOMAIN cart
      BY <1>3, <2>1, <3>1 DEF Add, LineOf
    <3>3. cart[i] \in [product : Product, quantity : Quantity]
      BY <3>2 DEF IsCart
    <3>. DEFINE new == [cart[i] EXCEPT !.quantity = cart[i].quantity + 1]
    <3>4. new \in [product : Product, quantity : Quantity] /\ new.product = cart[i].product
      BY <1>0, <3>1, <3>3 DEF Quantity
    <3>5. cart' = [cart EXCEPT ![i] = new]
      BY <3>1
    <3>. HIDE DEF new
    <3>6. DOMAIN cart' = DOMAIN cart
          /\ \A j \in DOMAIN cart : cart'[j] \in [product : Product, quantity : Quantity]
                                    /\ cart'[j].product = cart[j].product
      BY <3>2, <3>4, <3>5 DEF IsCart
    <3>. QED
      BY <3>2, <3>6 DEF IsCart
  <2>2. CASE LineOf(p) = {}
    <3>. DEFINE new == [product |-> p, quantity |-> 1]
    <3>1. /\ used < MaxLineId /\ used' = used + 1
          /\ cart' = [i \in DOMAIN cart \cup {used'} |-> IF i = used' THEN new ELSE cart[i]]
      BY <1>3, <2>2 DEF Add
    <3>2. new \in [product : Product, quantity : Quantity] /\ new.product = p
      BY <1>0, <2>0 DEF Quantity
    <3>. HIDE DEF new
    <3>3. used' \in LineId /\ used' \notin DOMAIN cart /\ used' \in 0..MaxLineId
      BY <1>0, <3>1 DEF LineId
    <3>4. /\ DOMAIN cart' = DOMAIN cart \cup {used'} /\ cart'[used'] = new
          /\ \A j \in DOMAIN cart : cart'[j] = cart[j]
      BY <3>1, <3>3
    <3>5. \A j \in DOMAIN cart : cart[j].product # p /\ ShopOf[cart[j].product] = ShopOf[p]
      BY <1>3, <2>2 DEF LineOf, CrossShop, BoundShops
    <3>6. DOMAIN cart' \subseteq 1..used'
      BY <1>0, <3>1, <3>4
    <3>. QED
      BY <3>2, <3>3, <3>4, <3>5, <3>6 DEF IsCart
  <2>. QED
    BY <2>1, <2>2
<1>4. CASE q.op = "patch" /\ cart' = [cart EXCEPT ![q.line].quantity = q.quantity] /\ UNCHANGED used
  <2>1. q.line \in DOMAIN cart /\ q.quantity \in Quantity
    BY <1>4, RequestParts DEF Unserved
  <2>2. DOMAIN cart' = DOMAIN cart
        /\ \A j \in DOMAIN cart : cart'[j] \in [product : Product, quantity : Quantity]
                                  /\ cart'[j].product = cart[j].product
    BY <1>4, <2>1 DEF IsCart
  <2>. QED
    BY <1>4, <2>2 DEF IsCart
<1>5. CASE q.op = "delete" /\ cart' = Without(cart, {q.line}) /\ UNCHANGED used
  <2>1. DOMAIN cart' = DOMAIN cart \ {q.line} /\ \A j \in DOMAIN cart' : cart'[j] = cart[j]
    BY <1>5 DEF Without
  <2>. QED
    BY <1>5, <2>1 DEF IsCart
<1>. QED
  BY <1>1, <1>2, <1>3, <1>4, <1>5 DEF Serves

\* One call changes, to something that fits.
LEMMA OneCallChanges ==
    ASSUME DialogInv, CallTypes, NEW c \in Caller, NEW a, Answer(c, a), CallFits(a)
    PROVE  /\ calls'[c] = a /\ \A d \in Caller \ {c} : calls'[d] = calls[d]
           /\ \A d \in Caller : CallFits(calls'[d])
<1>1. calls'[c] = a /\ \A d \in Caller \ {c} : calls'[d] = calls[d]
  BY DEF DialogInv, Answer
<1>. QED
  BY <1>1 DEF CallTypes

LEMMA StoreStarts == StoreInit => StoreInv
<1>. SUFFICES ASSUME StoreInit PROVE StoreInv
  OBVIOUS
<1>0. /\ (CHOOSE p \in Product : TRUE) \in Product /\ 1 \in LineId /\ 1 \in Quantity
      /\ MaxLineId \in Nat \ {0} /\ MaxPress \in Nat
  BY StoreAssumption DEF LineId, Quantity
<1>1. DialogInv
  BY DEF StoreInit, DialogInv, Sent, NoCall, Caller
<1>2. DOMAIN cart = {1} /\ cart[1] = [product |-> CHOOSE p \in Product : TRUE, quantity |-> 1]
      /\ used = 1
  BY DEF StoreInit
<1>3. IsCart(cart) /\ CartTypes
  BY <1>0, <1>2 DEF IsCart, CartTypes
<1>4. PageTypes
  <2>1. page.shown = cart /\ page.busy = NoLine /\ page.clearing = FALSE
        /\ page = [shown |-> page.shown, busy |-> page.busy, clearing |-> page.clearing]
    BY DEF StoreInit
  <2>2. placing = FALSE /\ stray = {} /\ presses = 0 /\ apart = FALSE
    BY DEF StoreInit
  <2>3. presses \in 0..MaxPress /\ IsCart(page.shown)
    BY <1>0, <1>3, <2>1, <2>2
  <2>4. placing \in BOOLEAN /\ apart \in BOOLEAN /\ stray \subseteq Request
    BY <2>2
  <2>5. page.busy \in LineId \cup {NoLine} /\ page.clearing \in BOOLEAN
    BY <2>1
  <2>. QED
    BY <2>1, <2>3, <2>4, <2>5 DEF PageTypes
<1>5. \A c \in Caller : calls[c].state = "idle"
  BY DEF StoreInit, NoCall
<1>6. "form" \in Caller
  BY DEF Caller
<1>7. CallTypes
  <2>1. ~button.loading /\ ~placing /\ ~Sent("form")
    BY <1>5, <1>6 DEF StoreInit, Sent
  <2>. QED
    BY <1>5, <2>1 DEF CallTypes, CallFits
<1>8. CartShown
  <2>1. CartCall \subseteq Caller
    BY DEF Caller
  <2>. QED
    BY <1>5, <2>1 DEF StoreInit, CartShown, Sent
<1>. QED
  BY <1>1, <1>3, <1>4, <1>7, <1>8 DEF StoreInv

-----------------------------------------------------------------------------
\* What the widgets of the other pages do leaves the cart page as it is.
LEMMA CartPageRests ==
    ASSUME StoreInv, UNCHANGED <<cart, used, page, stray, apart>>,
           \A c \in CartCall : calls'[c] = calls[c]
    PROVE  CartTypes' /\ CartShown'
BY DEF StoreInv, CartTypes, CartShown, Sent, IsCart

LEMMA CallersApart ==
    /\ CartCall \subseteq Caller /\ "button" \in Caller /\ "form" \in Caller
    /\ \A c \in CartCall : c # "button" /\ c # "form"
BY StoreAssumption DEF Caller

LEMMA ServeKeepsStore ==
    ASSUME StoreInv, NEW c \in Caller, Serve(c)
    PROVE  CartTypes' /\ PageTypes' /\ CallTypes' /\ CartShown'
<1>. DEFINE q == calls[c].request
<1>1. /\ calls[c].state = "sent" /\ q \in Request
      /\ UNCHANGED <<page, button, placing, stray, presses>>
  BY DEF Serve, StoreInv, CallTypes, CallFits
<1>2. PICK a : /\ Answer(c, a) /\ a.state \in {"conflict", "failed", "ok"} /\ a.request = q
               /\ \/ a.state # "ok" /\ UNCHANGED <<cart, used, apart>>
                  \/ /\ a.state = "ok" /\ a.cart = cart' /\ Serves(q)
                     /\ ~CrossShop(q) /\ ~Unserved(q)
                     /\ apart' = (apart \/ (c \notin CartCall /\ cart' # cart))
  <2>1. CASE CrossShop(q) /\ Answer(c, [state |-> "conflict", request |-> q])
             /\ UNCHANGED <<cart, used, apart>>
    BY <2>1
  <2>2. CASE Unserved(q) /\ Answer(c, [state |-> "failed", request |-> q])
             /\ UNCHANGED <<cart, used, apart>>
    BY <2>2
  <2>3. CASE /\ ~CrossShop(q) /\ ~Unserved(q) /\ Serves(q)
             /\ Answer(c, [state |-> "ok", request |-> q, cart |-> cart'])
             /\ apart' = (apart \/ (c \notin CartCall /\ cart' # cart))
    BY <2>3
  <2>. QED
    BY <2>1, <2>2, <2>3 DEF Serve
<1>. HIDE DEF q
<1>3. CartTypes'
  <2>1. CASE UNCHANGED <<cart, used>>
    BY <2>1 DEF StoreInv, CartTypes, IsCart
  <2>2. CASE ~UNCHANGED <<cart, used>>
    BY <1>1, <1>2, <2>2, ServedCart DEF StoreInv
  <2>. QED
    BY <2>1, <2>2
<1>4. CallFits(a)
  BY <1>1, <1>2, <1>3 DEF CallFits, CartTypes
<1>5. /\ calls'[c] = a /\ \A d \in Caller \ {c} : calls'[d] = calls[d]
      /\ \A d \in Caller : CallFits(calls'[d])
  BY <1>2, <1>4, OneCallChanges DEF StoreInv
<1>6. \A d \in Caller : Sent(d)' <=> Sent(d)
  BY <1>1, <1>2, <1>5 DEF Sent
<1>7. CallTypes'
  BY <1>1, <1>5, <1>6, CallersApart DEF StoreInv, CallTypes
<1>8. PageTypes'
  BY <1>1, <1>2 DEF StoreInv, PageTypes
<1>9. CartShown'
  <2>1. SUFFICES ASSUME ~apart' PROVE CartShown'
    BY DEF CartShown
  <2>2. /\ ~apart /\ stray = {} /\ \A d, e \in CartCall : Sent(d) /\ Sent(e) => d = e
        /\ \A d \in CartCall : calls[d].state = "ok" => calls[d].cart = cart
        /\ (\A d \in CartCall : calls[d].state # "ok") => page.shown = cart
    BY <1>2, <2>1 DEF StoreInv, CartShown, PageTypes
  <2>3. CASE c \notin CartCall
    <3>1. cart' = cart
      BY <1>2, <2>1, <2>3
    <3>2. \A d \in CartCall : calls'[d] = calls[d]
      BY <1>5, <2>3, CallersApart
    <3>. QED
      BY <1>1, <1>6, <2>2, <3>1, <3>2, CallersApart DEF CartShown
  <2>4. CASE c \in CartCall
    <3>1. \A d \in CartCall \ {c} : calls'[d].state = "idle"
      BY <1>1, <1>5, <2>2, <2>4, CallersApart DEF Sent
    <3>2. calls[c].state = "sent" /\ page.shown = cart
      BY <1>1, <1>5, <2>2, <2>4, <3>1, CallersApart
    <3>3. \A d, e \in CartCall : Sent(d)' /\ Sent(e)' => d = e
      BY <3>1 DEF Sent
    <3>. QED
      BY <1>1, <1>2, <1>5, <2>2, <2>4, <3>1, <3>2, <3>3 DEF CartShown
  <2>. QED
    BY <2>3, <2>4
<1>. QED
  BY <1>3, <1>7, <1>8, <1>9

LEMMA GiveUpKeepsStore ==
    ASSUME StoreInv, NEW c \in Caller, GiveUp(c)
    PROVE  CartTypes' /\ PageTypes' /\ CallTypes' /\ CartShown'
<1>. DEFINE q == calls[c].request
            a == [state |-> "failed", request |-> q]
<1>1. /\ calls[c].state = "sent" /\ q \in Request /\ Answer(c, a)
      /\ UNCHANGED <<cart, used, page, button, placing, presses>>
      /\ \/ UNCHANGED <<stray, apart>>
         \/ stray' = {q} /\ apart' = TRUE
  BY DEF GiveUp, StoreInv, CallTypes, CallFits
<1>2. a.state = "failed" /\ CallFits(a)
  BY <1>1 DEF CallFits
<1>. HIDE DEF q, a
<1>3. /\ calls'[c] = a /\ \A d \in Caller \ {c} : calls'[d] = calls[d]
      /\ \A d \in Caller : CallFits(calls'[d])
  BY <1>1, <1>2, OneCallChanges DEF StoreInv
<1>4. \A d \in Caller : Sent(d)' <=> Sent(d)
  BY <1>1, <1>2, <1>3 DEF Sent
<1>5. CallTypes'
  BY <1>1, <1>3, <1>4, CallersApart DEF StoreInv, CallTypes
<1>6. CartTypes' /\ PageTypes'
  <2>1. CartTypes'
    BY <1>1 DEF StoreInv, CartTypes, IsCart
  <2>2. stray' \subseteq Request /\ apart' \in BOOLEAN
    BY <1>1 DEF StoreInv, PageTypes
  <2>. QED
    BY <1>1, <2>1, <2>2 DEF StoreInv, PageTypes
<1>7. CartShown'
  <2>1. \A d \in CartCall : calls'[d].state = "ok" <=> calls[d].state = "ok"
    BY <1>1, <1>2, <1>3, CallersApart
  <2>2. \A d \in CartCall : calls'[d].state = "ok" => calls'[d] = calls[d]
    BY <1>2, <1>3, CallersApart
  <2>. QED
    BY <1>1, <1>4, <2>1, <2>2, CallersApart DEF StoreInv, CartShown
<1>. QED
  BY <1>5, <1>6, <1>7

LEMMA StrayKeepsStore ==
    ASSUME StoreInv, NEW q \in stray, ServeStray(q)
    PROVE  CartTypes' /\ PageTypes' /\ CallTypes' /\ CartShown'
<1>1. /\ q \in Request /\ stray' = stray \ {q} /\ apart' = (apart \/ cart' # cart)
      /\ \/ ~CrossShop(q) /\ ~Unserved(q) /\ Serves(q)
         \/ UNCHANGED <<cart, used>>
      /\ UNCHANGED <<page, button, placing, calls, presses>>
  BY DEF ServeStray, StoreInv, PageTypes
<1>2. CartTypes'
  <2>1. CASE UNCHANGED <<cart, used>>
    BY <2>1 DEF StoreInv, CartTypes, IsCart
  <2>2. CASE ~UNCHANGED <<cart, used>>
    BY <1>1, <2>2, ServedCart DEF StoreInv
  <2>. QED
    BY <2>1, <2>2
<1>3. PageTypes' /\ CallTypes'
  BY <1>1 DEF StoreInv, PageTypes, CallTypes, Sent
<1>4. apart'
  BY <1>1 DEF StoreInv, CartShown
<1>. QED
  BY <1>2, <1>3, <1>4 DEF CartShown

LEMMA StartKeepsStore ==
    ASSUME StoreInv, NEW c \in CartCall, NEW q \in Request, Start(c, q),
           page' = [shown |-> page.shown, busy |-> page'.busy, clearing |-> page'.clearing],
           page'.busy \in LineId \cup {NoLine}, page'.clearing \in BOOLEAN
    PROVE  CartTypes' /\ PageTypes' /\ CallTypes' /\ CartShown'
<1>. DEFINE a == [state |-> "sent", request |-> q]
<1>1. /\ calls[c].state = "idle" /\ Answer(c, a) /\ apart' = (apart \/ ~Quiet)
      /\ presses' \in 0..MaxPress
      /\ UNCHANGED <<cart, used, button, placing, stray>>
  BY StoreAssumption DEF Start, Send, Press, StoreInv, PageTypes
<1>2. a.state = "sent" /\ CallFits(a)
  BY DEF CallFits
<1>. HIDE DEF a
<1>3. /\ calls'[c] = a /\ \A d \in Caller \ {c} : calls'[d] = calls[d]
      /\ \A d \in Caller : CallFits(calls'[d])
  BY <1>1, <1>2, OneCallChanges, CallersApart DEF StoreInv
<1>4. CartTypes'
  BY <1>1 DEF StoreInv, CartTypes, IsCart
<1>5. PageTypes'
  <2>1. page'.shown = page.shown
    OBVIOUS
  <2>2. apart' \in BOOLEAN
    BY <1>1
  <2>. QED
    BY <1>1, <2>1, <2>2 DEF StoreInv, PageTypes
<1>6. CallTypes'
  BY <1>1, <1>3, CallersApart DEF StoreInv, CallTypes, Sent
<1>7. CartShown'
  <2>1. SUFFICES ASSUME ~apart' PROVE CartShown'
    BY DEF CartShown
  <2>2. \A d \in CartCall \ {c} : calls'[d].state = "idle"
    BY <1>1, <1>3, <2>1, CallersApart DEF Quiet
  <2>3. page.shown = cart /\ stray = {}
    BY <1>1, <2>1 DEF StoreInv, CartShown, Quiet, PageTypes
  <2>4. page'.shown = page.shown
    OBVIOUS
  <2>. QED
    BY <1>1, <1>2, <1>3, <2>2, <2>3, <2>4, CallersApart DEF CartShown, Sent
<1>. QED
  BY <1>4, <1>5, <1>6, <1>7

LEMMA CartButtonsKeepStore ==
    ASSUME StoreInv, NEW c \in CartCall,
           \/ \E i \in LineId, n \in Quantity : ChangeQty(c, i, n)
           \/ \E i \in LineId : RemoveItem(c, i)
           \/ ClearAll(c)
    PROVE  CartTypes' /\ PageTypes' /\ CallTypes' /\ CartShown'
<1>0. PageTypes
  BY DEF StoreInv
<1>1. ASSUME NEW i \in LineId, page' = [page EXCEPT !.busy = i]
      PROVE  /\ page' = [shown |-> page.shown, busy |-> page'.busy, clearing |-> page'.clearing]
             /\ page'.busy \in LineId \cup {NoLine} /\ page'.clearing \in BOOLEAN
  BY <1>0, <1>1 DEF PageTypes
<1>2. ASSUME page' = [page EXCEPT !.clearing = TRUE]
      PROVE  /\ page' = [shown |-> page.shown, busy |-> page'.busy, clearing |-> page'.clearing]
             /\ page'.busy \in LineId \cup {NoLine} /\ page'.clearing \in BOOLEAN
  BY <1>0, <1>2 DEF PageTypes
<1>3. ASSUME NEW i \in LineId, NEW n \in Quantity, ChangeQty(c, i, n)
      PROVE  CartTypes' /\ PageTypes' /\ CallTypes' /\ CartShown'
  <2>1. [op |-> "patch", line |-> i, quantity |-> n] \in Request
    BY DEF Request
  <2>. QED
    BY <1>1, <1>3, <2>1, StartKeepsStore DEF ChangeQty
<1>4. ASSUME NEW i \in LineId, RemoveItem(c, i)
      PROVE  CartTypes' /\ PageTypes' /\ CallTypes' /\ CartShown'
  <2>1. [op |-> "delete", line |-> i] \in Request
    BY DEF Request
  <2>. QED
    BY <1>1, <1>4, <2>1, StartKeepsStore DEF RemoveItem
<1>5. CASE ClearAll(c)
  <2>1. [op |-> "clear"] \in Request
    BY DEF Request
  <2>. QED
    BY <1>2, <1>5, <2>1, StartKeepsStore DEF ClearAll
<1>. QED
  BY <1>3, <1>4, <1>5

LEMMA TakeCartKeepsStore ==
    ASSUME StoreInv, NEW c \in CartCall, TakeCart(c)
    PROVE  CartTypes' /\ PageTypes' /\ CallTypes' /\ CartShown'
<1>. DEFINE q == calls[c].request
<1>0. /\ UNCHANGED <<cart, used, button, placing, stray, presses, apart>>
      /\ c \in Caller /\ CallFits(calls[c]) /\ Sent(c)
  BY CallersApart DEF TakeCart, StoreInv, CallTypes, Sent
<1>1. CartTypes'
  BY <1>0 DEF StoreInv, CartTypes, IsCart
<1>2. PageTypes
  BY DEF StoreInv
<1>3. ASSUME NEW shown, IsCart(shown), page' = [Settle(q) EXCEPT !.shown = shown]
      PROVE  PageTypes' /\ page'.shown = shown
  <2>1. /\ page' = [shown |-> shown, busy |-> page'.busy, clearing |-> page'.clearing]
        /\ page'.busy \in {page.busy, NoLine} /\ page'.clearing \in {page.clearing, FALSE}
    BY <1>2, <1>3 DEF PageTypes, Settle
  <2>2. page'.shown = shown
    BY <2>1
  <2>. QED
    BY <1>0, <1>2, <1>3, <2>1, <2>2 DEF PageTypes
<1>4. CASE /\ calls[c].state = "ok" /\ Answer(c, NoCall)
           /\ page' = [Settle(q) EXCEPT !.shown = calls[c].cart]
  <2>1. IsCart(calls[c].cart)
    BY <1>0, <1>4 DEF CallFits
  <2>2. PageTypes' /\ page'.shown = calls[c].cart
    BY <1>3, <1>4, <2>1
  <2>3. CallFits(NoCall) /\ NoCall.state = "idle"
    BY DEF CallFits, NoCall
  <2>4. /\ calls'[c] = NoCall /\ \A d \in Caller \ {c} : calls'[d] = calls[d]
        /\ \A d \in Caller : CallFits(calls'[d])
    BY <1>0, <1>4, <2>3, OneCallChanges DEF StoreInv
  <2>5. CallTypes'
    BY <1>0, <2>4, CallersApart DEF StoreInv, CallTypes, Sent
  <2>6. CartShown'
    <3>1. SUFFICES ASSUME ~apart' PROVE CartShown'
      BY DEF CartShown
    <3>2. \A d \in CartCall : calls'[d].state = "idle"
      BY <1>0, <2>3, <2>4, <3>1, CallersApart DEF StoreInv, CartShown, Sent
    <3>3. page'.shown = cart /\ stray = {}
      BY <1>0, <1>4, <2>2, <3>1 DEF StoreInv, CartShown
    <3>. QED
      BY <1>0, <3>2, <3>3 DEF CartShown, Sent
  <2>. QED
    BY <1>1, <2>2, <2>5, <2>6
<1>5. CASE calls[c].state = "failed" /\ Send(c, [op |-> "get"]) /\ page' = page
  <2>. DEFINE a == [state |-> "sent", request |-> [op |-> "get"]]
  <2>1. [op |-> "get"] \in Request
    BY DEF Request
  <2>2. a.state = "sent" /\ CallFits(a) /\ Answer(c, a)
    BY <1>5, <2>1 DEF CallFits, Send
  <2>. HIDE DEF a
  <2>3. /\ calls'[c] = a /\ \A d \in Caller \ {c} : calls'[d] = calls[d]
        /\ \A d \in Caller : CallFits(calls'[d])
    BY <1>0, <2>2, OneCallChanges DEF StoreInv
  <2>4. CallTypes' /\ PageTypes'
    BY <1>0, <1>2, <1>5, <2>3, CallersApart DEF StoreInv, CallTypes, PageTypes, Sent
  <2>5. \A d \in CartCall : /\ Sent(d)' <=> Sent(d)
                            /\ calls'[d].state = "ok" => calls'[d] = calls[d]
                            /\ calls[d].state = "ok" => calls'[d].state = "ok"
    BY <1>0, <1>5, <2>2, <2>3, CallersApart DEF Sent
  <2>6. CartShown'
    BY <1>0, <1>5, <2>5 DEF StoreInv, CartShown
  <2>. QED
    BY <1>1, <2>4, <2>6
<1>6. CASE calls[c].state = "failed" /\ Answer(c, NoCall) /\ page' = Settle(q)
  <2>1. page' = [Settle(q) EXCEPT !.shown = page.shown] /\ IsCart(page.shown)
    BY <1>2, <1>6 DEF PageTypes, Settle
  <2>2. PageTypes' /\ page'.shown = page.shown
    BY <1>3, <2>1
  <2>3. CallFits(NoCall) /\ NoCall.state = "idle"
    BY DEF CallFits, NoCall
  <2>4. /\ calls'[c] = NoCall /\ \A d \in Caller \ {c} : calls'[d] = calls[d]
        /\ \A d \in Caller : CallFits(calls'[d])
    BY <1>0, <1>6, <2>3, OneCallChanges DEF StoreInv
  <2>5. CallTypes'
    BY <1>0, <2>4, CallersApart DEF StoreInv, CallTypes, Sent
  <2>6. CartShown'
    <3>1. SUFFICES ASSUME ~apart' PROVE CartShown'
      BY DEF CartShown
    <3>2. \A d \in CartCall : calls'[d].state = "idle" /\ calls[d].state # "ok"
      BY <1>0, <1>6, <2>3, <2>4, <3>1, CallersApart DEF StoreInv, CartShown, Sent
    <3>3. page'.shown = cart /\ stray = {}
      BY <1>0, <2>2, <3>1, <3>2 DEF StoreInv, CartShown
    <3>. QED
      BY <1>0, <3>2, <3>3 DEF CartShown, Sent
  <2>. QED
    BY <1>1, <2>2, <2>5, <2>6
<1>. QED
  BY <1>4, <1>5, <1>6 DEF TakeCart

LEMMA OpenCartKeepsStore ==
    ASSUME StoreInv, OpenCart
    PROVE  CartTypes' /\ PageTypes' /\ CallTypes' /\ CartShown'
<1>0. /\ Quiet /\ page' = [shown |-> cart, busy |-> NoLine, clearing |-> FALSE]
      /\ apart' = (stray # {})
      /\ UNCHANGED <<cart, used, button, placing, calls, stray, presses>>
  BY DEF OpenCart
<1>1. CartTypes' /\ CallTypes'
  BY <1>0 DEF StoreInv, CartTypes, CallTypes, IsCart, Sent
<1>2. PageTypes'
  <2>1. page'.shown = cart /\ page'.busy = NoLine /\ page'.clearing = FALSE
        /\ page' = [shown |-> page'.shown, busy |-> page'.busy, clearing |-> page'.clearing]
    BY <1>0
  <2>2. apart' \in BOOLEAN /\ IsCart(cart)
    BY <1>0 DEF StoreInv, CartTypes
  <2>. QED
    BY <1>0, <2>1, <2>2 DEF StoreInv, PageTypes
<1>3. CartShown'
  BY <1>0 DEF CartShown, Quiet, Sent
<1>. QED
  BY <1>1, <1>2, <1>3

\* The button and the form ask and take in their own name.
LEMMA WidgetsKeepStore ==
    ASSUME StoreInv, PressAdd \/ PressSwitch \/ TakeAdd \/ PressPlace \/ TakeOrder
    PROVE  CartTypes' /\ PageTypes' /\ CallTypes' /\ CartShown'
<1>1. /\ UNCHANGED <<cart, used, page, stray, apart>>
      /\ presses' = presses \/ Press
  BY DEF PressAdd, PressSwitch, PressButton, TakeAdd, PressPlace, TakeOrder
<1>2. presses' \in 0..MaxPress
  BY <1>1, StoreAssumption DEF Press, StoreInv, PageTypes
<1>3. button \in [product : Product, loading : BOOLEAN, dialog : BOOLEAN, emptied : BOOLEAN]
  BY DEF StoreInv, DialogInv
<1>4. [op |-> "add", product |-> button.product] \in Request /\ [op |-> "clear"] \in Request
      /\ [op |-> "get"] \in Request /\ [op |-> "order"] \in Request
  BY <1>3 DEF Request
<1>5. CallFits(NoCall) /\ NoCall.state = "idle"
  BY DEF CallFits, NoCall
<1>6. ASSUME NEW q \in Request
      PROVE  /\ CallFits([state |-> "sent", request |-> q])
             /\ [state |-> "sent", request |-> q].state = "sent"
  BY <1>6 DEF CallFits
<1>7. CASE PressAdd \/ PressSwitch \/ TakeAdd
  <2>1. PICK a : /\ Answer("button", a) /\ CallFits(a) /\ placing' = placing
                 /\ a.state = "idle" => ~button'.loading
    <3>1. CASE PressAdd
      BY <1>4, <1>6, <3>1 DEF PressAdd, PressButton, Send
    <3>2. CASE PressSwitch
      BY <1>4, <1>6, <3>2 DEF PressSwitch, PressButton, Send
    <3>3. CASE TakeAdd
      <4>1. CASE Send("button", [op |-> "add", product |-> button.product])
        BY <1>4, <1>6, <3>3, <4>1 DEF TakeAdd, Send
      <4>2. CASE Answer("button", NoCall) /\ ~button'.loading
        BY <1>5, <3>3, <4>2 DEF TakeAdd
      <4>. QED
        BY <1>3, <3>3, <4>1, <4>2 DEF TakeAdd
    <3>. QED
      BY <1>7, <3>1, <3>2, <3>3
  <2>2. /\ calls'["button"] = a /\ \A d \in Caller \ {"button"} : calls'[d] = calls[d]
        /\ \A d \in Caller : CallFits(calls'[d])
    BY <2>1, OneCallChanges, CallersApart DEF StoreInv
  <2>3. CallTypes'
    BY <2>1, <2>2, CallersApart DEF StoreInv, CallTypes, Sent
  <2>4. PageTypes'
    BY <1>1, <1>2, <2>1 DEF StoreInv, PageTypes
  <2>5. \A c \in CartCall : calls'[c] = calls[c]
    BY <2>2, CallersApart
  <2>. QED
    BY <1>1, <2>3, <2>4, <2>5, CartPageRests
<1>8. CASE PressPlace \/ TakeOrder
  <2>1. PICK a : /\ Answer("form", a) /\ CallFits(a) /\ button' = button
                 /\ placing' \in BOOLEAN /\ (placing' <=> a.state # "idle")
    <3>1. CASE PressPlace
      BY <1>4, <1>6, <3>1 DEF PressPlace, Send
    <3>2. CASE TakeOrder
      <4>1. CASE Send("form", [op |-> "order"]) /\ placing' = placing /\ calls["form"].state = "ok"
        <5>1. placing
          BY <4>1 DEF StoreInv, CallTypes, Sent
        <5>. QED
          BY <1>4, <1>6, <3>2, <4>1, <5>1 DEF TakeOrder, Send
      <4>2. CASE Answer("form", NoCall) /\ placing' = FALSE
        BY <1>5, <3>2, <4>2 DEF TakeOrder
      <4>. QED
        BY <3>2, <4>1, <4>2 DEF TakeOrder
    <3>. QED
      BY <1>8, <3>1, <3>2
  <2>2. /\ calls'["form"] = a /\ \A d \in Caller \ {"form"} : calls'[d] = calls[d]
        /\ \A d \in Caller : CallFits(calls'[d])
    BY <2>1, OneCallChanges, CallersApart DEF StoreInv
  <2>3. CallTypes'
    BY <2>1, <2>2, CallersApart DEF StoreInv, CallTypes, Sent
  <2>4. PageTypes'
    BY <1>1, <1>2, <2>1 DEF StoreInv, PageTypes
  <2>5. \A c \in CartCall : calls'[c] = calls[c]
    BY <2>2, CallersApart
  <2>. QED
    BY <1>1, <2>3, <2>4, <2>5, CartPageRests
<1>. QED
  BY <1>7, <1>8

LEMMA StoreKept == StoreInv /\ [StoreNext]_storeVars => StoreInv'
<1>. SUFFICES ASSUME StoreInv, [StoreNext]_storeVars PROVE StoreInv'
  OBVIOUS
<1>1. DialogInv'
  BY DialogKept DEF StoreInv
<1>2. CASE KeepCart
  <2>1. /\ UNCHANGED <<cart, used, page, placing, calls, stray, presses, apart>>
        /\ button' = [button EXCEPT !.dialog = FALSE, !.emptied = FALSE]
    BY <1>2 DEF KeepCart
  <2>2. button'.loading = button.loading
    BY <2>1 DEF StoreInv, DialogInv
  <2>3. PageTypes' /\ CallTypes'
    BY <2>1, <2>2 DEF StoreInv, PageTypes, CallTypes, Sent
  <2>. QED
    BY <1>1, <2>1, <2>3, CartPageRests DEF StoreInv
<1>3. CASE UNCHANGED storeVars
  <2>1. PageTypes' /\ CallTypes'
    BY <1>3 DEF StoreInv, PageTypes, CallTypes, Sent, storeVars
  <2>. QED
    BY <1>1, <1>3, <2>1, CartPageRests DEF StoreInv, storeVars
<1>4. CASE \/ \E c \in Caller : Serve(c) \/ GiveUp(c)
           \/ \E q \in stray : ServeStray(q)
           \/ OpenCart
  BY <1>1, <1>4, ServeKeepsStore, GiveUpKeepsStore, StrayKeepsStore, OpenCartKeepsStore DEF StoreInv
<1>5. CASE \E c \in CartCall : \/ \E i \in LineId, n \in Quantity : ChangeQty(c, i, n)
                               \/ \E i \in LineId : RemoveItem(c, i)
                               \/ ClearAll(c)
                               \/ TakeCart(c)
  BY <1>1, <1>5, CartButtonsKeepStore, TakeCartKeepsStore DEF StoreInv
<1>6. CASE PressAdd \/ PressSwitch \/ TakeAdd \/ PressPlace \/ TakeOrder
  BY <1>1, <1>6, WidgetsKeepStore DEF StoreInv
<1>. QED
  BY <1>2, <1>3, <1>4, <1>5, <1>6 DEF StoreNext

\* What the invariant says of the pages.
LEMMA StoreFacts ==
    ASSUME StoreInv
    PROVE  StoreTypeOK /\ QuietPageShowsTheCart /\ EmptiedCartKeepsDialog
<1>1. QuietPageShowsTheCart
  BY DEF StoreInv, CartShown, QuietPageShowsTheCart, Quiet
<1>2. EmptiedCartKeepsDialog
  BY DEF StoreInv, DialogInv, EmptiedCartKeepsDialog
<1>3. button.product \in Product /\ (button.loading <=> calls["button"].state # "idle")
      /\ (placing <=> calls["form"].state # "idle")
  BY DEF StoreInv, DialogInv, CallTypes, Sent
<1>4. StoreTypeOK
  BY <1>3 DEF StoreInv, CartTypes, PageTypes, StoreTypeOK
<1>. QED
  BY <1>1, <1>2, <1>4

-----------------------------------------------------------------------------
(***************************************************************************)
(* The address book.                                                       *)
(***************************************************************************)

-----------------------------------------------------------------------------
(* The inductive invariant *)

BookJob == [kind : {"none", "create", "update", "delete"}, row : RowId \cup {NoRow},
        value : Address, at : {"idle", "load", "scan", "clear", "write", "done", "failed"},
        read : Address, saw : SUBSET RowId, locks : SUBSET RowId]

BookOf(f) ==
    /\ f = [i \in DOMAIN f |-> f[i]] /\ DOMAIN f \subseteq RowId
    /\ \A i \in DOMAIN f : f[i] \in Address

BookTypes ==
    /\ lastRow \in 0..MaxRow /\ DOMAIN rows \subseteq 1..lastRow
    /\ BookOf(rows) /\ BookOf(listed)
    /\ served \in [Req -> BookJob]
    /\ form \in Form

\* What a request that sets a default will not clear was inserted too late for it.
LateRowsAreRaced ==
    \A r \in Req : SetsDefault(r) =>
        /\ served[r].at = "clear" => DOMAIN rows \ served[r].saw \subseteq raced
        /\ served[r].at = "write" => DOMAIN rows \ served[r].locks \subseteq raced

BookInv == BookTypes /\ LateRowsAreRaced /\ SecondDefaultOnlyByARacedCreate

-----------------------------------------------------------------------------
(* Steps *)

LEMMA BookInitially == BookInit => BookInv
<1>. SUFFICES ASSUME BookInit PROVE BookInv
  OBVIOUS
<1>1. \A i \in 1..Saved : [text |-> i, default |-> i = Saved] \in Address
  BY BookAssumption DEF Address, RowId
<1>2. rows = [i \in 1..Saved |-> [text |-> i, default |-> i = Saved]] /\ lastRow = Saved
  BY DEF BookInit
<1>3. BookOf(rows)
  BY <1>1, <1>2, BookAssumption DEF BookOf, RowId
<1>4. NoReq \in BookJob
  BY DEF NoReq, BookJob, Unfilled, Address, NewRow
<1>5. BookTypes
  BY <1>2, <1>3, <1>4, BookAssumption
  DEF BookInit, BookTypes, Form, Unfilled, Address, NewRow
<1>6. LateRowsAreRaced
  BY DEF BookInit, LateRowsAreRaced, SetsDefault, NoReq
<1>7. SecondDefaultOnlyByARacedCreate
  BY <1>2 DEF SecondDefaultOnlyByARacedCreate, Defaults
<1>. QED
  BY <1>5, <1>6, <1>7 DEF BookInv

\* An answered request is over and sets no default any more.
LEMMA Answered ==
    ASSUME BookTypes, NEW r \in Req, NEW a \in {"done", "failed"}, Answers(r, a)
    PROVE  /\ served' \in [Req -> BookJob]
           /\ served'[r].kind = "none"
           /\ \A u \in Req \ {r} : served'[u] = served[u]
<1>1. NoReq \in BookJob /\ [NoReq EXCEPT !.at = a] \in BookJob
  BY DEF NoReq, BookJob, Unfilled, Address, NewRow
<1>. QED
  BY <1>1 DEF Answers, Step, BookTypes, NoReq

\* A step that leaves the addresses alone, and one request at most past no new row.
LEMMA RowsStay ==
    ASSUME BookInv, UNCHANGED <<rows, lastRow, raced>>, BookTypes', LateRowsAreRaced'
    PROVE  BookInv'
BY DEF BookInv, SecondDefaultOnlyByARacedCreate, Defaults

LEMMA ServerTypes ==
    ASSUME BookTypes, NEW r \in Req, NEW j \in BookJob, Step(r, j), Stays,
           UNCHANGED <<rows, lastRow>>
    PROVE  /\ BookTypes'
           /\ served'[r] = j
           /\ \A u \in Req \ {r} : served'[u] = served[u]
BY DEF BookTypes, Step, Stays, BookOf

LEMMA FailsKeeps ==
    ASSUME BookInv, NEW r \in Req, Fails(r), Stays
    PROVE  BookInv'
<1>1. /\ served' \in [Req -> BookJob]
      /\ served'[r].kind = "none"
      /\ \A u \in Req \ {r} : served'[u] = served[u]
  BY Answered DEF Fails, BookInv
<1>2. BookTypes'
  BY <1>1 DEF BookInv, BookTypes, Fails, Stays, BookOf
<1>3. LateRowsAreRaced'
  BY <1>1 DEF BookInv, LateRowsAreRaced, SetsDefault, Fails
<1>. QED
  BY <1>2, <1>3, RowsStay DEF Fails

LEMMA LoadKeeps ==
    ASSUME BookInv, NEW r \in Req, Load(r)
    PROVE  BookInv'
<1>1. CASE served[r].kind # "create" /\ served[r].row \notin DOMAIN rows
  BY <1>1, FailsKeeps DEF Load
<1>2. CASE ~(served[r].kind # "create" /\ served[r].row \notin DOMAIN rows)
  <2>. DEFINE s == served[r]
              j == [s EXCEPT !.at = IF SetsDefault(r) THEN "scan" ELSE "write",
                             !.read = IF s.kind = "create" THEN Unfilled ELSE rows[s.row]]
  <2>1. s \in BookJob
    BY DEF BookInv, BookTypes
  <2>2. (IF s.kind = "create" THEN Unfilled ELSE rows[s.row]) \in Address
    BY <1>2 DEF BookInv, BookTypes, BookOf, Unfilled, Address, NewRow
  <2>3. j \in BookJob /\ j.kind = s.kind /\ j.value = s.value
        /\ (SetsDefault(r) => j.at = "scan")
    BY <2>1, <2>2 DEF BookJob
  <2>4. Step(r, j) /\ Stays /\ UNCHANGED <<rows, lastRow, raced>>
    BY <1>2 DEF Load
  <2>. HIDE DEF j
  <2>5. BookTypes' /\ served'[r] = j /\ \A u \in Req \ {r} : served'[u] = served[u]
    BY <2>3, <2>4, ServerTypes DEF BookInv
  <2>6. LateRowsAreRaced'
    BY <2>3, <2>4, <2>5 DEF BookInv, LateRowsAreRaced, SetsDefault
  <2>. QED
    BY <2>4, <2>5, <2>6, RowsStay
<1>. QED
  BY <1>1, <1>2

LEMMA ScanKeeps ==
    ASSUME BookInv, NEW r \in Req, ScanDefaults(r)
    PROVE  BookInv'
<1>. DEFINE j == [served[r] EXCEPT !.at = "clear", !.saw = DOMAIN rows]
<1>1. served[r] \in BookJob /\ DOMAIN rows \subseteq RowId
  BY DEF BookInv, BookTypes, BookOf
<1>2. j \in BookJob /\ j.at = "clear" /\ j.saw = DOMAIN rows
  BY <1>1 DEF BookJob
<1>3. Step(r, j) /\ Stays /\ UNCHANGED <<rows, lastRow, raced>>
  BY DEF ScanDefaults
<1>. HIDE DEF j
<1>4. BookTypes' /\ served'[r] = j /\ \A u \in Req \ {r} : served'[u] = served[u]
  BY <1>2, <1>3, ServerTypes DEF BookInv
<1>5. LateRowsAreRaced'
  BY <1>2, <1>3, <1>4 DEF BookInv, LateRowsAreRaced, SetsDefault
<1>. QED
  BY <1>3, <1>4, <1>5, RowsStay

LEMMA ClearKeeps ==
    ASSUME BookInv, NEW r \in Req, ClearDefaults(r)
    PROVE  BookInv'
<1>. DEFINE s == served[r]
            j == [s EXCEPT !.at = "write", !.locks = s.saw \cap DOMAIN rows,
                           !.read.default = FALSE]
<1>1. s \in BookJob
  BY DEF BookInv, BookTypes
<1>2. [s.read EXCEPT !.default = FALSE] \in Address
  BY <1>1 DEF BookJob, Address
<1>3. j \in BookJob /\ j.kind = s.kind /\ j.value = s.value /\ j.at = "write"
      /\ j.locks = s.saw \cap DOMAIN rows
  BY <1>1, <1>2 DEF BookJob
<1>4. Step(r, j) /\ Stays /\ UNCHANGED <<rows, lastRow, raced>> /\ s.at = "clear"
  BY DEF ClearDefaults
<1>. HIDE DEF j
<1>5. BookTypes' /\ served'[r] = j /\ \A u \in Req \ {r} : served'[u] = served[u]
  BY <1>3, <1>4, ServerTypes DEF BookInv
<1>6. LateRowsAreRaced'
  BY <1>3, <1>4, <1>5 DEF BookInv, LateRowsAreRaced, SetsDefault
<1>. QED
  BY <1>4, <1>5, <1>6, RowsStay

\* What a request that sets a default leaves default, but for its own row.
LEMMA ClearedRows ==
    ASSUME BookInv, NEW r \in Req
    PROVE  /\ DOMAIN Cleared(r) = DOMAIN rows
           /\ \A i \in DOMAIN rows :
                 /\ Cleared(r)[i] \in Address
                 /\ Cleared(r)[i].default => rows[i].default /\ i \notin served[r].locks
<1>. SUFFICES ASSUME NEW i \in DOMAIN rows
              PROVE  /\ Cleared(r)[i] \in Address
                     /\ Cleared(r)[i].default => rows[i].default /\ i \notin served[r].locks
  BY DEF Cleared
<1>1. rows[i] \in Address
  BY DEF BookInv, BookTypes, BookOf
<1>2. Cleared(r)[i] = IF i \in served[r].locks THEN [rows[i] EXCEPT !.default = FALSE] ELSE rows[i]
  BY DEF Cleared
<1>. QED
  BY <1>1, <1>2 DEF Address

LEMMA BookInsertKeeps ==
    ASSUME BookInv, NEW r \in Req, Insert(r)
    PROVE  BookInv'
<1>. DEFINE new == lastRow + 1
<1>1. /\ lastRow \in 0..MaxRow /\ lastRow < MaxRow /\ new \in RowId /\ new \notin DOMAIN rows
      /\ DOMAIN rows \subseteq 1..lastRow /\ DOMAIN rows \subseteq RowId
  BY BookAssumption DEF BookInv, BookTypes, BookOf, Insert, RowId
<1>2. /\ served[r].at = "write" /\ served[r].kind = "create" /\ served[r] \in BookJob
      /\ lastRow' = new /\ Answers(r, "done") /\ Stays
      /\ rows' = [i \in DOMAIN rows \cup {new} |->
                     IF i = new THEN [text |-> new, default |-> served[r].value.default]
                     ELSE Cleared(r)[i]]
      /\ raced \subseteq raced'
      /\ \A u \in Req \ {r} : HasScanned(u) => new \in raced'
  BY DEF Insert, BookInv, BookTypes
<1>3. /\ served' \in [Req -> BookJob]
      /\ served'[r].kind = "none"
      /\ \A u \in Req \ {r} : served'[u] = served[u]
  BY <1>2, Answered DEF BookInv
<1>4. [text |-> new, default |-> served[r].value.default] \in Address
  BY <1>1, <1>2 DEF BookJob, Address
<1>5. BookTypes'
  <2>1. DOMAIN rows' = DOMAIN rows \cup {new}
    BY <1>2
  <2>2. \A i \in DOMAIN rows' : rows'[i] \in Address
    BY <1>2, <1>4, <2>1, ClearedRows
  <2>3. BookOf(rows)'
    BY <1>1, <1>2, <2>1, <2>2 DEF BookOf
  <2>4. lastRow' \in 0..MaxRow /\ DOMAIN rows' \subseteq 1..lastRow'
    BY <1>1, <1>2, <2>1, BookAssumption
  <2>. QED
    BY <1>2, <1>3, <2>3, <2>4 DEF BookInv, BookTypes, Stays, BookOf
<1>6. LateRowsAreRaced'
  <2>. SUFFICES ASSUME NEW u \in Req, SetsDefault(u)'
                PROVE  /\ served'[u].at = "clear" => DOMAIN rows' \ served'[u].saw \subseteq raced'
                       /\ served'[u].at = "write" => DOMAIN rows' \ served'[u].locks \subseteq raced'
    BY DEF LateRowsAreRaced
  <2>1. u # r /\ SetsDefault(u) /\ served'[u] = served[u]
    BY <1>3 DEF SetsDefault
  <2>2. DOMAIN rows' = DOMAIN rows \cup {new}
    BY <1>2
  <2>. QED
    BY <1>2, <2>1, <2>2 DEF BookInv, LateRowsAreRaced, HasScanned
<1>7. SecondDefaultOnlyByARacedCreate'
  <2>. SUFFICES ASSUME NEW i \in DOMAIN rows', NEW j \in DOMAIN rows',
                       rows'[i].default, rows'[j].default, i # j
                PROVE  {i, j} \cap raced' # {}
    BY DEF SecondDefaultOnlyByARacedCreate, Defaults
  <2>1. \A k \in DOMAIN rows' \ {new} :
            /\ k \in DOMAIN rows
            /\ rows'[k].default => rows[k].default /\ k \notin served[r].locks
    BY <1>2, ClearedRows
  <2>2. CASE i # new /\ j # new
    <3>1. i \in Defaults /\ j \in Defaults
      BY <2>1, <2>2 DEF Defaults
    <3>2. {i, j} \cap raced # {}
      BY <3>1 DEF BookInv, SecondDefaultOnlyByARacedCreate
    <3>. QED
      BY <1>2, <3>2
  <2>3. CASE i = new \/ j = new
    <3>1. SetsDefault(r)
      BY <1>2, <2>3 DEF SetsDefault
    <3>2. DOMAIN rows \ served[r].locks \subseteq raced'
      BY <1>2, <3>1 DEF BookInv, LateRowsAreRaced
    <3>. QED
      BY <2>1, <2>3, <3>2
  <2>. QED
    BY <2>2, <2>3
<1>. QED
  BY <1>5, <1>6, <1>7 DEF BookInv

LEMMA SetKeeps ==
    ASSUME BookInv, NEW r \in Req, Set(r)
    PROVE  BookInv'
<1>1. CASE served[r].row \notin DOMAIN rows
  BY <1>1, FailsKeeps DEF Set
<1>2. CASE served[r].row \in DOMAIN rows
  <2>. DEFINE s == served[r]
              own == Cleared(r)[s.row]
              text == IF s.value.text = s.read.text THEN own.text ELSE s.value.text
              default == IF s.value.default = s.read.default THEN own.default
                         ELSE s.value.default
  <2>1. /\ s.at = "write" /\ s.kind = "update" /\ s \in BookJob
        /\ UNCHANGED <<lastRow, raced>> /\ Answers(r, "done") /\ Stays
        /\ rows' = [Cleared(r) EXCEPT ![s.row].text = text, ![s.row].default = default]
    BY <1>2 DEF Set, BookInv, BookTypes
  <2>2. /\ served' \in [Req -> BookJob]
        /\ served'[r].kind = "none"
        /\ \A u \in Req \ {r} : served'[u] = served[u]
    BY <2>1, Answered DEF BookInv
  <2>3. own \in Address /\ s.value \in Address /\ s.read \in Address
    BY <1>2, <2>1, ClearedRows DEF BookJob
  <2>4. text \in RowId \cup {NewRow} /\ default \in BOOLEAN
    BY <2>3 DEF Address
  <2>5. default => own.default \/ s.value.default
    OBVIOUS
  <2>. HIDE DEF text, default
  <2>6. /\ DOMAIN rows' = DOMAIN rows
        /\ rows' = [i \in DOMAIN rows' |-> rows'[i]]
        /\ rows'[s.row] = [own EXCEPT !.text = text, !.default = default]
        /\ \A i \in DOMAIN rows \ {s.row} : rows'[i] = Cleared(r)[i]
    BY <1>2, <2>1, ClearedRows DEF Cleared
  <2>7. rows'[s.row] \in Address /\ rows'[s.row].default = default
    BY <2>3, <2>4, <2>6 DEF Address
  <2>8. BookTypes'
    <3>1. BookOf(rows)'
      BY <2>6, <2>7, ClearedRows DEF BookOf, BookInv, BookTypes
    <3>. QED
      BY <2>1, <2>2, <2>6, <3>1 DEF BookInv, BookTypes, Stays, BookOf
  <2>9. LateRowsAreRaced'
    BY <2>1, <2>2, <2>6 DEF BookInv, LateRowsAreRaced, SetsDefault
  <2>10. SecondDefaultOnlyByARacedCreate'
    <3>. SUFFICES ASSUME NEW i \in DOMAIN rows, NEW j \in DOMAIN rows,
                         rows'[i].default, rows'[j].default, i # j
                  PROVE  {i, j} \cap raced # {}
      BY <2>1, <2>6 DEF SecondDefaultOnlyByARacedCreate, Defaults
    <3>1. \A k \in DOMAIN rows \ {s.row} :
              rows'[k].default => rows[k].default /\ k \notin s.locks
      BY <2>6, ClearedRows
    <3>2. CASE s.value.default
      <4>1. DOMAIN rows \ s.locks \subseteq raced
        BY <2>1, <3>2 DEF BookInv, LateRowsAreRaced, SetsDefault
      <4>. QED
        BY <3>1, <4>1
    <3>3. CASE ~s.value.default
      <4>1. rows'[s.row].default => rows[s.row].default
        BY <1>2, <2>5, <2>7, <3>3, ClearedRows
      <4>. QED
        BY <3>1, <4>1 DEF BookInv, SecondDefaultOnlyByARacedCreate, Defaults
    <3>. QED
      BY <3>2, <3>3
  <2>. QED
    BY <2>8, <2>9, <2>10 DEF BookInv
<1>. QED
  BY <1>1, <1>2

LEMMA RemoveKeeps ==
    ASSUME BookInv, NEW r \in Req, Remove(r)
    PROVE  BookInv'
<1>1. /\ rows' = [i \in DOMAIN rows \ {served[r].row} |-> rows[i]]
      /\ UNCHANGED <<lastRow, raced>> /\ Answers(r, "done") /\ Stays
  BY DEF Remove
<1>2. /\ served' \in [Req -> BookJob]
      /\ served'[r].kind = "none"
      /\ \A u \in Req \ {r} : served'[u] = served[u]
  BY <1>1, Answered DEF BookInv
<1>3. BookTypes'
  BY <1>1, <1>2 DEF BookInv, BookTypes, BookOf, Stays
<1>4. LateRowsAreRaced'
  BY <1>1, <1>2 DEF BookInv, LateRowsAreRaced, SetsDefault
<1>5. SecondDefaultOnlyByARacedCreate'
  BY <1>1 DEF BookInv, SecondDefaultOnlyByARacedCreate, Defaults
<1>. QED
  BY <1>3, <1>4, <1>5 DEF BookInv

\* A request that starts: it has not looked yet.
LEMMA AskKeeps ==
    ASSUME BookInv, NEW r \in Req, NEW kind \in {"create", "update", "delete"},
           NEW row \in RowId \cup {NoRow}, NEW value \in Address, NEW awaiting,
           Ask(r, kind, row, value, awaiting), form' \in Form
    PROVE  BookInv'
<1>. DEFINE j == [NoReq EXCEPT !.kind = kind, !.row = row, !.value = value, !.at = "load"]
<1>1. Unfilled \in Address
  BY DEF Unfilled, Address, NewRow
<1>2. j \in BookJob /\ j.at = "load"
  BY <1>1 DEF NoReq, BookJob
<1>3. Step(r, j) /\ UNCHANGED <<rows, lastRow, listed, raced>>
  BY DEF Ask
<1>. HIDE DEF j
<1>4. BookTypes' /\ served'[r] = j /\ \A u \in Req \ {r} : served'[u] = served[u]
  BY <1>2, <1>3 DEF BookInv, BookTypes, Step, BookOf
<1>5. LateRowsAreRaced'
  BY <1>2, <1>3, <1>4 DEF BookInv, LateRowsAreRaced, SetsDefault
<1>. QED
  BY <1>3, <1>4, <1>5, RowsStay

\* What only the page keeps.
LEMMA ShowsKeeps ==
    ASSUME BookInv, UNCHANGED <<rows, lastRow, served, raced>>, form' \in Form, BookOf(listed)'
    PROVE  BookInv'
<1>1. BookTypes'
  BY DEF BookInv, BookTypes, BookOf
<1>2. LateRowsAreRaced'
  BY DEF BookInv, LateRowsAreRaced, SetsDefault
<1>. QED
  BY <1>1, <1>2, RowsStay

LEMMA FormKeeps ==
    ASSUME BookInv,
           \/ AddAddress \/ TickDefault \/ CloseForm \/ Reload
           \/ \E i \in RowId : Edit(i)
    PROVE  BookInv'
<1>1. Unfilled \in Address /\ form \in Form /\ form.value \in Address
  BY DEF Unfilled, Address, NewRow, BookInv, BookTypes, Form
<1>2. CASE AddAddress
  BY <1>1, <1>2, ShowsKeeps DEF AddAddress, Shows, Form, BookInv, BookTypes, BookOf
<1>3. CASE TickDefault
  <2>1. [form.value EXCEPT !.default = ~@] \in Address
    BY <1>1 DEF Address
  <2>2. [form EXCEPT !.value.default = ~@] \in Form
    BY <1>1, <2>1 DEF Form
  <2>. QED
    BY <1>3, <2>2, ShowsKeeps DEF TickDefault, Shows, BookInv, BookTypes, BookOf
<1>4. CASE CloseForm
  BY <1>1, <1>4, ShowsKeeps DEF CloseForm, Shows, Form, BookInv, BookTypes, BookOf
<1>5. CASE Reload
  BY <1>1, <1>5, ShowsKeeps DEF Reload, BookInv, BookTypes, BookOf
<1>6. ASSUME NEW i \in RowId, Edit(i)
      PROVE  BookInv'
  <2>1. i \in DOMAIN listed /\ listed[i] \in Address
    BY <1>6 DEF Edit, BookInv, BookTypes, BookOf
  <2>2. (IF form.row \in RowId THEN form.value ELSE listed[i]) \in Address
    BY <1>1, <2>1
  <2>3. form' \in Form
    BY <1>1, <1>6, <2>2 DEF Edit, Shows, Form
  <2>. QED
    BY <1>6, <2>3, ShowsKeeps DEF Edit, Shows, BookInv, BookTypes, BookOf
<1>. QED
  BY <1>2, <1>3, <1>4, <1>5, <1>6

LEMMA TakeKeeps ==
    ASSUME BookInv, NEW r \in Req, TakeSaved(r) \/ TakeRemoved(r)
    PROVE  BookInv'
<1>1. NoReq \in BookJob /\ NoReq.kind = "none"
  BY DEF NoReq, BookJob, Unfilled, Address, NewRow
<1>2. form' \in Form
  <2>1. Unfilled \in Address /\ form \in Form
    BY DEF BookInv, BookTypes, Unfilled, Address, NewRow
  <2>2. [row |-> NoRow, value |-> Unfilled, submitting |-> FALSE] \in Form
    BY <2>1 DEF Form
  <2>3. [form EXCEPT !.submitting = FALSE] \in Form
    BY <2>1 DEF Form
  <2>. QED
    BY <2>1, <2>2, <2>3 DEF TakeSaved, TakeRemoved
<1>3. /\ UNCHANGED <<rows, lastRow, listed, raced>>
      /\ \/ served' = served
         \/ served' = [served EXCEPT ![r] = NoReq]
  BY DEF TakeSaved, TakeRemoved, Step
<1>. HIDE DEF NoReq
<1>4. BookTypes'
  BY <1>1, <1>2, <1>3 DEF BookInv, BookTypes, BookOf
<1>5. LateRowsAreRaced'
  <2>1. CASE served' = served
    BY <1>3, <2>1 DEF BookInv, LateRowsAreRaced, SetsDefault
  <2>2. CASE served' = [served EXCEPT ![r] = NoReq]
    <3>1. served'[r].kind = "none" /\ \A u \in Req \ {r} : served'[u] = served[u]
      BY <1>1, <2>2 DEF BookInv, BookTypes
    <3>. QED
      BY <1>3, <3>1 DEF BookInv, LateRowsAreRaced, SetsDefault
  <2>. QED
    BY <1>3, <2>1, <2>2
<1>. QED
  BY <1>3, <1>4, <1>5, RowsStay

LEMMA BookPressKeeps ==
    ASSUME BookInv, NEW r \in Req,
           Submit(r) \/ \E i \in RowId : PressRemove(r, i)
    PROVE  BookInv'
<1>1. /\ form \in Form /\ form.value \in Address /\ Unfilled \in Address
      /\ form.row \in {NoRow, NewRow} \cup RowId /\ NoRow \in RowId \cup {NoRow}
  BY DEF BookInv, BookTypes, Form, Unfilled, Address, NewRow
<1>2. CASE Submit(r)
  <2>1. form' \in Form
    BY <1>1, <1>2 DEF Submit, Form
  <2>2. CASE form.row = NewRow
    <3>1. Ask(r, "create", NoRow, form.value, "submit")
      BY <1>2, <2>2 DEF Submit
    <3>. QED
      BY <1>1, <2>1, <3>1, AskKeeps
  <2>3. CASE form.row # NewRow
    <3>1. Ask(r, "update", form.row, form.value, "submit")
      BY <1>2, <2>3 DEF Submit
    <3>2. form.row \in RowId \cup {NoRow}
      BY <1>1, <2>3
    <3>. QED
      BY <1>1, <2>1, <3>1, <3>2, AskKeeps
  <2>. QED
    BY <2>2, <2>3
<1>3. ASSUME NEW i \in RowId, PressRemove(r, i)
      PROVE  BookInv'
  <2>1. Ask(r, "delete", i, Unfilled, "remove") /\ form' \in Form
    BY <1>1, <1>3 DEF PressRemove
  <2>. QED
    BY <1>1, <2>1, AskKeeps
<1>. QED
  BY <1>2, <1>3

LEMMA BookInvKept ==
    ASSUME BookInv, [BookNext]_bookVars
    PROVE  BookInv'
<1>1. ASSUME NEW r \in Req,
             \/ Load(r) \/ ScanDefaults(r) \/ ClearDefaults(r)
             \/ Insert(r) \/ Set(r) \/ Remove(r) \/ AbortSave(r)
      PROVE  BookInv'
  BY <1>1, LoadKeeps, ScanKeeps, ClearKeeps, BookInsertKeeps, SetKeeps, RemoveKeeps, FailsKeeps
  DEF AbortSave
<1>2. ASSUME NEW r \in Req,
             \/ Submit(r) \/ TakeSaved(r) \/ TakeRemoved(r)
             \/ \E i \in RowId : PressRemove(r, i)
      PROVE  BookInv'
  BY <1>2, BookPressKeeps, TakeKeeps
<1>3. CASE \/ AddAddress \/ TickDefault \/ CloseForm \/ Reload
           \/ \E i \in RowId : Edit(i)
  BY <1>3, FormKeeps
<1>4. CASE UNCHANGED bookVars
  <2>1. UNCHANGED <<rows, lastRow, served, raced, form, listed>>
    BY <1>4 DEF bookVars
  <2>. QED
    BY <2>1, ShowsKeeps DEF BookInv, BookTypes, BookOf
<1>. QED
  BY <1>1, <1>2, <1>3, <1>4 DEF BookNext

-----------------------------------------------------------------------------
(* Whose text an address has *)

NamesItself(f) == \A i \in DOMAIN f : f[i].text = i

\* The form, and every update on its way, has the text of its address.
OwnTexts ==
    /\ NamesItself(rows) /\ NamesItself(listed)
    /\ form.row \in RowId => form.value.text = form.row
    /\ \A r \in Req : served[r].kind = "update" => served[r].value.text = served[r].row

TextInv == BookInv /\ (~switched => OwnTexts)

LEMMA ClearedTexts ==
    ASSUME BookInv, NEW r \in Req, NEW i \in DOMAIN rows
    PROVE  Cleared(r)[i].text = rows[i].text
<1>1. rows[i] \in Address
  BY DEF BookInv, BookTypes, BookOf
<1>. QED
  BY <1>1 DEF Cleared, Address

\* What the server does to the rows, and to the requests.
LEMMA ServerTexts ==
    ASSUME BookInv, BookInv', OwnTexts, NEW r \in Req,
           \/ Load(r) \/ ScanDefaults(r) \/ ClearDefaults(r)
           \/ Insert(r) \/ Set(r) \/ Remove(r) \/ AbortSave(r)
    PROVE  OwnTexts'
<1>1. UNCHANGED <<form, listed>>
  BY DEF Load, ScanDefaults, ClearDefaults, Insert, Set, Remove, AbortSave, Stays
<1>2. served'[r].kind = "update" =>
          /\ served[r].kind = "update"
          /\ served'[r].value = served[r].value /\ served'[r].row = served[r].row
  <2>1. served[r] \in BookJob
    BY DEF BookInv, BookTypes
  <2>2. CASE \E a \in {"done", "failed"} : Answers(r, a)
    BY <2>2, Answered DEF BookInv
  <2>3. CASE Load(r) /\ ~Fails(r)
    <3>1. served'[r] = [served[r] EXCEPT
                           !.at = IF SetsDefault(r) THEN "scan" ELSE "write",
                           !.read = IF served[r].kind = "create" THEN Unfilled
                                    ELSE rows[served[r].row]]
      BY <2>3 DEF Load, Step, BookInv, BookTypes
    <3>. QED
      BY <2>1, <3>1 DEF BookJob
  <2>4. CASE ScanDefaults(r)
    BY <2>1, <2>4 DEF ScanDefaults, Step, BookInv, BookTypes, BookJob
  <2>5. CASE ClearDefaults(r)
    <3>1. served'[r] = [served[r] EXCEPT
                           !.at = "write", !.locks = served[r].saw \cap DOMAIN rows,
                           !.read.default = FALSE]
      BY <2>5 DEF ClearDefaults, Step, BookInv, BookTypes
    <3>. QED
      BY <2>1, <3>1 DEF BookJob
  <2>6. CASE Fails(r) \/ Insert(r) \/ Set(r) \/ Remove(r)
    BY <2>2, <2>6 DEF Fails, Insert, Set, Remove
  <2>. QED
    BY <2>3, <2>4, <2>5, <2>6 DEF AbortSave
<1>3. \A u \in Req \ {r} : served'[u] = served[u]
  BY DEF Load, ScanDefaults, ClearDefaults, Insert, Set, Remove, AbortSave, Fails, Answers, Step,
         BookInv, BookTypes
<1>4. NamesItself(rows)'
  <2>1. CASE UNCHANGED rows
    BY <2>1 DEF OwnTexts, NamesItself
  <2>2. CASE Insert(r)
    BY <2>2, ClearedTexts DEF Insert, OwnTexts, NamesItself, Cleared
  <2>3. CASE Set(r) /\ served[r].row \in DOMAIN rows
    <3>. DEFINE s == served[r]
                own == Cleared(r)[s.row]
                text == IF s.value.text = s.read.text THEN own.text ELSE s.value.text
                default == IF s.value.default = s.read.default THEN own.default
                           ELSE s.value.default
    <3>1. s.kind = "update" /\ rows' = [Cleared(r) EXCEPT ![s.row].text = text,
                                                           ![s.row].default = default]
      BY <2>3 DEF Set
    <3>2. text = s.row
      BY <2>3, <3>1, ClearedTexts DEF OwnTexts, NamesItself
    <3>3. own \in Address
      BY <2>3, ClearedRows
    <3>. HIDE DEF text, default
    <3>4. /\ DOMAIN rows' = DOMAIN rows
          /\ rows'[s.row] = [own EXCEPT !.text = text, !.default = default]
          /\ \A i \in DOMAIN rows \ {s.row} : rows'[i] = Cleared(r)[i]
      BY <2>3, <3>1, ClearedRows DEF Cleared
    <3>5. rows'[s.row].text = text
      BY <3>3, <3>4 DEF Address
    <3>6. ASSUME NEW i \in DOMAIN rows
          PROVE  rows'[i].text = i
      <4>1. CASE i = s.row
        BY <3>2, <3>5, <4>1
      <4>2. CASE i # s.row
        <5>1. rows[i].text = i
          BY DEF OwnTexts, NamesItself
        <5>2. rows'[i] = Cleared(r)[i] /\ Cleared(r)[i].text = rows[i].text
          BY <3>4, <4>2, ClearedTexts
        <5>. QED
          BY <5>1, <5>2
      <4>. QED
        BY <4>1, <4>2
    <3>. QED
      BY <3>4, <3>6 DEF NamesItself
  <2>4. CASE Remove(r)
    BY <2>4 DEF Remove, OwnTexts, NamesItself
  <2>. QED
    BY <2>1, <2>2, <2>3, <2>4
    DEF Load, ScanDefaults, ClearDefaults, Set, AbortSave, Fails
<1>. QED
  BY <1>1, <1>2, <1>3, <1>4 DEF OwnTexts, NamesItself

\* What the page does to its form, and sends.
LEMMA PageTexts ==
    ASSUME BookInv, BookInv', OwnTexts, ~switched',
           \/ \E r \in Req :
                 \/ Submit(r) \/ TakeSaved(r) \/ TakeRemoved(r)
                 \/ \E i \in RowId : PressRemove(r, i)
           \/ \E i \in RowId : Edit(i)
           \/ AddAddress \/ TickDefault \/ CloseForm \/ Reload
           \/ UNCHANGED bookVars
    PROVE  OwnTexts'
<1>1. form \in Form /\ NoRow \notin RowId /\ NewRow \notin RowId
  BY BookAssumption DEF BookInv, BookTypes, RowId, NoRow, NewRow
<1>2. ASSUME NEW r \in Req, Submit(r)
      PROVE  OwnTexts'
  <2>1. UNCHANGED <<rows, listed>> /\ form' = [form EXCEPT !.submitting = TRUE]
    BY <1>2 DEF Submit, Ask
  <2>2. \A u \in Req : u # r => served'[u] = served[u]
    BY <1>2 DEF Submit, Ask, Step, BookInv, BookTypes
  <2>3. served'[r].kind = "update" => served'[r].value = form.value /\ served'[r].row = form.row
                                       /\ form.row # NewRow /\ form.row # NoRow
    BY <1>2 DEF Submit, Ask, Step, BookInv, BookTypes, NoReq
  <2>4. form.row \in RowId \cup {NoRow, NewRow}
    BY <1>1 DEF Form
  <2>. QED
    BY <1>1, <2>1, <2>2, <2>3, <2>4 DEF OwnTexts, NamesItself, Form
<1>3. ASSUME NEW r \in Req, NEW i \in RowId, PressRemove(r, i)
      PROVE  OwnTexts'
  <2>1. UNCHANGED <<rows, listed, form>>
    BY <1>3 DEF PressRemove, Ask
  <2>2. \A u \in Req : u # r => served'[u] = served[u]
    BY <1>3 DEF PressRemove, Ask, Step, BookInv, BookTypes
  <2>3. served'[r].kind = "delete"
    BY <1>3 DEF PressRemove, Ask, Step, BookInv, BookTypes, NoReq
  <2>. QED
    BY <2>1, <2>2, <2>3 DEF OwnTexts, NamesItself
<1>4. ASSUME NEW r \in Req, TakeSaved(r) \/ TakeRemoved(r)
      PROVE  OwnTexts'
  <2>1. UNCHANGED <<rows, listed>>
    BY <1>4 DEF TakeSaved, TakeRemoved
  <2>2. form'.row \in RowId => form'.row = form.row /\ form'.value = form.value
    BY <1>1, <1>4 DEF TakeSaved, TakeRemoved, Form
  <2>3. served' = served \/ served' = [served EXCEPT ![r] = NoReq]
    BY <1>4 DEF TakeSaved, TakeRemoved, Step
  <2>4. \A u \in Req : served'[u].kind = "update" => served'[u] = served[u]
    BY <2>3 DEF BookInv, BookTypes, NoReq
  <2>. QED
    BY <2>1, <2>2, <2>4 DEF OwnTexts, NamesItself
<1>5. ASSUME NEW i \in RowId, Edit(i)
      PROVE  OwnTexts'
  <2>1. UNCHANGED <<rows, listed, served>> /\ i \in DOMAIN listed
    BY <1>5 DEF Edit, Shows
  <2>2. form'.row = i
        /\ form'.value = IF form.row \in RowId THEN form.value ELSE listed[i]
    BY <1>1, <1>5 DEF Edit, Shows, Form
  <2>3. form.row \in RowId => form.row = i
    BY <1>1, <1>5 DEF Edit
  <2>. QED
    BY <2>1, <2>2, <2>3 DEF OwnTexts, NamesItself
<1>6. CASE AddAddress \/ CloseForm
  <2>1. UNCHANGED <<rows, listed, served>> /\ form'.row \in {NoRow, NewRow}
    BY <1>1, <1>6 DEF AddAddress, CloseForm, Shows, Form
  <2>. QED
    BY <1>1, <2>1 DEF OwnTexts, NamesItself
<1>7. CASE TickDefault
  <2>1. UNCHANGED <<rows, listed, served>> /\ form' = [form EXCEPT !.value.default = ~@]
    BY <1>7 DEF TickDefault, Shows
  <2>2. form'.row = form.row /\ form'.value.text = form.value.text
    BY <1>1, <2>1 DEF Form, Address
  <2>. QED
    BY <2>1, <2>2 DEF OwnTexts, NamesItself
<1>8. CASE Reload
  BY <1>8 DEF Reload, OwnTexts, NamesItself
<1>9. CASE UNCHANGED bookVars
  BY <1>9 DEF bookVars, OwnTexts, NamesItself
<1>. QED
  BY <1>2, <1>3, <1>4, <1>5, <1>6, <1>7, <1>8, <1>9

-----------------------------------------------------------------------------
(* Theorems *)

\* users/service.py:154.  Whatever the requests and however many addresses: of
\* two defaults one was inserted after another request's bulk UPDATE had looked.
THEOREM SecondDefaultTheorem == BookSpec => []SecondDefaultOnlyByARacedCreate
<1>1. BookInv => SecondDefaultOnlyByARacedCreate
  BY DEF BookInv
<1>. QED
  BY BookInitially, BookInvKept, <1>1, PTL DEF BookSpec

\* AddressManager.tsx, users/service.py.  However saves and removals overlap, an
\* address keeps its own text while nobody takes the form from one to another.
THEOREM EditedAddressTheorem == BookSpec => []EditedAddressStaysItself
<1>1. BookInit => TextInv
  <2>. SUFFICES ASSUME BookInit PROVE TextInv
    OBVIOUS
  <2>1. BookInv
    BY BookInitially
  <2>2. OwnTexts
    BY BookAssumption
    DEF BookInit, OwnTexts, NamesItself, NoReq, RowId, NoRow
  <2>. QED
    BY <2>1, <2>2 DEF TextInv
<1>2. TextInv /\ [BookNext]_bookVars => TextInv'
  <2>. SUFFICES ASSUME TextInv, [BookNext]_bookVars, ~switched' PROVE OwnTexts'
    BY BookInvKept DEF TextInv
  <2>1. BookInv /\ BookInv'
    BY BookInvKept DEF TextInv
  <2>2. ~switched
    BY DEF BookNext, bookVars, Load, ScanDefaults, ClearDefaults, Insert, Set, Remove, AbortSave,
           Stays, Submit, PressRemove, Ask, TakeSaved, TakeRemoved, Edit, AddAddress, TickDefault,
           CloseForm, Reload
  <2>3. OwnTexts
    BY <2>2 DEF TextInv
  <2>. QED
    BY <2>1, <2>3, ServerTexts, PageTexts DEF BookNext
<1>3. TextInv => EditedAddressStaysItself
  BY DEF TextInv, OwnTexts, NamesItself, EditedAddressStaysItself
<1>. QED
  BY <1>1, <1>2, <1>3, PTL DEF BookSpec

-----------------------------------------------------------------------------
(* What is left of the types *)

Disjoint(f) == \A r, u \in Req : f[r].locks \cap f[u].locks # {} => r = u

\* Locks are disjoint, and the form waits for the one save that is awaited.
BookShape ==
    /\ deleting \in RowId \cup {NoRow}
    /\ awaits \in [Req -> {"nothing", "submit", "remove"}]
    /\ Disjoint(served)
    /\ form.submitting <=> \E r \in Req : awaits[r] = "submit"
    /\ \A r, u \in Req : awaits[r] = "submit" /\ awaits[u] = "submit" => r = u

\* A step that gives a request no lock, unless nobody else has it.
LEMMA LocksStayApart ==
    ASSUME Disjoint(served), NEW r \in Req, NEW j,
           \/ j.locks \subseteq served[r].locks
           \/ j.locks \cap LockedByOthers(r) = {},
           served' = [served EXCEPT ![r] = j], served \in [Req -> BookJob]
    PROVE  Disjoint(served')
<1>. SUFFICES ASSUME NEW u \in Req, NEW v \in Req,
                     served'[u].locks \cap served'[v].locks # {}, u # v
              PROVE  FALSE
  BY DEF Disjoint
<1>1. \A w \in Req : served'[w] = IF w = r THEN j ELSE served[w]
  OBVIOUS
<1>2. \A w \in Req \ {r} : served[w].locks \subseteq LockedByOthers(r)
  BY DEF LockedByOthers
<1>3. CASE u # r /\ v # r
  BY <1>1, <1>3 DEF Disjoint
<1>4. ASSUME NEW w \in Req \ {r}, j.locks \cap served[w].locks # {}
      PROVE  FALSE
  <2>1. ~(j.locks \subseteq served[r].locks)
    BY <1>4 DEF Disjoint
  <2>. QED
    BY <1>2, <1>4, <2>1
<1>. QED
  BY <1>1, <1>3, <1>4

\* The server's steps: only ClearDefaults locks rows, and nobody else has them.
LEMMA ServedShape ==
    ASSUME BookInv, BookShape, NEW r \in Req,
           \/ Load(r) \/ ScanDefaults(r) \/ ClearDefaults(r)
           \/ Insert(r) \/ Set(r) \/ Remove(r) \/ AbortSave(r)
    PROVE  BookShape'
<1>1. served \in [Req -> BookJob] /\ served[r] \in BookJob /\ Disjoint(served)
  BY DEF BookInv, BookTypes, BookShape
<1>2. UNCHANGED <<awaits, form, deleting>>
  BY DEF Load, ScanDefaults, ClearDefaults, Insert, Set, Remove, AbortSave, Stays
<1>3. ASSUME NEW a \in {"done", "failed"}, Answers(r, a)
      PROVE  Disjoint(served')
  <2>1. PICK j \in {NoReq, [NoReq EXCEPT !.at = a]} : served' = [served EXCEPT ![r] = j]
    BY <1>3 DEF Answers, Step
  <2>2. j.locks = {}
    BY DEF NoReq
  <2>. QED
    BY <1>1, <2>1, <2>2, LocksStayApart
<1>4. ASSUME ClearDefaults(r)
      PROVE  Disjoint(served')
  <2>. DEFINE s == served[r]
              j == [s EXCEPT !.at = "write", !.locks = s.saw \cap DOMAIN rows,
                             !.read.default = FALSE]
  <2>1. served' = [served EXCEPT ![r] = j] /\ s.saw \cap LockedByOthers(r) = {}
    BY <1>4 DEF ClearDefaults, Step
  <2>2. j.locks = s.saw \cap DOMAIN rows
    BY <1>1 DEF BookJob
  <2>3. j.locks \cap LockedByOthers(r) = {}
    BY <2>1, <2>2
  <2>. HIDE DEF j
  <2>. QED
    BY <1>1, <2>1, <2>3, LocksStayApart
<1>5. ASSUME ScanDefaults(r)
      PROVE  Disjoint(served')
  <2>. DEFINE j == [served[r] EXCEPT !.at = "clear", !.saw = DOMAIN rows]
  <2>1. served' = [served EXCEPT ![r] = j]
    BY <1>5 DEF ScanDefaults, Step
  <2>2. j.locks = served[r].locks
    BY <1>1 DEF BookJob
  <2>. HIDE DEF j
  <2>. QED
    BY <1>1, <2>1, <2>2, LocksStayApart
<1>6. ASSUME Load(r) /\ ~Fails(r)
      PROVE  Disjoint(served')
  <2>. DEFINE s == served[r]
              j == [s EXCEPT !.at = IF SetsDefault(r) THEN "scan" ELSE "write",
                             !.read = IF s.kind = "create" THEN Unfilled ELSE rows[s.row]]
  <2>1. served' = [served EXCEPT ![r] = j]
    BY <1>6 DEF Load, Step
  <2>2. j.locks = s.locks
    BY <1>1 DEF BookJob
  <2>. HIDE DEF j
  <2>. QED
    BY <1>1, <2>1, <2>2, LocksStayApart
<1>7. ASSUME Fails(r) \/ Insert(r) \/ Set(r) \/ Remove(r)
      PROVE  Disjoint(served')
  BY <1>3, <1>7 DEF Fails, Insert, Set, Remove
<1>8. Disjoint(served')
  BY <1>4, <1>5, <1>6, <1>7 DEF AbortSave
<1>. QED
  BY <1>2, <1>8 DEF BookShape, Disjoint

LEMMA AskedShape ==
    ASSUME BookInv, BookShape, NEW r \in Req,
           Submit(r) \/ \E i \in RowId : PressRemove(r, i)
    PROVE  BookShape'
<1>1. /\ served \in [Req -> BookJob] /\ Disjoint(served) /\ form \in Form
      /\ awaits \in [Req -> {"nothing", "submit", "remove"}]
  BY DEF BookInv, BookTypes, BookShape
<1>2. PICK a \in {"submit", "remove"} :
        /\ r \in Free /\ awaits' = [awaits EXCEPT ![r] = a]
        /\ \/ /\ a = "submit" /\ Submit(r)
           \/ /\ a = "remove" /\ \E i \in RowId : PressRemove(r, i)
  BY DEF Submit, PressRemove, Ask
<1>3. Disjoint(served')
  <2>1. ASSUME NEW kind, NEW row, NEW value, NEW w, Ask(r, kind, row, value, w)
        PROVE  Disjoint(served')
    <3>. DEFINE j == [NoReq EXCEPT !.kind = kind, !.row = row, !.value = value, !.at = "load"]
    <3>1. served' = [served EXCEPT ![r] = j]
      BY <2>1 DEF Ask, Step
    <3>2. j.locks = {}
      BY DEF NoReq
    <3>. HIDE DEF j
    <3>. QED
      BY <1>1, <3>1, <3>2, LocksStayApart
  <2>2. CASE Submit(r)
    <3>1. \/ Ask(r, "create", NoRow, form.value, "submit")
          \/ Ask(r, "update", form.row, form.value, "submit")
      BY <2>2 DEF Submit
    <3>. QED
      BY <2>1, <3>1
  <2>3. ASSUME NEW i \in RowId, PressRemove(r, i)
        PROVE  Disjoint(served')
    <3>1. Ask(r, "delete", i, Unfilled, "remove")
      BY <2>3 DEF PressRemove
    <3>. QED
      BY <2>1, <3>1
  <2>. QED
    BY <2>2, <2>3
<1>5. awaits' = [awaits EXCEPT ![r] = a] /\ awaits[r] = "nothing"
  BY <1>2 DEF Free
<1>6. /\ awaits' \in [Req -> {"nothing", "submit", "remove"}] /\ awaits'[r] = a
      /\ \A u \in Req \ {r} : awaits'[u] = awaits[u]
  BY <1>1, <1>5
<1>7. CASE a = "submit" /\ Submit(r)
  <2>1. ~form.submitting /\ form'.submitting /\ deleting' = deleting
    BY <1>1, <1>7 DEF Submit, Form
  <2>. QED
    BY <1>3, <1>6, <1>7, <2>1 DEF BookShape, Disjoint
<1>8. CASE a = "remove" /\ \E i \in RowId : PressRemove(r, i)
  <2>1. deleting' \in RowId /\ form' = form
    BY <1>8 DEF PressRemove
  <2>. QED
    BY <1>3, <1>5, <1>6, <1>8, <2>1 DEF BookShape, Disjoint
<1>. QED
  BY <1>2, <1>7, <1>8

LEMMA TakenShape ==
    ASSUME BookInv, BookShape, NEW r \in Req, TakeSaved(r) \/ TakeRemoved(r)
    PROVE  BookShape'
<1>1. /\ served \in [Req -> BookJob] /\ Disjoint(served) /\ form \in Form
      /\ awaits \in [Req -> {"nothing", "submit", "remove"}]
  BY DEF BookInv, BookTypes, BookShape
<1>2. Disjoint(served')
  <2>1. CASE served' = served
    BY <1>1, <2>1 DEF Disjoint
  <2>2. CASE served' = [served EXCEPT ![r] = NoReq]
    <3>1. NoReq.locks = {}
      BY DEF NoReq
    <3>. QED
      BY <1>1, <2>2, <3>1, LocksStayApart
  <2>. QED
    BY <2>1, <2>2 DEF TakeSaved, TakeRemoved, Step
<1>3. awaits' = [awaits EXCEPT ![r] = "nothing"]
  BY DEF TakeSaved, TakeRemoved
<1>4. /\ awaits' \in [Req -> {"nothing", "submit", "remove"}] /\ awaits'[r] = "nothing"
      /\ \A u \in Req \ {r} : awaits'[u] = awaits[u]
  BY <1>1, <1>3
<1>5. CASE TakeSaved(r)
  <2>1. awaits[r] = "submit" /\ ~form'.submitting /\ deleting' = deleting
    BY <1>1, <1>5 DEF TakeSaved, Form
  <2>. QED
    BY <1>2, <1>4, <2>1 DEF BookShape, Disjoint
<1>6. CASE TakeRemoved(r)
  <2>1. awaits[r] = "remove" /\ form' = form /\ deleting' = NoRow
    BY <1>6 DEF TakeRemoved
  <2>. QED
    BY <1>2, <1>4, <2>1 DEF BookShape, Disjoint
<1>. QED
  BY <1>5, <1>6

LEMMA BookShapeKept ==
    ASSUME BookInv, BookShape, [BookNext]_bookVars
    PROVE  BookShape'
<1>1. CASE \/ AddAddress \/ TickDefault \/ CloseForm \/ Reload
           \/ \E i \in RowId : Edit(i)
           \/ UNCHANGED bookVars
  <2>1. UNCHANGED <<served, awaits, deleting>> /\ form'.submitting = form.submitting
    BY <1>1 DEF AddAddress, TickDefault, CloseForm, Reload, Edit, Shows, bookVars,
                BookInv, BookTypes, Form
  <2>. QED
    BY <2>1 DEF BookShape, Disjoint
<1>. QED
  BY <1>1, ServedShape, AskedShape, TakenShape DEF BookNext

LEMMA BookShapeStarts == BookInit => BookShape
<1>. SUFFICES ASSUME BookInit PROVE BookShape
  OBVIOUS
<1>1. \A r \in Req : served[r].locks = {} /\ awaits[r] = "nothing"
  BY DEF BookInit, NoReq
<1>. QED
  BY <1>1 DEF BookInit, BookShape, Disjoint

LEMMA BookFacts == BookInv /\ BookShape => BookTypeOK
BY DEF BookInv, BookTypes, BookOf, BookShape, Disjoint, BookTypeOK, BookJob

-----------------------------------------------------------------------------
(***************************************************************************)
(* First requests.                                                         *)
(***************************************************************************)

-----------------------------------------------------------------------------
(* The inductive invariant *)

FirstAt == {"idle", "look", "insert", "held", "drop", "served", "refused"}

FirstRows == present \cup Held

AtMostOne(S) == \A r, s \in S : r = s

\* Has looked in vain and has not committed.
Inserting(t) == tx[t].at \in {"insert", "held"}

FirstTypes ==
    /\ table \in Unique \cup {"shops"}
    /\ lastIn \in Nat /\ present \subseteq Nat
    /\ tx \in [Tab -> [at : FirstAt, row : Nat]]
    /\ tab \in [Tab -> [known : Nat, busy : BOOLEAN, done : BOOLEAN]]

OneRow == table \in Unique \/ ~blind => AtMostOne(FirstRows)

\* Until a request is blind they look and insert one after the other.
OneInserts ==
    ~blind => \A t \in Tab : Inserting(t) =>
                 /\ present = {}
                 /\ \A u \in Tab : Inserting(u) => u = t

\* What is answered, and known, is there.
AnswersStand ==
    /\ \A t \in Tab : tx[t].at = "drop" => table = "favorites"
    /\ table \in {"users", "carts"} =>
          \A t \in Tab :
              /\ tx[t].at = "served" => tx[t].row \in present \cup {Unknown}
              /\ tab[t].known \in present \cup {Unknown}

FirstInv == FirstTypes /\ OneRow /\ OneInserts /\ AnswersStand

-----------------------------------------------------------------------------
LEMMA OneIsCounted ==
    ASSUME NEW S, AtMostOne(S)
    PROVE  Cardinality(S) \in {0, 1}
<1>1. CASE S = {}
  BY <1>1, FS_EmptySet
<1>2. CASE S # {}
  <2>1. PICK x : x \in S
    BY <1>2
  <2>2. S = {x}
    BY <2>1 DEF AtMostOne
  <2>. QED
    BY <2>2, FS_Singleton
<1>. QED
  BY <1>1, <1>2

\* A request that ends holds and inserts no row any more.
LEMMA Replied ==
    ASSUME FirstTypes, NEW t \in Tab, NEW a \in {"served", "refused"}, NEW r \in Nat,
           Replies(t, a, r)
    PROVE  /\ tx' \in [Tab -> [at : FirstAt, row : Nat]]
           /\ tx'[t].at \in {"served", "refused", "idle"}
           /\ tx'[t].at = "served" => a = "served" /\ tx'[t].row = r
           /\ \A u \in Tab \ {t} : tx'[u] = tx[u]
BY DEF FirstTypes, Replies, Idle, FirstAt, Unknown

LEMMA HeldAfter ==
    ASSUME FirstTypes, NEW t \in Tab, tx' \in [Tab -> [at : FirstAt, row : Nat]],
           tx'[t].at # "held", \A u \in Tab \ {t} : tx'[u] = tx[u]
    PROVE  Held' \subseteq Held
BY DEF Held

\* A request ends: what becomes of the rows, and of what the others do.
LEMMA FirstEndKeeps ==
    ASSUME FirstInv, NEW t \in Tab, NEW a \in {"served", "refused"}, NEW r \in Nat,
           Replies(t, a, r), UNCHANGED <<table, lastIn, tab, blind>>,
           present' \subseteq FirstRows, present' \subseteq Nat,
           ~(present' \subseteq present) => Inserting(t),
           table \in {"users", "carts"} => /\ present \subseteq present'
                                           /\ a = "served" => r \in present' \cup {Unknown}
    PROVE  FirstInv'
<1>1. /\ tx' \in [Tab -> [at : FirstAt, row : Nat]]
      /\ tx'[t].at \in {"served", "refused", "idle"}
      /\ tx'[t].at = "served" => a = "served" /\ tx'[t].row = r
      /\ \A u \in Tab \ {t} : tx'[u] = tx[u]
  BY Replied DEF FirstInv
<1>2. FirstRows' \subseteq FirstRows
  BY <1>1, HeldAfter DEF FirstRows, FirstInv
<1>3. OneRow'
  BY <1>2 DEF FirstInv, OneRow, AtMostOne
<1>4. OneInserts'
  BY <1>1 DEF FirstInv, OneInserts, Inserting
<1>5. AnswersStand'
  BY <1>1 DEF FirstInv, AnswersStand
<1>. QED
  BY <1>1, <1>3, <1>4, <1>5 DEF FirstInv, FirstTypes

\* A request goes on, or its page, and neither holds a row it did not hold.
LEMMA GoesOn ==
    ASSUME FirstInv, NEW t \in Tab, UNCHANGED <<table, present, lastIn>>, blind => blind',
           tx' \in [Tab -> [at : FirstAt, row : Nat]], \A u \in Tab \ {t} : tx'[u] = tx[u],
           tab' \in [Tab -> [known : Nat, busy : BOOLEAN, done : BOOLEAN]],
           tx'[t].at = "held" => tx[t] = tx'[t],
           tx'[t].at = "served" => tx[t] = tx'[t],
           tx'[t].at = "drop" => table = "favorites",
           Inserting(t)' => \/ Inserting(t)
                            \/ present = {} /\ (blind' \/ \A u \in Tab \ {t} : ~Inserting(u)),
           \A u \in Tab : tab'[u].known \in
               {tab[u].known, Unknown} \cup (IF tx[u].at = "served" THEN {tx[u].row} ELSE {})
               \cup (IF table = "favorites" THEN Nat ELSE {})
    PROVE  FirstInv'
<1>1. FirstRows' \subseteq FirstRows
  BY DEF FirstRows, Held
<1>2. OneRow'
  BY <1>1 DEF FirstInv, OneRow, AtMostOne
<1>3. OneInserts'
  BY DEF FirstInv, OneInserts, Inserting
<1>4. AnswersStand'
  BY DEF FirstInv, AnswersStand
<1>. QED
  BY <1>2, <1>3, <1>4 DEF FirstInv, FirstTypes

-----------------------------------------------------------------------------
(* Steps *)

LEMMA LookKeeps ==
    ASSUME FirstInv, NEW t \in Tab, Look(t)
    PROVE  FirstInv'
<1>1. CASE present = {}
  <2>1. /\ tx' = [tx EXCEPT ![t].at = "insert"]
        /\ UNCHANGED <<table, present, lastIn, tab>>
        /\ blind' = (blind \/ \E u \in Tab \ {t} : Inserting(u))
    BY <1>1 DEF Look, Moves, Inserting
  <2>2. /\ tx' \in [Tab -> [at : FirstAt, row : Nat]] /\ tx'[t].at = "insert"
        /\ \A u \in Tab \ {t} : tx'[u] = tx[u]
    BY <2>1 DEF FirstInv, FirstTypes, FirstAt
  <2>3. tab' \in [Tab -> [known : Nat, busy : BOOLEAN, done : BOOLEAN]]
    BY <2>1 DEF FirstInv, FirstTypes
  <2>. QED
    BY <1>1, <2>1, <2>2, <2>3, GoesOn
<1>2. CASE present # {}
  <2>1. PICK a \in {"served", "refused"}, r \in present \cup {Unknown} :
            /\ Replies(t, a, r)
            /\ UNCHANGED <<table, present, lastIn, tab, blind>>
    BY <1>2 DEF Look
  <2>2. r \in Nat
    BY DEF FirstInv, FirstTypes, Unknown
  <2>3. present' \subseteq FirstRows /\ present' \subseteq Nat
    BY <2>1 DEF FirstInv, FirstTypes, FirstRows
  <2>. QED
    BY <2>1, <2>2, <2>3, FirstEndKeeps
<1>. QED
  BY <1>1, <1>2

LEMMA FirstInsertKeeps ==
    ASSUME FirstInv, NEW t \in Tab, InsertRow(t)
    PROVE  FirstInv'
<1>1. CASE table \in Unique /\ present # {}
  <2>1. Replies(t, "refused", Unknown) /\ UNCHANGED <<table, present, lastIn, tab, blind>>
    BY <1>1 DEF InsertRow
  <2>2. present' \subseteq FirstRows /\ present' \subseteq Nat /\ Unknown \in Nat
    BY <2>1 DEF FirstInv, FirstTypes, FirstRows, Unknown
  <2>. QED
    BY <2>1, <2>2, FirstEndKeeps
<1>2. CASE ~(table \in Unique /\ present # {})
  <2>. DEFINE new == lastIn + 1
  <2>1. /\ Inserting(t) /\ tx[t].at = "insert" /\ (table \in Unique => Held = {} /\ present = {})
        /\ tx' = [tx EXCEPT ![t] = [at |-> "held", row |-> new]]
        /\ lastIn' = new
        /\ UNCHANGED <<table, present, tab, blind>>
    BY <1>2 DEF InsertRow, Inserting
  <2>2. FirstTypes'
    BY <2>1 DEF FirstInv, FirstTypes, FirstAt
  <2>3. tx'[t] = [at |-> "held", row |-> new] /\ \A u \in Tab \ {t} : tx'[u] = tx[u]
    BY <2>1 DEF FirstInv, FirstTypes
  <2>4. Held' \subseteq Held \cup {new}
    BY <2>3 DEF Held
  <2>5. table \in Unique \/ ~blind => present = {} /\ Held = {}
    <3>1. ~blind => present = {} /\ \A u \in Tab : Inserting(u) => u = t
      BY <2>1 DEF FirstInv, OneInserts
    <3>2. ~blind => Held = {}
      BY <2>1, <3>1 DEF Held, Inserting
    <3>. QED
      BY <2>1, <3>1, <3>2
  <2>6. OneRow'
    BY <2>1, <2>4, <2>5 DEF OneRow, AtMostOne, FirstRows
  <2>7. OneInserts'
    BY <2>1, <2>3 DEF FirstInv, OneInserts, Inserting
  <2>8. AnswersStand'
    BY <2>1, <2>3 DEF FirstInv, AnswersStand
  <2>. QED
    BY <2>2, <2>6, <2>7, <2>8 DEF FirstInv
<1>. QED
  BY <1>1, <1>2

LEMMA EndsKeep ==
    ASSUME FirstInv, NEW t \in Tab, CommitRow(t) \/ DropFavorite(t) \/ RollBack(t)
    PROVE  FirstInv'
<1>1. tx[t].row \in Nat /\ Unknown \in Nat /\ present \subseteq Nat /\ present \subseteq FirstRows
  BY DEF FirstInv, FirstTypes, Unknown, FirstRows
<1>2. CASE CommitRow(t)
  <2>1. /\ Replies(t, "served", tx[t].row) /\ UNCHANGED <<table, lastIn, tab, blind>>
        /\ present' = present \cup {tx[t].row} /\ Inserting(t) /\ tx[t].row \in Held
    BY <1>2 DEF CommitRow, Inserting, Held
  <2>2. present' \subseteq FirstRows /\ present' \subseteq Nat
    BY <1>1, <2>1 DEF FirstRows
  <2>. QED
    BY <1>1, <2>1, <2>2, FirstEndKeeps
<1>3. CASE DropFavorite(t)
  <2>1. PICK a \in {"served", "refused"} :
            /\ Replies(t, a, Unknown) /\ UNCHANGED <<table, lastIn, tab, blind>>
            /\ present' \subseteq present
    BY <1>3 DEF DropFavorite
  <2>2. table = "favorites"
    BY <1>3 DEF DropFavorite, FirstInv, AnswersStand
  <2>3. present' \subseteq FirstRows /\ present' \subseteq Nat
    BY <1>1, <2>1
  <2>. QED
    BY <1>1, <2>1, <2>2, <2>3, FirstEndKeeps
<1>4. CASE RollBack(t)
  <2>1. PICK a \in {"served", "refused"} :
            Replies(t, a, Unknown) /\ UNCHANGED <<table, present, lastIn, tab, blind>>
    BY <1>4 DEF RollBack
  <2>. QED
    BY <1>1, <2>1, FirstEndKeeps
<1>. QED
  BY <1>2, <1>3, <1>4

LEMMA TabsKeep ==
    ASSUME FirstInv, NEW t \in Tab,
           PressFirst(t) \/ TakeFirst(t) \/ StopWaiting(t) \/ OpenTab(t)
    PROVE  FirstInv'
<1>1. /\ tx \in [Tab -> [at : FirstAt, row : Nat]] /\ present \subseteq Nat /\ Unknown \in Nat
      /\ tab \in [Tab -> [known : Nat, busy : BOOLEAN, done : BOOLEAN]]
      /\ Idle \in [at : FirstAt, row : Nat]
  BY DEF FirstInv, FirstTypes, Idle, FirstAt, Unknown
<1>2. CASE PressFirst(t)
  <2>1. /\ UNCHANGED <<table, present, lastIn, blind>>
        /\ tab' = [tab EXCEPT ![t].busy = TRUE]
        /\ \/ table = "favorites" /\ tx' = [tx EXCEPT ![t] = [at |-> "drop", row |-> tab[t].known]]
           \/ tx' = [tx EXCEPT ![t] = [at |-> "look", row |-> Unknown]]
    BY <1>2 DEF PressFirst
  <2>2. /\ [at |-> "drop", row |-> tab[t].known] \in [at : FirstAt, row : Nat]
        /\ [at |-> "look", row |-> Unknown] \in [at : FirstAt, row : Nat]
    BY <1>1 DEF FirstAt
  <2>3. /\ tx' \in [Tab -> [at : FirstAt, row : Nat]] /\ \A u \in Tab \ {t} : tx'[u] = tx[u]
        /\ tx'[t].at \in {"drop", "look"} /\ (tx'[t].at = "drop" => table = "favorites")
    BY <1>1, <2>1, <2>2
  <2>4. /\ tab' \in [Tab -> [known : Nat, busy : BOOLEAN, done : BOOLEAN]]
        /\ \A u \in Tab : tab'[u].known = tab[u].known
    BY <1>1, <2>1
  <2>5. ~Inserting(t)'
    BY <2>3 DEF Inserting
  <2>. QED
    BY <2>1, <2>3, <2>4, <2>5, GoesOn
<1>3. CASE TakeFirst(t)
  <2>1. /\ UNCHANGED <<table, present, lastIn, blind>> /\ tx' = [tx EXCEPT ![t] = Idle]
        /\ tab' = [tab EXCEPT ![t] =
                      [known |-> IF tx[t].at = "served" THEN tx[t].row ELSE @.known,
                       busy |-> FALSE,
                       done |-> @.done \/ (table = "shops" /\ tx[t].at = "served")]]
    BY <1>3 DEF TakeFirst
  <2>2. /\ tx' \in [Tab -> [at : FirstAt, row : Nat]] /\ \A u \in Tab \ {t} : tx'[u] = tx[u]
        /\ tx'[t].at = "idle"
    BY <1>1, <2>1 DEF Idle
  <2>3. tab' \in [Tab -> [known : Nat, busy : BOOLEAN, done : BOOLEAN]]
    BY <1>1, <2>1
  <2>4. \A u \in Tab : tab'[u].known \in
            {tab[u].known} \cup (IF tx[u].at = "served" THEN {tx[u].row} ELSE {})
    BY <1>1, <2>1
  <2>5. ~Inserting(t)'
    BY <2>2 DEF Inserting
  <2>. QED
    BY <2>1, <2>2, <2>3, <2>4, <2>5, GoesOn
<1>4. CASE StopWaiting(t) \/ OpenTab(t)
  <2>1. UNCHANGED <<table, present, lastIn, blind, tx>>
    BY <1>4 DEF StopWaiting, OpenTab
  <2>2. /\ tab' \in [Tab -> [known : Nat, busy : BOOLEAN, done : BOOLEAN]]
        /\ \A u \in Tab : tab'[u].known \in {tab[u].known, Unknown}
                                             \cup (IF table = "favorites" THEN Nat ELSE {})
    <3>1. CASE StopWaiting(t)
      BY <1>1, <3>1 DEF StopWaiting
    <3>2. CASE OpenTab(t)
      <4>. DEFINE k == IF table = "favorites" /\ present # {}
                       THEN CHOOSE r \in present : TRUE ELSE Unknown
                  d == table = "shops" /\ present # {}
      <4>1. k \in Nat /\ k \in {Unknown} \cup (IF table = "favorites" THEN Nat ELSE {})
            /\ d \in BOOLEAN
        BY <1>1
      <4>2. tab' = [tab EXCEPT ![t] = [known |-> k, busy |-> FALSE, done |-> d]]
        BY <3>2 DEF OpenTab
      <4>. HIDE DEF k, d
      <4>. QED
        BY <1>1, <4>1, <4>2
    <3>. QED
      BY <1>4, <3>1, <3>2
  <2>3. Inserting(t)' = Inserting(t) /\ (tx[t].at = "drop" => table = "favorites")
    BY <2>1 DEF Inserting, FirstInv, AnswersStand
  <2>. QED
    BY <1>1, <2>1, <2>2, <2>3, GoesOn
<1>. QED
  BY <1>2, <1>3, <1>4

LEMMA FirstStarts == FirstInit => FirstInv
BY DEF FirstInit, FirstInv, FirstTypes, OneRow, OneInserts, AnswersStand, AtMostOne, FirstRows, Held,
       Inserting, Idle, Unknown, FirstAt, Unique

LEMMA FirstKept == FirstInv /\ [FirstNext]_firstVars => FirstInv'
<1>. SUFFICES ASSUME FirstInv, [FirstNext]_firstVars PROVE FirstInv'
  OBVIOUS
<1>1. CASE UNCHANGED firstVars
  BY <1>1 DEF firstVars, FirstInv, FirstTypes, OneRow, OneInserts, AnswersStand, Inserting, FirstRows,
              Held
<1>. QED
  BY <1>1, LookKeeps, FirstInsertKeeps, EndsKeep, TabsKeep DEF FirstNext

-----------------------------------------------------------------------------
(* Theorem *)

\* users:54, carts:34, favorites:47, shops:148.  However many tabs ask first, and
\* whatever they retry, they end with one row, and two shops need a blind look.
THEOREM FirstRequestsTheorem == FirstSpec => []FirstRequestsAgree
<1>1. FirstInit => FirstInv
  BY FirstStarts
<1>2. FirstInv /\ [FirstNext]_firstVars => FirstInv'
  BY FirstKept
<1>3. FirstInv => FirstRequestsAgree
  <2>. SUFFICES ASSUME FirstInv PROVE FirstRequestsAgree
    OBVIOUS
  <2>1. AtMostOne(FirstRows) => Cardinality(FirstRows) <= 1 /\ ~(Cardinality(FirstRows) > 1)
    BY OneIsCounted
  <2>. QED
    BY <2>1 DEF FirstInv, OneRow, AnswersStand, FirstRequestsAgree, FirstRows
<1>. QED
  BY <1>1, <1>2, <1>3, PTL DEF FirstSpec

-----------------------------------------------------------------------------
(* What is left of the types *)

\* Where rows and requests are.
FirstShape ==
    /\ lastIn \in 0..MaxFirst /\ FirstRows \subseteq 1..lastIn /\ tries \in 0..MaxTry
    /\ \A t \in Tab :
          /\ tx[t].row \in {Unknown} \cup FirstId
          /\ tab[t].known \in {Unknown} \cup FirstId
          /\ tab[t].busy => tx[t] # Idle
          /\ OnServer(t) \/ tab[t].busy \/ tx[t] = Idle

\* Tab t's request goes on, or its page does; no new row is inserted.
LEMMA FirstShapeGoesOn ==
    ASSUME FirstTypes, FirstShape, FirstTypes', NEW t \in Tab, UNCHANGED lastIn,
           tries' \in 0..MaxTry, FirstRows' \subseteq FirstRows,
           \A u \in Tab \ {t} : tx'[u] = tx[u] /\ tab'[u] = tab[u],
           tx'[t].row \in {Unknown} \cup FirstId, tab'[t].known \in {Unknown} \cup FirstId,
           tab'[t].busy => tx'[t] # Idle,
           OnServer(t)' \/ tab'[t].busy \/ tx'[t] = Idle
    PROVE  FirstShape'
BY DEF FirstShape, OnServer

LEMMA RepliedShape ==
    ASSUME FirstTypes, FirstShape, FirstTypes', NEW t \in Tab, NEW a \in {"served", "refused"},
           NEW r \in {Unknown} \cup FirstId, Replies(t, a, r), UNCHANGED <<lastIn, tab, tries>>,
           present' \subseteq FirstRows
    PROVE  FirstShape'
<1>1. /\ tx' = [tx EXCEPT ![t] = IF tab[t].busy THEN [at |-> a, row |-> r] ELSE Idle]
      /\ tx \in [Tab -> [at : FirstAt, row : Nat]]
      /\ tx' \in [Tab -> [at : FirstAt, row : Nat]]
  BY DEF Replies, FirstTypes
<1>2. /\ tx'[t] = IF tab[t].busy THEN [at |-> a, row |-> r] ELSE Idle
      /\ \A u \in Tab \ {t} : tx'[u] = tx[u]
  BY <1>1
<1>3. tx'[t].at # "held" /\ tx'[t].row \in {Unknown} \cup FirstId
  BY <1>2 DEF Idle
<1>4. tab'[t].busy => tx'[t] # Idle
  BY <1>2 DEF Idle
<1>5. Held' \subseteq Held
  BY <1>1, <1>2, <1>3, HeldAfter
<1>6. FirstRows' \subseteq FirstRows
  BY <1>5 DEF FirstRows
<1>7. tab'[t].known \in {Unknown} \cup FirstId /\ tries' \in 0..MaxTry
  BY DEF FirstShape
<1>8. tab'[t].busy \/ tx'[t] = Idle
  BY <1>2
<1>. QED
  BY <1>2, <1>3, <1>4, <1>6, <1>7, <1>8, FirstShapeGoesOn

LEMMA FirstShapeKept ==
    ASSUME FirstInv, FirstShape, [FirstNext]_firstVars
    PROVE  FirstShape'
<1>1. FirstTypes /\ FirstTypes'
  BY FirstKept DEF FirstInv
<1>2. /\ tx \in [Tab -> [at : FirstAt, row : Nat]]
      /\ tab \in [Tab -> [known : Nat, busy : BOOLEAN, done : BOOLEAN]]
      /\ lastIn \in 0..MaxFirst /\ FirstRows \subseteq 1..lastIn /\ tries \in 0..MaxTry
      /\ FirstRows \subseteq FirstId /\ Unknown \in {Unknown} \cup FirstId
      /\ present \subseteq FirstRows
      /\ \A t \in Tab : tx[t].row \in {Unknown} \cup FirstId /\ tab[t].known \in {Unknown} \cup FirstId
  BY <1>1, FirstAssumption DEF FirstTypes, FirstShape, FirstId, FirstRows
<1>3. ASSUME NEW t \in Tab, Look(t)
      PROVE  FirstShape'
  <2>1. CASE present = {}
    <3>1. /\ tx' = [tx EXCEPT ![t].at = "insert"] /\ UNCHANGED <<table, present, lastIn, tab, tries>>
      BY <1>3, <2>1 DEF Look, Moves
    <3>2. tx'[t].at = "insert" /\ tx'[t].row = tx[t].row /\ \A u \in Tab \ {t} : tx'[u] = tx[u]
      BY <1>2, <3>1
    <3>3. Held' \subseteq Held
      BY <3>2 DEF Held
    <3>4. OnServer(t)' /\ tx'[t] # Idle
      BY <3>2 DEF OnServer, Idle
    <3>. QED
      BY <1>1, <1>2, <3>1, <3>2, <3>3, <3>4, FirstShapeGoesOn DEF FirstRows
  <2>2. CASE present # {}
    <3>1. PICK a \in {"served", "refused"}, r \in present \cup {Unknown} :
              Replies(t, a, r) /\ UNCHANGED <<table, present, lastIn, tab, tries>>
      BY <1>3, <2>2 DEF Look
    <3>2. r \in {Unknown} \cup FirstId /\ present' \subseteq FirstRows
      BY <1>2, <3>1
    <3>. QED
      BY <1>1, <3>1, <3>2, RepliedShape
  <2>. QED
    BY <2>1, <2>2
<1>4. ASSUME NEW t \in Tab, InsertRow(t)
      PROVE  FirstShape'
  <2>1. CASE Replies(t, "refused", Unknown) /\ lastIn' = lastIn
    <3>1. UNCHANGED <<present, tab, tries>>
      BY <1>4 DEF InsertRow
    <3>. QED
      BY <1>1, <1>2, <2>1, <3>1, RepliedShape
  <2>2. CASE ~(Replies(t, "refused", Unknown) /\ lastIn' = lastIn)
    <3>1. /\ lastIn < MaxFirst /\ lastIn' = lastIn + 1 /\ UNCHANGED <<table, present, tab, tries>>
          /\ tx' = [tx EXCEPT ![t] = [at |-> "held", row |-> lastIn + 1]]
      BY <1>4, <2>2 DEF InsertRow
    <3>2. /\ tx'[t] = [at |-> "held", row |-> lastIn + 1] /\ tx'[t].at = "held" /\ tx'[t].row = lastIn + 1
          /\ \A u \in Tab \ {t} : tx'[u] = tx[u]
      BY <1>2, <3>1
    <3>3. Held' \subseteq Held \cup {lastIn + 1}
      BY <3>2 DEF Held
    <3>4. lastIn' \in 0..MaxFirst /\ lastIn + 1 \in FirstId /\ FirstRows' \subseteq 1..lastIn'
      BY <1>2, <3>1, <3>3, FirstAssumption DEF FirstRows, FirstId
    <3>5. OnServer(t)' /\ tx'[t] # Idle
      BY <3>2 DEF OnServer, Idle
    <3>. QED
      BY <1>2, <3>1, <3>2, <3>4, <3>5 DEF FirstShape, OnServer
  <2>. QED
    BY <2>1, <2>2
<1>5. ASSUME NEW t \in Tab, CommitRow(t) \/ DropFavorite(t) \/ RollBack(t)
      PROVE  FirstShape'
  <2>1. PICK a \in {"served", "refused"}, r \in {Unknown, tx[t].row} :
            Replies(t, a, r) /\ UNCHANGED <<table, lastIn, tab, tries>>
    BY <1>5 DEF CommitRow, DropFavorite, RollBack
  <2>2. present' \subseteq FirstRows
    <3>1. CASE CommitRow(t)
      BY <1>2, <3>1 DEF CommitRow, FirstRows, Held
    <3>2. CASE DropFavorite(t) \/ RollBack(t)
      BY <1>2, <3>2 DEF DropFavorite, RollBack
    <3>. QED
      BY <1>5, <3>1, <3>2
  <2>3. r \in {Unknown} \cup FirstId
    BY <1>2
  <2>. QED
    BY <1>1, <2>1, <2>2, <2>3, RepliedShape
<1>6. ASSUME NEW t \in Tab, PressFirst(t)
      PROVE  FirstShape'
  <2>1. /\ UNCHANGED <<table, present, lastIn>> /\ tries' \in 0..MaxTry
        /\ tab' = [tab EXCEPT ![t].busy = TRUE]
        /\ \/ tx' = [tx EXCEPT ![t] = [at |-> "drop", row |-> tab[t].known]]
           \/ tx' = [tx EXCEPT ![t] = [at |-> "look", row |-> Unknown]]
    <3>1. tries < MaxTry /\ tries' = tries + 1 /\ tab' = [tab EXCEPT ![t].busy = TRUE]
          /\ UNCHANGED <<table, present, lastIn>>
      BY <1>6 DEF PressFirst
    <3>2. tries' \in 0..MaxTry
      BY <1>2, <3>1, FirstAssumption
    <3>3. CASE table = "favorites" /\ tab[t].known # Unknown
      BY <1>6, <3>1, <3>2, <3>3 DEF PressFirst
    <3>4. CASE ~(table = "favorites" /\ tab[t].known # Unknown)
      BY <1>6, <3>1, <3>2, <3>4 DEF PressFirst
    <3>. QED
      BY <3>3, <3>4
  <2>2. /\ tx'[t].at \in {"drop", "look"} /\ tx'[t].row \in {Unknown} \cup FirstId
        /\ \A u \in Tab \ {t} : tx'[u] = tx[u] /\ tab'[u] = tab[u]
        /\ tab'[t].known = tab[t].known
    BY <1>2, <2>1
  <2>3. Held' \subseteq Held /\ OnServer(t)' /\ tx'[t] # Idle
    BY <2>2 DEF Held, OnServer, Idle
  <2>. QED
    BY <1>1, <1>2, <2>1, <2>2, <2>3, FirstShapeGoesOn DEF FirstRows
<1>7. ASSUME NEW t \in Tab, TakeFirst(t)
      PROVE  FirstShape'
  <2>1. /\ UNCHANGED <<table, present, lastIn, tries>> /\ tx' = [tx EXCEPT ![t] = Idle]
        /\ tab' = [tab EXCEPT ![t] =
                      [known |-> IF tx[t].at = "served" THEN tx[t].row ELSE @.known,
                       busy |-> FALSE,
                       done |-> @.done \/ (table = "shops" /\ tx[t].at = "served")]]
    BY <1>7 DEF TakeFirst
  <2>2. /\ tx'[t] = Idle /\ tx'[t].row = Unknown /\ tx'[t].at = "idle" /\ tab'[t].busy = FALSE
        /\ tab'[t].known \in {tx[t].row, tab[t].known}
        /\ \A u \in Tab \ {t} : tx'[u] = tx[u] /\ tab'[u] = tab[u]
    BY <1>2, <2>1 DEF Idle
  <2>3. Held' \subseteq Held
    BY <2>2 DEF Held
  <2>. QED
    BY <1>1, <1>2, <2>1, <2>2, <2>3, FirstShapeGoesOn DEF FirstRows
<1>8. ASSUME NEW t \in Tab, StopWaiting(t) \/ OpenTab(t)
      PROVE  FirstShape'
  <2>1. UNCHANGED <<table, present, lastIn, tries, tx>>
    BY <1>8 DEF StopWaiting, OpenTab
  <2>2. /\ tab'[t].busy = FALSE /\ tab'[t].known \in {tab[t].known, Unknown} \cup present
        /\ \A u \in Tab \ {t} : tab'[u] = tab[u]
    BY <1>2, <1>8 DEF StopWaiting, OpenTab
  <2>3. OnServer(t) \/ tx[t] = Idle
    BY <1>8 DEF StopWaiting, OpenTab, FirstShape
  <2>4. FirstRows' = FirstRows /\ OnServer(t)' = OnServer(t)
    BY <2>1 DEF FirstRows, Held, OnServer
  <2>. QED
    BY <1>1, <1>2, <2>1, <2>2, <2>3, <2>4, FirstShapeGoesOn
<1>9. CASE UNCHANGED firstVars
  BY <1>9 DEF firstVars, FirstShape, FirstRows, Held, OnServer
<1>. QED
  BY <1>3, <1>4, <1>5, <1>6, <1>7, <1>8, <1>9 DEF FirstNext

LEMMA FirstShapeStarts == FirstInit => FirstShape
<1>. SUFFICES ASSUME FirstInit PROVE FirstShape
  OBVIOUS
<1>1. Held = {} /\ FirstRows = {}
  BY DEF FirstInit, Held, Idle, FirstRows
<1>. QED
  BY <1>1, FirstAssumption DEF FirstInit, FirstShape, Idle, Unknown, OnServer

LEMMA FirstFacts == FirstInv /\ FirstShape => FirstTypeOK
BY DEF FirstInv, FirstTypes, FirstShape, FirstTypeOK, FirstRows
=============================================================================
