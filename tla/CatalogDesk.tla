---------------------------- MODULE CatalogDesk ----------------------------
(***************************************************************************)
(* The products page of a shop (ProductManager.tsx) over the catalogue on  *)
(* the server, while customers buy.  A row has a form for its stock, one   *)
(* for its details, a toggle and a removal; the forms keep what was typed  *)
(* or loaded, the page keeps the last answer about each product.           *)
(***************************************************************************)
EXTENDS Integers, FiniteSets

CONSTANTS
    Slot,       \* bound: requests on the way, at most
    Label,      \* what the shopkeeper writes in name, price, unit...
    MaxProduct, \* bound: products ever made
    MaxUnits,   \* bound: units of a product
    MaxDeal     \* bound: requests made

ASSUME DeskAssumption ==
    /\ MaxProduct \in Nat \ {0} /\ MaxUnits \in Nat \ {0} /\ MaxDeal \in Nat
    /\ Label # {}

VARIABLES
    stock,   \* the catalogue: id |-> product
    made,    \* ids given so far
    shown,   \* the page's list: id |-> product as last answered
    desk,    \* id |-> the local state of its row
    creating,\* the create form waits
    wires,   \* [Slot -> request on the way, or its answer]
    ghosts,  \* requests given up and still to be served
    deals,   \* requests made so far
    mixed,   \* ghost: ids whose requests overlapped or were given up
    sold     \* ghost: ids bought or returned since the server last answered

deskVars == <<stock, made, shown, desk, creating, wires, ghosts, deals, mixed, sold>>

-----------------------------------------------------------------------------
Id == 1..MaxProduct
Units == 0..MaxUnits
NoAlert == -1
Alert == {NoAlert, MaxUnits}  \* bound: alerts entered

Goods == [label : Label, live : BOOLEAN, units : Units, alert : Alert]

\* A row: its spinner, whether its details form is open, and that form's spinner.
\* What stands in the inputs is what the requests below choose from (bound: a
\* new product comes with its full stock and no alert).
Row == [busy : BOOLEAN, editing : BOOLEAN, saving : BOOLEAN]

FreshRow == [busy |-> FALSE, editing |-> FALSE, saving |-> FALSE]

\* own: the component that awaits it is still mounted.
NoWire == [state |-> "free"]
Wire(q) == [state |-> "sent", request |-> q, own |-> TRUE]

Pending(i) == {w \in Slot : wires[w].state # "free" /\ wires[w].request.id = i}

\* What "Live", "Low stock", "Out of stock" and "Hidden" count.
Live == {i \in DOMAIN shown : shown[i].live /\ shown[i].units > 0}
Hidden == {i \in DOMAIN shown : ~shown[i].live}
OutOfStock == {i \in DOMAIN shown : shown[i].live /\ shown[i].units <= 0}
LowStock == {i \in Live : shown[i].alert # NoAlert /\ shown[i].units <= shown[i].alert}

-----------------------------------------------------------------------------
(* The server. *)

Exists(q) == q.op = "create" \/ q.id \in DOMAIN stock

With(f, i, g) == [j \in DOMAIN f \cup {i} |-> IF j = i THEN g ELSE f[j]]
Less(f, i) == [j \in DOMAIN f \ {i} |-> f[j]]

\* update_shop_product takes every field it is sent, low_stock_threshold to an
\* attribute that is no column; update_shop_inventory leaves what is None.
Effected(q) ==
    CASE q.op = "create" -> With(stock, made + 1, q.goods)
      [] q.op = "toggle" -> [stock EXCEPT ![q.id].live = q.live]
      [] q.op = "details" -> [stock EXCEPT ![q.id].live = q.live, ![q.id].label = q.label]
      [] q.op = "stock" ->
            [stock EXCEPT ![q.id].units = q.units,
                          ![q.id].alert = IF q.alert = NoAlert THEN @ ELSE q.alert]
      [] q.op = "delete" -> Less(stock, q.id)

Carries(q) ==
    /\ q.op = "create" => made < MaxProduct
    /\ made' = IF q.op = "create" THEN made + 1 ELSE made
    /\ stock' = Effected(q)

\* The answer is the whole product.
ServeDesk(w) ==
    /\ wires[w].state = "sent"
    /\ LET q == wires[w].request IN
       IF ~Exists(q)
       THEN /\ wires' = [wires EXCEPT ![w].state = "failed"]
            /\ UNCHANGED <<stock, made, sold>>
       ELSE /\ Carries(q)
            /\ wires' = [wires EXCEPT ![w] =
                   [state |-> "ok", request |-> q, own |-> @.own,
                    goods |-> CASE q.op = "create" -> [id |-> made', now |-> q.goods]
                                [] q.op = "delete" -> [id |-> q.id]
                                [] OTHER -> [id |-> q.id, now |-> stock'[q.id]]]]
            /\ sold' = sold \ {q.id}
    /\ UNCHANGED <<shown, desk, creating, ghosts, deals, mixed>>

\* An error, or no answer in 15 seconds; then the request may still be served.
LoseDesk(w) ==
    /\ wires[w].state = "sent"
    /\ wires' = [wires EXCEPT ![w].state = "failed"]
    /\ \/ UNCHANGED <<ghosts, mixed>>
       \/ /\ ghosts = {}
          /\ ghosts' = {wires[w].request}
          /\ mixed' = mixed \cup {wires[w].request.id}
    /\ UNCHANGED <<stock, made, shown, desk, creating, deals, sold>>

ServeGhost(q) ==
    /\ q \in ghosts
    /\ ghosts' = ghosts \ {q}
    /\ IF Exists(q) THEN Carries(q) ELSE UNCHANGED <<stock, made>>
    /\ UNCHANGED <<shown, desk, creating, wires, deals, mixed, sold>>

\* Checkout takes a unit of a live product, a cancellation returns one.
Trade(i) ==
    /\ i \in DOMAIN stock
    /\ \E n \in {stock[i].units - 1, stock[i].units + 1} \cap Units :
          /\ n < stock[i].units => stock[i].live
          /\ stock' = [stock EXCEPT ![i].units = n]
    /\ sold' = sold \cup {i}
    /\ UNCHANGED <<made, shown, desk, creating, wires, ghosts, deals, mixed>>

-----------------------------------------------------------------------------
(* The page. *)

FreeWires == {w \in Slot : wires[w].state = "free"}

\* Which free slot carries the request does not matter.
Call(q) ==
    /\ FreeWires # {}
    /\ deals < MaxDeal /\ deals' = deals + 1
    /\ wires' = [wires EXCEPT ![CHOOSE w \in FreeWires : TRUE] = Wire(q)]
    /\ mixed' = IF q.id # 0 /\ Pending(q.id) # {} THEN mixed \cup {q.id} ELSE mixed
    /\ UNCHANGED <<stock, made, shown, ghosts, sold>>

\* toggleActive, saveInventory and doDelete share the row's spinner.
RowCalls(i, q) ==
    /\ i \in DOMAIN shown /\ ~desk[i].busy
    /\ Call(q)
    /\ desk' = [desk EXCEPT ![i].busy = TRUE]
    /\ UNCHANGED creating

ToggleActive(i) ==
    i \in DOMAIN shown /\ RowCalls(i, [op |-> "toggle", id |-> i, live |-> ~shown[i].live])

\* Whatever stands in the two inputs, which keep what the row was mounted with.
SaveInventory(i, n, a) ==
    RowCalls(i, [op |-> "stock", id |-> i, units |-> n, alert |-> a])

\* "Remove", after its question.
DoDelete(i) == RowCalls(i, [op |-> "delete", id |-> i])

OpenEdit(i) ==
    /\ i \in DOMAIN shown /\ ~desk[i].editing
    /\ desk' = [desk EXCEPT ![i].editing = TRUE]
    /\ UNCHANGED <<stock, made, shown, creating, wires, ghosts, deals, mixed, sold>>

\* Requests whose component is gone still change the list, no longer the row.
Disown(S) ==
    wires' = [w \in Slot |-> IF w \in S THEN [wires[w] EXCEPT !.own = FALSE] ELSE wires[w]]

CloseEdit(i) ==
    /\ i \in DOMAIN shown /\ desk[i].editing
    /\ desk' = [desk EXCEPT ![i].editing = FALSE, ![i].saving = FALSE]
    /\ Disown({w \in Pending(i) : wires[w].request.op = "details"})
    /\ UNCHANGED <<stock, made, shown, creating, ghosts, deals, mixed, sold>>

\* The search hides the row, and shows it again.
Refilter(i) ==
    /\ i \in DOMAIN shown
    /\ desk' = [desk EXCEPT ![i] = FreshRow]
    /\ Disown(Pending(i))
    /\ UNCHANGED <<stock, made, shown, creating, ghosts, deals, mixed, sold>>

\* save: all fields of the form, beside whatever the row has on the way.
SaveDetails(i, l, b) ==
    /\ i \in DOMAIN shown /\ desk[i].editing /\ ~desk[i].saving
    /\ Call([op |-> "details", id |-> i, label |-> l, live |-> b])
    /\ desk' = [desk EXCEPT ![i].saving = TRUE]
    /\ UNCHANGED creating

SubmitNew(g) ==
    /\ ~creating
    /\ Call([op |-> "create", id |-> 0, goods |-> g])
    /\ creating' = TRUE
    /\ UNCHANGED desk

\* "Close" beside the form that is waiting.
CloseNew ==
    /\ creating
    /\ creating' = FALSE
    /\ Disown({w \in Slot : wires[w].state # "free" /\ wires[w].request.op = "create"})
    /\ UNCHANGED <<stock, made, shown, desk, ghosts, deals, mixed, sold>>

\* What the row's own component does when its request is over.
Released(w) ==
    LET i == wires[w].request.id  r == desk[i] IN
    IF ~wires[w].own THEN r
    ELSE IF wires[w].request.op = "details" THEN [r EXCEPT !.saving = FALSE]
    ELSE [r EXCEPT !.busy = FALSE]

\* onSaved closes the details form there is.
ClosesForm(w, r) ==
    IF wires[w].request.op = "details" THEN [r EXCEPT !.editing = FALSE, !.saving = FALSE] ELSE r

\* An answer is taken; one that closes a form ends the wait of whatever form that is.
Takes(w) ==
    LET q == wires[w].request
        closed == {x \in Slot \ {w} :
                     /\ q.op \in {"create", "details"} /\ wires[x].state # "free"
                     /\ wires[x].request.op = q.op /\ wires[x].request.id = q.id}
    IN  wires' = [x \in Slot |-> IF x = w THEN NoWire
                                 ELSE IF x \in closed THEN [wires[x] EXCEPT !.own = FALSE]
                                 ELSE wires[x]]

\* Mutant: the answer to a stock save is not shown in the list.
TakeDeskWithoutStock(w) ==
    LET q == wires[w].request  i == q.id IN
    /\ wires[w].state = "ok"
    /\ q.op \in {"toggle", "details", "stock"}
    /\ IF i \in DOMAIN shown
       THEN /\ shown' = IF q.op = "stock" THEN shown ELSE [shown EXCEPT ![i] = wires[w].goods.now]
            /\ desk' = [desk EXCEPT ![i] = ClosesForm(w, Released(w))]
       ELSE UNCHANGED <<shown, desk>>
    /\ Takes(w)
    /\ UNCHANGED <<stock, made, creating, ghosts, deals, mixed, sold>>

\* onChange.
TakeChange(w) ==
    LET q == wires[w].request  i == q.id IN
    /\ wires[w].state = "ok"
    /\ q.op \in {"toggle", "details", "stock"}
    /\ IF i \in DOMAIN shown
       THEN /\ shown' = [shown EXCEPT ![i] = wires[w].goods.now]
            /\ desk' = [desk EXCEPT ![i] = ClosesForm(w, Released(w))]
       ELSE UNCHANGED <<shown, desk>>
    /\ Takes(w)
    /\ UNCHANGED <<stock, made, creating, ghosts, deals, mixed, sold>>

\* onDelete and onCreated, which closes the create form there is.
TakeMembership(w) ==
    LET q == wires[w].request IN
    /\ wires[w].state = "ok"
    /\ \/ /\ q.op = "delete"
          /\ shown' = Less(shown, q.id) /\ desk' = Less(desk, q.id)
          /\ creating' = creating
       \/ /\ q.op = "create"
          /\ LET new == wires[w].goods IN
             /\ shown' = With(shown, new.id, new.now)
             /\ desk' = With(desk, new.id, FreshRow)
          /\ creating' = FALSE
    /\ Takes(w)
    /\ UNCHANGED <<stock, made, ghosts, deals, mixed, sold>>

TakeError(w) ==
    LET q == wires[w].request IN
    /\ wires[w].state = "failed"
    /\ creating' = (creating /\ ~(q.op = "create" /\ wires[w].own))
    /\ desk' = IF q.id \in DOMAIN desk THEN [desk EXCEPT ![q.id] = Released(w)] ELSE desk
    /\ wires' = [wires EXCEPT ![w] = NoWire]
    /\ UNCHANGED <<stock, made, shown, ghosts, deals, mixed, sold>>

-----------------------------------------------------------------------------
DeskInit ==
    /\ made = 1
    /\ \E g \in Goods : g.live /\ g.units = MaxUnits /\ g.alert = NoAlert /\ stock = <<g>>
    /\ shown = stock
    /\ desk = [i \in DOMAIN shown |-> FreshRow]
    /\ creating = FALSE
    /\ wires = [w \in Slot |-> NoWire]
    /\ ghosts = {} /\ deals = 0 /\ mixed = {} /\ sold = {}

DeskNext ==
    \/ \E w \in Slot :
          \/ ServeDesk(w) \/ LoseDesk(w)
          \/ TakeChange(w) \/ TakeMembership(w) \/ TakeError(w)
    \/ CloseNew
    \/ \E q \in ghosts : ServeGhost(q)
    \/ \E g \in Goods : g.alert = NoAlert /\ g.units = MaxUnits /\ SubmitNew(g)
    \/ \E i \in Id :
          \/ Trade(i) \/ Refilter(i)
          \/ ToggleActive(i) \/ DoDelete(i) \/ OpenEdit(i) \/ CloseEdit(i)
          \/ \E n \in Units, a \in Alert : SaveInventory(i, n, a)
          \/ \E l \in Label, b \in BOOLEAN : SaveDetails(i, l, b)

\* Requests end, and the page takes their answers: one condition for all of them,
\* as they are bounded.
DeskFair ==
    WF_deskVars(\E w \in Slot :
        ServeDesk(w) \/ LoseDesk(w) \/ TakeChange(w) \/ TakeMembership(w) \/ TakeError(w))

-----------------------------------------------------------------------------
(* Properties *)

\* Products, rows and requests are well typed; every row listed has its local
\* state, and the four figures above the list count every product once.
DeskTypeOK ==
    /\ made \in 0..MaxProduct /\ DOMAIN stock \subseteq 1..made
    /\ \A i \in DOMAIN stock : stock[i] \in Goods
    /\ \A i \in DOMAIN shown : shown[i] \in Goods /\ desk[i] \in Row
    /\ DOMAIN desk = DOMAIN shown
    /\ Live \cup Hidden \cup OutOfStock = DOMAIN shown
    /\ \A i \in DOMAIN shown :
          desk[i].busy => \E w \in Pending(i) : wires[w].own
    /\ creating => \E w \in Slot : wires[w].state # "free"

\* ProductManager.tsx: a listed product nothing is on the way for is shown as
\* the server has it, but for units bought or returned since; unless two of its
\* requests overlapped (the details form has a spinner of its own) or one was
\* given up and served all the same.
QuietRowShowsTheProduct ==
    \A i \in DOMAIN shown \ mixed :
        Pending(i) = {} =>
            /\ i \in DOMAIN stock
            /\ shown[i] = [stock[i] EXCEPT !.units = IF i \in sold THEN shown[i].units ELSE @]

\* Every spinner of the page ends.
DeskComesBack ==
    /\ []<>(~creating)
    /\ \A i \in Id : []<>(i \in DOMAIN desk => ~desk[i].busy /\ ~desk[i].saving)
=============================================================================
