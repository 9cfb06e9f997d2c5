-------------------------- MODULE CheckoutTx_proofs --------------------------
(***************************************************************************)
(* Machine-checked theorems about CheckoutTx, for every set of             *)
(* transactions, customers, products and orders: the interleaved           *)
(* statements of checkouts, moves, recounts and deletions implement        *)
(* StockLedger, and a checkout orders the cart as it is.                   *)
(***************************************************************************)
EXTENDS CheckoutTx, TLAPS

-----------------------------------------------------------------------------
(* The inductive invariant *)

Places == {"idle", "cart", "lines", "counted", "order", "delist", "recount", "stock", "commit"}

Columns ==
    /\ row \in [Product -> {"absent", "present", "deleted"}]
    /\ stock \in Lines
    /\ cart \in [Customer -> Lines]
    /\ Placed \subseteq OrderId
    /\ orders \in [Placed -> [customer : Customer, lines : Lines]]
    /\ status \in [Placed -> OrderStatus]

Workspaces ==
    /\ req \in [Tx -> Request \cup {NoRequest}]
    /\ pc \in [Tx -> Places]
    /\ want \in [Tx -> SUBSET Product]
    /\ next \in [Tx -> Product \cup {"none"}]
    /\ got \in [Tx -> Lines]
    /\ seen \in [Tx -> Lines]
    /\ holds = [t \in Tx |-> holds[t]]

\* What a cart holds is for sale, and no more than a claim may take.
CartsFit ==
    \A c \in Customer, p \in Product : cart[c][p] <= MaxLine /\ (cart[c][p] > 0 => p \in Listed)

\* What was ordered was once for sale; it may be deleted, but never listed again.
OrdersFit == \A o \in Placed, p \in Product : orders[o].lines[p] > 0 => row[p] # "absent"

LocksApart == \A t, u \in Tx : t # u => holds[t] \cap holds[u] = {}

OneOrderEach ==
    \A t, u \in Tx :
        req[t].kind = "checkout" /\ req[u].kind = "checkout" /\ req[t].order = req[u].order => t = u

\* Which requests get to a statement, and what of their workspace is used there.
KindAt(t) ==
    /\ pc[t] \in {"cart", "lines", "counted"} => req[t].kind = "checkout"
    /\ pc[t] \in {"order", "delist", "recount"} =>
           req[t].kind = IF pc[t] = "order" THEN "move" ELSE pc[t]
    /\ pc[t] \in {"stock", "commit"} => req[t].kind \in {"checkout", "move", "delist"}
    /\ pc[t] \in {"lines", "stock"} => next[t] \in want[t]
    /\ pc[t] = "commit" => want[t] = {}
    /\ pc[t] \in {"idle", "cart", "order"} \/ req[t].kind \in {"recount", "delist"} => got[t] = NoLines

\* A checkout has the cart and the lines it read locked, so they are as it read
\* them; once it has counted them they are the whole cart.
CheckoutAt(t) ==
    LET c == req[t].customer IN
    req[t].kind = "checkout" =>
        /\ req[t].order \notin Placed
        /\ pc[t] \in {"lines", "counted", "stock", "commit"} =>
               /\ CartRow(c) \in holds[t]
               /\ \A p \in LinesOf(got[t]) :
                     /\ {LineRow(c, p), ProductRow(p)} \subseteq holds[t]
                     /\ got[t][p] = cart[c][p]
        /\ pc[t] \in {"stock", "commit"} => got[t] = cart[c] /\ LinesOf(got[t]) # {}

\* A move has its order locked in the state it found, and gives back what the
\* order took of every product that is still listed.
MoveAt(t) ==
    LET o == req[t].order IN
    req[t].kind = "move" =>
        /\ o \in Placed
        /\ pc[t] \in {"stock", "commit"} =>
               /\ OrderRow(o) \in holds[t]
               /\ CanTransition(status[o], req[t].target)
               /\ \A p \in LinesOf(got[t]) :
                     req[t].target \in RestockTargets /\ got[t][p] = orders[o].lines[p]
               /\ req[t].target \in RestockTargets =>
                     \A p \in Listed : got[t][p] = orders[o].lines[p]

\* A deletion has its product locked, and before it commits the inventory row.
DelistAt(t) ==
    LET p == req[t].product IN
    req[t].kind = "delist" /\ pc[t] \in {"stock", "commit"} =>
        /\ ProductRow(p) \in holds[t] /\ p \in Listed
        /\ want[t] \subseteq {p}
        /\ pc[t] = "commit" => StockRow(p) \in holds[t]

\* A figure that was read stands in a locked row, and is what the row contains.
ShelfAt(t) ==
    pc[t] \in {"stock", "commit"} =>
        \A p \in LinesOf(got[t]) \ want[t] :
            StockRow(p) \in holds[t] /\ p \in Listed /\ seen[t][p] = stock[p]

At(t) == KindAt(t) /\ CheckoutAt(t) /\ MoveAt(t) /\ DelistAt(t) /\ ShelfAt(t)

TxInv ==
    /\ Columns /\ Workspaces
    /\ CartsFit /\ OrdersFit
    /\ LocksApart /\ OneOrderEach
    /\ \A t \in Tx : At(t)

-----------------------------------------------------------------------------
(* Those who wait *)

\* What a step leaves to a transaction u that did not take it: its workspace, and
\* the rows it has locked.
Apart(u) ==
    /\ req'[u] = req[u] /\ pc'[u] = pc[u] /\ want'[u] = want[u] /\ next'[u] = next[u]
    /\ got'[u] = got[u] /\ seen'[u] = seen[u] /\ holds'[u] = holds[u]

CartKept(u) ==
    \A c \in Customer : CartRow(c) \in holds[u] =>
        \A p \in Product :
            \/ cart'[c][p] = cart[c][p]
            \/ cart[c][p] > 0 /\ ~({LineRow(c, p), ProductRow(p)} \subseteq holds[u])

OrdersKept(u) ==
    /\ \A o \in Placed : o \in Placed' /\ orders'[o] = orders[o]
    /\ \A o \in Placed : OrderRow(o) \in holds[u] => status'[o] = status[o]
    /\ req[u].kind = "checkout" => req[u].order \notin Placed' \ Placed

ShelfKept(u) ==
    /\ \A p \in Listed : StockRow(p) \in holds[u] => p \in Listed' /\ stock'[p] = stock[p]
    /\ \A p \in Listed : ProductRow(p) \in holds[u] => p \in Listed'
    /\ \A p \in Listed' \ Listed : row[p] = "absent"

LEMMA RequestFields ==
    ASSUME Workspaces, NEW t \in Tx
    PROVE  /\ req[t].kind = "checkout" => req[t].customer \in Customer /\ req[t].order \in OrderId
           /\ req[t].kind = "move" =>
                 req[t].target \in {"accepted", "rejected", "preparing", "cancelled"}
           /\ req[t].kind = "recount" => req[t].product \in Product /\ req[t].count \in Count
           /\ req[t].kind = "delist" => req[t].product \in Product
<1>1. req[t] \in Request \cup {NoRequest}
  BY DEF Workspaces
<1>. QED
  BY <1>1 DEF Request, NoRequest

LEMMA WaiterStays ==
    ASSUME Columns, Workspaces, OrdersFit, NEW u \in Tx, At(u),
           Columns', Apart(u), CartKept(u), OrdersKept(u), ShelfKept(u)
    PROVE  At(u)'
<1>1. KindAt(u)'
  BY DEF At, KindAt, Apart
<1>2. CheckoutAt(u)'
  <2> DEFINE c == req[u].customer
  <2>. SUFFICES ASSUME req[u].kind = "checkout" PROVE CheckoutAt(u)'
    BY DEF CheckoutAt, Apart
  <2>1. c \in Customer /\ got[u] \in Lines
    BY RequestFields DEF Workspaces
  <2>2. req[u].order \notin Placed'
    BY DEF At, CheckoutAt, OrdersKept
  <2>3. ASSUME pc[u] \in {"lines", "counted", "stock", "commit"}
        PROVE  /\ CartRow(c) \in holds[u]
               /\ \A p \in LinesOf(got[u]) :
                     /\ {LineRow(c, p), ProductRow(p)} \subseteq holds[u]
                     /\ got[u][p] = cart'[c][p]
    BY <2>1, <2>3 DEF At, CheckoutAt, CartKept, LinesOf
  <2>4. ASSUME pc[u] \in {"stock", "commit"}
        PROVE  got[u] = cart'[c] /\ LinesOf(got[u]) # {}
    <3>1. /\ CartRow(c) \in holds[u] /\ got[u] = cart[c] /\ LinesOf(got[u]) # {}
          /\ \A p \in LinesOf(got[u]) : {LineRow(c, p), ProductRow(p)} \subseteq holds[u]
      BY <2>4 DEF At, CheckoutAt
    <3>2. \A p \in Product : cart'[c][p] = cart[c][p]
      BY <2>1, <3>1 DEF CartKept, LinesOf
    <3>. QED
      BY <2>1, <3>1, <3>2 DEF Columns, Lines
  <2>. QED
    BY <2>2, <2>3, <2>4 DEF CheckoutAt, Apart, LinesOf
<1>3. MoveAt(u)'
  <2> DEFINE o == req[u].order
  <2>. SUFFICES ASSUME req[u].kind = "move" PROVE MoveAt(u)'
    BY DEF MoveAt, Apart
  <2>1. o \in Placed /\ o \in Placed' /\ orders'[o] = orders[o]
    BY DEF At, MoveAt, OrdersKept
  <2>2. ASSUME pc[u] \in {"stock", "commit"}
        PROVE  /\ OrderRow(o) \in holds[u]
               /\ CanTransition(status'[o], req[u].target)
               /\ \A p \in LinesOf(got[u]) :
                     req[u].target \in RestockTargets /\ got[u][p] = orders[o].lines[p]
    BY <2>1, <2>2 DEF At, MoveAt, OrdersKept
  <2>3. ASSUME pc[u] \in {"stock", "commit"}, req[u].target \in RestockTargets,
               NEW p \in Listed'
        PROVE  got[u][p] = orders[o].lines[p]
    <3>1. CASE p \in Listed
      BY <2>3, <3>1 DEF At, MoveAt
    <3>2. CASE p \notin Listed
      <4>1. p \in Product /\ row[p] = "absent"
        BY <2>3, <3>2 DEF ShelfKept, Listed
      <4>2. orders[o].lines[p] \in Nat /\ got[u][p] \in Nat
        BY <2>1, <4>1 DEF Columns, Workspaces, Lines
      <4>3. orders[o].lines[p] = 0
        BY <2>1, <4>1, <4>2 DEF OrdersFit
      <4>4. got[u][p] = 0
        BY <2>2, <2>3, <4>1, <4>2, <4>3 DEF LinesOf
      <4>. QED
        BY <4>3, <4>4
    <3>. QED
      BY <3>1, <3>2
  <2>. QED
    BY <2>1, <2>2, <2>3 DEF MoveAt, Apart, LinesOf
<1>4. DelistAt(u)'
  BY DEF At, DelistAt, Apart, ShelfKept
<1>5. ShelfAt(u)'
  BY DEF At, ShelfAt, Apart, ShelfKept, LinesOf
<1>. QED
  BY <1>1, <1>2, <1>3, <1>4, <1>5 DEF At

-----------------------------------------------------------------------------
(* Steps that commit nothing *)

LEMMA NoLinesAtAll ==
    /\ NoLines \in Lines
    /\ \A lines \in Lines : LinesOf(lines) = {} <=> lines = NoLines
<1>1. NoLines \in Lines
  BY DEF NoLines, Lines
<1>2. ASSUME NEW lines \in Lines, LinesOf(lines) = {} PROVE lines = NoLines
  <2>1. \A p \in Product : lines[p] = 0
    BY <1>2 DEF LinesOf, Lines
  <2>. QED
    BY <2>1, <1>2 DEF Lines, NoLines
<1>3. LinesOf(NoLines) = {}
  BY DEF LinesOf, NoLines
<1>. QED
  BY <1>1, <1>2, <1>3

LEMMA Goes ==
    ASSUME Workspaces, NEW t \in Tx, NEW l \in Places, NEW S \in SUBSET Product, Goto(t, l, S)
    PROVE  /\ pc' \in [Tx -> Places] /\ want' \in [Tx -> SUBSET Product]
           /\ next' \in [Tx -> Product \cup {"none"}]
           /\ pc'[t] = l /\ want'[t] = S /\ (S # {} => next'[t] \in S)
           /\ \A u \in Tx \ {t} : pc'[u] = pc[u] /\ want'[u] = want[u] /\ next'[u] = next[u]
BY DEF Workspaces, Goto

LEMMA LocksTaken ==
    ASSUME Workspaces, LocksApart, NEW t \in Tx, NEW S, \A r \in S : Free(t, r), Lock(t, S)
    PROVE  /\ LocksApart'
           /\ holds' = [u \in Tx |-> holds'[u]]
           /\ holds'[t] = holds[t] \cup S
           /\ \A u \in Tx \ {t} : holds'[u] = holds[u]
<1>1. /\ holds' = [u \in Tx |-> holds'[u]]
      /\ holds'[t] = holds[t] \cup S
      /\ \A u \in Tx \ {t} : holds'[u] = holds[u]
  BY DEF Workspaces, Lock
<1>2. \A u \in Tx \ {t} : S \cap holds[u] = {}
  BY DEF Free
<1>. QED
  BY <1>1, <1>2 DEF LocksApart

LEMMA OwnStep ==
    ASSUME TxInv, NEW t \in Tx, UNCHANGED dbVars, Workspaces', LocksApart', OneOrderEach',
           \A u \in Tx \ {t} : Apart(u), At(t)'
    PROVE  TxInv'
<1>1. UNCHANGED <<row, stock, cart, orders, status>>
  BY DEF dbVars
<1>2. Columns' /\ CartsFit' /\ OrdersFit'
  BY <1>1 DEF TxInv, Columns, CartsFit, OrdersFit, Placed, Listed
<1>3. ASSUME NEW u \in Tx \ {t} PROVE At(u)'
  <2>1. CartKept(u) /\ OrdersKept(u) /\ ShelfKept(u)
    BY <1>1 DEF CartKept, OrdersKept, ShelfKept, Placed, Listed
  <2>. QED
    BY <1>2, <2>1, WaiterStays DEF TxInv
<1>. QED
  BY <1>2, <1>3 DEF TxInv

\* A step of t that locks the rows in S and goes to l with products T to lock.
LEMMA WorkStep ==
    ASSUME TxInv, NEW t \in Tx, UNCHANGED dbVars, UNCHANGED req,
           NEW l \in Places, NEW T \in SUBSET Product, Goto(t, l, T),
           NEW S, \A r \in S : Free(t, r), Lock(t, S),
           got' \in [Tx -> Lines], seen' \in [Tx -> Lines],
           \A u \in Tx \ {t} : got'[u] = got[u] /\ seen'[u] = seen[u],
           At(t)'
    PROVE  TxInv'
<1>1. /\ pc' \in [Tx -> Places] /\ want' \in [Tx -> SUBSET Product]
      /\ next' \in [Tx -> Product \cup {"none"}]
      /\ \A u \in Tx \ {t} : pc'[u] = pc[u] /\ want'[u] = want[u] /\ next'[u] = next[u]
  BY Goes DEF TxInv
<1>2. /\ LocksApart' /\ holds' = [u \in Tx |-> holds'[u]]
      /\ \A u \in Tx \ {t} : holds'[u] = holds[u]
  BY LocksTaken DEF TxInv
<1>3. Workspaces' /\ OneOrderEach' /\ \A u \in Tx \ {t} : Apart(u)
  BY <1>1, <1>2 DEF TxInv, Workspaces, OneOrderEach, Apart
<1>. QED
  BY <1>2, <1>3, OwnStep

LEMMA EndedIs ==
    ASSUME TxInv, NEW t \in Tx, Ended(t)
    PROVE  /\ Workspaces' /\ LocksApart' /\ OneOrderEach'
           /\ At(t)' /\ \A u \in Tx \ {t} : Apart(u)
<1>1. /\ pc' \in [Tx -> Places] /\ want' \in [Tx -> SUBSET Product]
      /\ next' \in [Tx -> Product \cup {"none"}] /\ pc'[t] = "idle"
      /\ \A u \in Tx \ {t} : pc'[u] = pc[u] /\ want'[u] = want[u] /\ next'[u] = next[u]
  <2>1. Goto(t, "idle", {}) /\ "idle" \in Places
    BY DEF Ended, Places
  <2>. QED
    BY <2>1, Goes DEF TxInv
<1>2. /\ got' \in [Tx -> Lines] /\ seen' \in [Tx -> Lines] /\ got'[t] = NoLines
      /\ req' \in [Tx -> Request \cup {NoRequest}] /\ req'[t].kind = "none"
      /\ holds' = [u \in Tx |-> holds'[u]] /\ holds'[t] = {}
      /\ \A u \in Tx \ {t} : /\ req'[u] = req[u] /\ got'[u] = got[u]
                             /\ seen'[u] = seen[u] /\ holds'[u] = holds[u]
  BY NoLinesAtAll DEF Ended, TxInv, Workspaces, NoRequest
<1>3. Workspaces'
  BY <1>1, <1>2 DEF Workspaces
<1>4. LocksApart' /\ OneOrderEach'
  BY <1>2 DEF TxInv, LocksApart, OneOrderEach
<1>5. At(t)'
  BY <1>1, <1>2 DEF At, KindAt, CheckoutAt, MoveAt, DelistAt, ShelfAt
<1>6. \A u \in Tx \ {t} : Apart(u)
  BY <1>1, <1>2 DEF Apart
<1>. QED
  BY <1>3, <1>4, <1>5, <1>6

LEMMA AbortKeeps ==
    ASSUME TxInv, NEW t \in Tx, Abort(t)
    PROVE  TxInv'
BY EndedIs, OwnStep DEF Abort

LEMMA StartKeeps ==
    ASSUME TxInv, NEW t \in Tx, NEW r \in Request, Start(t, r)
    PROVE  TxInv'
<1>1. PICK l \in Places :
          /\ Goto(t, l, {})
          /\ \/ l = "cart" /\ r.kind = "checkout" /\ r.order \notin Placed \cup Reserved
             \/ l = "order" /\ r.kind = "move" /\ r.order \in Placed
             \/ l = r.kind /\ r.kind \in {"recount", "delist"}
  BY DEF Start, Places
<1>2. /\ pc[t] = "idle" /\ req' = [req EXCEPT ![t] = r]
      /\ seen' = [seen EXCEPT ![t] = IF r.kind = "recount" THEN stock ELSE NoLines]
      /\ UNCHANGED <<dbVars, got, holds>>
  BY DEF Start
<1>3. /\ pc' \in [Tx -> Places] /\ want' \in [Tx -> SUBSET Product]
      /\ next' \in [Tx -> Product \cup {"none"}] /\ pc'[t] = l /\ want'[t] = {}
      /\ \A u \in Tx \ {t} : pc'[u] = pc[u] /\ want'[u] = want[u] /\ next'[u] = next[u]
  BY <1>1, Goes DEF TxInv
<1>4. /\ req'[t] = r /\ got'[t] = NoLines /\ \A u \in Tx \ {t} : req'[u] = req[u]
      /\ \A u \in Tx \ {t} : seen'[u] = seen[u]
  BY <1>2 DEF TxInv, Workspaces, At, KindAt
<1>5. seen' \in [Tx -> Lines] /\ req' \in [Tx -> Request \cup {NoRequest}]
  BY <1>2, NoLinesAtAll DEF TxInv, Workspaces, Columns
<1>6. Workspaces' /\ \A u \in Tx \ {t} : Apart(u)
  BY <1>2, <1>3, <1>4, <1>5 DEF TxInv, Workspaces, Apart
<1>7. OneOrderEach'
  <2>1. r.kind = "checkout" => \A u \in Tx : req[u].kind = "checkout" => req[u].order # r.order
    <3>. SUFFICES ASSUME r.kind = "checkout", NEW u \in Tx, req[u].kind = "checkout",
                         req[u].order = r.order
                  PROVE  FALSE
      OBVIOUS
    <3>1. r.order \in OrderId
      BY RequestFields DEF TxInv
    <3>. QED
      BY <1>1, <3>1 DEF Reserved
  <2>. QED
    BY <1>4, <2>1 DEF TxInv, OneOrderEach
<1>8. LocksApart'
  BY <1>2 DEF TxInv, LocksApart
<1>9. At(t)'
  BY <1>1, <1>2, <1>3, <1>4
     DEF At, KindAt, CheckoutAt, MoveAt, DelistAt, ShelfAt, dbVars, Placed
<1>. QED
  BY <1>2, <1>6, <1>7, <1>8, <1>9, OwnStep

LEMMA LockCartKeeps ==
    ASSUME TxInv, NEW t \in Tx, LockCart(t)
    PROVE  TxInv'
<1>1. CASE Abort(t)
  BY <1>1, AbortKeeps
<1>2. CASE ~Abort(t)
  <2> DEFINE c == req[t].customer
             S == {CartRow(c)}
             T == LinesOf(cart[c])
  <2>1. /\ pc[t] = "cart" /\ Free(t, CartRow(c)) /\ T # {}
        /\ Lock(t, S) /\ Goto(t, "lines", T) /\ UNCHANGED <<dbVars, req, got, seen>>
    BY <1>2 DEF LockCart
  <2>2. "lines" \in Places /\ T \in SUBSET Product
    BY DEF Places, LinesOf
  <2>3. pc'[t] = "lines" /\ want'[t] = T /\ next'[t] \in T
    BY <2>1, <2>2, Goes DEF TxInv
  <2>4. holds'[t] = holds[t] \cup S
    BY <2>1, LocksTaken DEF TxInv
  <2>5. req[t].kind = "checkout" /\ got[t] = NoLines /\ req[t].order \notin Placed
    BY <2>1 DEF TxInv, At, KindAt, CheckoutAt
  <2>6. LinesOf(NoLines) = {}
    BY NoLinesAtAll
  <2>7. At(t)'
    BY <2>1, <2>3, <2>4, <2>5, <2>6
       DEF At, KindAt, CheckoutAt, MoveAt, DelistAt, ShelfAt, dbVars, Placed, LinesOf
  <2>8. /\ got' \in [Tx -> Lines] /\ seen' \in [Tx -> Lines]
        /\ \A u \in Tx \ {t} : got'[u] = got[u] /\ seen'[u] = seen[u]
    BY <2>1 DEF TxInv, Workspaces
  <2>9. \A r \in S : Free(t, r)
    BY <2>1
  <2>. QED
    BY <2>1, <2>2, <2>7, <2>8, <2>9, WorkStep
<1>. QED
  BY <1>1, <1>2

LEMMA LockLineKeeps ==
    ASSUME TxInv, NEW t \in Tx, LockLine(t)
    PROVE  TxInv'
<1> DEFINE c == req[t].customer
           p == next[t]
           T == want[t] \ {p}
           S == IF cart[c][p] = 0 THEN {} ELSE {LineRow(c, p), ProductRow(p)}
           l == IF T = {} THEN "counted" ELSE "lines"
<1>1. /\ pc[t] = "lines" /\ Free(t, ProductRow(p)) /\ Free(t, LineRow(c, p))
      /\ got' = [got EXCEPT ![t][p] = cart[c][p]]
      /\ UNCHANGED <<dbVars, req, seen>>
  BY DEF LockLine
<1>2. req[t].kind = "checkout" /\ p \in Product /\ c \in Customer
  BY <1>1, RequestFields DEF TxInv, At, KindAt, Workspaces
<1>3. Goto(t, l, T) /\ l \in Places /\ T \in SUBSET Product
  BY DEF LockLine, Places, TxInv, Workspaces
<1>4. Lock(t, S) /\ \A r \in S : Free(t, r)
  <2>1. CASE cart[c][p] = 0
    BY <2>1 DEF LockLine, Lock, TxInv, Workspaces
  <2>2. CASE cart[c][p] # 0
    BY <1>1, <2>2 DEF LockLine
  <2>. QED
    BY <2>1, <2>2
<1>5. pc'[t] = l /\ want'[t] = T /\ (T # {} => next'[t] \in T)
  <2>. HIDE DEF T, l
  <2>. QED
    BY <1>3, Goes DEF TxInv
<1>6. holds'[t] = holds[t] \cup S
  BY <1>4, LocksTaken DEF TxInv
<1>7. /\ got' \in [Tx -> Lines] /\ seen' \in [Tx -> Lines]
      /\ \A u \in Tx \ {t} : got'[u] = got[u] /\ seen'[u] = seen[u]
  BY <1>1, <1>2 DEF TxInv, Workspaces, Columns, Lines
<1>8. \A q \in Product : got'[t][q] = IF q = p THEN cart[c][p] ELSE got[t][q]
  BY <1>1, <1>2 DEF TxInv, Workspaces, Lines
<1>9. KindAt(t)' /\ DelistAt(t)' /\ ShelfAt(t)' /\ MoveAt(t)'
  BY <1>1, <1>2, <1>5 DEF KindAt, DelistAt, ShelfAt, MoveAt
<1>10. CheckoutAt(t)'
  <2>1. req[t].order \notin Placed' /\ CartRow(c) \in holds'[t]
    BY <1>1, <1>2, <1>6 DEF TxInv, At, CheckoutAt, dbVars, Placed
  <2>2. ASSUME NEW q \in LinesOf(got'[t])
        PROVE  {LineRow(c, q), ProductRow(q)} \subseteq holds'[t] /\ got'[t][q] = cart'[c][q]
    <3>1. q \in Product /\ got'[t][q] > 0 /\ cart' = cart
      BY <1>1 DEF LinesOf, dbVars
    <3>2. CASE q = p
      BY <1>6, <1>8, <3>1, <3>2
    <3>3. CASE q # p
      <4>1. q \in LinesOf(got[t])
        BY <1>8, <3>1, <3>3 DEF LinesOf
      <4>. QED
        BY <1>1, <1>2, <1>6, <1>8, <3>1, <3>3, <4>1 DEF TxInv, At, CheckoutAt
    <3>. QED
      BY <3>2, <3>3
  <2>. QED
    BY <1>1, <1>5, <2>1, <2>2 DEF CheckoutAt, LinesOf
<1>. QED
  BY <1>1, <1>3, <1>4, <1>7, <1>9, <1>10, WorkStep DEF At

\* Steps that lock nothing more.
LEMMA NothingMore ==
    ASSUME TxInv, NEW t \in Tx, UNCHANGED holds
    PROVE  Lock(t, {}) /\ \A r \in {} : Free(t, r)
BY DEF TxInv, Workspaces, Lock

LEMMA CountLinesKeeps ==
    ASSUME TxInv, NEW t \in Tx, CountLines(t)
    PROVE  TxInv'
<1>1. CASE Abort(t)
  BY <1>1, AbortKeeps
<1>2. CASE ~Abort(t)
  <2> DEFINE c == req[t].customer
             T == LinesOf(got[t])
  <2>1. /\ pc[t] = "counted" /\ T # {} /\ LinesOf(cart[c]) = T
        /\ Goto(t, "stock", T) /\ UNCHANGED <<dbVars, req, got, seen, holds>>
    BY <1>2 DEF CountLines
  <2>2. "stock" \in Places /\ T \in SUBSET Product
    BY DEF Places, LinesOf
  <2>3. pc'[t] = "stock" /\ want'[t] = T /\ next'[t] \in T
    BY <2>1, <2>2, Goes DEF TxInv
  <2>4. /\ req[t].kind = "checkout" /\ c \in Customer
        /\ req[t].order \notin Placed /\ CartRow(c) \in holds[t]
        /\ \A p \in T : {LineRow(c, p), ProductRow(p)} \subseteq holds[t] /\ got[t][p] = cart[c][p]
    BY <2>1, RequestFields DEF TxInv, At, KindAt, CheckoutAt
  <2>5. got[t] = cart[c]
    <3>1. got[t] \in Lines /\ cart[c] \in Lines
      BY <2>4 DEF TxInv, Workspaces, Columns
    <3>2. \A p \in Product : got[t][p] = cart[c][p]
      BY <2>1, <2>4, <3>1 DEF LinesOf, Lines
    <3>. QED
      BY <3>1, <3>2 DEF Lines
  <2>6. KindAt(t)' /\ MoveAt(t)' /\ DelistAt(t)' /\ ShelfAt(t)'
    BY <2>1, <2>3, <2>4 DEF KindAt, MoveAt, DelistAt, ShelfAt, LinesOf
  <2>7. CheckoutAt(t)'
    BY <2>1, <2>3, <2>4, <2>5 DEF CheckoutAt, dbVars, Placed, LinesOf
  <2>8. /\ got' \in [Tx -> Lines] /\ seen' \in [Tx -> Lines]
        /\ \A u \in Tx \ {t} : got'[u] = got[u] /\ seen'[u] = seen[u]
    BY <2>1 DEF TxInv, Workspaces
  <2>. QED
    BY <2>1, <2>2, <2>6, <2>7, <2>8, NothingMore, WorkStep DEF At
<1>. QED
  BY <1>1, <1>2

LEMMA LockOrderKeeps ==
    ASSUME TxInv, NEW t \in Tx, LockOrder(t)
    PROVE  TxInv'
<1>1. CASE Abort(t)
  BY <1>1, AbortKeeps
<1>2. CASE ~Abort(t)
  <2> DEFINE o == req[t].order
             lines == orders[o].lines
             T == IF req[t].target \in RestockTargets THEN LinesOf(lines) \cap Listed ELSE {}
             S == {OrderRow(o)}
             l == IF T = {} THEN "commit" ELSE "stock"
  <2>1. /\ pc[t] = "order" /\ Free(t, OrderRow(o)) /\ CanTransition(status[o], req[t].target)
        /\ Lock(t, S) /\ Goto(t, l, T)
        /\ got' = [got EXCEPT ![t] = [p \in Product |-> IF p \in T THEN lines[p] ELSE 0]]
        /\ UNCHANGED <<dbVars, req, seen>>
    BY <1>2 DEF LockOrder
  <2>2. l \in Places /\ T \in SUBSET Product
    BY DEF Places, LinesOf
  <2>3. pc'[t] = l /\ want'[t] = T /\ (T # {} => next'[t] \in T)
    BY <2>1, <2>2, Goes DEF TxInv
  <2>4. holds'[t] = holds[t] \cup S
    BY <2>1, LocksTaken DEF TxInv
  <2>5. req[t].kind = "move" /\ o \in Placed
    BY <2>1 DEF TxInv, At, KindAt, MoveAt
  <2>6. lines \in Lines
    BY <2>5 DEF TxInv, Columns
  <2>7. /\ got' \in [Tx -> Lines] /\ seen' \in [Tx -> Lines]
        /\ \A u \in Tx \ {t} : got'[u] = got[u] /\ seen'[u] = seen[u]
        /\ \A p \in Product : got'[t][p] = IF p \in T THEN lines[p] ELSE 0
    BY <2>1, <2>6 DEF TxInv, Workspaces, Lines
  <2>8. LinesOf(got'[t]) \subseteq T
    BY <2>7 DEF LinesOf
  <2>9. KindAt(t)' /\ CheckoutAt(t)' /\ DelistAt(t)'
    BY <2>1, <2>3, <2>5 DEF KindAt, CheckoutAt, DelistAt
  <2>10. ShelfAt(t)'
    BY <2>3, <2>8 DEF ShelfAt, LinesOf
  <2>11. MoveAt(t)'
    <3>1. o \in Placed' /\ OrderRow(o) \in holds'[t] /\ CanTransition(status'[o], req[t].target)
      BY <2>1, <2>4, <2>5 DEF dbVars, Placed
    <3>2. \A p \in LinesOf(got'[t]) :
             req[t].target \in RestockTargets /\ got'[t][p] = orders'[o].lines[p]
      BY <2>1, <2>7, <2>8 DEF dbVars, LinesOf
    <3>3. ASSUME req[t].target \in RestockTargets, NEW p \in Listed'
          PROVE  got'[t][p] = orders'[o].lines[p]
      <4>1. p \in Product /\ p \in Listed /\ orders' = orders
        BY <2>1 DEF dbVars, Listed
      <4>2. CASE lines[p] > 0
        BY <2>7, <3>3, <4>1, <4>2 DEF LinesOf
      <4>3. CASE lines[p] = 0
        BY <2>7, <4>1, <4>3
      <4>. QED
        BY <2>6, <4>1, <4>2, <4>3 DEF Lines
    <3>. QED
      BY <2>1, <3>1, <3>2, <3>3 DEF MoveAt, LinesOf
  <2>12. \A r \in S : Free(t, r)
    BY <2>1
  <2>. QED
    BY <2>1, <2>2, <2>7, <2>9, <2>10, <2>11, <2>12, WorkStep DEF At
<1>. QED
  BY <1>1, <1>2

LEMMA LockDelistedKeeps ==
    ASSUME TxInv, NEW t \in Tx, LockDelisted(t)
    PROVE  TxInv'
<1>1. CASE Abort(t)
  BY <1>1, AbortKeeps
<1>2. CASE ~Abort(t)
  <2> DEFINE p == req[t].product
             S == {ProductRow(p)}
             T == {p}
  <2>1. /\ pc[t] = "delist" /\ Free(t, ProductRow(p)) /\ p \in Listed
        /\ Lock(t, S) /\ Goto(t, "stock", T) /\ UNCHANGED <<dbVars, req, got, seen>>
    BY <1>2 DEF LockDelisted
  <2>2. "stock" \in Places /\ T \in SUBSET Product
    BY <2>1 DEF Places, Listed
  <2>3. pc'[t] = "stock" /\ want'[t] = T /\ next'[t] \in T
    <3>1. T # {}
      OBVIOUS
    <3>. HIDE DEF T
    <3>. QED
      BY <2>1, <2>2, <3>1, Goes DEF TxInv
  <2>4. holds'[t] = holds[t] \cup S
    BY <2>1, LocksTaken DEF TxInv
  <2>5. req[t].kind = "delist" /\ got[t] = NoLines
    BY <2>1 DEF TxInv, At, KindAt
  <2>6. KindAt(t)' /\ CheckoutAt(t)' /\ MoveAt(t)' /\ DelistAt(t)'
    BY <2>1, <2>3, <2>4, <2>5 DEF KindAt, CheckoutAt, MoveAt, DelistAt, dbVars, Listed
  <2>7. ShelfAt(t)'
    BY <2>1, <2>5, NoLinesAtAll DEF ShelfAt, LinesOf
  <2>8. /\ got' \in [Tx -> Lines] /\ seen' \in [Tx -> Lines]
        /\ \A u \in Tx \ {t} : got'[u] = got[u] /\ seen'[u] = seen[u]
    BY <2>1 DEF TxInv, Workspaces
  <2>9. \A r \in S : Free(t, r)
    BY <2>1
  <2>. QED
    BY <2>1, <2>2, <2>6, <2>7, <2>8, <2>9, WorkStep DEF At
<1>. QED
  BY <1>1, <1>2

\* A row that is gone is passed over; it was a move's, the others have their
\* products locked.
LEMMA LockStockKeeps ==
    ASSUME TxInv, NEW t \in Tx, LockStock(t)
    PROVE  TxInv'
<1> DEFINE p == next[t]
           T == want[t] \ {p}
           S == IF p \in Listed THEN {StockRow(p)} ELSE {}
           l == IF T = {} THEN "commit" ELSE "stock"
<1>1. /\ pc[t] = "stock" /\ Free(t, StockRow(p))
      /\ seen' = [seen EXCEPT ![t][p] = stock[p]]
      /\ UNCHANGED <<dbVars, req>>
  BY DEF LockStock
<1>2. p \in Product /\ req[t].kind \in {"checkout", "move", "delist"}
  BY <1>1 DEF TxInv, At, KindAt, Workspaces
<1>3. Goto(t, l, T) /\ l \in Places /\ T \in SUBSET Product
  BY DEF LockStock, Places, TxInv, Workspaces
<1>4. Lock(t, S) /\ \A r \in S : Free(t, r)
  <2>1. CASE p \in Listed
    BY <1>1, <2>1 DEF LockStock
  <2>2. CASE p \notin Listed
    <3>1. holds' = holds /\ S = {}
      BY <2>2 DEF LockStock
    <3>. QED
      BY <3>1 DEF Lock, TxInv, Workspaces
  <2>. QED
    BY <2>1, <2>2
<1>5. pc'[t] = l /\ want'[t] = T /\ (T # {} => next'[t] \in T)
  <2>. HIDE DEF T, l
  <2>. QED
    BY <1>3, Goes DEF TxInv
<1>6. holds'[t] = holds[t] \cup S
  BY <1>4, LocksTaken DEF TxInv
<1>7. /\ got' \in [Tx -> Lines] /\ seen' \in [Tx -> Lines]
      /\ \A u \in Tx \ {t} : got'[u] = got[u] /\ seen'[u] = seen[u]
  <2>1. seen' \in [Tx -> Lines] /\ \A u \in Tx \ {t} : seen'[u] = seen[u]
    BY <1>1, <1>2 DEF TxInv, Workspaces, Columns, Lines
  <2>2. got' = got \/ got' = [got EXCEPT ![t][p] = 0]
    BY DEF LockStock
  <2>3. got' \in [Tx -> Lines] /\ \A u \in Tx \ {t} : got'[u] = got[u]
    <3>1. got \in [Tx -> Lines] /\ [got[t] EXCEPT ![p] = 0] \in Lines
      BY <1>2 DEF TxInv, Workspaces, Lines
    <3>2. got' = got \/ got' = [got EXCEPT ![t] = [got[t] EXCEPT ![p] = 0]]
      BY <2>2
    <3>. QED
      BY <3>1, <3>2
  <2>. QED
    BY <2>1, <2>3
<1>8. \A q \in Product : /\ got'[t][q] = IF q = p /\ p \notin Listed THEN 0 ELSE got[t][q]
                         /\ seen'[t][q] = IF q = p THEN stock[p] ELSE seen[t][q]
  BY <1>1, <1>2 DEF LockStock, TxInv, Workspaces, Lines
<1>9. req[t].kind # "move" => got'[t] = got[t]
  <2>1. ASSUME req[t].kind # "move" PROVE got[t][p] = 0 \/ p \in Listed
    <3>1. CASE req[t].kind = "checkout"
      <4>1. req[t].customer \in Customer /\ got[t] = cart[req[t].customer]
        BY <1>1, <3>1, RequestFields DEF TxInv, At, CheckoutAt
      <4>2. cart[req[t].customer][p] \in Nat
        BY <1>2, <4>1 DEF TxInv, Columns, Lines
      <4>. QED
        BY <1>2, <4>1, <4>2 DEF TxInv, CartsFit
    <3>2. CASE req[t].kind = "delist"
      BY <1>1, <1>2, <3>2 DEF TxInv, At, KindAt, DelistAt
    <3>. QED
      BY <1>2, <2>1, <3>1, <3>2
  <2>. QED
    BY <1>2, <1>7, <1>8, <2>1 DEF TxInv, Workspaces, Lines
<1>10. KindAt(t)'
  BY <1>1, <1>2, <1>5, <1>9 DEF TxInv, At, KindAt
<1>11. CheckoutAt(t)'
  <2>. SUFFICES ASSUME req[t].kind = "checkout" PROVE CheckoutAt(t)'
    BY <1>1 DEF CheckoutAt
  <2>1. got'[t] = got[t] /\ holds[t] \subseteq holds'[t] /\ cart' = cart /\ req' = req /\ Placed' = Placed
    BY <1>1, <1>6, <1>9 DEF dbVars, Placed
  <2>. QED
    BY <1>1, <1>5, <2>1 DEF TxInv, At, CheckoutAt, LinesOf
<1>12. MoveAt(t)'
  <2>. SUFFICES ASSUME req[t].kind = "move" PROVE MoveAt(t)'
    BY <1>1 DEF MoveAt
  <2>1. /\ holds[t] \subseteq holds'[t] /\ orders' = orders /\ status' = status /\ req' = req
        /\ Placed' = Placed /\ Listed' = Listed /\ Listed \subseteq Product
    BY <1>1, <1>6 DEF dbVars, Placed, Listed
  <2>2. \A q \in LinesOf(got'[t]) : q \in LinesOf(got[t]) /\ got'[t][q] = got[t][q]
    BY <1>8 DEF LinesOf
  <2>3. \A q \in Listed : got'[t][q] = got[t][q]
    BY <1>8, <2>1
  <2>. QED
    BY <1>1, <2>1, <2>2, <2>3 DEF TxInv, At, MoveAt, LinesOf
<1>13. DelistAt(t)'
  <2>. SUFFICES ASSUME req[t].kind = "delist" PROVE DelistAt(t)'
    BY <1>1 DEF DelistAt
  <2>1. p = req[t].product /\ p \in Listed /\ ProductRow(p) \in holds[t]
    BY <1>1 DEF TxInv, At, DelistAt, KindAt
  <2>2. want[t] \subseteq {p}
    BY <1>1, <2>1 DEF TxInv, At, DelistAt
  <2>. QED
    BY <1>1, <1>5, <1>6, <2>1, <2>2 DEF DelistAt, dbVars, Listed
<1>14. ShelfAt(t)'
  <2>. SUFFICES ASSUME NEW q \in LinesOf(got'[t]) \ T
                PROVE  StockRow(q) \in holds'[t] /\ q \in Listed /\ seen'[t][q] = stock[q]
    BY <1>1, <1>5 DEF ShelfAt, dbVars, Listed, LinesOf
  <2>1. q \in Product /\ got'[t][q] > 0
    BY DEF LinesOf
  <2>2. CASE q = p
    BY <1>6, <1>8, <2>1, <2>2
  <2>3. CASE q # p
    <3>1. q \in LinesOf(got[t]) \ want[t]
      BY <1>8, <2>1, <2>3 DEF LinesOf
    <3>. QED
      BY <1>1, <1>6, <1>8, <2>1, <2>3, <3>1 DEF TxInv, At, ShelfAt
  <2>. QED
    BY <2>2, <2>3
<1>. HIDE DEF T, S, l
<1>. QED
  BY <1>1, <1>3, <1>4, <1>7, <1>10, <1>11, <1>12, <1>13, <1>14, WorkStep DEF At

-----------------------------------------------------------------------------
(* Commits *)

LEMMA CommitStep ==
    ASSUME TxInv, NEW t \in Tx, Ended(t), Columns', CartsFit', OrdersFit',
           \A u \in Tx \ {t} : CartKept(u) /\ OrdersKept(u) /\ ShelfKept(u)
    PROVE  TxInv'
<1>1. ASSUME NEW u \in Tx \ {t} PROVE At(u)'
  BY EndedIs, WaiterStays DEF TxInv
<1>. QED
  BY <1>1, EndedIs DEF TxInv

\* What t has locked nobody else has.
LEMMA Mine ==
    ASSUME TxInv, NEW t \in Tx, NEW r \in holds[t], NEW u \in Tx \ {t}
    PROVE  r \notin holds[u]
BY DEF TxInv, LocksApart

LEMMA CheckoutKeeps ==
    ASSUME TxInv, NEW t \in Tx, Checkout(t)
    PROVE  TxInv'
<1>1. CASE Abort(t)
  BY <1>1, AbortKeeps
<1>2. CASE ~Abort(t)
  <2> DEFINE c == req[t].customer
             o == req[t].order
             new == [customer |-> c, lines |-> got[t]]
  <2>1. /\ pc[t] = "commit" /\ req[t].kind = "checkout" /\ Sufficient(t)
        /\ stock' = [p \in Product |-> stock[p] - got[t][p]]
        /\ orders' = Inserted(orders, o, new)
        /\ status' = Inserted(status, o, "pending_shop")
        /\ cart' = [cart EXCEPT ![c] = NoLines]
        /\ Ended(t) /\ row' = row
    BY <1>2 DEF Checkout
  <2>2. c \in Customer /\ o \in OrderId /\ o \notin Placed
    BY <2>1, RequestFields DEF TxInv, At, CheckoutAt
  <2>3. got[t] = cart[c] /\ got[t] \in Lines /\ CartRow(c) \in holds[t]
    BY <2>1 DEF TxInv, Workspaces, At, CheckoutAt
  <2>4. \A p \in Product : got[t][p] <= stock[p]
    BY <2>1, <2>3 DEF Sufficient, LinesOf, TxInv, Columns, Lines
  <2>5. Placed' = Placed \cup {o} /\ orders'[o] = new /\ \A k \in Placed : orders'[k] = orders[k]
    BY <2>1, <2>2 DEF Inserted, Placed
  <2>6. \A k \in Placed : status'[k] = status[k]
    BY <2>1, <2>2 DEF Inserted, TxInv, Columns
  <2>7. Columns'
    <3>1. stock' \in Lines
      BY <2>1, <2>3, <2>4 DEF TxInv, Columns, Lines
    <3>2. cart' \in [Customer -> Lines]
      BY <2>1, NoLinesAtAll DEF TxInv, Columns
    <3>3. orders' \in [Placed' -> [customer : Customer, lines : Lines]]
      BY <2>1, <2>2, <2>3, <2>5 DEF Inserted, Placed, TxInv, Columns
    <3>4. status' \in [Placed' -> OrderStatus]
      BY <2>1, <2>2, <2>5 DEF Inserted, TxInv, Columns, OrderStatus
    <3>. QED
      BY <2>1, <2>2, <2>5, <3>1, <3>2, <3>3, <3>4 DEF TxInv, Columns
  <2>8. Listed' = Listed
    BY <2>1 DEF Listed
  <2>9. CartsFit'
    BY <2>1, <2>8, CheckoutAssumption DEF TxInv, CartsFit, NoLines, Columns
  <2>10. OrdersFit'
    <3>. SUFFICES ASSUME NEW k \in Placed', NEW p \in Product, orders'[k].lines[p] > 0
                  PROVE  row[p] # "absent"
      BY <2>1 DEF OrdersFit
    <3>1. CASE k = o
      BY <2>2, <2>3, <2>5, <3>1 DEF TxInv, CartsFit, Listed
    <3>2. CASE k # o
      BY <2>5, <3>2 DEF TxInv, OrdersFit
    <3>. QED
      BY <3>1, <3>2
  <2>11. ASSUME NEW u \in Tx \ {t}
         PROVE  CartKept(u) /\ OrdersKept(u) /\ ShelfKept(u)
    <3>1. CartRow(c) \notin holds[u]
      BY <2>3, Mine
    <3>2. CartKept(u)
      BY <2>1, <3>1 DEF CartKept, TxInv, Columns
    <3>3. req[u].kind = "checkout" => req[u].order # o
      BY <2>1 DEF TxInv, OneOrderEach
    <3>4. OrdersKept(u)
      BY <2>5, <2>6, <3>3 DEF OrdersKept
    <3>5. ASSUME NEW p \in Listed, StockRow(p) \in holds[u] PROVE stock'[p] = stock[p]
      <4>1. p \in Product /\ StockRow(p) \notin holds[t]
        BY <3>5, Mine DEF Listed
      <4>2. p \notin LinesOf(got[t])
        BY <2>1, <4>1 DEF TxInv, At, ShelfAt, KindAt
      <4>3. got[t][p] = 0
        BY <2>3, <4>1, <4>2 DEF LinesOf, Lines
      <4>. QED
        BY <2>1, <4>1, <4>3 DEF TxInv, Columns, Lines
    <3>6. ShelfKept(u)
      BY <2>8, <3>5 DEF ShelfKept
    <3>. QED
      BY <3>2, <3>4, <3>6
  <2>. QED
    BY <2>1, <2>7, <2>9, <2>10, <2>11, CommitStep
<1>. QED
  BY <1>1, <1>2

LEMMA MoveOrderKeeps ==
    ASSUME TxInv, NEW t \in Tx, MoveOrder(t)
    PROVE  TxInv'
<1> DEFINE o == req[t].order
<1>1. /\ pc[t] = "commit" /\ req[t].kind = "move"
      /\ status' = [status EXCEPT ![o] = req[t].target]
      /\ stock' = [p \in Product |-> IF got[t][p] > 0 THEN seen[t][p] + got[t][p] ELSE stock[p]]
      /\ Ended(t) /\ row' = row /\ cart' = cart /\ orders' = orders
  BY DEF MoveOrder
<1>2. o \in Placed /\ OrderRow(o) \in holds[t] /\ req[t].target \in OrderStatus
  BY <1>1, RequestFields DEF TxInv, At, MoveAt, OrderStatus
<1>3. Placed' = Placed /\ Listed' = Listed
  BY <1>1 DEF Placed, Listed
<1>4. stock' \in Lines /\ status' \in [Placed -> OrderStatus]
  BY <1>1, <1>2 DEF TxInv, Workspaces, Columns, Lines
<1>5. Columns' /\ CartsFit' /\ OrdersFit'
  BY <1>1, <1>3, <1>4 DEF TxInv, Columns, CartsFit, OrdersFit
<1>6. ASSUME NEW u \in Tx \ {t}
      PROVE  CartKept(u) /\ OrdersKept(u) /\ ShelfKept(u)
  <2>1. OrderRow(o) \notin holds[u]
    BY <1>2, Mine
  <2>2. CartKept(u)
    BY <1>1 DEF CartKept
  <2>3. OrdersKept(u)
    BY <1>1, <1>3, <2>1 DEF OrdersKept, TxInv, Columns
  <2>4. ASSUME NEW p \in Listed, StockRow(p) \in holds[u] PROVE stock'[p] = stock[p]
    <3>1. p \in Product /\ StockRow(p) \notin holds[t]
      BY <2>4, Mine DEF Listed
    <3>2. p \notin LinesOf(got[t])
      BY <1>1, <3>1 DEF TxInv, At, ShelfAt, KindAt
    <3>. QED
      BY <1>1, <3>1, <3>2 DEF LinesOf
  <2>5. ShelfKept(u)
    BY <1>3, <2>4 DEF ShelfKept
  <2>. QED
    BY <2>2, <2>3, <2>5
<1>. QED
  BY <1>1, <1>5, <1>6, CommitStep

LEMMA RecountKeeps ==
    ASSUME TxInv, NEW t \in Tx, Recount(t)
    PROVE  TxInv'
<1> DEFINE p == req[t].product
           n == req[t].count
<1>1. /\ pc[t] = "recount" /\ (seen[t][p] # n => Free(t, StockRow(p)))
      /\ stock' = IF seen[t][p] # n /\ p \in Listed THEN [stock EXCEPT ![p] = n] ELSE stock
      /\ Ended(t) /\ UNCHANGED <<row, cart, orders, status>>
  BY DEF Recount
<1>2. p \in Product /\ n \in Nat
  BY <1>1, RequestFields, CheckoutAssumption DEF TxInv, At, KindAt
<1>3. Placed' = Placed /\ Listed' = Listed /\ stock' \in Lines
  BY <1>1, <1>2 DEF Placed, Listed, TxInv, Columns, Lines
<1>4. Columns' /\ CartsFit' /\ OrdersFit'
  BY <1>1, <1>3 DEF TxInv, Columns, CartsFit, OrdersFit
<1>5. ASSUME NEW u \in Tx \ {t}
      PROVE  CartKept(u) /\ OrdersKept(u) /\ ShelfKept(u)
  <2>1. \A q \in Product : StockRow(q) \in holds[u] => stock'[q] = stock[q]
    BY <1>1, <1>2 DEF Free, TxInv, Columns, Lines
  <2>. QED
    BY <1>1, <1>3, <2>1 DEF CartKept, OrdersKept, ShelfKept, Listed
<1>. QED
  BY <1>1, <1>4, <1>5, CommitStep

LEMMA DelistKeeps ==
    ASSUME TxInv, NEW t \in Tx, Delist(t)
    PROVE  TxInv'
<1> DEFINE p == req[t].product
<1>1. /\ pc[t] = "commit" /\ req[t].kind = "delist"
      /\ row' = [row EXCEPT ![p] = "deleted"]
      /\ stock' = [stock EXCEPT ![p] = 0]
      /\ cart' = [c \in Customer |-> [cart[c] EXCEPT ![p] = 0]]
      /\ Ended(t) /\ orders' = orders /\ status' = status
  BY DEF Delist
<1>2. /\ p \in Product /\ p \in Listed
      /\ ProductRow(p) \in holds[t] /\ StockRow(p) \in holds[t]
  BY <1>1, RequestFields DEF TxInv, At, DelistAt
<1>3. Placed' = Placed /\ Listed' = Listed \ {p}
  BY <1>1, <1>2 DEF Placed, Listed, TxInv, Columns
<1>4. Columns'
  BY <1>1, <1>2, <1>3 DEF TxInv, Columns, Lines
<1>5. \A c \in Customer, q \in Product : cart'[c][q] = IF q = p THEN 0 ELSE cart[c][q]
  BY <1>1 DEF TxInv, Columns, Lines
<1>6. CartsFit' /\ OrdersFit'
  BY <1>1, <1>3, <1>5, CheckoutAssumption DEF TxInv, Columns, CartsFit, OrdersFit
<1>7. ASSUME NEW u \in Tx \ {t}
      PROVE  CartKept(u) /\ OrdersKept(u) /\ ShelfKept(u)
  <2>1. ProductRow(p) \notin holds[u] /\ StockRow(p) \notin holds[u]
    BY <1>2, Mine
  <2>2. CartKept(u)
    <3>. SUFFICES ASSUME NEW c \in Customer, NEW q \in Product, cart'[c][q] # cart[c][q]
                  PROVE  cart[c][q] > 0 /\ ProductRow(q) \notin holds[u]
      BY DEF CartKept
    <3>1. q = p /\ cart[c][p] # 0 /\ cart[c][p] \in Nat
      BY <1>2, <1>5 DEF TxInv, Columns, Lines
    <3>. QED
      BY <2>1, <3>1
  <2>3. OrdersKept(u)
    BY <1>1, <1>3 DEF OrdersKept
  <2>4. ShelfKept(u)
    BY <1>1, <1>2, <1>3, <2>1 DEF ShelfKept, TxInv, Columns, Lines
  <2>. QED
    BY <2>2, <2>3, <2>4
<1>. QED
  BY <1>1, <1>4, <1>6, <1>7, CommitStep

-----------------------------------------------------------------------------
(* Requests of one step *)

LEMMA SingleStep ==
    ASSUME TxInv, UNCHANGED txVars, Columns', CartsFit', OrdersFit',
           \A u \in Tx : CartKept(u) /\ OrdersKept(u) /\ ShelfKept(u)
    PROVE  TxInv'
<1>1. Workspaces' /\ LocksApart' /\ OneOrderEach'
  BY DEF txVars, TxInv, Workspaces, LocksApart, OneOrderEach
<1>2. \A u \in Tx : Apart(u)
  BY DEF txVars, Apart
<1>3. \A u \in Tx : At(u)'
  BY <1>2, WaiterStays DEF TxInv
<1>. QED
  BY <1>1, <1>3 DEF TxInv

LEMMA CreateProductKeeps ==
    ASSUME TxInv, NEW p \in Product, NEW n \in Count, CreateProduct(p, n)
    PROVE  TxInv'
<1>1. /\ row[p] = "absent" /\ row' = [row EXCEPT ![p] = "present"]
      /\ stock' = [stock EXCEPT ![p] = n] /\ UNCHANGED <<cart, orders, status>>
      /\ UNCHANGED txVars
  BY DEF CreateProduct
<1>2. Placed' = Placed /\ Listed' = Listed \cup {p} /\ p \notin Listed
  BY <1>1 DEF Placed, Listed, TxInv, Columns
<1>3. Columns'
  BY <1>1, <1>2, CheckoutAssumption DEF TxInv, Columns, Lines
<1>4. CartsFit' /\ OrdersFit'
  BY <1>1, <1>2 DEF TxInv, Columns, CartsFit, OrdersFit
<1>5. \A u \in Tx : CartKept(u) /\ OrdersKept(u)
  BY <1>1, <1>2 DEF CartKept, OrdersKept
<1>6. \A u \in Tx : ShelfKept(u)
  BY <1>1, <1>2 DEF ShelfKept, TxInv, Columns, Lines
<1>. QED
  BY <1>1, <1>3, <1>4, <1>5, <1>6, SingleStep

LEMMA EditCartKeeps ==
    ASSUME TxInv, NEW c \in Customer, NEW p \in Product, NEW q \in 0..MaxLine, EditCart(c, p, q)
    PROVE  TxInv'
<1>1. /\ p \in Listed /\ cart' = [cart EXCEPT ![c][p] = q]
      /\ UNCHANGED <<row, stock, orders, status>> /\ UNCHANGED txVars
  BY DEF EditCart
<1>2. Placed' = Placed /\ Listed' = Listed /\ q \in Nat /\ q <= MaxLine
  BY <1>1, CheckoutAssumption DEF Placed, Listed
<1>3. \A d \in Customer, k \in Product : cart'[d][k] = IF d = c /\ k = p THEN q ELSE cart[d][k]
  BY <1>1 DEF TxInv, Columns, Lines
<1>4. Columns'
  BY <1>1, <1>2 DEF TxInv, Columns, Lines
<1>5. CartsFit' /\ OrdersFit'
  BY <1>1, <1>2, <1>3 DEF TxInv, CartsFit, OrdersFit
<1>6. ASSUME NEW u \in Tx PROVE CartKept(u)
  <2>. SUFFICES ASSUME CartRow(c) \in holds[u]
                PROVE  cart[c][p] > 0 /\ LineRow(c, p) \notin holds[u]
    BY <1>3 DEF CartKept
  <2>1. cart[c][p] # 0
    BY DEF EditCart
  <2>2. LineRow(c, p) \notin holds[u]
    BY <2>1 DEF EditCart
  <2>. QED
    BY <2>1, <2>2 DEF TxInv, Columns, Lines
<1>7. \A u \in Tx : OrdersKept(u) /\ ShelfKept(u)
  BY <1>1, <1>2 DEF OrdersKept, ShelfKept
<1>. QED
  BY <1>1, <1>4, <1>5, <1>6, <1>7, SingleStep

-----------------------------------------------------------------------------
LEMMA Initially == Init => TxInv
<1>. SUFFICES ASSUME Init PROVE TxInv
  OBVIOUS
<1>1. Placed = {} /\ Listed = {}
  BY DEF Init, Placed, Listed
<1>2. Columns
  BY <1>1, NoLinesAtAll DEF Init, Columns
<1>3. Workspaces
  BY NoLinesAtAll DEF Init, Workspaces, Places
<1>4. CartsFit /\ OrdersFit
  BY <1>1, CheckoutAssumption DEF Init, CartsFit, OrdersFit, NoLines
<1>5. LocksApart /\ OneOrderEach
  BY DEF Init, LocksApart, OneOrderEach, NoRequest
<1>6. \A t \in Tx : At(t)
  BY DEF Init, NoRequest, At, KindAt, CheckoutAt, MoveAt, DelistAt, ShelfAt
<1>. QED
  BY <1>2, <1>3, <1>4, <1>5, <1>6 DEF TxInv

LEMMA TxInvKept == TxInv /\ [Next]_vars => TxInv'
<1>. SUFFICES ASSUME TxInv, [Next]_vars PROVE TxInv'
  OBVIOUS
<1>1. CASE UNCHANGED vars
  <2>1. UNCHANGED <<row, stock, cart, orders, status>> /\ UNCHANGED txVars
    BY <1>1 DEF vars, txVars
  <2>2. Columns' /\ CartsFit' /\ OrdersFit'
    BY <2>1 DEF TxInv, Columns, CartsFit, OrdersFit, Placed, Listed
  <2>3. \A u \in Tx : CartKept(u) /\ OrdersKept(u) /\ ShelfKept(u)
    BY <2>1 DEF CartKept, OrdersKept, ShelfKept, Placed, Listed
  <2>. QED
    BY <2>1, <2>2, <2>3, SingleStep
<1>2. ASSUME NEW t \in Tx, Advance(t) PROVE TxInv'
  <2>1. CASE LockCart(t) \/ LockLine(t) \/ CountLines(t) \/ LockOrder(t)
    BY <2>1, LockCartKeeps, LockLineKeeps, CountLinesKeeps, LockOrderKeeps
  <2>2. CASE LockDelisted(t) \/ LockStock(t)
    BY <2>2, LockDelistedKeeps, LockStockKeeps
  <2>3. CASE Checkout(t) \/ MoveOrder(t) \/ Recount(t) \/ Delist(t)
    BY <2>3, CheckoutKeeps, MoveOrderKeeps, RecountKeeps, DelistKeeps
  <2>. QED
    BY <1>2, <2>1, <2>2, <2>3 DEF Advance
<1>3. ASSUME NEW t \in Tx, DeadlockVictim(t) PROVE TxInv'
  BY <1>3, AbortKeeps DEF DeadlockVictim
<1>4. ASSUME NEW t \in Tx, NEW r \in Request, Start(t, r) PROVE TxInv'
  BY <1>4, StartKeeps
<1>. QED
  BY <1>1, <1>2, <1>3, <1>4, CreateProductKeeps, EditCartKeeps DEF Next

\* Every column and every transaction's workspace is well typed; no inventory
\* figure is ever negative, whichever statements interleave.
THEOREM TypeCorrect == Spec => []TypeOK
<1>1. TxInv => TypeOK
  BY DEF TxInv, Columns, Workspaces, Places, TypeOK
<1>. QED
  BY <1>1, Initially, TxInvKept, PTL DEF Spec

-----------------------------------------------------------------------------
(* The cart that is ordered, and the ledger *)

\* Only a commit changes what is in the database.
LEMMA WhoWrites ==
    ASSUME [Next]_vars, ~UNCHANGED <<row, stock, orders, status>>
    PROVE  \/ \E p \in Product, n \in Count : CreateProduct(p, n)
           \/ \E t \in Tx : \/ Checkout(t) /\ ~Abort(t)
                            \/ MoveOrder(t) \/ Recount(t) \/ Delist(t)
BY DEF Next, vars, dbVars, EditCart, Advance, DeadlockVictim, Start, Abort, LockCart, LockLine,
       CountLines, LockOrder, LockDelisted, LockStock

LEMMA CheckoutIs ==
    ASSUME TxInv, NEW t \in Tx, Checkout(t), ~Abort(t)
    PROVE  /\ req[t].customer \in Customer /\ req[t].order \in OrderId \ Placed
           /\ Placed' = Placed \cup {req[t].order}
           /\ orders'[req[t].order].customer = req[t].customer
           /\ orders'[req[t].order].lines = cart[req[t].customer]
           /\ status'[req[t].order] = "pending_shop"
           /\ \A k \in Placed : orders'[k] = orders[k] /\ status'[k] = status[k]
           /\ cart[req[t].customer] \in Lines /\ LinesOf(cart[req[t].customer]) # {}
           /\ cart'[req[t].customer] = NoLines
           /\ \A p \in Product : cart[req[t].customer][p] <= stock[p]
           /\ stock' = [p \in Product |-> stock[p] - cart[req[t].customer][p]]
           /\ row' = row
<1> DEFINE c == req[t].customer
           o == req[t].order
<1>1. /\ pc[t] = "commit" /\ req[t].kind = "checkout" /\ Sufficient(t)
      /\ stock' = [p \in Product |-> stock[p] - got[t][p]]
      /\ orders' = Inserted(orders, o, [customer |-> c, lines |-> got[t]])
      /\ status' = Inserted(status, o, "pending_shop")
      /\ cart' = [cart EXCEPT ![c] = NoLines] /\ row' = row
  BY DEF Checkout
<1>2. c \in Customer /\ o \in OrderId /\ o \notin Placed
  BY <1>1, RequestFields DEF TxInv, At, CheckoutAt
<1>3. got[t] = cart[c] /\ got[t] \in Lines /\ LinesOf(got[t]) # {}
  BY <1>1 DEF TxInv, Workspaces, At, CheckoutAt
<1>4. \A p \in Product : got[t][p] <= stock[p]
  BY <1>1, <1>3 DEF Sufficient, LinesOf, TxInv, Columns, Lines
<1>5. /\ Placed' = Placed \cup {o} /\ orders'[o] = [customer |-> c, lines |-> got[t]]
      /\ \A k \in Placed : orders'[k] = orders[k]
  BY <1>1, <1>2 DEF Inserted, Placed
<1>6. status'[o] = "pending_shop" /\ \A k \in Placed : status'[k] = status[k]
  BY <1>1, <1>2 DEF Inserted, TxInv, Columns
<1>7. cart'[c] = NoLines
  BY <1>1, <1>2 DEF TxInv, Columns
<1>. QED
  BY <1>1, <1>2, <1>3, <1>4, <1>5, <1>6, <1>7

\* orders/service.py create_order: an order is the cart as it is at the commit,
\* which is empty afterwards; nothing put in meanwhile is swallowed.
THEOREM CheckoutSwallowsNothing == Spec => OrderIsTheCart
<1> DEFINE Whole == \A o \in Placed' \ Placed :
                       LET c == orders'[o].customer IN
                       orders'[o].lines = cart[c] /\ cart'[c] = NoLines
<1>1. TxInv /\ [Next]_vars => Whole
  <2>. SUFFICES ASSUME TxInv, [Next]_vars, NEW o \in Placed' \ Placed
                PROVE  /\ orders'[o].lines = cart[orders'[o].customer]
                       /\ cart'[orders'[o].customer] = NoLines
    OBVIOUS
  <2>1. orders' # orders
    BY DEF Placed
  <2>2. PICK t \in Tx : Checkout(t) /\ ~Abort(t)
    BY <2>1, WhoWrites DEF CreateProduct, MoveOrder, Recount, Delist
  <2>3. o = req[t].order
    BY <2>2, CheckoutIs
  <2>. QED
    BY <2>2, <2>3, CheckoutIs
<1>. QED
  BY <1>1, Initially, TxInvKept, PTL DEF Spec, OrderIsTheCart

LEMMA LedgerStutter ==
    UNCHANGED <<row, stock, orders, status>> => UNCHANGED Ledger!ledgerVars
BY DEF Ledger!ledgerVars, Listed, Phase, Claimed, Placed

LEMMA CheckoutReserves ==
    ASSUME TxInv, NEW t \in Tx, Checkout(t), ~Abort(t)
    PROVE  Ledger!Reserve(req[t].order)
<1> DEFINE c == req[t].customer
           o == req[t].order
<1>1. /\ c \in Customer /\ o \in OrderId \ Placed /\ Placed' = Placed \cup {o}
      /\ orders'[o].lines = cart[c] /\ status'[o] = "pending_shop"
      /\ \A k \in Placed : orders'[k] = orders[k] /\ status'[k] = status[k]
      /\ cart[c] \in Lines /\ LinesOf(cart[c]) # {} /\ Listed' = Listed
      /\ stock' = [p \in Product |-> stock[p] - cart[c][p]]
  BY CheckoutIs DEF Listed
<1>2. \A p \in Product : cart[c][p] > 0 => p \in Listed /\ cart[c][p] <= stock[p]
  BY CheckoutIs DEF TxInv, CartsFit
<1>3. cart[c] \in [Product -> 0..MaxLine]
  BY <1>1, CheckoutAssumption DEF TxInv, CartsFit, Lines
<1>4. cart[c] # Ledger!Nothing
  BY <1>1 DEF LinesOf, Ledger!Nothing
<1>5. Phase[o] = "new" /\ Phase' = [Phase EXCEPT ![o] = "held"]
  BY <1>1 DEF Phase
<1>6. Claimed' = [Claimed EXCEPT ![o] = cart[c]]
  BY <1>1 DEF Claimed
<1>. QED
  BY <1>1, <1>2, <1>3, <1>4, <1>5, <1>6 DEF Ledger!Reserve

\* Units go back exactly when the claim is returned: what was read of the shelf
\* under lock is what is there, and every product still listed was read.
LEMMA MoveSettles ==
    ASSUME TxInv, NEW t \in Tx, MoveOrder(t)
    PROVE  \/ Ledger!Return(req[t].order) \/ Ledger!Keep(req[t].order)
           \/ UNCHANGED Ledger!ledgerVars
<1> DEFINE o == req[t].order
           target == req[t].target
<1>1. /\ pc[t] = "commit" /\ req[t].kind = "move"
      /\ status' = [status EXCEPT ![o] = target]
      /\ stock' = [p \in Product |-> IF got[t][p] > 0 THEN seen[t][p] + got[t][p] ELSE stock[p]]
      /\ row' = row /\ orders' = orders
  BY DEF MoveOrder
<1>2. /\ o \in Placed /\ o \in OrderId /\ CanTransition(status[o], target)
      /\ target \in {"accepted", "rejected", "preparing", "cancelled"}
      /\ status[o] \in OrderStatus
  BY <1>1, RequestFields DEF TxInv, At, MoveAt, Columns
<1>3. /\ Placed' = Placed /\ Listed' = Listed /\ Claimed' = Claimed /\ Claimed[o] = orders[o].lines
      /\ status'[o] = target /\ \A k \in Placed \ {o} : status'[k] = status[k]
  BY <1>1, <1>2 DEF Placed, Listed, Claimed, TxInv, Columns
<1>4. status[o] \in {"pending_shop", "accepted"} /\ target # "pending_shop"
  BY <1>2 DEF CanTransition, Allowed, OrderStatus
<1>5. Phase[o] = "held"
  BY <1>2, <1>4 DEF Phase
<1>6. got[t] \in Lines /\ orders[o].lines \in Lines /\ stock \in Lines
  BY <1>2 DEF TxInv, Workspaces, Columns
<1>7. CASE target \in RestockTargets
  <2>1. \A p \in LinesOf(got[t]) : p \in Listed /\ seen[t][p] = stock[p]
    BY <1>1 DEF TxInv, At, KindAt, ShelfAt
  <2>2. \A p \in Listed : got[t][p] = orders[o].lines[p]
    BY <1>1, <1>7 DEF TxInv, At, MoveAt
  <2>3. ASSUME NEW p \in Product
        PROVE  (IF got[t][p] > 0 THEN seen[t][p] + got[t][p] ELSE stock[p])
                  = (IF p \in Listed THEN stock[p] + orders[o].lines[p] ELSE stock[p])
    <3>1. CASE got[t][p] > 0
      BY <2>1, <2>2, <3>1 DEF LinesOf
    <3>2. CASE got[t][p] = 0
      BY <1>6, <2>2, <3>2 DEF Lines
    <3>. QED
      BY <1>6, <3>1, <3>2 DEF Lines
  <2>4. stock' = [p \in Product |-> IF p \in Listed THEN stock[p] + Claimed[o][p] ELSE stock[p]]
    BY <1>1, <1>3, <2>3
  <2>5. Phase' = [Phase EXCEPT ![o] = "returned"]
    BY <1>2, <1>3, <1>7 DEF Phase, RestockTargets
  <2>. QED
    BY <1>3, <1>5, <2>4, <2>5 DEF Ledger!Return
<1>8. CASE target \notin RestockTargets
  <2>1. \A p \in Product : got[t][p] = 0
    BY <1>1, <1>6, <1>8 DEF TxInv, At, MoveAt, LinesOf, Lines
  <2>2. stock' = stock
    BY <1>1, <1>6, <2>1 DEF Lines
  <2>3. CASE target = "preparing"
    <3>1. Phase' = [Phase EXCEPT ![o] = "kept"]
      BY <1>2, <1>3, <2>3 DEF Phase, RestockTargets
    <3>. QED
      BY <1>3, <1>5, <2>2, <3>1 DEF Ledger!Keep
  <2>4. CASE target = "accepted"
    <3>1. \A k \in OrderId : Phase'[k] = Phase[k]
      BY <1>2, <1>3, <1>4, <2>4 DEF Phase
    <3>2. Phase' = Phase
      BY <3>1 DEF Phase
    <3>. QED
      BY <1>3, <2>2, <3>2 DEF Ledger!ledgerVars
  <2>. QED
    BY <1>2, <1>8, <2>3, <2>4 DEF RestockTargets
<1>. QED
  BY <1>7, <1>8

LEMMA NextLedger ==
    TxInv /\ [Next]_vars => [Ledger!LedgerNext]_Ledger!ledgerVars
<1>. SUFFICES ASSUME TxInv, [Next]_vars
              PROVE  [Ledger!LedgerNext]_Ledger!ledgerVars
  OBVIOUS
<1>1. ASSUME NEW p \in Product, NEW n \in Count, CreateProduct(p, n)
      PROVE  Ledger!List(p)
  <2>1. Phase' = Phase /\ Claimed' = Claimed
    BY <1>1 DEF CreateProduct, Phase, Claimed, Placed
  <2>2. p \notin Listed /\ Listed' = Listed \cup {p} /\ stock' = [stock EXCEPT ![p] = n]
    BY <1>1 DEF CreateProduct, Listed, TxInv, Columns
  <2>. QED
    BY <2>1, <2>2 DEF Ledger!List
<1>2. ASSUME NEW t \in Tx, Recount(t)
      PROVE  UNCHANGED Ledger!ledgerVars \/ \E p \in Product : Ledger!Recount(p)
  <2> DEFINE p == req[t].product
             n == req[t].count
  <2>1. /\ p \in Product /\ n \in Count
        /\ stock' = stock \/ (stock' = [stock EXCEPT ![p] = n] /\ p \in Listed)
        /\ UNCHANGED <<row, orders, status>>
    BY <1>2, RequestFields DEF Recount, TxInv, At, KindAt
  <2>2. Phase' = Phase /\ Claimed' = Claimed /\ Listed' = Listed
    BY <2>1 DEF Phase, Claimed, Placed, Listed
  <2>. QED
    BY <2>1, <2>2 DEF Ledger!Recount, Ledger!ledgerVars
<1>3. ASSUME NEW t \in Tx, Delist(t)
      PROVE  req[t].product \in Product /\ Ledger!Delist(req[t].product)
  <2> DEFINE p == req[t].product
  <2>1. /\ p \in Product /\ p \in Listed
        /\ row' = [row EXCEPT ![p] = "deleted"] /\ stock' = [stock EXCEPT ![p] = 0]
        /\ UNCHANGED <<orders, status>>
    BY <1>3, RequestFields DEF Delist, TxInv, At, DelistAt
  <2>2. Listed' = Listed \ {p}
    BY <2>1 DEF Listed, TxInv, Columns
  <2>3. Phase' = Phase /\ Claimed' = Claimed
    BY <2>1 DEF Phase, Claimed, Placed
  <2>. QED
    BY <2>1, <2>2, <2>3 DEF Ledger!Delist
<1>4. ASSUME NEW t \in Tx, Checkout(t), ~Abort(t)
      PROVE  req[t].order \in OrderId /\ Ledger!Reserve(req[t].order)
  BY <1>4, CheckoutIs, CheckoutReserves
<1>5. ASSUME NEW t \in Tx, MoveOrder(t)
      PROVE  req[t].order \in OrderId /\ (\/ Ledger!Return(req[t].order)
                                          \/ Ledger!Keep(req[t].order)
                                          \/ UNCHANGED Ledger!ledgerVars)
  BY <1>5, MoveSettles DEF MoveOrder, TxInv, At, MoveAt, Columns
<1>6. CASE UNCHANGED <<row, stock, orders, status>>
  BY <1>6, LedgerStutter
<1>7. CASE ~UNCHANGED <<row, stock, orders, status>>
  BY <1>1, <1>2, <1>3, <1>4, <1>5, <1>7, WhoWrites DEF Ledger!LedgerNext
<1>. QED
  BY <1>6, <1>7

\* However the statements interleave, units are reserved only when they are
\* there and every order's claim is settled exactly once: no oversell, and no
\* restock is lost to a concurrent request or done twice.
THEOREM ImplementsLedger == Spec => LedgerSpec
<1>1. Init => Ledger!LedgerInit
  BY DEF Init, Ledger!LedgerInit, Ledger!Nothing, Listed, Phase, Claimed, Placed, NoLines
<1>. QED
  BY <1>1, NextLedger, Initially, TxInvKept, PTL DEF Spec, LedgerSpec, Ledger!LedgerSpec
=============================================================================
