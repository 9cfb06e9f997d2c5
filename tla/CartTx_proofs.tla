--------------------------- MODULE CartTx_proofs ---------------------------
(***************************************************************************)
(* Machine-checked theorems about CartTx, for every set of transactions,   *)
(* products, shops and lines: however the statements of a customer's       *)
(* requests interleave, checkout orders the cart as it is, all of it and   *)
(* of one shop.                                                            *)
(***************************************************************************)
EXTENDS CartTx, FiniteSetTheorems, TLAPS

-----------------------------------------------------------------------------
(* The inductive invariant *)

Types ==
    /\ bound \in Shop \cup {NoShop}
    /\ lines = [i \in Rows |-> lines[i]]
    /\ \A i \in Rows : lines[i] \in [product : Product, quantity : Nat \ {0}]
    /\ Rows \subseteq spent /\ spent \subseteq Item
    /\ order \in [shop : Shop \cup {NoShop}, quantity : [Product -> Nat]]
    /\ req \in [Tx -> Request \cup {NoRequest}]
    /\ pc = [t \in Tx |-> pc[t]]
    /\ sawShop \in [Tx -> Shop \cup {NoShop}]
    /\ sawItem \in [Tx -> Item \cup {NoItem}]
    /\ sawQty \in [Tx -> Nat]
    /\ want \in [Tx -> SUBSET Item]
    /\ holds = [t \in Tx |-> holds[t]]

OneLineEach == \A i, j \in Rows : lines[i].product = lines[j].product => i = j

LocksApart ==
    \A t, u \in Tx : t # u => \A a \in holds[t], b \in holds[u] : ~Conflict(a, b)

\* Which requests get to a statement.
KindAt(t) ==
    /\ pc[t] = "remaining" => req[t].kind = "delete"
    /\ pc[t] = "bind" => req[t].kind \in {"add", "delete", "clear"}
    /\ pc[t] = "lock" => req[t].kind = "checkout"
    /\ pc[t] \in {"list", "lines"} => req[t].kind \in {"clear", "checkout"}

\* A checkout has its cart locked, and before it commits all of the cart's lines.
CheckoutLocks(t) ==
    req[t].kind = "checkout" =>
        /\ pc[t] \in {"list", "lines", "commit"} => ForUpdate \in holds[t]
        /\ pc[t] = "commit" => \A i \in Rows : LineRow(i) \in holds[t]

\* A request about to insert a line keeps checkouts and its product's lines away.
InsertLocks(t) ==
    pc[t] = "commit" /\ req[t].kind = "add" /\ sawItem[t] = NoItem =>
        /\ {Reference, PlaceOf(req[t].product)} \subseteq holds[t]
        /\ LinesFor(req[t].product) = {}

At(t) == KindAt(t) /\ CheckoutLocks(t) /\ InsertLocks(t)

CartInv == Types /\ OneLineEach /\ LocksApart /\ \A t \in Tx : At(t)

-----------------------------------------------------------------------------
(* Locks *)

LEMMA LockNames ==
    /\ Conflict(ForUpdate, ForUpdate) /\ Conflict(ForUpdate, Reference)
    /\ \A p : Conflict(PlaceOf(p), PlaceOf(p))
    /\ \A i : Conflict(LineRow(i), LineRow(i))
BY DEF Conflict, ForUpdate, Reference, Binding, PlaceOf, LineRow

LEMMA ConflictSymmetric == \A a, b : Conflict(a, b) => Conflict(b, a)
BY DEF Conflict

LEMMA MoreLocks ==
    ASSUME LocksApart, holds = [t \in Tx |-> holds[t]], NEW t \in Tx, NEW S,
           Free(t, S), Lock(t, S)
    PROVE  /\ LocksApart'
           /\ holds' = [u \in Tx |-> holds'[u]]
           /\ holds'[t] = holds[t] \cup S
           /\ \A u \in Tx \ {t} : holds'[u] = holds[u]
<1>1. /\ holds' = [u \in Tx |-> holds'[u]]
      /\ holds'[t] = holds[t] \cup S
      /\ \A u \in Tx \ {t} : holds'[u] = holds[u]
  BY DEF Lock
<1>2. \A u \in Tx \ {t} : \A a \in S, b \in holds[u] : ~Conflict(a, b)
  BY DEF Free, Blocks
<1>3. ASSUME NEW u \in Tx, NEW v \in Tx, u # v, NEW a \in holds'[u], NEW b \in holds'[v]
      PROVE  ~Conflict(a, b)
  <2>1. CASE u = t
    BY <1>1, <1>2, <1>3, <2>1 DEF LocksApart
  <2>2. CASE v = t
    BY <1>1, <1>2, <1>3, <2>2, ConflictSymmetric DEF LocksApart
  <2>3. CASE u # t /\ v # t
    BY <1>1, <1>3, <2>3 DEF LocksApart
  <2>. QED
    BY <2>1, <2>2, <2>3
<1>. QED
  BY <1>1, <1>3 DEF LocksApart, Conflict

-----------------------------------------------------------------------------
(* Steps that leave the cart alone *)

\* A transaction at another place of its own; the others are where they were.
OnlyOwn(t) ==
    \A u \in Tx \ {t} :
        /\ pc'[u] = pc[u] /\ req'[u] = req[u] /\ sawItem'[u] = sawItem[u]
        /\ holds'[u] = holds[u]

LEMMA OthersAt ==
    ASSUME NEW t \in Tx, OnlyOwn(t), UNCHANGED lines, \A u \in Tx : At(u)
    PROVE  \A u \in Tx \ {t} : At(u)'
<1>. SUFFICES ASSUME NEW u \in Tx \ {t} PROVE At(u)'
  OBVIOUS
<1>1. /\ pc'[u] = pc[u] /\ req'[u] = req[u] /\ sawItem'[u] = sawItem[u]
      /\ holds'[u] = holds[u] /\ lines' = lines
  BY DEF OnlyOwn
<1>2. KindAt(u)' /\ CheckoutLocks(u)'
  BY <1>1 DEF At, KindAt, CheckoutLocks, Rows
<1>3. InsertLocks(u)'
  BY <1>1 DEF At, InsertLocks, LinesFor, Rows
<1>. QED
  BY <1>2, <1>3 DEF At

LEMMA EndedIs ==
    ASSUME Types, NEW t \in Tx, Ended(t)
    PROVE  /\ pc' = [u \in Tx |-> pc'[u]] /\ holds' = [u \in Tx |-> holds'[u]]
           /\ req' \in [Tx -> Request \cup {NoRequest}]
           /\ sawShop' \in [Tx -> Shop \cup {NoShop}]
           /\ sawItem' \in [Tx -> Item \cup {NoItem}]
           /\ sawQty' \in [Tx -> Nat] /\ want' \in [Tx -> SUBSET Item]
           /\ pc'[t] = "idle" /\ holds'[t] = {} /\ req'[t].kind = "none"
           /\ OnlyOwn(t)
           /\ LocksApart => LocksApart'
           /\ At(t)'
<1>1. /\ pc' = [u \in Tx |-> pc'[u]] /\ holds' = [u \in Tx |-> holds'[u]]
      /\ req' \in [Tx -> Request \cup {NoRequest}]
      /\ sawShop' \in [Tx -> Shop \cup {NoShop}]
      /\ sawItem' \in [Tx -> Item \cup {NoItem}]
      /\ sawQty' \in [Tx -> Nat] /\ want' \in [Tx -> SUBSET Item]
  BY DEF Types, Ended, Goto
<1>2. pc'[t] = "idle" /\ holds'[t] = {} /\ req'[t].kind = "none" /\ OnlyOwn(t)
  BY DEF Types, Ended, Goto, OnlyOwn, NoRequest
<1>3. LocksApart => LocksApart'
  BY <1>2 DEF LocksApart, OnlyOwn, Conflict
<1>4. At(t)'
  BY <1>2 DEF At, KindAt, CheckoutLocks, InsertLocks
<1>. QED
  BY <1>1, <1>2, <1>3, <1>4

LEMMA AbortKeeps ==
    ASSUME CartInv, NEW t \in Tx, Abort(t)
    PROVE  CartInv'
<1>1. Ended(t) /\ UNCHANGED <<bound, lines, spent, order>>
  BY DEF Abort, cartVars
<1>2. Types'
  BY <1>1, EndedIs DEF CartInv, Types, Rows
<1>3. OneLineEach'
  BY <1>1 DEF CartInv, OneLineEach, Rows
<1>4. LocksApart' /\ \A u \in Tx : At(u)'
  BY <1>1, EndedIs, OthersAt DEF CartInv
<1>. QED
  BY <1>2, <1>3, <1>4 DEF CartInv

\* What a request does for itself: it stays typed, and its place suits its locks.
LEMMA OwnStep ==
    ASSUME CartInv, NEW t \in Tx, UNCHANGED cartVars, OnlyOwn(t),
           pc' = [u \in Tx |-> pc'[u]], holds' = [u \in Tx |-> holds'[u]],
           req' \in [Tx -> Request \cup {NoRequest}],
           sawShop' \in [Tx -> Shop \cup {NoShop}],
           sawItem' \in [Tx -> Item \cup {NoItem}],
           sawQty' \in [Tx -> Nat], want' \in [Tx -> SUBSET Item],
           LocksApart', At(t)'
    PROVE  CartInv'
<1>1. UNCHANGED <<bound, lines, spent, order>>
  BY DEF cartVars
<1>2. Types' /\ OneLineEach'
  BY <1>1 DEF CartInv, Types, OneLineEach, Rows
<1>3. \A u \in Tx : At(u)'
  BY <1>1, OthersAt DEF CartInv
<1>. QED
  BY <1>2, <1>3 DEF CartInv

\* The request and its locks, where a step only goes on.
LEMMA ReqFields ==
    ASSUME Types, NEW t \in Tx
    PROVE  /\ req[t].kind = "add" => req[t].product \in Product
           /\ req[t].kind \in {"update", "delete"} => req[t].item \in Item
           /\ req[t].kind = "update" => req[t].quantity \in Nat \ {0}
<1>1. req[t] \in Request \cup {NoRequest}
  BY DEF Types
<1>. QED
  BY <1>1, CartAssumption DEF Request, NoRequest

LEMMA GoesOn ==
    ASSUME CartInv, NEW t \in Tx, NEW l, Goto(t, l),
           UNCHANGED <<cartVars, req, sawShop, sawItem, sawQty, want>>,
           NEW S, Free(t, S), Lock(t, S),
           At(t)'
    PROVE  CartInv'
<1>1. /\ LocksApart' /\ holds' = [u \in Tx |-> holds'[u]]
      /\ \A u \in Tx \ {t} : holds'[u] = holds[u]
  BY MoreLocks DEF CartInv, Types
<1>2. pc' = [u \in Tx |-> pc'[u]] /\ OnlyOwn(t)
  BY <1>1 DEF CartInv, Types, Goto, OnlyOwn
<1>. QED
  BY <1>1, <1>2, OwnStep DEF CartInv, Types

LEMMA StaysUnlocked ==
    ASSUME CartInv, NEW t \in Tx, NEW l, Goto(t, l), UNCHANGED <<cartVars, req, holds>>,
           sawShop' \in [Tx -> Shop \cup {NoShop}],
           sawItem' \in [Tx -> Item \cup {NoItem}],
           sawQty' \in [Tx -> Nat], want' \in [Tx -> SUBSET Item],
           \A u \in Tx \ {t} : sawItem'[u] = sawItem[u],
           At(t)'
    PROVE  CartInv'
<1>1. LocksApart' /\ holds' = [u \in Tx |-> holds'[u]]
  BY DEF CartInv, Types, LocksApart, Conflict
<1>2. pc' = [u \in Tx |-> pc'[u]] /\ OnlyOwn(t)
  BY DEF CartInv, Types, Goto, OnlyOwn
<1>3. req' \in [Tx -> Request \cup {NoRequest}]
  BY DEF CartInv, Types
<1>. QED
  BY <1>1, <1>2, <1>3, OwnStep

LEMMA StartKeeps ==
    ASSUME CartInv, NEW t \in Tx, NEW r \in Request, Start(t, r)
    PROVE  CartInv'
<1>1. /\ req'[t] = r /\ req' \in [Tx -> Request \cup {NoRequest}]
      /\ \A u \in Tx \ {t} : req'[u] = req[u]
  BY DEF CartInv, Types, Start
<1>2. \/ pc'[t] \in {"load", "cart"}
      \/ pc'[t] = "lock" /\ r.kind = "checkout"
  BY DEF CartInv, Types, Start, Goto
<1>3. At(t)'
  BY <1>1, <1>2 DEF At, KindAt, CheckoutLocks, InsertLocks
<1>4. LocksApart' /\ holds' = [u \in Tx |-> holds'[u]]
  BY DEF CartInv, Types, LocksApart, Conflict, Start
<1>5. pc' = [u \in Tx |-> pc'[u]] /\ OnlyOwn(t)
  BY <1>1 DEF CartInv, Types, Goto, OnlyOwn, Start
<1>6. UNCHANGED <<cartVars, sawShop, sawItem, sawQty, want>>
  BY DEF Start
<1>. QED
  BY <1>1, <1>3, <1>4, <1>5, <1>6, OwnStep DEF CartInv, Types

LEMMA ReadCartKeeps ==
    ASSUME CartInv, NEW t \in Tx, ReadCart(t)
    PROVE  CartInv'
<1>1. CASE Abort(t)
  BY <1>1, AbortKeeps
<1>2. CASE ~Abort(t)
  <2>1. /\ pc[t] = "cart" /\ sawShop' = [sawShop EXCEPT ![t] = bound]
        /\ Goto(t, IF req[t].kind = "clear" THEN "list" ELSE "load")
        /\ UNCHANGED <<cartVars, req, sawItem, sawQty, want, holds>>
    BY <1>2 DEF ReadCart
  <2>2. At(t)'
    BY <2>1 DEF CartInv, Types, Goto, At, KindAt, CheckoutLocks, InsertLocks
  <2>3. sawShop' \in [Tx -> Shop \cup {NoShop}]
    BY <2>1 DEF CartInv, Types
  <2>. QED
    BY <2>1, <2>2, <2>3, StaysUnlocked DEF CartInv, Types
<1>. QED
  BY <1>1, <1>2

LEMMA LoadKeeps ==
    ASSUME CartInv, NEW t \in Tx, NEW i \in Item \cup {NoItem}, i = NoItem \/ i \in Rows,
           Load(t, i), NEW l \in {"write", "bind"}, Goto(t, l),
           l = "bind" => req[t].kind = "add"
    PROVE  CartInv'
<1>1. /\ sawItem' \in [Tx -> Item \cup {NoItem}] /\ sawQty' \in [Tx -> Nat]
      /\ \A u \in Tx \ {t} : sawItem'[u] = sawItem[u]
  BY DEF CartInv, Types, Load
<1>2. UNCHANGED <<cartVars, req, sawShop, want, holds>>
  BY DEF Load
<1>3. At(t)'
  BY <1>2 DEF CartInv, Types, Goto, At, KindAt, CheckoutLocks, InsertLocks
<1>. QED
  BY <1>1, <1>2, <1>3, StaysUnlocked DEF CartInv, Types

LEMMA LoadsKeep ==
    ASSUME CartInv, NEW t \in Tx, LoadForAdd(t) \/ LoadLine(t)
    PROVE  CartInv'
<1>1. CASE LoadForAdd(t)
  <2>1. PICK i \in Item \cup {NoItem} :
            /\ IF LinesFor(req[t].product) = {} THEN i = NoItem ELSE i \in LinesFor(req[t].product)
            /\ Load(t, i)
    BY <1>1 DEF LoadForAdd
  <2>2. i = NoItem \/ i \in Rows
    BY <2>1 DEF LinesFor
  <2>3. PICK l \in {"write", "bind"} : Goto(t, l)
    BY <1>1 DEF LoadForAdd
  <2>4. req[t].kind = "add"
    BY <1>1 DEF LoadForAdd
  <2>. QED
    BY <2>1, <2>2, <2>3, <2>4, LoadKeeps
<1>2. CASE LoadLine(t) /\ ~Abort(t)
  <2>1. req[t].item \in Rows /\ Load(t, req[t].item) /\ Goto(t, "write")
    BY <1>2 DEF LoadLine
  <2>2. req[t].item \in Item
    BY <2>1 DEF CartInv, Types
  <2>. QED
    BY <2>1, <2>2, LoadKeeps
<1>. QED
  BY <1>1, <1>2, AbortKeeps

LEMMA WritesKeep ==
    ASSUME CartInv, NEW t \in Tx, Insert(t) \/ UpdateLine(t) \/ DeleteLine(t)
    PROVE  CartInv'
<1>1. CASE Insert(t) /\ ~Abort(t)
  <2> DEFINE p == req[t].product
             L == {Reference, PlaceOf(p)}
  <2>1. /\ req[t].kind = "add" /\ sawItem[t] = NoItem /\ Free(t, L) /\ LinesFor(p) = {}
        /\ Lock(t, L) /\ Goto(t, "commit")
        /\ UNCHANGED <<cartVars, req, sawShop, sawItem, sawQty, want>>
    BY <1>1 DEF Insert
  <2>2. holds'[t] = holds[t] \cup L /\ pc'[t] = "commit"
    BY <2>1 DEF CartInv, Types, Lock, Goto
  <2>3. LinesFor(p)' = {}
    BY <2>1 DEF LinesFor, Rows, cartVars
  <2>4. At(t)'
    BY <2>1, <2>2, <2>3 DEF At, KindAt, CheckoutLocks, InsertLocks
  <2>. QED
    BY <2>1, <2>4, GoesOn
<1>2. CASE UpdateLine(t) /\ ~Abort(t)
  <2> DEFINE L == {LineRow(sawItem[t])}
  <2>1. /\ req[t].kind \in {"add", "update"} /\ sawItem[t] # NoItem /\ Free(t, L)
        /\ Lock(t, L) /\ Goto(t, "commit")
        /\ UNCHANGED <<cartVars, req, sawShop, sawItem, sawQty, want>>
    BY <1>2 DEF UpdateLine
  <2>2. At(t)'
    BY <2>1 DEF CartInv, Types, Goto, At, KindAt, CheckoutLocks, InsertLocks
  <2>. QED
    BY <2>1, <2>2, GoesOn
<1>3. CASE DeleteLine(t)
  <2> DEFINE L == {LineRow(sawItem[t])}
  <2>1. /\ req[t].kind = "delete" /\ Free(t, L) /\ Lock(t, L) /\ Goto(t, "remaining")
        /\ UNCHANGED <<cartVars, req, sawShop, sawItem, sawQty, want>>
    BY <1>3 DEF DeleteLine
  <2>2. At(t)'
    BY <2>1 DEF CartInv, Types, Goto, At, KindAt, CheckoutLocks, InsertLocks
  <2>. QED
    BY <2>1, <2>2, GoesOn
<1>. QED
  BY <1>1, <1>2, <1>3, AbortKeeps

LEMMA BindingKeeps ==
    ASSUME CartInv, NEW t \in Tx, SeeRemaining(t) \/ Bind(t)
    PROVE  CartInv'
<1>1. CASE SeeRemaining(t)
  <2>1. PICK l \in {"bind", "commit"} : Goto(t, l)
    BY <1>1 DEF SeeRemaining
  <2>2. /\ req[t].kind = "delete"
        /\ UNCHANGED <<cartVars, req, sawShop, sawItem, sawQty, want, holds>>
    BY <1>1 DEF SeeRemaining, CartInv, At, KindAt
  <2>3. At(t)'
    BY <2>1, <2>2 DEF CartInv, Types, Goto, At, KindAt, CheckoutLocks, InsertLocks
  <2>. QED
    BY <2>1, <2>2, <2>3, StaysUnlocked DEF CartInv, Types
<1>2. CASE Bind(t)
  <2>1. PICK l : l = (IF req[t].kind = "add" THEN "write" ELSE "commit") /\ Goto(t, l)
    BY <1>2 DEF Bind
  <2>2. /\ req[t].kind \in {"add", "delete", "clear"} /\ Free(t, {Binding}) /\ Lock(t, {Binding})
        /\ UNCHANGED <<cartVars, req, sawShop, sawItem, sawQty, want>>
    BY <1>2 DEF Bind, CartInv, At, KindAt
  <2>3. At(t)'
    BY <2>1, <2>2 DEF CartInv, Types, Goto, At, KindAt, CheckoutLocks, InsertLocks
  <2>. QED
    BY <2>1, <2>2, <2>3, GoesOn
<1>. QED
  BY <1>1, <1>2

LEMMA ListKeeps ==
    ASSUME CartInv, NEW t \in Tx, LockCart(t) \/ ListLines(t)
    PROVE  CartInv'
<1>1. CASE LockCart(t) /\ ~Abort(t)
  <2>1. /\ pc[t] = "lock" /\ Free(t, {ForUpdate}) /\ Lock(t, {ForUpdate}) /\ Goto(t, "list")
        /\ UNCHANGED <<cartVars, req, sawShop, sawItem, sawQty, want>>
    BY <1>1 DEF LockCart
  <2>2. /\ req[t].kind = "checkout" /\ pc'[t] = "list"
        /\ holds'[t] = holds[t] \cup {ForUpdate}
    BY <2>1 DEF CartInv, Types, At, KindAt, Goto, Lock
  <2>3. At(t)'
    BY <2>1, <2>2 DEF At, KindAt, CheckoutLocks, InsertLocks
  <2>. QED
    BY <2>1, <2>3, GoesOn
<1>2. CASE ListLines(t) /\ ~Abort(t)
  <2>1. /\ pc[t] = "list" /\ want' = [want EXCEPT ![t] = Rows] /\ Goto(t, "lines")
        /\ UNCHANGED <<cartVars, req, sawShop, sawItem, sawQty, holds>>
    BY <1>2 DEF ListLines
  <2>2. want' \in [Tx -> SUBSET Item]
    BY <2>1 DEF CartInv, Types
  <2>3. At(t)'
    BY <2>1 DEF CartInv, Types, Goto, At, KindAt, CheckoutLocks, InsertLocks
  <2>. QED
    BY <2>1, <2>2, <2>3, StaysUnlocked DEF CartInv, Types
<1>. QED
  BY <1>1, <1>2, AbortKeeps

LEMMA LockLineKeeps ==
    ASSUME CartInv, NEW t \in Tx, LockLine(t)
    PROVE  CartInv'
<1>1. PICK i \in want[t] :
          /\ Free(t, {LineRow(i)})
          /\ IF i \in Rows THEN Lock(t, {LineRow(i)}) ELSE UNCHANGED holds
          /\ want' = [want EXCEPT ![t] = @ \ {i}]
  BY DEF LockLine
<1>2. pc[t] = "lines" /\ UNCHANGED <<cartVars, req, pc, sawShop, sawItem, sawQty>>
  BY DEF LockLine
<1>3. want' \in [Tx -> SUBSET Item]
  BY <1>1 DEF CartInv, Types
<1>4. /\ LocksApart' /\ holds' = [u \in Tx |-> holds'[u]]
      /\ holds[t] \subseteq holds'[t] /\ \A u \in Tx \ {t} : holds'[u] = holds[u]
  <2>1. CASE i \in Rows
    BY <1>1, <2>1, MoreLocks DEF CartInv, Types
  <2>2. CASE i \notin Rows
    BY <1>1, <2>2 DEF CartInv, Types, LocksApart, Conflict
  <2>. QED
    BY <2>1, <2>2
<1>5. At(t)'
  BY <1>2, <1>4 DEF CartInv, At, KindAt, CheckoutLocks, InsertLocks
<1>6. OnlyOwn(t)
  BY <1>2, <1>4 DEF OnlyOwn
<1>. QED
  BY <1>2, <1>3, <1>4, <1>5, <1>6, OwnStep DEF CartInv, Types

\* Here a checkout makes sure that it has locked the whole cart.
LEMMA LinesLockedKeeps ==
    ASSUME CartInv, NEW t \in Tx, LinesLocked(t)
    PROVE  CartInv'
<1>1. CASE Abort(t)
  BY <1>1, AbortKeeps
<1>2. CASE ~Abort(t)
  <2>1. PICK l : /\ l = (IF req[t].kind = "clear" /\ sawShop[t] # NoShop THEN "bind" ELSE "commit")
                 /\ Goto(t, l)
    BY <1>2 DEF LinesLocked
  <2>2. /\ pc[t] = "lines" /\ req[t].kind \in {"clear", "checkout"}
        /\ UNCHANGED <<cartVars, req, sawShop, sawItem, sawQty, want, holds>>
        /\ req[t].kind = "checkout" => Rows = Held(t) /\ ForUpdate \in holds[t]
    BY <1>2 DEF LinesLocked, CartInv, At, KindAt, CheckoutLocks
  <2>3. req[t].kind = "checkout" => \A i \in Rows' : LineRow(i) \in holds'[t]
    BY <2>2 DEF Held, Rows, cartVars
  <2>4. pc'[t] = l
    BY <2>1 DEF CartInv, Types, Goto
  <2>5. At(t)'
    BY <2>1, <2>2, <2>3, <2>4 DEF At, KindAt, CheckoutLocks, InsertLocks
  <2>. QED
    BY <2>1, <2>2, <2>5, StaysUnlocked DEF CartInv, Types
<1>. QED
  BY <1>1, <1>2

-----------------------------------------------------------------------------
(* Commits *)

\* A row that is new to the cart comes with the locks of its insertion, which
\* another checkout's or insertion's locks exclude.
LEMMA CommitKeeps ==
    ASSUME CartInv, NEW t \in Tx, Ended(t),
           bound' \in Shop \cup {NoShop},
           lines' = [i \in Rows' |-> lines'[i]],
           \A i \in Rows' : lines'[i] \in [product : Product, quantity : Nat \ {0}],
           Rows' \subseteq spent', spent' \subseteq Item,
           order' \in [shop : Shop \cup {NoShop}, quantity : [Product -> Nat]],
           OneLineEach',
           \A i \in Rows' :
               \/ i \in Rows /\ lines'[i].product = lines[i].product
               \/ {Reference, PlaceOf(lines'[i].product)} \subseteq holds[t]
    PROVE  CartInv'
<1>1. Types' /\ LocksApart'
  BY EndedIs DEF CartInv, Types
<1>2. ASSUME NEW u \in Tx \ {t} PROVE At(u)'
  <2>1. /\ pc'[u] = pc[u] /\ req'[u] = req[u] /\ sawItem'[u] = sawItem[u]
        /\ holds'[u] = holds[u]
    BY EndedIs DEF OnlyOwn, CartInv
  <2>2. \A a \in holds[t], b \in holds[u] : ~Conflict(a, b)
    BY DEF CartInv, LocksApart
  <2>3. KindAt(u)'
    BY <2>1 DEF CartInv, At, KindAt
  <2>4. CheckoutLocks(u)'
    <3>1. ForUpdate \in holds[u] => Reference \notin holds[t]
      BY <2>2, LockNames, ConflictSymmetric
    <3>2. CASE ForUpdate \in holds[u]
      <4>1. Rows' \subseteq Rows
        BY <3>1, <3>2
      <4>. QED
        BY <2>1, <4>1 DEF CartInv, At, CheckoutLocks
    <3>3. CASE ForUpdate \notin holds[u]
      BY <2>1, <3>3 DEF CartInv, At, CheckoutLocks
    <3>. QED
      BY <3>2, <3>3
  <2>5. InsertLocks(u)'
    <3>. SUFFICES ASSUME pc[u] = "commit", req[u].kind = "add", sawItem[u] = NoItem
                  PROVE  /\ {Reference, PlaceOf(req[u].product)} \subseteq holds[u]
                         /\ LinesFor(req[u].product)' = {}
      BY <2>1 DEF InsertLocks, LinesFor
    <3>1. /\ {Reference, PlaceOf(req[u].product)} \subseteq holds[u]
          /\ LinesFor(req[u].product) = {}
      BY DEF CartInv, At, InsertLocks
    <3>2. PlaceOf(req[u].product) \notin holds[t]
      BY <2>2, <3>1, LockNames
    <3>3. ASSUME NEW i \in Rows', lines'[i].product = req[u].product PROVE FALSE
      BY <3>1, <3>2, <3>3 DEF LinesFor
    <3>. QED
      BY <2>1, <3>1, <3>3 DEF LinesFor
  <2>. QED
    BY <2>3, <2>4, <2>5 DEF At
<1>3. At(t)'
  BY EndedIs DEF CartInv
<1>. QED
  BY <1>1, <1>2, <1>3 DEF CartInv

\* Writing a quantity leaves every line where it was.
LEMMA QuantityWritten ==
    ASSUME CartInv, NEW i, NEW n \in Nat \ {0}, lines' = [lines EXCEPT ![i].quantity = n]
    PROVE  /\ Rows' = Rows /\ lines' = [j \in Rows' |-> lines'[j]]
           /\ \A j \in Rows' : /\ lines'[j] \in [product : Product, quantity : Nat \ {0}]
                               /\ lines'[j].product = lines[j].product
           /\ OneLineEach'
<1>1. Rows' = Rows
  BY DEF CartInv, Types, Rows
<1>2. lines' = [j \in Rows' |-> lines'[j]]
  BY DEF CartInv, Types, Rows
<1>3. ASSUME NEW j \in Rows
      PROVE  /\ lines'[j] \in [product : Product, quantity : Nat \ {0}]
             /\ lines'[j].product = lines[j].product
  <2>1. lines[j] \in [product : Product, quantity : Nat \ {0}]
    BY DEF CartInv, Types
  <2>2. lines'[j] = IF j = i THEN [lines[i] EXCEPT !.quantity = n] ELSE lines[j]
    BY DEF Rows
  <2>. QED
    BY <2>1, <2>2
<1>. QED
  BY <1>1, <1>2, <1>3 DEF CartInv, OneLineEach

LEMMA CommitAddKeeps ==
    ASSUME CartInv, NEW t \in Tx, CommitAdd(t)
    PROVE  CartInv'
<1> DEFINE p == req[t].product
<1>1. Ended(t) /\ order' = order /\ p \in Product
  BY ReqFields DEF CommitAdd, CartInv
<1>2. bound' \in Shop \cup {NoShop}
  BY <1>1, CartAssumption DEF CommitAdd, CartInv, Types
<1>3. CASE sawItem[t] = NoItem
  <2>1. PICK i \in Item \ spent :
            /\ spent' = spent \cup {i}
            /\ lines' = [j \in Rows \cup {i} |->
                            IF j = i THEN [product |-> p, quantity |-> 1] ELSE lines[j]]
    BY <1>3 DEF CommitAdd
  <2>2. /\ {Reference, PlaceOf(p)} \subseteq holds[t]
        /\ \A j \in Rows : lines[j].product # p
    BY <1>3 DEF CommitAdd, CartInv, At, InsertLocks, LinesFor
  <2>3. Rows' = Rows \cup {i} /\ lines' = [j \in Rows' |-> lines'[j]] /\ i \notin Rows
    BY <2>1 DEF Rows, CartInv, Types
  <2>4. /\ lines'[i] = [product |-> p, quantity |-> 1]
        /\ \A j \in Rows : lines'[j] = lines[j]
    BY <2>1, <2>3
  <2>5. /\ \A j \in Rows' : lines'[j] \in [product : Product, quantity : Nat \ {0}]
        /\ Rows' \subseteq spent' /\ spent' \subseteq Item
    BY <1>1, <2>1, <2>3, <2>4 DEF CartInv, Types
  <2>6. OneLineEach'
    BY <2>2, <2>3, <2>4 DEF CartInv, OneLineEach
  <2>7. \A j \in Rows' : \/ j \in Rows /\ lines'[j].product = lines[j].product
                        \/ {Reference, PlaceOf(lines'[j].product)} \subseteq holds[t]
    BY <2>2, <2>3, <2>4
  <2>. QED
    BY <1>1, <1>2, <2>3, <2>5, <2>6, <2>7, CommitKeeps DEF CartInv, Types
<1>4. CASE sawItem[t] # NoItem
  <2>1. lines' = [lines EXCEPT ![sawItem[t]].quantity = sawQty[t] + 1] /\ spent' = spent
    BY <1>4 DEF CommitAdd
  <2>2. sawQty[t] + 1 \in Nat \ {0}
    BY DEF CartInv, Types
  <2>. QED
    BY <1>1, <1>2, <2>1, <2>2, QuantityWritten, CommitKeeps DEF CartInv, Types
<1>. QED
  BY <1>3, <1>4

LEMMA CommitUpdateKeeps ==
    ASSUME CartInv, NEW t \in Tx, CommitUpdate(t)
    PROVE  CartInv'
<1>1. /\ Ended(t) /\ UNCHANGED <<bound, spent, order>>
      /\ lines' = [lines EXCEPT ![req[t].item].quantity = req[t].quantity]
      /\ req[t].quantity \in Nat \ {0}
  BY ReqFields DEF CommitUpdate, CartInv
<1>. QED
  BY <1>1, QuantityWritten, CommitKeeps DEF CartInv, Types

LEMMA CommitRemovalKeeps ==
    ASSUME CartInv, NEW t \in Tx, CommitRemoval(t)
    PROVE  CartInv'
<1>1. /\ Ended(t) /\ UNCHANGED <<spent, order>>
      /\ lines' = [i \in Rows \ Held(t) |-> lines[i]]
      /\ bound' \in {bound, NoShop}
  BY DEF CommitRemoval
<1>2. /\ Rows' = Rows \ Held(t) /\ lines' = [i \in Rows' |-> lines'[i]]
      /\ \A i \in Rows' : lines'[i] = lines[i]
  BY <1>1 DEF Rows
<1>3. OneLineEach'
  BY <1>2 DEF CartInv, OneLineEach
<1>. QED
  BY <1>1, <1>2, <1>3, CommitKeeps DEF CartInv, Types

\* What is ordered is a natural number of each product.
LEMMA Ordered ==
    ASSUME CartInv, NEW t \in Tx, NEW p \in Product
    PROVE  QuantityOf(p) \in Nat /\ OrderedOf(t, p) \in Nat
<1>1. QuantityOf(p) \in Nat
  <2>1. CASE LinesFor(p) = {}
    BY <2>1 DEF QuantityOf
  <2>2. CASE LinesFor(p) # {}
    <3>1. (CHOOSE i \in LinesFor(p) : TRUE) \in LinesFor(p)
      BY <2>2
    <3>2. (CHOOSE i \in LinesFor(p) : TRUE) \in Rows
      BY <3>1 DEF LinesFor
    <3>. QED
      BY <2>2, <3>2 DEF QuantityOf, CartInv, Types
  <2>. QED
    BY <2>1, <2>2
<1>. QED
  BY <1>1 DEF OrderedOf

LEMMA CommitCheckoutKeeps ==
    ASSUME CartInv, NEW t \in Tx, CommitCheckout(t)
    PROVE  CartInv'
<1>1. CASE Abort(t)
  BY <1>1, AbortKeeps
<1>2. CASE ~Abort(t)
  <2>1. /\ Ended(t) /\ lines' = << >> /\ bound' = NoShop /\ spent' = spent
        /\ order' = [shop |-> bound, quantity |-> [p \in Product |-> OrderedOf(t, p)]]
    BY <1>2 DEF CommitCheckout
  <2>2. Rows' = {} /\ lines' = [i \in Rows' |-> lines'[i]] /\ OneLineEach'
    BY <2>1 DEF Rows, OneLineEach
  <2>3. [p \in Product |-> OrderedOf(t, p)] \in [Product -> Nat]
    BY Ordered
  <2>4. order' \in [shop : Shop \cup {NoShop}, quantity : [Product -> Nat]]
    BY <2>1, <2>3 DEF CartInv, Types
  <2>. QED
    BY <2>1, <2>2, <2>4, CommitKeeps DEF CartInv, Types
<1>. QED
  BY <1>1, <1>2

-----------------------------------------------------------------------------
LEMMA CartInitially == Init => CartInv
<1>. SUFFICES ASSUME Init PROVE CartInv
  OBVIOUS
<1>1. Rows = {}
  BY DEF Init, Rows
<1>2. NoOrder \in [shop : Shop \cup {NoShop}, quantity : [Product -> Nat]]
  BY DEF NoOrder
<1>3. Types
  BY <1>1, <1>2 DEF Init, Types
<1>4. OneLineEach /\ LocksApart
  BY <1>1 DEF Init, OneLineEach, LocksApart
<1>5. \A t \in Tx : At(t)
  BY <1>1 DEF Init, At, KindAt, CheckoutLocks, InsertLocks
<1>. QED
  BY <1>3, <1>4, <1>5 DEF CartInv

LEMMA CartInvKept == CartInv /\ [Next]_vars => CartInv'
<1>. SUFFICES ASSUME CartInv, [Next]_vars PROVE CartInv'
  OBVIOUS
<1>1. CASE UNCHANGED vars
  <2>1. Types' /\ OneLineEach' /\ LocksApart'
    BY <1>1 DEF vars, CartInv, Types, OneLineEach, LocksApart, Rows, Conflict
  <2>2. ASSUME NEW t \in Tx PROVE At(t)'
    <3>1. OnlyOwn(t) /\ KindAt(t)' /\ CheckoutLocks(t)'
      BY <1>1 DEF vars, CartInv, OnlyOwn, At, KindAt, CheckoutLocks, Rows
    <3>2. InsertLocks(t)'
      BY <1>1 DEF vars, CartInv, At, InsertLocks, LinesFor, Rows
    <3>. QED
      BY <3>1, <3>2 DEF At
  <2>. QED
    BY <2>1, <2>2 DEF CartInv
<1>2. ASSUME NEW t \in Tx, Advance(t) PROVE CartInv'
  <2>1. CASE ReadCart(t) \/ LoadForAdd(t) \/ LoadLine(t)
    BY <2>1, ReadCartKeeps, LoadsKeep
  <2>2. CASE Insert(t) \/ UpdateLine(t) \/ DeleteLine(t) \/ SeeRemaining(t) \/ Bind(t)
    BY <2>2, WritesKeep, BindingKeeps
  <2>3. CASE LockCart(t) \/ ListLines(t) \/ LockLine(t) \/ LinesLocked(t)
    BY <2>3, ListKeeps, LockLineKeeps, LinesLockedKeeps
  <2>4. CASE CommitAdd(t) \/ CommitUpdate(t) \/ CommitRemoval(t) \/ CommitCheckout(t)
    BY <2>4, CommitAddKeeps, CommitUpdateKeeps, CommitRemovalKeeps, CommitCheckoutKeeps
  <2>. QED
    BY <1>2, <2>1, <2>2, <2>3, <2>4 DEF Advance
<1>3. ASSUME NEW t \in Tx, DeadlockVictim(t) PROVE CartInv'
  BY <1>3, AbortKeeps DEF DeadlockVictim
<1>4. ASSUME NEW t \in Tx, NEW r \in Request, Start(t, r) PROVE CartInv'
  BY <1>4, StartKeeps
<1>. QED
  BY <1>1, <1>2, <1>3, <1>4 DEF Next

LEMMA OneLineIsCounted == OneLineEach => \A p \in Product : Cardinality(LinesFor(p)) <= 1
<1>. SUFFICES ASSUME OneLineEach, NEW p \in Product PROVE Cardinality(LinesFor(p)) <= 1
  OBVIOUS
<1>1. CASE LinesFor(p) = {}
  BY <1>1, FS_EmptySet
<1>2. CASE LinesFor(p) # {}
  <2>1. PICK i : i \in LinesFor(p)
    BY <1>2
  <2>2. LinesFor(p) = {i}
    BY <2>1 DEF LinesFor, OneLineEach
  <2>3. Cardinality(LinesFor(p)) = 1
    BY <2>2, FS_Singleton
  <2>. QED
    BY <2>3
<1>. QED
  BY <1>1, <1>2

\* Only a checkout that goes through writes an order.
LEMMA WhoOrders ==
    ASSUME [Next]_vars, order' # order
    PROVE  \E t \in Tx : CommitCheckout(t) /\ ~Abort(t)
BY DEF Next, vars, cartVars, Advance, DeadlockVictim, Start, Abort, ReadCart, LoadForAdd, LoadLine,
       Load, Insert, UpdateLine, DeleteLine, SeeRemaining, Bind, LockCart, ListLines, LockLine,
       LinesLocked, CommitAdd, CommitUpdate, CommitRemoval

\* The cart and every request's workspace are well typed, and no product has two
\* lines, whichever requests insert at once (uq_cart_items_cart_product).
THEOREM TypeCorrect == Spec => []TypeOK
<1>1. CartInv => TypeOK
  BY OneLineIsCounted DEF CartInv, Types, TypeOK
<1>. QED
  BY <1>1, CartInitially, CartInvKept, PTL DEF Spec

\* orders/service.py create_order: what is ordered is the cart at the moment of
\* the commit, all of it, and the cart is empty and unbound afterwards.
THEOREM CheckoutSwallowsNothing == Spec => OrderIsTheCart
<1> DEFINE Whole == order' # order =>
                      /\ order'.quantity = [p \in Product |-> QuantityOf(p)]
                      /\ order'.shop = bound /\ Rows' = {} /\ bound' = NoShop
<1>1. CartInv /\ [Next]_vars => Whole
  <2>. SUFFICES ASSUME CartInv, [Next]_vars, order' # order PROVE Whole
    OBVIOUS
  <2>1. PICK t \in Tx : CommitCheckout(t) /\ ~Abort(t)
    BY WhoOrders
  <2>2. /\ pc[t] = "commit" /\ req[t].kind = "checkout"
        /\ lines' = << >> /\ bound' = NoShop
        /\ order' = [shop |-> bound, quantity |-> [p \in Product |-> OrderedOf(t, p)]]
    BY <2>1 DEF CommitCheckout
  <2>3. Held(t) = Rows
    BY <2>2 DEF CartInv, At, CheckoutLocks, Held
  <2>4. ASSUME NEW p \in Product PROVE OrderedOf(t, p) = QuantityOf(p)
    <3>1. LinesFor(p) \cap Held(t) = LinesFor(p)
      BY <2>3 DEF LinesFor
    <3>. QED
      BY <3>1 DEF OrderedOf, QuantityOf
  <2>. QED
    BY <2>2, <2>4 DEF Rows
<1>. QED
  BY <1>1, CartInitially, CartInvKept, PTL DEF Spec, OrderIsTheCart

\* Two adds at once may mix a cart; it is never ordered like that.
THEOREM MixedCartIsNotOrdered == Spec => []OrderOfOneShop
<1>1. Init => OrderOfOneShop
  BY DEF Init, NoOrder, OrderOfOneShop
<1>2. CartInv /\ OrderOfOneShop /\ [Next]_vars => OrderOfOneShop'
  <2>. SUFFICES ASSUME CartInv, OrderOfOneShop, [Next]_vars PROVE OrderOfOneShop'
    OBVIOUS
  <2>1. CASE order' = order
    BY <2>1 DEF OrderOfOneShop
  <2>2. CASE order' # order
    <3>1. PICK t \in Tx : CommitCheckout(t) /\ ~Abort(t)
      BY <2>2, WhoOrders
    <3>2. /\ Orderable(t)
          /\ order' = [shop |-> bound, quantity |-> [p \in Product |-> OrderedOf(t, p)]]
      BY <3>1 DEF CommitCheckout
    <3>3. ASSUME NEW p \in Product, OrderedOf(t, p) > 0 PROVE ShopOf[p] = bound
      <4>1. PICK i : i \in LinesFor(p) \cap Held(t)
        BY <3>3 DEF OrderedOf
      <4>. QED
        BY <3>2, <4>1 DEF Orderable, LinesFor
    <3>. QED
      BY <3>2, <3>3 DEF OrderOfOneShop
  <2>. QED
    BY <2>1, <2>2
<1>. QED
  BY <1>1, <1>2, CartInitially, CartInvKept, PTL DEF Spec
=============================================================================
