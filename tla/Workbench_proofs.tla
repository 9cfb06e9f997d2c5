-------------------------- MODULE Workbench_proofs --------------------------
(***************************************************************************)
(* Machine-checked theorems about Workbench, for every set of tabs, orders *)
(* and riders: under the pages the server behaves as Dispatch, and what an *)
(* outdated page can still do to an order.                                 *)
(***************************************************************************)
EXTENDS Workbench, Dispatch_proofs

-----------------------------------------------------------------------------
(* The inductive invariant *)

\* s is a status that the order (row 0) or its delivery row i has had: what has
\* not moved yet has had no other status, and a row has moved in one direction.
Former(o, i, s) ==
    IF i = 0
    THEN /\ status[o] # NoStatus /\ s \in OrderStatus
         /\ status[o] = "pending_shop" => s = "pending_shop"
    ELSE /\ i \in Rows(o) /\ s \in DeliveryStatus
         /\ leg[o][i] = "assigned" => s = "assigned"
         /\ leg[o][i] = "picked_up" => s \in {"assigned", "picked_up"}

\* The statuses over which a page lets a request be made.  The reject and failure
\* dialogs stay open whatever the status becomes.
MadeOver(verb) ==
    CASE verb = "accept" -> {"pending_shop"}
      [] verb = "preparing" -> {"accepted"}
      [] verb = "ready" -> {"preparing"}
      [] verb = "cancel" -> {"pending_shop", "accepted"}
      [] verb = "pick" -> {"assigned"}
      [] verb = "complete" -> {"picked_up"}
      [] verb = "fail" -> DeliveryStatus \ {"assigned"}
      [] verb = "reject" -> OrderStatus

\* A page about an order has the order for its row, one about a delivery a row;
\* what it shows was once true, and a failure dialog is opened after the pickup.
PageFits(v) ==
    /\ v.role = "none" => v.row = 0 /\ v.shown = NoStatus /\ ~v.asked
    /\ v.role # "none" => Former(v.order, v.row, v.shown)
    /\ v.role = "rider" <=> v.row # 0
    /\ v.role = "rider" /\ v.asked => v.shown # "assigned"

\* A request says what its page showed.
RequestFits(q) ==
    /\ q.verb \in RiderVerb <=> q.row # 0
    /\ Former(q.order, q.row, q.seen)
    /\ q.seen \in MadeOver(q.verb)

Pages == {view[t] : t \in Tab}

\* A tab that has loaded no page asks for nothing and awaits nothing.
BlankRests ==
    \A t \in Tab : view[t].role = "none" => call[t].state = "idle" /\ ~due[t]

DeskInv ==
    /\ PagesTypeOK
    /\ \A v \in Pages : PageFits(v)
    /\ \A q \in InFlight : RequestFits(q)

-----------------------------------------------------------------------------
(* The server under the pages *)

LEMMA FlightTypes ==
    ASSUME PagesTypeOK
    PROVE  /\ \A t \in Tab : call[t].state = "sent" =>
                 /\ Req(t).verb \in Verb /\ Req(t).order \in OrderId /\ Req(t).row \in 0..MaxAttempts
                 /\ Req(t).verb = call[t].verb /\ Req(t).seen = call[t].seen
           /\ late \subseteq Request
<1>1. ASSUME NEW t \in Tab, call[t].state = "sent"
      PROVE  /\ Req(t).verb \in Verb /\ Req(t).order \in OrderId /\ Req(t).row \in 0..MaxAttempts
             /\ Req(t).verb = call[t].verb /\ Req(t).seen = call[t].seen
  <2>1. view[t] \in Page /\ call[t] \in Call /\ call[t].verb # "none"
    BY <1>1 DEF PagesTypeOK
  <2>. QED
    BY <2>1 DEF Page, Call, Req
<1>. QED
  BY <1>1 DEF PagesTypeOK

\* A request is carried out by a handler of Dispatch, for the rider of its row.
LEMMA EffectIsAStep ==
    ASSUME TypeOK, NEW q, q.verb \in Verb, q.order \in OrderId, q.row \in 0..MaxAttempts, Effect(q)
    PROVE  Next
<1>1. CASE q.verb \in {"accept", "reject", "preparing", "cancel"} /\ Transition(q.order, Target[q.verb])
  <2>1. Target[q.verb] \in {"accepted", "rejected", "preparing", "cancelled"}
    BY <1>1 DEF Target
  <2>. QED
    BY <1>1, <2>1 DEF Next, ShopNext
<1>2. CASE q.verb = "ready" /\ Ready(q.order)
  BY <1>2 DEF Next, ShopNext
<1>3. CASE \/ PickUp(courier[q.order][q.row], q.order, q.row)
           \/ Complete(courier[q.order][q.row], q.order, q.row)
           \/ Fail(courier[q.order][q.row], q.order, q.row)
  <2>1. q.row \in Rows(q.order)
    BY <1>3 DEF PickUp, Complete, Fail, MayMove
  <2>2. courier[q.order][q.row] \in Rider /\ q.row \in 1..MaxAttempts
    BY <2>1, RowsAndRiders, DispatchAssumption
  <2>. QED
    BY <1>3, <2>2 DEF Next, RiderNext
<1>. QED
  BY <1>1, <1>2, <1>3 DEF Effect

LEMMA ServerStep ==
    ASSUME TypeOK, PagesTypeOK, [WBNext]_allVars
    PROVE  [Next]_vars
<1>1. CASE Elsewhere
  BY <1>1 DEF Elsewhere, Next, ShopNext, RiderNext
<1>2. ASSUME NEW q \in late, ServeLate(q) PROVE [Next]_vars
  <2>1. q.verb \in Verb /\ q.order \in OrderId /\ q.row \in 0..MaxAttempts
    BY FlightTypes DEF Request
  <2>. QED
    BY <1>2, <2>1, EffectIsAStep DEF ServeLate
<1>3. ASSUME NEW t \in Tab, Serve(t) PROVE [Next]_vars
  <2>1. call[t].state = "sent" /\ (Effect(Req(t)) \/ UNCHANGED vars)
    BY <1>3 DEF Serve
  <2>. QED
    BY <2>1, FlightTypes, EffectIsAStep
<1>4. CASE UNCHANGED vars
  BY <1>4
<1>. QED
  BY <1>1, <1>2, <1>3, <1>4 DEF WBNext, allVars, Open, AskFirst, Dismiss, Press, GiveUp, Answer, Refresh

-----------------------------------------------------------------------------
(* What was true stays a former status *)

LEMMA StatusMovesOn ==
    ASSUME TypeOK, [Next]_vars, NEW o \in OrderId
    PROVE  /\ status'[o] = NoStatus => status[o] = NoStatus
           /\ status'[o] = "pending_shop" => status[o] \in {NoStatus, "pending_shop"}
<1>. DEFINE Goal == /\ status'[o] = NoStatus => status[o] = NoStatus
                    /\ status'[o] = "pending_shop" => status[o] \in {NoStatus, "pending_shop"}
<1>m. ASSUME NEW u \in OrderId, NEW target \in OrderStatus \ {"pending_shop"}, Move(u, target)
      PROVE  Goal
  BY <1>m DEF Move, TypeOK, OrderStatus, NoStatus
<1>s. ASSUME UNCHANGED status PROVE Goal
  BY <1>s
<1>1. ASSUME NEW u \in OrderId, CreateOrder(u) PROVE Goal
  BY <1>1 DEF CreateOrder, Move, TypeOK, NoStatus
<1>2. ASSUME NEW u \in OrderId, Ready(u) PROVE Goal
  BY <1>2, <1>m DEF Ready, OrderStatus
<1>3. ASSUME NEW u \in OrderId, NEW target \in {"accepted", "rejected", "preparing", "cancelled"},
             Transition(u, target)
      PROVE  Goal
  BY <1>3, <1>m DEF Transition, OrderStatus
<1>4. ASSUME NEW r \in Rider, NEW u \in OrderId, NEW i, PickUp(r, u, i) \/ Complete(r, u, i)
      PROVE  Goal
  BY <1>4, <1>m DEF PickUp, Complete, OrderStatus
<1>5. ASSUME NEW r \in Rider, NEW u \in OrderId, NEW i, Fail(r, u, i)
      PROVE  Goal
  BY <1>5 DEF Fail, Move, TypeOK, NoStatus
<1>6. ASSUME NEW r \in Rider, GoOnline(r) \/ GoOffline(r) PROVE Goal
  BY <1>6, <1>s DEF GoOnline, GoOffline
<1>. QED
  BY <1>s, <1>1, <1>2, <1>3, <1>4, <1>5, <1>6 DEF Next, ShopNext, RiderNext, vars

LEMMA FormerStays ==
    ASSUME TypeOK, [Next]_vars, NEW o \in OrderId, NEW i, NEW s, Former(o, i, s)
    PROVE  Former(o, i, s)'
<1>1. CASE i = 0
  BY <1>1, StatusMovesOn DEF Former
<1>2. CASE i # 0
  <2>1. i \in Rows(o) /\ leg[o][i] \in DeliveryStatus
    BY <1>2, RowsAndRiders DEF Former
  <2>2. i \in Rows(o)' /\ RowsStep
    BY <2>1, NextRows, RowsStepKeepsHistory
  <2>3. /\ leg'[o][i] = "assigned" => leg[o][i] = "assigned"
        /\ leg'[o][i] = "picked_up" => leg[o][i] \in {"assigned", "picked_up"}
    BY <2>1, <2>2 DEF RowsStep, LegStep, OneLegMoved, LegsKept, ActiveStatuses
  <2>. QED
    BY <1>2, <2>2, <2>3 DEF Former
<1>. QED
  BY <1>1, <1>2

\* A page that reads the server again shows the present, which is no further back.
LEMMA PresentIsFormer ==
    ASSUME TypeOK, NEW o \in OrderId, NEW i, NEW s, Former(o, i, s)
    PROVE  /\ Former(o, i, Truth(o, i))
           /\ Truth(o, i) \in PageStatus
           /\ i # 0 /\ Truth(o, i) = "assigned" => s = "assigned"
<1>1. CASE i = 0
  BY <1>1 DEF Former, Truth, TypeOK, PageStatus
<1>2. CASE i # 0
  <2>1. i \in Rows(o) /\ leg[o][i] \in DeliveryStatus
    BY <1>2, RowsAndRiders DEF Former
  <2>. QED
    BY <1>2, <2>1 DEF Former, Truth, PageStatus
<1>. QED
  BY <1>1, <1>2

LEMMA ServerKeepsPages ==
    ASSUME TypeOK, [Next]_vars
    PROVE  /\ \A v : v.order \in OrderId /\ PageFits(v) => PageFits(v)'
           /\ \A q : q.order \in OrderId /\ RequestFits(q) => RequestFits(q)'
<1>1. ASSUME NEW v, v.order \in OrderId, PageFits(v) PROVE PageFits(v)'
  BY <1>1, FormerStays DEF PageFits
<1>2. ASSUME NEW q, q.order \in OrderId, RequestFits(q) PROVE RequestFits(q)'
  BY <1>2, FormerStays DEF RequestFits, MadeOver
<1>. QED
  BY <1>1, <1>2

-----------------------------------------------------------------------------
(* Every step keeps the invariant *)

LEMMA PageTypes ==
    ASSUME PagesTypeOK, NEW t \in Tab
    PROVE  /\ view[t] \in Page /\ call[t] \in Call /\ due[t] \in BOOLEAN
           /\ view[t].order \in OrderId /\ view[t].row \in 0..MaxAttempts
           /\ view[t].role \in {"none", "shop", "customer", "rider"}
           /\ view[t].shown \in PageStatus \cup {NoStatus} /\ view[t].asked \in BOOLEAN
           /\ call[t].state \in {"idle", "sent", "ok", "illegal"}
           /\ call[t].verb \in Verb \cup {"none"} /\ call[t].seen \in PageStatus \cup {NoStatus}
BY DEF PagesTypeOK, Page, Call

LEMMA FlightOrders ==
    ASSUME PagesTypeOK
    PROVE  \A q \in InFlight : q.order \in OrderId /\ q.verb \in Verb /\ q.row \in 0..MaxAttempts
<1>1. \A q \in late : q.order \in OrderId /\ q.verb \in Verb /\ q.row \in 0..MaxAttempts
  BY FlightTypes DEF Request
<1>. QED
  BY <1>1, FlightTypes DEF InFlight

\* The pages of before fit what the server has become.
LEMMA OldPages ==
    ASSUME TypeOK, DeskInv, [Next]_vars
    PROVE  /\ \A v \in Pages : PageFits(v)'
           /\ \A q \in InFlight : RequestFits(q)'
<1>1. ASSUME NEW v \in Pages PROVE PageFits(v)'
  <2>1. v.order \in OrderId /\ PageFits(v)
    BY PageTypes DEF DeskInv, Pages
  <2>. QED
    BY <2>1, ServerKeepsPages
<1>2. ASSUME NEW q \in InFlight PROVE RequestFits(q)'
  BY FlightOrders, ServerKeepsPages DEF DeskInv
<1>. QED
  BY <1>1, <1>2

\* Where no tab sends, the requests in flight are among those of before.
LEMMA NoNewRequest ==
    ASSUME late' \subseteq InFlight,
           \A u \in Tab : call'[u].state = "sent" =>
               call'[u] = call[u] /\ view'[u].order = view[u].order /\ view'[u].row = view[u].row
    PROVE  InFlight' \subseteq InFlight
<1>1. ASSUME NEW u \in Tab, call'[u].state = "sent" PROVE Req(u)' \in InFlight
  <2>1. Req(u)' = Req(u) /\ call[u].state = "sent"
    BY <1>1 DEF Req
  <2>. QED
    BY <2>1 DEF InFlight
<1>. QED
  BY <1>1 DEF InFlight

\* A step after which every page and request is an old one.
LEMMA NothingNew ==
    ASSUME TypeOK, DeskInv, [Next]_vars, PagesTypeOK',
           Pages' \subseteq Pages, InFlight' \subseteq InFlight
    PROVE  DeskInv'
<1>1. \A v \in Pages' : PageFits(v)'
  BY OldPages
<1>2. \A q \in InFlight' : RequestFits(q)'
  BY OldPages
<1>. QED
  BY <1>1, <1>2 DEF DeskInv

LEMMA SameCalls ==
    ASSUME PagesTypeOK, UNCHANGED <<view, call, due>>, late' \subseteq late
    PROVE  PagesTypeOK' /\ Pages' \subseteq Pages /\ InFlight' \subseteq InFlight
<1>1. PagesTypeOK'
  BY DEF PagesTypeOK
<1>2. late' \subseteq InFlight
  BY DEF InFlight
<1>3. InFlight' \subseteq InFlight
  BY <1>2, NoNewRequest
<1>. QED
  BY <1>1, <1>3 DEF Pages

\* A loaded page shows the truth, which is the present.
LEMMA TruthIsFormer ==
    ASSUME TypeOK, NEW o \in OrderId, NEW i, status[o] # NoStatus, i # 0 => i \in Rows(o)
    PROVE  Former(o, i, Truth(o, i)) /\ Truth(o, i) \in PageStatus
<1>1. CASE i = 0
  BY <1>1 DEF Former, Truth, TypeOK, PageStatus
<1>2. CASE i # 0
  <2>1. i \in Rows(o) /\ leg[o][i] \in DeliveryStatus
    BY <1>2, RowsAndRiders
  <2>. QED
    BY <1>2, <2>1 DEF Former, Truth, PageStatus
<1>. QED
  BY <1>1, <1>2

LEMMA OpenKeeps ==
    ASSUME TypeOK, DeskInv, [Next]_vars, NEW t \in Tab,
           NEW role \in {"shop", "customer", "rider"}, NEW o \in OrderId,
           NEW i \in 0..MaxAttempts, Open(t, role, o, i)
    PROVE  DeskInv'
<1>. DEFINE New == [role |-> role, order |-> o, row |-> i, shown |-> Truth(o, i), asked |-> FALSE]
<1>1. PagesTypeOK
  BY DEF DeskInv
<1>2. /\ call[t].state = "idle" /\ view' = [view EXCEPT ![t] = New]
      /\ UNCHANGED <<vars, call, due, late>>
      /\ status[o] # NoStatus /\ (role = "rider" <=> i # 0) /\ (i # 0 => i \in Rows(o))
  BY RowsAndRiders DEF Open, Rows
<1>3. Former(o, i, Truth(o, i)) /\ Truth(o, i) \in PageStatus
  BY <1>2, TruthIsFormer
<1>4. New \in Page
  BY <1>3 DEF Page
<1>. HIDE DEF New
<1>5. view' \in [Tab -> Page] /\ view'[t] = New /\ \A u \in Tab \ {t} : view'[u] = view[u]
  BY <1>1, <1>2, <1>4 DEF PagesTypeOK
<1>6. PagesTypeOK'
  <2>1. call[t].verb = "none"
    BY <1>1, <1>2, PageTypes DEF PagesTypeOK
  <2>2. ASSUME NEW u \in Tab
        PROVE  /\ call[u].state = "sent" <=> call[u].verb # "none"
               /\ call[u].verb \in RiderVerb <=> view'[u].role = "rider" /\ call[u].state = "sent"
               /\ call[u].verb \in ShopVerb <=> view'[u].role = "shop" /\ call[u].state = "sent"
    <3>1. CASE u = t
      BY <1>2, <2>1, <3>1 DEF RiderVerb, ShopVerb
    <3>2. CASE u # t
      BY <1>1, <1>5, <3>2 DEF PagesTypeOK
    <3>. QED
      BY <3>1, <3>2
  <2>. QED
    BY <1>1, <1>2, <1>5, <2>2 DEF PagesTypeOK
<1>7. ASSUME NEW v \in Pages' PROVE PageFits(v)'
  <2>1. PICK u \in Tab : v = view'[u]
    BY DEF Pages
  <2>2. CASE u = t
    <3>1. /\ v.role = role /\ v.order = o /\ v.row = i /\ v.shown = Truth(o, i) /\ v.asked = FALSE
      BY <1>5, <2>1, <2>2 DEF New
    <3>2. \A s : s = Truth(o, i) => Former(o, i, s)'
      BY <1>2, <1>3 DEF Former, vars, Rows
    <3>. QED
      BY <1>2, <3>1, <3>2 DEF PageFits
  <2>3. CASE u # t
    BY <1>5, <2>1, <2>3, OldPages DEF Pages
  <2>. QED
    BY <2>2, <2>3
<1>8. \A q \in InFlight' : RequestFits(q)'
  <2>1. late' \subseteq InFlight
    BY <1>2 DEF InFlight
  <2>2. \A u \in Tab : call'[u].state = "sent" =>
            call'[u] = call[u] /\ view'[u].order = view[u].order /\ view'[u].row = view[u].row
    BY <1>2, <1>5
  <2>. QED
    BY <2>1, <2>2, NoNewRequest, OldPages
<1>. QED
  BY <1>6, <1>7, <1>8 DEF DeskInv

\* A page changes its status or its dialog; what it is about and whose it is stay.
LEMMA OnePageChanges ==
    ASSUME PagesTypeOK, NEW t \in Tab, NEW shown \in PageStatus \cup {NoStatus},
           NEW asked \in BOOLEAN,
           view' = [view EXCEPT ![t] = [@ EXCEPT !.shown = shown, !.asked = asked]]
    PROVE  /\ view' \in [Tab -> Page]
           /\ view'[t].role = view[t].role /\ view'[t].order = view[t].order
           /\ view'[t].row = view[t].row /\ view'[t].shown = shown /\ view'[t].asked = asked
           /\ \A u \in Tab \ {t} : view'[u] = view[u]
<1>. DEFINE New == [view[t] EXCEPT !.shown = shown, !.asked = asked]
<1>1. /\ New \in Page /\ New.role = view[t].role /\ New.order = view[t].order
      /\ New.row = view[t].row /\ New.shown = shown /\ New.asked = asked
  BY PageTypes DEF Page
<1>2. view' = [view EXCEPT ![t] = New] /\ view \in [Tab -> Page]
  BY DEF PagesTypeOK
<1>. HIDE DEF New
<1>3. view' \in [Tab -> Page] /\ view'[t] = New /\ \A u \in Tab \ {t} : view'[u] = view[u]
  BY <1>1, <1>2
<1>. QED
  BY <1>1, <1>3

\* Calls that agree with roles that stay.
LEMMA SameRoles ==
    ASSUME PagesTypeOK, view' \in [Tab -> Page], due' \in [Tab -> BOOLEAN], late' \subseteq Request,
           \A u \in Tab : view'[u].role = view[u].role,
           \/ call' = call
           \/ \E t \in Tab, s \in {"idle", "ok", "illegal"} :
                 call' = [call EXCEPT ![t] = [Idle EXCEPT !.state = s]]
    PROVE  /\ PagesTypeOK'
           /\ \A u \in Tab : call'[u].state = "sent" => call'[u] = call[u]
<1>1. CASE call' = call
  BY <1>1 DEF PagesTypeOK
<1>2. ASSUME NEW t \in Tab, NEW s \in {"idle", "ok", "illegal"},
             call' = [call EXCEPT ![t] = [Idle EXCEPT !.state = s]]
      PROVE  /\ PagesTypeOK'
             /\ \A u \in Tab : call'[u].state = "sent" => call'[u] = call[u]
  <2>. DEFINE New == [Idle EXCEPT !.state = s]
  <2>1. New \in Call /\ New.state = s /\ New.verb = "none"
    BY DEF Idle, Call
  <2>. HIDE DEF New
  <2>2. call' \in [Tab -> Call] /\ call'[t] = New /\ \A u \in Tab \ {t} : call'[u] = call[u]
    BY <1>2, <2>1 DEF PagesTypeOK, New
  <2>3. ASSUME NEW u \in Tab
        PROVE  /\ call'[u].state = "sent" <=> call'[u].verb # "none"
               /\ call'[u].verb \in RiderVerb <=> view'[u].role = "rider" /\ call'[u].state = "sent"
               /\ call'[u].verb \in ShopVerb <=> view'[u].role = "shop" /\ call'[u].state = "sent"
    <3>1. CASE u = t
      BY <2>1, <2>2, <3>1 DEF RiderVerb, ShopVerb
    <3>2. CASE u # t
      BY <2>2, <3>2 DEF PagesTypeOK
    <3>. QED
      BY <3>1, <3>2
  <2>4. PagesTypeOK'
    BY <2>2, <2>3 DEF PagesTypeOK
  <2>. QED
    BY <2>1, <2>2, <2>4
<1>. QED
  BY <1>1, <1>2

\* The dialog of a page opens or closes, or the page reads the server again: if it
\* fits, the whole desk does.
LEMMA OnePageKeeps ==
    ASSUME TypeOK, DeskInv, [Next]_vars, NEW t \in Tab,
           NEW shown \in PageStatus \cup {NoStatus}, NEW asked \in BOOLEAN,
           view' = [view EXCEPT ![t] = [@ EXCEPT !.shown = shown, !.asked = asked]],
           due' \in [Tab -> BOOLEAN], late' = late,
           \/ call' = call
           \/ \E u \in Tab, s \in {"idle", "ok", "illegal"} :
                 call' = [call EXCEPT ![u] = [Idle EXCEPT !.state = s]],
           \/ view[t].role = "none" /\ shown = NoStatus /\ ~asked
           \/ /\ view[t].role # "none"
              /\ Former(view[t].order, view[t].row, shown)
              /\ view[t].role = "rider" /\ asked => shown # "assigned",
           vars' = vars
    PROVE  DeskInv'
<1>1. PagesTypeOK
  BY DEF DeskInv
<1>2. /\ view' \in [Tab -> Page]
      /\ view'[t].role = view[t].role /\ view'[t].order = view[t].order
      /\ view'[t].row = view[t].row /\ view'[t].shown = shown /\ view'[t].asked = asked
      /\ \A u \in Tab \ {t} : view'[u] = view[u]
  BY <1>1, OnePageChanges
<1>3. /\ \A u \in Tab : /\ view'[u].role = view[u].role /\ view'[u].order = view[u].order
                        /\ view'[u].row = view[u].row
      /\ late' \subseteq Request
  BY <1>1, <1>2 DEF PagesTypeOK
<1>4. PagesTypeOK' /\ \A u \in Tab : call'[u].state = "sent" => call'[u] = call[u]
  BY <1>1, <1>2, <1>3, SameRoles
<1>5. InFlight' \subseteq InFlight
  <2>1. late' \subseteq InFlight
    BY DEF InFlight
  <2>. QED
    BY <1>3, <1>4, <2>1, NoNewRequest
<1>6. ASSUME NEW v \in Pages' PROVE PageFits(v)'
  <2>1. PICK u \in Tab : v = view'[u]
    BY DEF Pages
  <2>2. CASE u = t
    <3>1. PageFits(view[t])
      BY DEF DeskInv, Pages
    <3>2. \A s, o, i : Former(o, i, s) => Former(o, i, s)'
      BY DEF Former, vars, Rows
    <3>. QED
      BY <1>2, <2>1, <2>2, <3>1, <3>2 DEF PageFits
  <2>3. CASE u # t
    BY <1>2, <2>1, <2>3, OldPages DEF Pages
  <2>. QED
    BY <2>2, <2>3
<1>7. \A q \in InFlight' : RequestFits(q)'
  BY <1>5, OldPages
<1>. QED
  BY <1>4, <1>6, <1>7 DEF DeskInv

\* What every page of the invariant satisfies, tab by tab.
LEMMA TabFits ==
    ASSUME DeskInv, NEW t \in Tab
    PROVE  /\ view[t].role = "none" =>
                 view[t].row = 0 /\ view[t].shown = NoStatus /\ ~view[t].asked
           /\ view[t].role # "none" => Former(view[t].order, view[t].row, view[t].shown)
           /\ view[t].role = "rider" <=> view[t].row # 0
           /\ view[t].role = "rider" /\ view[t].asked => view[t].shown # "assigned"
<1>1. PageFits(view[t])
  BY DEF DeskInv, Pages
<1>. QED
  BY <1>1 DEF PageFits

LEMMA AskFirstKeeps ==
    ASSUME TypeOK, DeskInv, [Next]_vars, NEW t \in Tab, AskFirst(t) PROVE DeskInv'
<1>1. PagesTypeOK
  BY DEF DeskInv
<1>2. view[t] \in Page /\ view \in [Tab -> Page]
  BY <1>1 DEF PagesTypeOK
<1>3. view' = [view EXCEPT ![t] = [@ EXCEPT !.shown = view[t].shown, !.asked = TRUE]]
  BY <1>2 DEF AskFirst, Page
<1>4. view[t].role # "none" /\ (view[t].role = "rider" => view[t].shown # "assigned")
  BY DEF AskFirst, Dialogs
<1>. QED
  BY <1>1, <1>3, <1>4, OnePageKeeps, PageTypes, TabFits DEF AskFirst, PagesTypeOK

LEMMA DismissKeeps ==
    ASSUME TypeOK, DeskInv, [Next]_vars, NEW t \in Tab, Dismiss(t) PROVE DeskInv'
<1>1. PagesTypeOK
  BY DEF DeskInv
<1>2. view[t] \in Page /\ view \in [Tab -> Page]
  BY <1>1 DEF PagesTypeOK
<1>3. view' = [view EXCEPT ![t] = [@ EXCEPT !.shown = view[t].shown, !.asked = FALSE]]
  BY <1>2 DEF Dismiss, Page
<1>4. due' \in [Tab -> BOOLEAN] /\ late' = late /\ vars' = vars /\ call' = call
  BY <1>1 DEF Dismiss, PagesTypeOK
<1>. QED
  BY <1>1, <1>3, <1>4, OnePageKeeps, PageTypes, TabFits

LEMMA AnswerKeeps ==
    ASSUME TypeOK, DeskInv, [Next]_vars, NEW t \in Tab, Answer(t) PROVE DeskInv'
<1>1. PagesTypeOK
  BY DEF DeskInv
<1>2. view[t] \in Page /\ view \in [Tab -> Page] /\ due \in [Tab -> BOOLEAN]
  BY <1>1 DEF PagesTypeOK
<1>. DEFINE asked == /\ view[t].asked
                     /\ call[t].state # "ok"
                     /\ call[t].state = "illegal" => view[t].role # "customer"
<1>3. /\ view' = [view EXCEPT ![t] = [@ EXCEPT !.shown = view[t].shown, !.asked = asked]]
      /\ asked \in BOOLEAN /\ (asked => view[t].asked)
  BY <1>2 DEF Answer, Page
<1>. HIDE DEF asked
<1>4. /\ \E u \in Tab, s \in {"idle", "ok", "illegal"} :
            call' = [call EXCEPT ![u] = [Idle EXCEPT !.state = s]]
      /\ due' \in [Tab -> BOOLEAN] /\ late' = late /\ vars' = vars
  <2>1. [Idle EXCEPT !.state = "idle"] = Idle
    BY DEF Idle
  <2>. QED
    BY <1>2, <2>1 DEF Answer
<1>. QED
  BY <1>1, <1>3, <1>4, OnePageKeeps, PageTypes, TabFits

LEMMA RefreshKeeps ==
    ASSUME TypeOK, DeskInv, BlankRests, [Next]_vars, NEW t \in Tab, Refresh(t) PROVE DeskInv'
<1>1. PagesTypeOK
  BY DEF DeskInv
<1>2. view[t] \in Page /\ view \in [Tab -> Page] /\ due \in [Tab -> BOOLEAN]
  BY <1>1 DEF PagesTypeOK
<1>3. /\ view' = [view EXCEPT ![t] = [@ EXCEPT !.shown = Truth(view[t].order, view[t].row),
                                               !.asked = view[t].asked]]
      /\ due' \in [Tab -> BOOLEAN] /\ late' = late /\ vars' = vars /\ call' = call
  BY <1>2 DEF Refresh, Page
<1>4. view[t].role # "none"
  BY DEF Refresh, BlankRests
<1>5. /\ Former(view[t].order, view[t].row, Truth(view[t].order, view[t].row))
      /\ Truth(view[t].order, view[t].row) \in PageStatus
      /\ view[t].role = "rider" /\ view[t].asked => Truth(view[t].order, view[t].row) # "assigned"
  BY <1>1, <1>4, PageTypes, TabFits, PresentIsFormer
<1>. QED
  BY <1>1, <1>3, <1>4, <1>5, OnePageKeeps, PageTypes
-----------------------------------------------------------------------------
LEMMA ServeKeeps ==
    ASSUME TypeOK, DeskInv, [Next]_vars, NEW t \in Tab, Serve(t) PROVE DeskInv'
<1>1. PagesTypeOK
  BY DEF DeskInv
<1>2. /\ UNCHANGED <<view, due, late>>
      /\ \E u \in Tab, s \in {"idle", "ok", "illegal"} :
            call' = [call EXCEPT ![u] = [Idle EXCEPT !.state = s]]
  BY DEF Serve, Answered
<1>3. PagesTypeOK' /\ \A u \in Tab : call'[u].state = "sent" => call'[u] = call[u]
  BY <1>1, <1>2, SameRoles DEF PagesTypeOK
<1>4. late' \subseteq InFlight /\ Pages' \subseteq Pages
  BY <1>2 DEF InFlight, Pages
<1>5. InFlight' \subseteq InFlight
  BY <1>2, <1>3, <1>4, NoNewRequest
<1>. QED
  BY <1>3, <1>4, <1>5, NothingNew

LEMMA GiveUpKeeps ==
    ASSUME TypeOK, DeskInv, [Next]_vars, NEW t \in Tab, GiveUp(t) PROVE DeskInv'
<1>1. PagesTypeOK
  BY DEF DeskInv
<1>2. /\ UNCHANGED <<view, due>>
      /\ \E u \in Tab, s \in {"idle", "ok", "illegal"} :
            call' = [call EXCEPT ![u] = [Idle EXCEPT !.state = s]]
  <2>1. [Idle EXCEPT !.state = "idle"] = Idle
    BY DEF Idle
  <2>. QED
    BY <2>1 DEF GiveUp
<1>3. late' \subseteq InFlight /\ late' \subseteq late \cup {Req(u) : u \in {w \in Tab : call[w].state = "sent"}}
  BY DEF GiveUp, InFlight
<1>4. late' \subseteq Request
  <2>1. ASSUME NEW q \in late' PROVE q \in Request
    <3>1. CASE q \in late
      BY <1>1, <3>1 DEF PagesTypeOK
    <3>2. ASSUME NEW u \in Tab, call[u].state = "sent", q = Req(u) PROVE q \in Request
      <4>1. RequestFits(q) /\ q.verb \in Verb /\ q.order \in OrderId /\ q.row \in 0..MaxAttempts
        BY <1>1, <3>2, FlightTypes DEF DeskInv, InFlight
      <4>2. q.seen \in PageStatus
        BY <4>1 DEF RequestFits, Former, PageStatus
      <4>3. q = [verb |-> q.verb, order |-> q.order, row |-> q.row, seen |-> q.seen]
        BY <3>2 DEF Req
      <4>. QED
        BY <4>1, <4>2, <4>3 DEF Request
    <3>. QED
      BY <1>3, <3>1, <3>2
  <2>. QED
    BY <2>1
<1>5. PagesTypeOK' /\ \A u \in Tab : call'[u].state = "sent" => call'[u] = call[u]
  BY <1>1, <1>2, <1>4, SameRoles DEF PagesTypeOK
<1>6. InFlight' \subseteq InFlight /\ Pages' \subseteq Pages
  BY <1>2, <1>3, <1>5, NoNewRequest DEF Pages
<1>. QED
  BY <1>5, <1>6, NothingNew

LEMMA QuietKeeps ==
    ASSUME TypeOK, DeskInv, [Next]_vars, UNCHANGED <<view, call, due>>, late' \subseteq late
    PROVE  DeskInv'
<1>1. PagesTypeOK
  BY DEF DeskInv
<1>. QED
  BY <1>1, SameCalls, NothingNew

\* A button is pressed on a page that offers it: what the page shows is a status
\* over which that request can be made.
LEMMA OfferFits ==
    ASSUME NEW v, PageFits(v), NEW verb \in Verb, Offers(v, verb)
    PROVE  /\ v.role # "none"
           /\ verb \in RiderVerb <=> v.role = "rider"
           /\ verb \in ShopVerb <=> v.role = "shop"
           /\ Former(v.order, v.row, v.shown)
           /\ v.shown \in MadeOver(verb)
<1>1. CASE <<v.role, v.shown, verb>> \in Buttons
  <2>1. v.shown \in MadeOver(verb)
    BY <1>1 DEF Buttons, MadeOver
  <2>. QED
    BY <1>1, <2>1 DEF Buttons, PageFits, RiderVerb, ShopVerb
<1>2. CASE Confirms(v, verb)
  <2>1. /\ \/ v.role = "shop" /\ verb = "reject"
           \/ v.role = "rider" /\ verb = "fail"
           \/ v.role = "customer" /\ verb = "cancel" /\ v.shown \in {"pending_shop", "accepted"}
        /\ v.asked
    BY <1>2 DEF Confirms, Dialogs
  <2>2. Former(v.order, v.row, v.shown) /\ v.role # "none" /\ (v.role = "rider" <=> v.row # 0)
    BY <2>1 DEF PageFits
  <2>3. v.shown \in MadeOver(verb)
    <3>1. CASE verb = "reject"
      BY <2>1, <2>2, <3>1 DEF Former, MadeOver
    <3>2. CASE verb = "fail"
      BY <2>1, <2>2, <3>2 DEF Former, MadeOver, PageFits
    <3>3. CASE verb = "cancel"
      BY <2>1, <2>2, <3>3 DEF Former, MadeOver
    <3>. QED
      BY <2>1, <3>1, <3>2, <3>3
  <2>. QED
    BY <2>1, <2>2, <2>3 DEF RiderVerb, ShopVerb
<1>. QED
  BY <1>1, <1>2 DEF Offers

LEMMA PressKeeps ==
    ASSUME TypeOK, DeskInv, [Next]_vars, NEW t \in Tab, NEW verb \in Verb, Press(t, verb)
    PROVE  DeskInv'
<1>1. PagesTypeOK /\ PageFits(view[t])
  BY DEF DeskInv, Pages
<1>2. /\ call[t].state = "idle" /\ Offers(view[t], verb)
      /\ call' = [call EXCEPT ![t] = [state |-> "sent", verb |-> verb, seen |-> view[t].shown]]
      /\ UNCHANGED <<vars, view, due, late>>
  BY DEF Press
<1>3. /\ verb \in RiderVerb <=> view[t].role = "rider"
      /\ verb \in ShopVerb <=> view[t].role = "shop"
      /\ Former(view[t].order, view[t].row, view[t].shown)
      /\ view[t].shown \in MadeOver(verb)
  <2>1. \A v : v = view[t] /\ PageFits(v) /\ Offers(v, verb) =>
            /\ verb \in RiderVerb <=> v.role = "rider"
            /\ verb \in ShopVerb <=> v.role = "shop"
            /\ Former(v.order, v.row, v.shown)
            /\ v.shown \in MadeOver(verb)
    BY OfferFits
  <2>. QED
    BY <1>1, <1>2, <2>1
<1>. DEFINE New == [state |-> "sent", verb |-> verb, seen |-> view[t].shown]
<1>4. New \in Call /\ New.state = "sent" /\ New.verb = verb /\ New.seen = view[t].shown
  BY <1>1, PageTypes DEF Call
<1>. HIDE DEF New
<1>5. call' \in [Tab -> Call] /\ call'[t] = New /\ \A u \in Tab \ {t} : call'[u] = call[u]
  BY <1>1, <1>2, <1>4 DEF PagesTypeOK, New
<1>6. PagesTypeOK'
  <2>1. ASSUME NEW u \in Tab
        PROVE  /\ call'[u].state = "sent" <=> call'[u].verb # "none"
               /\ call'[u].verb \in RiderVerb <=> view'[u].role = "rider" /\ call'[u].state = "sent"
               /\ call'[u].verb \in ShopVerb <=> view'[u].role = "shop" /\ call'[u].state = "sent"
    <3>1. CASE u = t
      BY <1>2, <1>3, <1>4, <1>5, <3>1 DEF Verb, RiderVerb, ShopVerb
    <3>2. CASE u # t
      BY <1>1, <1>2, <1>5, <3>2 DEF PagesTypeOK
    <3>. QED
      BY <3>1, <3>2
  <2>. QED
    BY <1>1, <1>2, <1>5, <2>1 DEF PagesTypeOK
<1>7. \A v \in Pages' : PageFits(v)'
  <2>1. Pages' \subseteq Pages
    BY <1>2 DEF Pages
  <2>. QED
    BY <2>1, OldPages
<1>8. ASSUME NEW q \in InFlight' PROVE RequestFits(q)'
  <2>1. CASE q \in InFlight
    BY <2>1, OldPages
  <2>2. CASE q \notin InFlight
    <3>1. PICK u \in Tab : call'[u].state = "sent" /\ q = Req(u)'
      BY <1>2, <2>2 DEF InFlight
    <3>2. CASE u # t
      <4>1. Req(u)' = Req(u) /\ call[u].state = "sent"
        BY <1>2, <1>5, <3>1, <3>2 DEF Req
      <4>. QED
        BY <2>2, <3>1, <4>1 DEF InFlight
    <3>3. CASE u = t
      <4>1. /\ q.verb = verb /\ q.order = view[t].order /\ q.row = view[t].row
            /\ q.seen = view[t].shown
        BY <1>2, <1>4, <1>5, <3>1, <3>3 DEF Req
      <4>2. view[t].role = "rider" <=> view[t].row # 0
        BY TabFits
      <4>3. RequestFits(q)
        BY <1>3, <4>1, <4>2 DEF RequestFits
      <4>. QED
        BY <1>2, <4>3 DEF RequestFits, Former, vars, Rows
    <3>. QED
      BY <3>2, <3>3
  <2>. QED
    BY <2>1, <2>2
<1>. QED
  BY <1>6, <1>7, <1>8 DEF DeskInv

LEMMA BlankStays ==
    ASSUME TypeOK, DeskInv, BlankRests, [WBNext]_allVars
    PROVE  BlankRests'
<1>1. PagesTypeOK
  BY DEF DeskInv
<1>2. view \in [Tab -> Page] /\ call \in [Tab -> Call] /\ due \in [Tab -> BOOLEAN]
  BY <1>1 DEF PagesTypeOK
<1>3. CASE UNCHANGED <<view, call, due>>
  BY <1>3 DEF BlankRests
<1>4. ASSUME NEW t \in Tab, NEW role \in {"shop", "customer", "rider"}, NEW o, NEW i, Open(t, role, o, i)
      PROVE  BlankRests'
  BY <1>2, <1>4 DEF Open, BlankRests
<1>5. ASSUME NEW t \in Tab, AskFirst(t) \/ Dismiss(t) PROVE BlankRests'
  <2>1. \A u \in Tab : view'[u].role = view[u].role
    BY <1>2, <1>5 DEF AskFirst, Dismiss, Page
  <2>. QED
    BY <1>5, <2>1 DEF AskFirst, Dismiss, BlankRests
<1>6. ASSUME NEW t \in Tab, NEW verb \in Verb, Press(t, verb) PROVE BlankRests'
  <2>1. view[t].role # "none"
    BY <1>6 DEF Press, Offers, Confirms, Buttons, Dialogs
  <2>. QED
    BY <1>2, <1>6, <2>1 DEF Press, BlankRests
<1>7. ASSUME NEW t \in Tab, Serve(t) PROVE BlankRests'
  <2>1. view[t].role # "none"
    BY <1>7 DEF Serve, BlankRests
  <2>. QED
    BY <1>2, <1>7, <2>1 DEF Serve, Answered, BlankRests
<1>8. ASSUME NEW t \in Tab, GiveUp(t) PROVE BlankRests'
  BY <1>2, <1>8 DEF GiveUp, BlankRests, Idle
<1>9. ASSUME NEW t \in Tab, Answer(t) PROVE BlankRests'
  <2>1. view[t].role # "none"
    BY <1>9 DEF Answer, BlankRests
  <2>2. \A u \in Tab : view'[u].role = view[u].role
    BY <1>2, <1>9 DEF Answer, Page
  <2>. QED
    BY <1>2, <1>9, <2>1, <2>2 DEF Answer, BlankRests, Idle
<1>10. ASSUME NEW t \in Tab, Refresh(t) PROVE BlankRests'
  <2>2. \A u \in Tab : view'[u].role = view[u].role
    BY <1>2, <1>10 DEF Refresh, Page
  <2>. QED
    BY <1>2, <1>10, <2>2 DEF Refresh, BlankRests
<1>. QED
  BY <1>3, <1>4, <1>5, <1>6, <1>7, <1>8, <1>9, <1>10
     DEF WBNext, allVars, pages, Elsewhere, ServeLate

LEMMA DeskKept ==
    ASSUME TypeOK, DeskInv, BlankRests, [WBNext]_allVars
    PROVE  DeskInv' /\ BlankRests'
<1>1. [Next]_vars
  BY ServerStep DEF DeskInv
<1>2. CASE UNCHANGED allVars \/ Elsewhere \/ \E q \in late : ServeLate(q)
  <2>1. UNCHANGED <<view, call, due>> /\ late' \subseteq late
    BY <1>2 DEF allVars, pages, Elsewhere, ServeLate
  <2>. QED
    BY <1>1, <2>1, QuietKeeps, BlankStays
<1>3. ASSUME NEW t \in Tab, NEW role \in {"shop", "customer", "rider"}, NEW o \in OrderId,
             NEW i \in 0..MaxAttempts, Open(t, role, o, i)
      PROVE  DeskInv'
  BY <1>1, <1>3, OpenKeeps
<1>4. ASSUME NEW t \in Tab, NEW verb \in Verb, Press(t, verb) PROVE DeskInv'
  BY <1>1, <1>4, PressKeeps
<1>5. ASSUME NEW t \in Tab,
             AskFirst(t) \/ Dismiss(t) \/ Serve(t) \/ GiveUp(t) \/ Answer(t) \/ Refresh(t)
      PROVE  DeskInv'
  BY <1>1, <1>5, AskFirstKeeps, DismissKeeps, ServeKeeps, GiveUpKeeps, AnswerKeeps, RefreshKeeps
<1>. QED
  BY <1>2, <1>3, <1>4, <1>5, BlankStays DEF WBNext

LEMMA DeskStart == WBInit => Init /\ DeskInv /\ BlankRests
<1>. SUFFICES ASSUME WBInit PROVE DeskInv /\ BlankRests
  BY DEF WBInit
<1>1. Blank \in Page /\ Blank.role = "none" /\ Blank.row = 0 /\ Blank.shown = NoStatus /\ Blank.asked = FALSE
  <2>1. (CHOOSE o \in OrderId : TRUE) \in OrderId
    BY WorkbenchAssumption
  <2>2. 0 \in 0..MaxAttempts
    BY DispatchAssumption
  <2>. QED
    BY <2>1, <2>2 DEF Blank, Page
<1>2. Idle \in Call /\ Idle.state = "idle" /\ Idle.verb = "none"
  BY DEF Idle, Call
<1>3. /\ view = [t \in Tab |-> Blank] /\ call = [t \in Tab |-> Idle]
      /\ due = [t \in Tab |-> FALSE] /\ late = {}
  BY DEF WBInit
<1>4. PagesTypeOK
  BY <1>1, <1>2, <1>3 DEF PagesTypeOK, RiderVerb, ShopVerb
<1>5. \A v \in Pages : PageFits(v)
  BY <1>1, <1>3 DEF Pages, PageFits
<1>6. InFlight = {}
  BY <1>2, <1>3 DEF InFlight
<1>. QED
  BY <1>1, <1>2, <1>3, <1>4, <1>5, <1>6 DEF DeskInv, BlankRests

-----------------------------------------------------------------------------
(* Theorems *)

\* What the induction carries: the server's invariants, the pages' and the
\* steps of the server below them.
LEMMA WBInvariants == WBSpec => [](TypeOK /\ Stories /\ DeskInv /\ BlankRests)
<1>1. WBInit => TypeOK /\ Stories /\ DeskInv /\ BlankRests
  BY DeskStart, InitTypeOK, InitStories
<1>2. TypeOK /\ Stories /\ DeskInv /\ BlankRests /\ [WBNext]_allVars
         => (TypeOK /\ Stories /\ DeskInv /\ BlankRests)'
  <2>. SUFFICES ASSUME TypeOK, Stories, DeskInv, BlankRests, [WBNext]_allVars
                PROVE  TypeOK' /\ Stories' /\ DeskInv' /\ BlankRests'
    OBVIOUS
  <2>1. [Next]_vars
    BY ServerStep DEF DeskInv
  <2>. QED
    BY <2>1, DeskKept, NextTypeOK, NextStories
<1>. QED
  BY <1>1, <1>2, PTL DEF WBSpec

\* Whatever the pages show and whenever their requests arrive, the server under
\* them behaves as Dispatch, of which the theorems of Dispatch_proofs speak.
THEOREM PagesLeaveDispatch == WBSpec => Spec
<1>1. WBInit => Init
  BY DEF WBInit
<1>2. TypeOK /\ DeskInv /\ [WBNext]_allVars => [Next]_vars
  BY ServerStep DEF DeskInv
<1>. QED
  BY <1>1, <1>2, WBInvariants, PTL DEF WBSpec, Spec

\* Pages and calls keep their types, and a request in flight is one that the page
\* it will answer to can make.
THEOREM PagesTypeCorrect == WBSpec => []PagesTypeOK
<1>1. DeskInv => PagesTypeOK
  BY DEF DeskInv
<1>. QED
  BY <1>1, WBInvariants, PTL

\* What a request that was made over s does to an order or delivery that shows
\* another status now.
LEMMA StaleEffect ==
    ASSUME TypeOK, Stories, NEW q, q.order \in OrderId, q.verb \in Verb, RequestFits(q),
           Effect(q), q.seen # Truth(q.order, q.row)
    PROVE  <<q.verb, status[q.order]>> \in {<<"cancel", "accepted">>,
                                           <<"ready", "out_for_delivery">>}
<1>. DEFINE o == q.order
            i == q.row
<1>1. /\ Former(o, i, q.seen) /\ q.seen \in MadeOver(q.verb)
      /\ q.verb \in RiderVerb <=> i # 0
      /\ i = 0 => Truth(o, i) = status[o]
      /\ i # 0 => Truth(o, i) = leg[o][i]
  BY DEF RequestFits, Truth
<1>2. status[o] \in OrderStatus \cup {NoStatus}
  BY DEF TypeOK
<1>3. ASSUME q.verb \in {"accept", "reject", "preparing", "cancel"}, Transition(o, Target[q.verb])
      PROVE  q.verb = "cancel" /\ status[o] = "accepted"
  <2>1. i = 0 /\ q.seen # status[o]
    BY <1>1, <1>3 DEF RiderVerb
  <2>2. status[o] \in OrderStatus /\ Target[q.verb] \in Allowed[status[o]]
    BY <1>2, <1>3 DEF Transition, CanTransition
  <2>3. CASE q.verb = "accept"
    <3>1. q.seen = "pending_shop" /\ Target[q.verb] = "accepted"
      BY <1>1, <2>3 DEF MadeOver, Target
    <3>. QED
      BY <2>1, <2>2, <3>1 DEF Allowed
  <2>4. CASE q.verb = "reject"
    <3>1. Target[q.verb] = "rejected"
      BY <2>4 DEF Target
    <3>2. status[o] = "pending_shop"
      BY <2>2, <3>1 DEF Allowed
    <3>. QED
      BY <1>1, <2>1, <3>2 DEF Former
  <2>5. CASE q.verb = "preparing"
    <3>1. q.seen = "accepted" /\ Target[q.verb] = "preparing"
      BY <1>1, <2>5 DEF MadeOver, Target
    <3>. QED
      BY <2>1, <2>2, <3>1 DEF Allowed
  <2>6. CASE q.verb = "cancel"
    <3>1. Target[q.verb] = "cancelled"
      BY <2>6 DEF Target
    <3>2. status[o] \in {"pending_shop", "accepted"}
      BY <2>2, <3>1 DEF Allowed
    <3>3. status[o] # "pending_shop"
      BY <1>1, <2>1 DEF Former
    <3>. QED
      BY <2>6, <3>2, <3>3
  <2>. QED
    BY <1>3, <2>3, <2>4, <2>5, <2>6
<1>4. ASSUME q.verb = "ready", Ready(o)
      PROVE  status[o] = "out_for_delivery"
  <2>1. i = 0 /\ q.seen # status[o] /\ q.seen = "preparing"
    BY <1>1, <1>4 DEF RiderVerb, MadeOver
  <2>2. status[o] \in OrderStatus /\ "ready_for_pickup" \in Allowed[status[o]]
    BY <1>2, <1>4 DEF Ready, CanTransition
  <2>. QED
    BY <2>1, <2>2 DEF Allowed
<1>5. ASSUME NEW r, NEW to \in {"picked_up", "delivered", "failed"}, MayMove(r, o, i, to)
      PROVE  /\ leg[o][i] \in DeliveryStatus /\ to \in DeliveryAllowed[leg[o][i]]
             /\ i # 0 /\ leg[o][i] # q.seen
  <2>1. i \in Rows(o) /\ to \in DeliveryAllowed[leg[o][i]]
    BY <1>5 DEF MayMove
  <2>2. leg[o][i] \in DeliveryStatus /\ i # 0
    BY <2>1, RowsAndRiders
  <2>. QED
    BY <1>1, <2>1, <2>2
<1>6. ~(q.verb = "pick" /\ PickUp(courier[o][i], o, i))
  <2>1. SUFFICES ASSUME q.verb = "pick", MayMove(courier[o][i], o, i, "picked_up") PROVE FALSE
    BY DEF PickUp
  <2>2. q.seen = "assigned"
    BY <1>1, <2>1 DEF MadeOver
  <2>. QED
    BY <1>5, <2>1, <2>2 DEF DeliveryAllowed
<1>7. ~(q.verb = "complete" /\ Complete(courier[o][i], o, i))
  <2>1. SUFFICES ASSUME q.verb = "complete", MayMove(courier[o][i], o, i, "delivered") PROVE FALSE
    BY DEF Complete
  <2>2. q.seen = "picked_up"
    BY <1>1, <2>1 DEF MadeOver
  <2>. QED
    BY <1>5, <2>1, <2>2 DEF DeliveryAllowed
<1>8. ~(q.verb = "fail" /\ Fail(courier[o][i], o, i))
  <2>1. SUFFICES ASSUME q.verb = "fail", MayMove(courier[o][i], o, i, "failed") PROVE FALSE
    BY DEF Fail
  <2>2. q.seen # "assigned"
    BY <1>1, <2>1 DEF MadeOver
  <2>3. leg[o][i] \in {"assigned", "picked_up"} /\ i # 0 /\ leg[o][i] # q.seen
    BY <1>5, <2>1 DEF DeliveryAllowed, DeliveryStatus
  <2>. QED
    BY <1>1, <2>2, <2>3 DEF Former
<1>. QED
  BY <1>3, <1>4, <1>6, <1>7, <1>8 DEF Effect

\* A request that takes effect in a step that changes a status is the one whose
\* handler the step is.
LEMMA TheEffect ==
    ASSUME PagesTypeOK, [WBNext]_allVars, <<status, leg>>' # <<status, leg>>,
           NEW q, TakesEffect(q)
    PROVE  Effect(q)
<1>. USE DEF TakesEffect
<1>1. call \in [Tab -> Call]
  BY DEF PagesTypeOK
<1>2. ~UNCHANGED vars
  BY DEF vars
<1>3. CASE Elsewhere
  BY <1>3 DEF Elsewhere, pages
<1>4. ASSUME NEW p \in late, ServeLate(p) PROVE Effect(q)
  <2>1. late' = late \ {p} /\ call' = call /\ Effect(p)
    BY <1>2, <1>4 DEF ServeLate
  <2>. QED
    BY <2>1
<1>5. ASSUME NEW t \in Tab, Serve(t) PROVE Effect(q)
  <2>1. late' = late /\ Effect(Req(t)) /\ \A u \in Tab \ {t} : call'[u] = call[u]
    BY <1>1, <1>2, <1>5 DEF Serve, Answered
  <2>. QED
    BY <2>1
<1>6. CASE UNCHANGED vars
  BY <1>2, <1>6
<1>. QED
  BY <1>3, <1>4, <1>5, <1>6
     DEF WBNext, allVars, Open, AskFirst, Dismiss, Press, GiveUp, Answer, Refresh

\* A request made over an outdated page, or repeated after the page gave it up,
\* takes effect only as the cancellation of an order accepted meanwhile or as a
\* call-back of one that is out: no outdated tap of a rider does anything.
THEOREM StaleActionsAreHarmless == WBSpec => StaleActionOnlyCancelsOrCallsBack
<1>1. TypeOK /\ Stories /\ DeskInv /\ [WBNext]_allVars =>
        [<<status, leg>>' # <<status, leg>> =>
            \A q \in InFlight :
                TakesEffect(q) /\ q.seen # Truth(q.order, q.row) =>
                    <<q.verb, status[q.order]>> \in {<<"cancel", "accepted">>,
                                                    <<"ready", "out_for_delivery">>}]_allVars
  <2>. SUFFICES ASSUME TypeOK, Stories, DeskInv, [WBNext]_allVars,
                       <<status, leg>>' # <<status, leg>>, NEW q \in InFlight,
                       TakesEffect(q), q.seen # Truth(q.order, q.row)
                PROVE  <<q.verb, status[q.order]>> \in {<<"cancel", "accepted">>,
                                                       <<"ready", "out_for_delivery">>}
    OBVIOUS
  <2>1. PagesTypeOK /\ RequestFits(q)
    BY DEF DeskInv
  <2>2. q.order \in OrderId /\ q.verb \in Verb
    BY <2>1, FlightOrders
  <2>3. Effect(q)
    BY <2>1, TheEffect
  <2>. QED
    BY <2>1, <2>2, <2>3, StaleEffect
<1>. QED
  BY <1>1, WBInvariants, PTL DEF WBSpec, StaleActionOnlyCancelsOrCallsBack

\* Why the server refuses a request whose page shows the truth.
LEMMA RefusedRequest ==
    ASSUME TypeOK, Stories, NEW q, q.order \in OrderId, q.verb \in Verb, RequestFits(q),
           Illegal(q), q.seen = Truth(q.order, q.row)
    PROVE  \/ q.verb \in {"reject", "fail"} /\ \A role : <<role, q.seen, q.verb>> \notin Dialogs
           \/ q.verb = "complete" /\ status[q.order] = "ready_for_pickup"
<1>. DEFINE o == q.order
            i == q.row
<1>1. /\ Former(o, i, q.seen) /\ q.seen \in MadeOver(q.verb)
      /\ q.verb \in RiderVerb <=> i # 0
      /\ i = 0 => q.seen = status[o]
      /\ i # 0 => q.seen = leg[o][i]
  BY DEF RequestFits, Truth
<1>2. CASE q.verb \notin RiderVerb
  <2>1. i = 0 /\ status[o] \in OrderStatus /\ Target[q.verb] \notin Allowed[status[o]]
    BY <1>1, <1>2 DEF Illegal, CanTransition, Former
  <2>2. q.verb # "accept"
    BY <1>1, <2>1 DEF MadeOver, Target, Allowed
  <2>3. q.verb # "preparing"
    BY <1>1, <2>1 DEF MadeOver, Target, Allowed
  <2>4. q.verb # "ready"
    BY <1>1, <2>1 DEF MadeOver, Target, Allowed
  <2>5. q.verb # "cancel"
    <3>1. q.verb = "cancel" => q.seen \in {"pending_shop", "accepted"} /\ Target[q.verb] = "cancelled"
      BY <1>1 DEF MadeOver, Target
    <3>. QED
      BY <1>1, <2>1, <3>1 DEF Allowed
  <2>6. q.verb = "reject"
    BY <1>2, <2>2, <2>3, <2>4, <2>5 DEF Verb, ShopVerb
  <2>7. q.seen # "pending_shop"
    <3>1. Target[q.verb] = "rejected"
      BY <2>6 DEF Target
    <3>. QED
      BY <1>1, <2>1, <3>1 DEF Allowed
  <2>. QED
    BY <2>6, <2>7 DEF Dialogs
<1>3. CASE q.verb \in RiderVerb
  <2>1. /\ i # 0 /\ i \in Rows(o) /\ leg[o][i] \in DeliveryStatus /\ q.seen = leg[o][i]
        /\ \/ Target[q.verb] \notin DeliveryAllowed[leg[o][i]]
           \/ q.verb = "pick" /\ status[o] # "ready_for_pickup"
           \/ q.verb = "complete" /\ status[o] # "out_for_delivery"
    BY <1>1, <1>3 DEF Illegal, MayMove, Former
  <2>2. RowFitsOrder
    BY StoriesAreTheInvariants
  <2>3. q.verb # "pick"
    <3>1. q.verb = "pick" => leg[o][i] = "assigned" /\ Target[q.verb] = "picked_up"
      BY <1>1, <2>1 DEF MadeOver, Target
    <3>. QED
      BY <2>1, <2>2, <3>1 DEF DeliveryAllowed, RowFitsOrder
  <2>4. CASE q.verb = "complete"
    <3>1. leg[o][i] = "picked_up" /\ Target[q.verb] = "delivered"
      BY <1>1, <2>1, <2>4 DEF MadeOver, Target
    <3>2. status[o] # "out_for_delivery"
      BY <2>1, <2>4, <3>1 DEF DeliveryAllowed
    <3>. QED
      BY <2>1, <2>2, <2>4, <3>1, <3>2 DEF RowFitsOrder
  <2>5. CASE q.verb = "fail"
    <3>1. Target[q.verb] = "failed"
      BY <2>5 DEF Target
    <3>2. leg[o][i] \notin {"assigned", "picked_up"}
      BY <2>1, <2>5, <3>1 DEF DeliveryAllowed
    <3>. QED
      BY <2>1, <2>5, <3>2 DEF Dialogs
  <2>. QED
    BY <1>3, <2>3, <2>4, <2>5 DEF RiderVerb
<1>. QED
  BY <1>2, <1>3

\* The answer 409 to a tab that is waiting comes from the server's own table.
LEMMA TheRefusal ==
    ASSUME PagesTypeOK, [WBNext]_allVars, NEW t \in Tab, call[t].state = "sent",
           call'[t].state = "illegal"
    PROVE  Illegal(Req(t))
<1>1. call \in [Tab -> Call] /\ call' # call
  BY DEF PagesTypeOK
<1>2. ASSUME NEW u \in Tab, Serve(u) PROVE Illegal(Req(t))
  <2>1. u = t
    BY <1>1, <1>2 DEF Serve, Answered
  <2>2. ~Answered(t, "ok")
    BY <1>1 DEF Answered, Idle
  <2>. QED
    BY <1>2, <2>1, <2>2 DEF Serve
<1>3. ASSUME NEW u \in Tab, GiveUp(u) \/ Answer(u) PROVE FALSE
  BY <1>1, <1>3 DEF GiveUp, Answer, Idle
<1>4. ASSUME NEW u \in Tab, NEW verb \in Verb, Press(u, verb) PROVE FALSE
  BY <1>1, <1>4 DEF Press
<1>. QED
  BY <1>1, <1>2, <1>3, <1>4
     DEF WBNext, allVars, pages, Elsewhere, ServeLate, Open, AskFirst, Dismiss, Refresh

\* A page that shows the truth is refused only from a dialog that was left open
\* over a status that has none, or when a rider delivers an order called back.
THEOREM RefusalsHaveReasons == WBSpec => RefusedForAReason
<1>1. TypeOK /\ Stories /\ DeskInv /\ [WBNext]_allVars =>
        [\A t \in Tab :
          LET v == view[t]  c == call[t] IN
          call[t].state' = "illegal" /\ c.state = "sent" /\ c.seen = Truth(v.order, v.row) =>
              \/ c.verb \in {"reject", "fail"} /\ <<v.role, c.seen, c.verb>> \notin Dialogs
              \/ c.verb = "complete" /\ status[v.order] = "ready_for_pickup"]_allVars
  <2>. SUFFICES ASSUME TypeOK, Stories, DeskInv, [WBNext]_allVars, NEW t \in Tab,
                       call'[t].state = "illegal", call[t].state = "sent",
                       call[t].seen = Truth(view[t].order, view[t].row)
                PROVE  \/ /\ call[t].verb \in {"reject", "fail"}
                          /\ <<view[t].role, call[t].seen, call[t].verb>> \notin Dialogs
                       \/ call[t].verb = "complete" /\ status[view[t].order] = "ready_for_pickup"
    OBVIOUS
  <2>. DEFINE q == Req(t)
  <2>1. PagesTypeOK /\ RequestFits(q)
    BY DEF DeskInv, InFlight
  <2>2. /\ q.order \in OrderId /\ q.verb \in Verb
        /\ q.order = view[t].order /\ q.row = view[t].row
        /\ q.verb = call[t].verb /\ q.seen = call[t].seen
    BY <2>1, FlightTypes DEF Req
  <2>3. Illegal(q)
    BY <2>1, TheRefusal
  <2>. HIDE DEF q
  <2>4. q.seen = Truth(q.order, q.row)
    BY <2>2
  <2>5. \/ q.verb \in {"reject", "fail"} /\ \A role : <<role, q.seen, q.verb>> \notin Dialogs
        \/ q.verb = "complete" /\ status[q.order] = "ready_for_pickup"
    BY <2>1, <2>2, <2>3, <2>4, RefusedRequest
  <2>. QED
    BY <2>2, <2>5
<1>. QED
  BY <1>1, WBInvariants, PTL DEF WBSpec, RefusedForAReason
=============================================================================
