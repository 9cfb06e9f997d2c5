----------------------------- MODULE Workbench -----------------------------
(***************************************************************************)
(* The order page of a shop, the order page of a customer and the delivery *)
(* card of a rider, each in a browser tab, over the server of Dispatch.  A *)
(* page shows the status it was rendered with and offers the buttons of    *)
(* that status; the server serves a request when it gets to it, perhaps    *)
(* after the browser gave it up.  A tab has one request in flight.         *)
(***************************************************************************)
EXTENDS Dispatch

CONSTANTS Tab,
          MaxLate  \* bound: given-up requests the server has yet to serve

ASSUME WorkbenchAssumption == OrderId # {} /\ MaxLate \in Nat

VARIABLES
    view,  \* [Tab -> Page]
    call,  \* [Tab -> Call] the page's request: busy, what it sent, the answer
    due,   \* [Tab -> BOOLEAN] router.refresh() was called, or its timer runs
    late   \* requests the browser gave up and the server may still serve

pages == <<view, call, due, late>>

allVars == <<vars, pages>>

-----------------------------------------------------------------------------
ShopVerb == {"accept", "reject", "preparing", "ready"}
RiderVerb == {"pick", "complete", "fail"}
Verb == ShopVerb \cup RiderVerb \cup {"cancel"}

PageStatus == OrderStatus \cup DeliveryStatus

\* A request, with the status its page showed when the button was pressed.
\* Row 0 stands for the order itself.
Request == [verb : Verb, order : OrderId, row : 0..MaxAttempts, seen : PageStatus]

Page == [role : {"none", "shop", "customer", "rider"}, order : OrderId,
         row : 0..MaxAttempts, shown : PageStatus \cup {NoStatus}, asked : BOOLEAN]

Call == [state : {"idle", "sent", "ok", "illegal"},
         verb : Verb \cup {"none"}, seen : PageStatus \cup {NoStatus}]

Blank == [role |-> "none", order |-> CHOOSE o \in OrderId : TRUE,
          row |-> 0, shown |-> NoStatus, asked |-> FALSE]

Idle == [state |-> "idle", verb |-> "none", seen |-> NoStatus]

\* The status a page about row i of o (or o itself) is rendered with.
Truth(o, i) == IF i = 0 THEN status[o] ELSE leg[o][i]

Req(t) == [verb |-> call[t].verb, order |-> view[t].order,
           row |-> view[t].row, seen |-> call[t].seen]

InFlight == {Req(t) : t \in {u \in Tab : call[u].state = "sent"}} \cup late

-----------------------------------------------------------------------------
(* What a page offers. *)

\* Mutant: an order can be marked as preparing before it was accepted.
ButtonsWithoutAccept ==
    {<<"shop", "pending_shop", "preparing">>, <<"shop", "accepted", "preparing">>,
     <<"shop", "preparing", "ready">>,
     <<"rider", "assigned", "pick">>, <<"rider", "picked_up", "complete">>}

\* Buttons that send their request at once.
Buttons ==
    {<<"shop", "pending_shop", "accept">>, <<"shop", "accepted", "preparing">>,
     <<"shop", "preparing", "ready">>,
     <<"rider", "assigned", "pick">>, <<"rider", "picked_up", "complete">>}

\* Mutant: a rider may give a delivery back before the pickup.
DialogsForAssigned ==
    {<<"shop", "pending_shop", "reject">>,
     <<"customer", "pending_shop", "cancel">>, <<"customer", "accepted", "cancel">>,
     <<"rider", "assigned", "fail">>, <<"rider", "picked_up", "fail">>}

\* Buttons that open a dialog first.
Dialogs ==
    {<<"shop", "pending_shop", "reject">>,
     <<"customer", "pending_shop", "cancel">>, <<"customer", "accepted", "cancel">>,
     <<"rider", "picked_up", "fail">>}

\* Reject and failure dialogs are rendered whatever the status has become;
\* the cancel dialog disappears with its button.
Confirms(v, verb) ==
    /\ v.asked
    /\ \E s \in PageStatus : <<v.role, s, verb>> \in Dialogs
    /\ v.role = "customer" => <<v.role, v.shown, verb>> \in Dialogs

Offers(v, verb) == <<v.role, v.shown, verb>> \in Buttons \/ Confirms(v, verb)

-----------------------------------------------------------------------------
(* What the server does with a request. *)

Target == [accept |-> "accepted", reject |-> "rejected", preparing |-> "preparing",
           ready |-> "ready_for_pickup", cancel |-> "cancelled",
           pick |-> "picked_up", complete |-> "delivered", fail |-> "failed"]

Effect(q) ==
    LET o == q.order  i == q.row IN
    \/ q.verb \in {"accept", "reject", "preparing", "cancel"} /\ Transition(o, Target[q.verb])
    \/ q.verb = "ready" /\ Ready(o)
    \/ q.verb = "pick" /\ PickUp(courier[o][i], o, i)
    \/ q.verb = "complete" /\ Complete(courier[o][i], o, i)
    \/ q.verb = "fail" /\ Fail(courier[o][i], o, i)

\* 409 illegal_state_transition.
Illegal(q) ==
    IF q.verb \in RiderVerb
    THEN \/ ~MayMove(courier[q.order][q.row], q.order, q.row, Target[q.verb])
         \/ q.verb = "pick" /\ status[q.order] # "ready_for_pickup"
         \/ q.verb = "complete" /\ status[q.order] # "out_for_delivery"
    ELSE ~CanTransition(status[q.order], Target[q.verb])

-----------------------------------------------------------------------------
WBInit ==
    /\ Init
    /\ view = [t \in Tab |-> Blank]
    /\ call = [t \in Tab |-> Idle]
    /\ due = [t \in Tab |-> FALSE]
    /\ late = {}

\* Mutant: another page takes over the request that is in flight.
OpenWhileBusy(t, role, o, i) ==
    /\ status[o] # NoStatus
    /\ IF role = "rider" THEN i \in Rows(o) ELSE i = 0
    /\ view' = [view EXCEPT ![t] = [role |-> role, order |-> o, row |-> i,
                                    shown |-> Truth(o, i), asked |-> FALSE]]
    /\ UNCHANGED <<vars, call, due, late>>

\* A page is loaded; a rider finds the rows of the own deliveries.
Open(t, role, o, i) ==
    /\ call[t].state = "idle"
    /\ status[o] # NoStatus
    /\ IF role = "rider" THEN i \in Rows(o) ELSE i = 0
    /\ view' = [view EXCEPT ![t] = [role |-> role, order |-> o, row |-> i,
                                    shown |-> Truth(o, i), asked |-> FALSE]]
    /\ UNCHANGED <<vars, call, due, late>>

AskFirst(t) ==
    /\ call[t].state = "idle"
    /\ ~view[t].asked
    /\ \E verb \in Verb : <<view[t].role, view[t].shown, verb>> \in Dialogs
    /\ view' = [view EXCEPT ![t].asked = TRUE]
    /\ UNCHANGED <<vars, call, due, late>>

Dismiss(t) ==
    /\ call[t].state = "idle"
    /\ \E verb \in Verb : Confirms(view[t], verb)
    /\ view' = [view EXCEPT ![t].asked = FALSE]
    /\ UNCHANGED <<vars, call, due, late>>

Press(t, verb) ==
    /\ call[t].state = "idle"
    /\ Offers(view[t], verb)
    /\ call' = [call EXCEPT ![t] = [state |-> "sent", verb |-> verb, seen |-> view[t].shown]]
    /\ UNCHANGED <<vars, view, due, late>>

Answered(t, s) == call' = [call EXCEPT ![t] = [Idle EXCEPT !.state = s]]

Serve(t) ==
    /\ call[t].state = "sent"
    /\ \/ Effect(Req(t)) /\ Answered(t, "ok")
       \/ Illegal(Req(t)) /\ Answered(t, "illegal") /\ UNCHANGED vars
    /\ UNCHANGED <<view, due, late>>

\* run()'s other errors leave the page as it is: an answer that is neither
\* success nor that 409 (session, rate limit, `ready` raising over two rows), a
\* dropped connection, or 15 seconds.  The proxy does not pass an abort on, so a
\* request that reached it is served all the same.
GiveUp(t) ==
    /\ call[t].state # "idle"
    /\ call' = [call EXCEPT ![t] = Idle]
    /\ \/ late' = late
       \/ /\ call[t].state = "sent"
          /\ Cardinality(late) < MaxLate
          /\ late' = late \cup {Req(t)}
    /\ UNCHANGED <<vars, view, due>>

ServeLate(q) ==
    /\ q \in late
    /\ Effect(q) \/ UNCHANGED vars
    /\ late' = late \ {q}
    /\ UNCHANGED <<view, call, due>>

\* The rest of run() and cancel(): success closes the dialog and refreshes, a
\* 409 refreshes and closes the cancel dialog only.
Answer(t) ==
    /\ call[t].state \in {"ok", "illegal"}
    /\ call' = [call EXCEPT ![t] = Idle]
    /\ due' = [due EXCEPT ![t] = TRUE]
    /\ view' = [view EXCEPT ![t].asked =
                    /\ @
                    /\ call[t].state # "ok"
                    /\ call[t].state = "illegal" => view[t].role # "customer"]
    /\ UNCHANGED <<vars, late>>

Refresh(t) ==
    /\ due[t]
    /\ due' = [due EXCEPT ![t] = FALSE]
    /\ view' = [view EXCEPT ![t].shown = Truth(view[t].order, view[t].row)]
    /\ UNCHANGED <<vars, call, late>>

\* Checkout and the availability card.
Elsewhere ==
    /\ \/ \E o \in OrderId : CreateOrder(o)
       \/ \E r \in Rider : GoOnline(r) \/ GoOffline(r)
    /\ UNCHANGED pages

WBNext ==
    \/ Elsewhere
    \/ \E q \in late : ServeLate(q)
    \/ \E t \in Tab :
          \/ \E role \in {"shop", "customer", "rider"}, o \in OrderId, i \in 0..MaxAttempts :
                Open(t, role, o, i)
          \/ AskFirst(t) \/ Dismiss(t)
          \/ \E verb \in Verb : Press(t, verb)
          \/ Serve(t) \/ GiveUp(t) \/ Answer(t) \/ Refresh(t)

WBSpec == WBInit /\ [][WBNext]_allVars

-----------------------------------------------------------------------------
(* Properties *)

\* Pages, calls and given-up requests have their types, and a request in flight
\* is one the page it will answer to can make.
PagesTypeOK ==
    /\ view \in [Tab -> Page]
    /\ call \in [Tab -> Call]
    /\ due \in [Tab -> BOOLEAN]
    /\ late \subseteq Request
    /\ \A t \in Tab :
          /\ call[t].state = "sent" <=> call[t].verb # "none"
          /\ call[t].verb \in RiderVerb <=> view[t].role = "rider" /\ call[t].state = "sent"
          /\ call[t].verb \in ShopVerb <=> view[t].role = "shop" /\ call[t].state = "sent"

\* The server carries q out in this step, which changes a status.
TakesEffect(q) ==
    \/ q \in late /\ q \notin late'
    \/ \E t \in Tab : call[t].state = "sent" /\ call[t].state' = "ok" /\ q = Req(t)

\* A request that finds its order or delivery moved on since the page was
\* rendered (another tab, another person, or a retry after the page gave up the
\* first request) takes effect in two cases only: an order that was accepted
\* meanwhile is cancelled, and one that is out for delivery is called back to
\* "ready for pickup".  In particular no outdated tap of a rider does anything.
StaleActionOnlyCancelsOrCallsBack ==
    [][<<status, leg>>' # <<status, leg>> =>
          \A q \in InFlight :
              TakesEffect(q) /\ q.seen # Truth(q.order, q.row) =>
                  <<q.verb, status[q.order]>> \in {<<"cancel", "accepted">>,
                                                  <<"ready", "out_for_delivery">>}]_allVars

\* The buttons offered match the allowed transitions (OrderActions.tsx:15-16,
\* DeliveryActions.tsx:15): a request made on a page that shows the truth is
\* refused only from a dialog left open over a status that has none, or when a
\* rider delivers an order that its shop called back.
RefusedForAReason ==
    [][\A t \in Tab :
          LET v == view[t]  c == call[t] IN
          call[t].state' = "illegal" /\ c.state = "sent" /\ c.seen = Truth(v.order, v.row) =>
              \/ c.verb \in {"reject", "fail"} /\ <<v.role, c.seen, c.verb>> \notin Dialogs
              \/ c.verb = "complete" /\ status[v.order] = "ready_for_pickup"]_allVars
=============================================================================
