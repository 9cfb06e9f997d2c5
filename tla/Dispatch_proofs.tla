-------------------------- MODULE Dispatch_proofs --------------------------
(***************************************************************************)
(* Machine-checked theorems about Dispatch for every set of orders and     *)
(* riders and every bound on the delivery rows of an order: what rows there*)
(* are, and that Dispatch implements ParcelCustody.                        *)
(***************************************************************************)
EXTENDS Dispatch, SequenceTheorems, TLAPS

-----------------------------------------------------------------------------
(* Types *)

\* The two ways a row's status is overwritten and a row is added keep a column typed.
LEMMA LegColumn ==
    ASSUME NEW l \in Seq(DeliveryStatus), NEW i \in DOMAIN l, NEW to \in DeliveryStatus
    PROVE  /\ [l EXCEPT ![i] = to] \in Seq(DeliveryStatus)
           /\ Len([l EXCEPT ![i] = to]) = Len(l)
           /\ DOMAIN [l EXCEPT ![i] = to] = DOMAIN l
           /\ \A j \in DOMAIN l : [l EXCEPT ![i] = to][j] = IF j = i THEN to ELSE l[j]
<1>1. DOMAIN l = 1..Len(l)
  OBVIOUS
<1>2. [l EXCEPT ![i] = to] \in Seq(DeliveryStatus) /\ Len([l EXCEPT ![i] = to]) = Len(l)
  BY <1>1, ExceptSeq
<1>. QED
  BY <1>1, <1>2

LEMMA AppendColumn ==
    ASSUME NEW S, NEW l \in Seq(S), NEW x \in S
    PROVE  /\ Append(l, x) \in Seq(S)
           /\ Len(Append(l, x)) = Len(l) + 1
           /\ DOMAIN l = 1..Len(l)
           /\ DOMAIN Append(l, x) = 1..(Len(l) + 1)
           /\ \A j \in DOMAIN l : Append(l, x)[j] = l[j]
           /\ Append(l, x)[Len(l) + 1] = x
OBVIOUS

LEMMA SetLegTypes ==
    ASSUME TypeOK, NEW o \in OrderId, NEW i \in Rows(o), NEW to \in DeliveryStatus,
           SetLeg(o, i, to)
    PROVE  /\ leg' \in [OrderId -> Seq(DeliveryStatus)]
           /\ \A q \in OrderId : Len(leg'[q]) = Len(leg[q])
<1>1. leg[o] \in Seq(DeliveryStatus)
  BY DEF TypeOK
<1>2. [leg[o] EXCEPT ![i] = to] \in Seq(DeliveryStatus)
      /\ Len([leg[o] EXCEPT ![i] = to]) = Len(leg[o])
  BY <1>1, LegColumn DEF Rows
<1>. QED
  BY <1>2 DEF SetLeg, TypeOK

LEMMA HandOutTypes ==
    ASSUME TypeOK, NEW S, NEW k \in Rider, HandOut(S, k)
    PROVE  /\ courier' \in [OrderId -> Seq(Rider)]
           /\ leg' \in [OrderId -> Seq(DeliveryStatus)]
           /\ \A q \in OrderId : Len(courier'[q]) = Len(leg'[q])
<1>1. \A q \in OrderId : /\ Append(courier[q], k) \in Seq(Rider)
                         /\ Len(Append(courier[q], k)) = Len(courier[q]) + 1
                         /\ Append(leg[q], "assigned") \in Seq(DeliveryStatus)
                         /\ Len(Append(leg[q], "assigned")) = Len(leg[q]) + 1
  <2>. SUFFICES ASSUME NEW q \in OrderId
                PROVE  /\ Append(courier[q], k) \in Seq(Rider)
                       /\ Len(Append(courier[q], k)) = Len(courier[q]) + 1
                       /\ Append(leg[q], "assigned") \in Seq(DeliveryStatus)
                       /\ Len(Append(leg[q], "assigned")) = Len(leg[q]) + 1
    OBVIOUS
  <2>1. courier[q] \in Seq(Rider) /\ leg[q] \in Seq(DeliveryStatus)
        /\ "assigned" \in DeliveryStatus
    BY DEF TypeOK, DeliveryStatus
  <2>. QED
    BY <2>1, AppendColumn
<1>. QED
  BY <1>1 DEF HandOut, TypeOK

LEMMA FailAndReassignTypes ==
    ASSUME TypeOK, NEW o \in OrderId, NEW i \in Rows(o), NEW k \in Rider,
           FailAndReassign(o, i, k)
    PROVE  /\ courier' \in [OrderId -> Seq(Rider)]
           /\ leg' \in [OrderId -> Seq(DeliveryStatus)]
           /\ \A q \in OrderId : Len(courier'[q]) = Len(leg'[q])
<1>1. /\ leg[o] \in Seq(DeliveryStatus) /\ courier[o] \in Seq(Rider)
      /\ "failed" \in DeliveryStatus /\ "assigned" \in DeliveryStatus
  BY DEF TypeOK, DeliveryStatus
<1>2. /\ [leg[o] EXCEPT ![i] = "failed"] \in Seq(DeliveryStatus)
      /\ Len([leg[o] EXCEPT ![i] = "failed"]) = Len(leg[o])
  BY <1>1, LegColumn DEF Rows
<1>3. /\ Append([leg[o] EXCEPT ![i] = "failed"], "assigned") \in Seq(DeliveryStatus)
      /\ Len(Append([leg[o] EXCEPT ![i] = "failed"], "assigned")) = Len(leg[o]) + 1
  BY <1>1, <1>2, AppendColumn
<1>4. Append(courier[o], k) \in Seq(Rider) /\ Len(Append(courier[o], k)) = Len(courier[o]) + 1
  BY <1>1, AppendColumn
<1>. QED
  BY <1>3, <1>4 DEF FailAndReassign, TypeOK

LEMMA InitTypeOK == Init => TypeOK
BY DEF Init, TypeOK

LEMMA MoveTypes ==
    ASSUME TypeOK, NEW o \in OrderId, NEW target \in OrderStatus, Move(o, target)
    PROVE  /\ status' \in [OrderId -> OrderStatus \cup {NoStatus}]
           /\ status'[o] = target
           /\ \A q \in OrderId \ {o} : status'[q] = status[q]
BY DEF Move, TypeOK

\* Each action leaves every column typed.
LEMMA NextTypeOK == TypeOK /\ [Next]_vars => TypeOK'
<1>. SUFFICES ASSUME TypeOK, [Next]_vars
              PROVE  TypeOK'
  OBVIOUS
<1>1. ASSUME NEW o \in OrderId, CreateOrder(o)
      PROVE  TypeOK'
  BY <1>1 DEF CreateOrder, Move, TypeOK, OrderStatus
<1>2. ASSUME NEW o \in OrderId, Ready(o)
      PROVE  TypeOK'
  <2>1. status' \in [OrderId -> OrderStatus \cup {NoStatus}] /\ online' = online
    BY <1>2, MoveTypes DEF Ready, OrderStatus
  <2>2. CASE HasActive(o) \/ online = {}
    BY <1>2, <2>1, <2>2 DEF Ready, TypeOK
  <2>3. CASE ~(HasActive(o) \/ online = {})
    <3>1. PICK k \in Rider : HandOut({o}, k)
      BY <1>2, <2>3 DEF Ready
    <3>. QED
      BY <2>1, <3>1, HandOutTypes DEF TypeOK
  <2>. QED
    BY <2>2, <2>3
<1>3. ASSUME NEW o \in OrderId, NEW target \in {"accepted", "rejected", "preparing", "cancelled"},
             Transition(o, target)
      PROVE  TypeOK'
  BY <1>3 DEF Transition, Move, TypeOK, OrderStatus
<1>4. ASSUME NEW r \in Rider, GoOnline(r)
      PROVE  TypeOK'
  <2>1. PICK k \in Rider : HandOut(Waiting, k)
    BY <1>4 DEF GoOnline
  <2>2. online' \subseteq Rider /\ status' = status
    BY <1>4 DEF GoOnline, TypeOK
  <2>. QED
    BY <2>1, <2>2, HandOutTypes DEF TypeOK
<1>5. ASSUME NEW r \in Rider, GoOffline(r)
      PROVE  TypeOK'
  BY <1>5 DEF GoOffline, TypeOK
<1>6. ASSUME NEW r \in Rider, NEW o \in OrderId, NEW i \in 1..MaxAttempts, PickUp(r, o, i)
      PROVE  TypeOK'
  <2>1. /\ leg' \in [OrderId -> Seq(DeliveryStatus)]
        /\ \A q \in OrderId : Len(leg'[q]) = Len(leg[q])
    BY <1>6, SetLegTypes DEF PickUp, MayMove, DeliveryStatus
  <2>2. status' \in [OrderId -> OrderStatus \cup {NoStatus}]
    BY <1>6, MoveTypes DEF PickUp, OrderStatus
  <2>. QED
    BY <1>6, <2>1, <2>2 DEF PickUp, TypeOK
<1>7. ASSUME NEW r \in Rider, NEW o \in OrderId, NEW i \in 1..MaxAttempts, Complete(r, o, i)
      PROVE  TypeOK'
  <2>1. /\ leg' \in [OrderId -> Seq(DeliveryStatus)]
        /\ \A q \in OrderId : Len(leg'[q]) = Len(leg[q])
    BY <1>7, SetLegTypes DEF Complete, MayMove, DeliveryStatus
  <2>2. status' \in [OrderId -> OrderStatus \cup {NoStatus}]
    BY <1>7, MoveTypes DEF Complete, OrderStatus
  <2>. QED
    BY <1>7, <2>1, <2>2 DEF Complete, TypeOK
<1>8. ASSUME NEW r \in Rider, NEW o \in OrderId, NEW i \in 1..MaxAttempts, Fail(r, o, i)
      PROVE  TypeOK'
  <2>1. status' \in [OrderId -> OrderStatus \cup {NoStatus}] /\ online' = online
    BY <1>8 DEF Fail, Move, TypeOK, OrderStatus
  <2>2. i \in Rows(o) /\ "failed" \in DeliveryStatus
    BY <1>8 DEF Fail, MayMove, DeliveryStatus
  <2>3. CASE online \ {r} = {}
    <3>1. SetLeg(o, i, "failed") /\ courier' = courier
      BY <1>8, <2>3 DEF Fail
    <3>. QED
      BY <2>1, <2>2, <3>1, SetLegTypes DEF TypeOK
  <2>4. CASE online \ {r} # {}
    <3>1. PICK k \in Rider : FailAndReassign(o, i, k)
      BY <1>8, <2>4 DEF Fail
    <3>. QED
      BY <2>1, <2>2, <3>1, FailAndReassignTypes DEF TypeOK
  <2>. QED
    BY <2>3, <2>4
<1>9. ASSUME UNCHANGED vars
      PROVE  TypeOK'
  BY <1>9 DEF vars, TypeOK
<1>. QED
  BY <1>1, <1>2, <1>3, <1>4, <1>5, <1>6, <1>7, <1>8, <1>9 DEF Next, ShopNext, RiderNext

\* Riders, statuses and delivery rows stay well-typed, whatever the handlers do.
THEOREM TypeCorrect == Spec => []TypeOK
BY InitTypeOK, NextTypeOK, PTL DEF Spec

-----------------------------------------------------------------------------
(* One order's rows and its status *)

\* What OneLiveRow, RowFitsOrder and OrderHasItsRow say of one order: its column
\* of row statuses l fits its own status s.
Story(l, s) ==
    /\ \A i, j \in DOMAIN l : l[i] # "failed" /\ l[j] # "failed" => i = j
    /\ \A i \in DOMAIN l :
          /\ l[i] = "assigned" => s = "ready_for_pickup"
          /\ l[i] = "picked_up" => s \in {"ready_for_pickup", "out_for_delivery"}
          /\ l[i] = "delivered" => s = "delivered"
    /\ s = "out_for_delivery" => \E i \in DOMAIN l : l[i] = "picked_up"
    /\ s = "delivered" => \E i \in DOMAIN l : l[i] = "delivered"

Stories == \A o \in OrderId : Story(leg[o], status[o])

LEMMA StoriesAreTheInvariants ==
    Stories <=> OneLiveRow /\ RowFitsOrder /\ OrderHasItsRow
BY DEF Stories, Story, OneLiveRow, RowFitsOrder, OrderHasItsRow, Rows

\* A new row joins rows that are all finished, of an order that waits.
LEMMA StoryAssign ==
    ASSUME NEW l \in Seq(DeliveryStatus), NEW s, Story(l, s),
           s \in {"preparing", "ready_for_pickup", "out_for_delivery"},
           \A i \in DOMAIN l : l[i] \notin ActiveStatuses
    PROVE  Story(Append(l, "assigned"), "ready_for_pickup")
<1>1. \A i \in DOMAIN l : l[i] = "failed"
  <2>1. \A i \in DOMAIN l : l[i] \in DeliveryStatus
    OBVIOUS
  <2>. QED
    BY <2>1 DEF Story, DeliveryStatus, ActiveStatuses
<1>2. "assigned" \in DeliveryStatus
  BY DEF DeliveryStatus
<1>3. /\ DOMAIN l = 1..Len(l) /\ DOMAIN Append(l, "assigned") = 1..(Len(l) + 1)
      /\ \A j \in DOMAIN l : Append(l, "assigned")[j] = l[j]
      /\ Append(l, "assigned")[Len(l) + 1] = "assigned"
  BY <1>2, AppendColumn
<1>4. \A j \in 1..(Len(l) + 1) : j # Len(l) + 1 => j \in 1..Len(l)
  OBVIOUS
<1>. QED
  BY <1>1, <1>3, <1>4 DEF Story

\* The assigned row is picked up.
LEMMA StoryPickUp ==
    ASSUME NEW l \in Seq(DeliveryStatus), NEW i \in DOMAIN l, Story(l, "ready_for_pickup"),
           l[i] = "assigned"
    PROVE  Story([l EXCEPT ![i] = "picked_up"], "out_for_delivery")
<1>1. "picked_up" \in DeliveryStatus
  BY DEF DeliveryStatus
<1>2. /\ DOMAIN [l EXCEPT ![i] = "picked_up"] = DOMAIN l
      /\ \A j \in DOMAIN l : [l EXCEPT ![i] = "picked_up"][j] = IF j = i THEN "picked_up" ELSE l[j]
  BY <1>1, LegColumn
<1>3. \A j \in DOMAIN l : j # i => l[j] = "failed"
  BY DEF Story
<1>. QED
  BY <1>2, <1>3 DEF Story

\* The picked-up row is delivered.
LEMMA StoryComplete ==
    ASSUME NEW l \in Seq(DeliveryStatus), NEW i \in DOMAIN l, Story(l, "out_for_delivery"),
           l[i] = "picked_up"
    PROVE  Story([l EXCEPT ![i] = "delivered"], "delivered")
<1>1. "delivered" \in DeliveryStatus
  BY DEF DeliveryStatus
<1>2. /\ DOMAIN [l EXCEPT ![i] = "delivered"] = DOMAIN l
      /\ \A j \in DOMAIN l : [l EXCEPT ![i] = "delivered"][j] = IF j = i THEN "delivered" ELSE l[j]
  BY <1>1, LegColumn
<1>3. \A j \in DOMAIN l : j # i => l[j] = "failed"
  BY DEF Story
<1>. QED
  BY <1>2, <1>3 DEF Story

\* The active row fails: every row of the order has failed and it waits again.
LEMMA StoryFail ==
    ASSUME NEW l \in Seq(DeliveryStatus), NEW i \in DOMAIN l, NEW s, Story(l, s),
           l[i] \in ActiveStatuses
    PROVE  /\ s \in {"ready_for_pickup", "out_for_delivery"}
           /\ [l EXCEPT ![i] = "failed"] \in Seq(DeliveryStatus)
           /\ \A j \in DOMAIN l : [l EXCEPT ![i] = "failed"][j] = "failed"
           /\ Story([l EXCEPT ![i] = "failed"], "ready_for_pickup")
<1>1. "failed" \in DeliveryStatus
  BY DEF DeliveryStatus
<1>2. /\ [l EXCEPT ![i] = "failed"] \in Seq(DeliveryStatus)
      /\ DOMAIN [l EXCEPT ![i] = "failed"] = DOMAIN l
      /\ \A j \in DOMAIN l : [l EXCEPT ![i] = "failed"][j] = IF j = i THEN "failed" ELSE l[j]
  BY <1>1, LegColumn
<1>3. \A j \in DOMAIN l : j # i => l[j] = "failed"
  BY DEF Story, ActiveStatuses
<1>4. s \in {"ready_for_pickup", "out_for_delivery"}
  BY DEF Story, ActiveStatuses
<1>. QED
  BY <1>2, <1>3, <1>4 DEF Story

LEMMA InitStories == Init => Stories
BY DEF Init, Stories, Story, NoStatus

\* Each action keeps the rows of every order in line with its status.
LEMMA NextStories == TypeOK /\ Stories /\ [Next]_vars => Stories'
<1>. SUFFICES ASSUME TypeOK, Stories, [Next]_vars, NEW q \in OrderId
              PROVE  Story(leg[q], status[q])'
  BY DEF Stories
<1>. DEFINE Same == leg'[q] = leg[q] /\ status'[q] = status[q]
<1>0. Story(leg[q], status[q]) /\ leg[q] \in Seq(DeliveryStatus)
  BY DEF Stories, TypeOK
<1>s. Same => Story(leg[q], status[q])'
  BY <1>0 DEF Story
<1>1. ASSUME NEW o \in OrderId, CreateOrder(o)
      PROVE  Story(leg[q], status[q])'
  BY <1>1, <1>0 DEF CreateOrder, Move, Story, NoStatus, TypeOK
<1>2. ASSUME NEW o \in OrderId, Ready(o)
      PROVE  Story(leg[q], status[q])'
  <2>1. status[o] \in {"preparing", "out_for_delivery"} /\ Move(o, "ready_for_pickup")
    BY <1>2 DEF Ready, CanTransition, Allowed, OrderStatus, TypeOK, NoStatus
  <2>2. CASE HasActive(o) \/ online = {}
    BY <1>0, <1>2, <2>1, <2>2 DEF Ready, Move, Story, TypeOK
  <2>3. CASE ~(HasActive(o) \/ online = {})
    <3>1. PICK k \in Rider : HandOut({o}, k)
      BY <1>2, <2>3 DEF Ready
    <3>2. CASE q # o
      BY <3>1, <3>2, <2>1, <1>s DEF HandOut, Move, TypeOK
    <3>3. CASE q = o
      <4>1. \A i \in DOMAIN leg[q] : leg[q][i] \notin ActiveStatuses
        BY <2>3, <3>3 DEF HasActive, IsActive, Rows
      <4>2. leg'[q] = Append(leg[q], "assigned") /\ status'[q] = "ready_for_pickup"
        BY <3>1, <3>3, <2>1 DEF HandOut, Move, TypeOK
      <4>. QED
        BY <1>0, <2>1, <3>3, <4>1, <4>2, StoryAssign
    <3>. QED
      BY <3>2, <3>3
  <2>. QED
    BY <2>2, <2>3
<1>3. ASSUME NEW o \in OrderId, NEW target \in {"accepted", "rejected", "preparing", "cancelled"},
             Transition(o, target)
      PROVE  Story(leg[q], status[q])'
  <2>1. status[o] \in {"pending_shop", "accepted"}
    BY <1>3 DEF Transition, CanTransition, Allowed, OrderStatus, TypeOK, NoStatus
  <2>2. leg' = leg /\ Move(o, target)
    BY <1>3 DEF Transition
  <2>. QED
    BY <1>0, <2>1, <2>2 DEF Move, Story, TypeOK, DeliveryStatus
<1>4. ASSUME NEW r \in Rider, GoOnline(r)
      PROVE  Story(leg[q], status[q])'
  <2>1. PICK k \in Rider : HandOut(Waiting, k)
    BY <1>4 DEF GoOnline
  <2>2. status' = status
    BY <1>4 DEF GoOnline
  <2>3. CASE q \notin Waiting
    BY <2>1, <2>2, <2>3, <1>s DEF HandOut
  <2>4. CASE q \in Waiting
    <3>1. /\ status[q] = "ready_for_pickup"
          /\ \A i \in DOMAIN leg[q] : leg[q][i] \notin ActiveStatuses
      BY <2>4 DEF Waiting, HasActive, IsActive, Rows
    <3>2. leg'[q] = Append(leg[q], "assigned")
      BY <2>1, <2>4 DEF HandOut
    <3>. QED
      BY <1>0, <2>2, <3>1, <3>2, StoryAssign
  <2>. QED
    BY <2>3, <2>4
<1>5. ASSUME NEW r \in Rider, GoOffline(r)
      PROVE  Story(leg[q], status[q])'
  BY <1>5, <1>s DEF GoOffline
<1>6. ASSUME NEW r \in Rider, NEW o \in OrderId, NEW i \in 1..MaxAttempts, PickUp(r, o, i)
      PROVE  Story(leg[q], status[q])'
  <2>1. i \in DOMAIN leg[o] /\ leg[o][i] = "assigned" /\ status[o] = "ready_for_pickup"
    <3>1. i \in DOMAIN leg[o] /\ "picked_up" \in DeliveryAllowed[leg[o][i]]
      BY <1>6 DEF PickUp, MayMove, Rows
    <3>2. leg[o][i] \in DeliveryStatus
      BY <3>1 DEF TypeOK
    <3>. QED
      BY <1>6, <3>1, <3>2 DEF PickUp, DeliveryAllowed, DeliveryStatus
  <2>2. /\ leg' = [leg EXCEPT ![o] = [leg[o] EXCEPT ![i] = "picked_up"]]
        /\ status' = [status EXCEPT ![o] = "out_for_delivery"]
    BY <1>6 DEF PickUp, SetLeg, Move
  <2>3. CASE q # o
    BY <2>2, <2>3, <1>s DEF TypeOK
  <2>4. CASE q = o
    <3>1. leg'[q] = [leg[q] EXCEPT ![i] = "picked_up"] /\ status'[q] = "out_for_delivery"
      BY <2>2, <2>4 DEF TypeOK
    <3>. QED
      BY <1>0, <2>1, <2>4, <3>1, StoryPickUp
  <2>. QED
    BY <2>3, <2>4
<1>7. ASSUME NEW r \in Rider, NEW o \in OrderId, NEW i \in 1..MaxAttempts, Complete(r, o, i)
      PROVE  Story(leg[q], status[q])'
  <2>1. i \in DOMAIN leg[o] /\ leg[o][i] = "picked_up" /\ status[o] = "out_for_delivery"
    <3>1. i \in DOMAIN leg[o] /\ "delivered" \in DeliveryAllowed[leg[o][i]]
      BY <1>7 DEF Complete, MayMove, Rows
    <3>2. leg[o][i] \in DeliveryStatus
      BY <3>1 DEF TypeOK
    <3>. QED
      BY <1>7, <3>1, <3>2 DEF Complete, DeliveryAllowed, DeliveryStatus
  <2>2. /\ leg' = [leg EXCEPT ![o] = [leg[o] EXCEPT ![i] = "delivered"]]
        /\ status' = [status EXCEPT ![o] = "delivered"]
    BY <1>7 DEF Complete, SetLeg, Move
  <2>3. CASE q # o
    BY <2>2, <2>3, <1>s DEF TypeOK
  <2>4. CASE q = o
    <3>1. leg'[q] = [leg[q] EXCEPT ![i] = "delivered"] /\ status'[q] = "delivered"
      BY <2>2, <2>4 DEF TypeOK
    <3>. QED
      BY <1>0, <2>1, <2>4, <3>1, StoryComplete
  <2>. QED
    BY <2>3, <2>4
<1>8. ASSUME NEW r \in Rider, NEW o \in OrderId, NEW i \in 1..MaxAttempts, Fail(r, o, i)
      PROVE  Story(leg[q], status[q])'
  <2>1. i \in DOMAIN leg[o] /\ leg[o][i] \in ActiveStatuses
    <3>1. i \in DOMAIN leg[o] /\ "failed" \in DeliveryAllowed[leg[o][i]]
      BY <1>8 DEF Fail, MayMove, Rows
    <3>2. leg[o][i] \in DeliveryStatus
      BY <3>1 DEF TypeOK
    <3>. QED
      BY <3>1, <3>2 DEF DeliveryAllowed, DeliveryStatus, ActiveStatuses
  <2>2. CASE q # o
    <3>1. leg'[q] = leg[q]
      BY <1>8, <2>2 DEF Fail, SetLeg, FailAndReassign, TypeOK
    <3>2. status'[q] = status[q]
      BY <1>8, <2>2 DEF Fail, Move, TypeOK
    <3>. QED
      BY <3>1, <3>2, <1>s
  <2>3. CASE q = o
    <3>. DEFINE l == [leg[q] EXCEPT ![i] = "failed"]
    <3>1. /\ status[q] \in {"ready_for_pickup", "out_for_delivery"}
          /\ l \in Seq(DeliveryStatus)
          /\ \A j \in DOMAIN leg[q] : l[j] = "failed"
          /\ Story(l, "ready_for_pickup")
      BY <1>0, <2>1, <2>3, StoryFail
    <3>2. status'[q] = "ready_for_pickup"
      BY <1>8, <2>3, <3>1 DEF Fail, Move, TypeOK
    <3>3. CASE online \ {r} = {}
      <4>1. leg'[q] = l
        BY <1>8, <2>3, <3>3 DEF Fail, SetLeg, TypeOK
      <4>. QED
        BY <3>1, <3>2, <4>1
    <3>4. CASE online \ {r} # {}
      <4>1. PICK k \in Rider : FailAndReassign(o, i, k)
        BY <1>8, <3>4 DEF Fail
      <4>2. leg'[q] = Append(l, "assigned")
        BY <2>3, <4>1 DEF FailAndReassign, TypeOK
      <4>3. \A j \in DOMAIN l : l[j] \notin ActiveStatuses
        BY <3>1 DEF ActiveStatuses
      <4>4. Story(Append(l, "assigned"), "ready_for_pickup")
        BY <3>1, <4>3, StoryAssign
      <4>. QED
        BY <3>2, <4>2, <4>4
    <3>. QED
      BY <3>3, <3>4
  <2>. QED
    BY <2>2, <2>3
<1>9. ASSUME UNCHANGED vars
      PROVE  Story(leg[q], status[q])'
  BY <1>9, <1>s DEF vars
<1>. QED
  BY <1>1, <1>2, <1>3, <1>4, <1>5, <1>6, <1>7, <1>8, <1>9 DEF Next, ShopNext, RiderNext

LEMMA SpecStories == Spec => []Stories
BY InitTypeOK, NextTypeOK, InitStories, NextStories, PTL DEF Spec

\* Of an order's delivery rows all but one have failed, however often it was
\* failed, called back, and handed out again.
THEOREM OneLiveRowAlways == Spec => []OneLiveRow
BY SpecStories, StoriesAreTheInvariants, PTL

\* The live delivery row and the order's status fit each other.
THEOREM RowsFitOrders == Spec => []RowFitsOrder
BY SpecStories, StoriesAreTheInvariants, PTL

\* An order that is out is with a rider, a delivered one was delivered by one.
THEOREM OrdersHaveTheirRow == Spec => []OrderHasItsRow
BY SpecStories, StoriesAreTheInvariants, PTL

-----------------------------------------------------------------------------
(* What each handler does to delivery rows as a whole, and from it: rows    *)
(* are history, fresh orders wait only for riders, and Dispatch implements  *)
(* ParcelCustody.                                                           *)

\* Rows are only added, at the end, and keep their rider.
Extended(q) ==
    /\ \A j \in Rows(q) : j \in Rows(q)' /\ courier'[q][j] = courier[q][j]
    /\ \A j \in Rows(q)' \ Rows(q) : leg'[q][j] = "assigned"

\* No row changed its status.
LegsKept(q) == \A j \in Rows(q) : leg'[q][j] = leg[q][j]

\* Row i of order o, and no other row, changed its status, to s.
OneLegMoved(o, i, s) ==
    /\ leg'[o][i] = s
    /\ \A j \in Rows(o) \ {i} : leg'[o][j] = leg[o][j]
    /\ \A q \in OrderId \ {o} : LegsKept(q)

LEMMA RowsAndRiders ==
    ASSUME TypeOK, NEW o \in OrderId
    PROVE  /\ Rows(o) = 1..Len(leg[o]) /\ Len(leg[o]) \in Nat
           /\ DOMAIN courier[o] = 1..Len(leg[o]) /\ Len(courier[o]) = Len(leg[o])
           /\ \A i \in Rows(o) : courier[o][i] \in Rider /\ leg[o][i] \in DeliveryStatus
<1>1. /\ leg[o] \in Seq(DeliveryStatus) /\ courier[o] \in Seq(Rider)
      /\ Len(courier[o]) = Len(leg[o])
  BY DEF TypeOK
<1>. QED
  BY <1>1 DEF Rows

LEMMA KeptRows ==
    ASSUME NEW q, courier'[q] = courier[q], leg'[q] = leg[q]
    PROVE  Extended(q) /\ LegsKept(q)
BY DEF Extended, LegsKept, Rows

LEMMA HandOutRows ==
    ASSUME TypeOK, NEW S, NEW k \in Rider, HandOut(S, k), NEW q \in OrderId
    PROVE  /\ Extended(q) /\ LegsKept(q)
           /\ q \in S => Rows(q)' # {}
<1>1. CASE q \notin S
  <2>1. courier'[q] = courier[q] /\ leg'[q] = leg[q]
    BY <1>1 DEF HandOut
  <2>. QED
    BY <1>1, <2>1, KeptRows
<1>2. CASE q \in S
  <2>1. courier'[q] = Append(courier[q], k) /\ leg'[q] = Append(leg[q], "assigned")
    BY <1>2 DEF HandOut
  <2>2. /\ courier[q] \in Seq(Rider) /\ leg[q] \in Seq(DeliveryStatus)
        /\ "assigned" \in DeliveryStatus
    BY DEF TypeOK, DeliveryStatus
  <2>3. /\ \A j \in DOMAIN courier[q] : Append(courier[q], k)[j] = courier[q][j]
        /\ DOMAIN leg[q] = 1..Len(leg[q])
        /\ DOMAIN Append(leg[q], "assigned") = 1..(Len(leg[q]) + 1)
        /\ \A j \in DOMAIN leg[q] : Append(leg[q], "assigned")[j] = leg[q][j]
        /\ Append(leg[q], "assigned")[Len(leg[q]) + 1] = "assigned"
    BY <2>2, AppendColumn
  <2>4. DOMAIN courier[q] = DOMAIN leg[q] /\ Len(leg[q]) \in Nat
    BY RowsAndRiders DEF Rows
  <2>5. /\ \A j \in 1..Len(leg[q]) : j \in 1..(Len(leg[q]) + 1)
        /\ \A j \in 1..(Len(leg[q]) + 1) : j \notin 1..Len(leg[q]) => j = Len(leg[q]) + 1
        /\ Len(leg[q]) + 1 \in 1..(Len(leg[q]) + 1)
    BY <2>4
  <2>. QED
    BY <2>1, <2>3, <2>4, <2>5 DEF Extended, LegsKept, Rows
<1>. QED
  BY <1>1, <1>2

LEMMA SetLegRows ==
    ASSUME TypeOK, NEW o \in OrderId, NEW i \in Rows(o), NEW to \in DeliveryStatus,
           SetLeg(o, i, to), courier' = courier
    PROVE  /\ \A q \in OrderId : Extended(q) /\ Rows(q)' = Rows(q)
           /\ OneLegMoved(o, i, to)
<1>1. /\ leg[o] \in Seq(DeliveryStatus)
      /\ leg'[o] = [leg[o] EXCEPT ![i] = to]
      /\ \A q \in OrderId \ {o} : leg'[q] = leg[q]
  BY DEF TypeOK, SetLeg
<1>2. /\ DOMAIN leg'[o] = DOMAIN leg[o]
      /\ \A j \in DOMAIN leg[o] : leg'[o][j] = IF j = i THEN to ELSE leg[o][j]
  BY <1>1, LegColumn DEF Rows
<1>. QED
  BY <1>1, <1>2 DEF Extended, OneLegMoved, LegsKept, Rows

LEMMA FailAndReassignRows ==
    ASSUME TypeOK, NEW o \in OrderId, NEW i \in Rows(o), NEW k \in Rider,
           FailAndReassign(o, i, k)
    PROVE  /\ \A q \in OrderId : Extended(q)
           /\ OneLegMoved(o, i, "failed")
<1>. DEFINE l == [leg[o] EXCEPT ![i] = "failed"]
<1>1. /\ leg[o] \in Seq(DeliveryStatus) /\ courier[o] \in Seq(Rider)
      /\ leg'[o] = Append(l, "assigned")
      /\ courier'[o] = Append(courier[o], k)
      /\ \A q \in OrderId \ {o} : leg'[q] = leg[q] /\ courier'[q] = courier[q]
      /\ "failed" \in DeliveryStatus /\ "assigned" \in DeliveryStatus
  BY DEF TypeOK, FailAndReassign, DeliveryStatus
<1>2. /\ l \in Seq(DeliveryStatus) /\ Len(l) = Len(leg[o]) /\ DOMAIN l = DOMAIN leg[o]
      /\ \A j \in DOMAIN leg[o] : l[j] = IF j = i THEN "failed" ELSE leg[o][j]
  BY <1>1, LegColumn DEF Rows
<1>. HIDE DEF l
<1>3. /\ DOMAIN l = 1..Len(l)
      /\ DOMAIN leg'[o] = 1..(Len(l) + 1)
      /\ \A j \in DOMAIN l : leg'[o][j] = l[j]
      /\ leg'[o][Len(l) + 1] = "assigned"
  BY <1>1, <1>2, AppendColumn
<1>4. \A j \in DOMAIN courier[o] : courier'[o][j] = courier[o][j]
  BY <1>1, AppendColumn
<1>5. DOMAIN courier[o] = DOMAIN leg[o] /\ Len(l) \in Nat
  BY <1>2, RowsAndRiders DEF Rows
<1>6. /\ \A j \in 1..Len(l) : j \in 1..(Len(l) + 1)
      /\ \A j \in 1..(Len(l) + 1) : j \notin 1..Len(l) => j = Len(l) + 1
  BY <1>5
<1>7. Extended(o)
  BY <1>2, <1>3, <1>4, <1>5, <1>6 DEF Extended, Rows
<1>8. /\ leg'[o][i] = "failed"
      /\ \A j \in Rows(o) \ {i} : leg'[o][j] = leg[o][j]
  BY <1>2, <1>3 DEF Rows
<1>9. \A q \in OrderId \ {o} : Extended(q) /\ LegsKept(q)
  BY <1>1, KeptRows
<1>. QED
  BY <1>7, <1>8, <1>9 DEF OneLegMoved

-----------------------------------------------------------------------------
(* Every step, seen from the delivery rows *)

\* A rider's step on row i of order o, by the row's old and new status.
LegStep(r, o, i) ==
    /\ i \in Rows(o) /\ courier[o][i] = r
    /\ \/ leg[o][i] = "assigned" /\ OneLegMoved(o, i, "picked_up")
       \/ leg[o][i] = "picked_up" /\ OneLegMoved(o, i, "delivered")
       \/ leg[o][i] \in ActiveStatuses /\ OneLegMoved(o, i, "failed")

RowsStep ==
    /\ \A q \in OrderId : Extended(q)
    /\ \/ \A q \in OrderId : LegsKept(q)
       \/ \E r \in Rider, o \in OrderId, i \in Nat : LegStep(r, o, i)

LEMMA NextRows == TypeOK /\ [Next]_vars => RowsStep
<1>. SUFFICES ASSUME TypeOK, [Next]_vars
              PROVE  RowsStep
  OBVIOUS
<1>. DEFINE Kept == courier' = courier /\ leg' = leg
<1>k. Kept => RowsStep
  BY KeptRows DEF RowsStep
<1>h. ASSUME NEW S, NEW k \in Rider, HandOut(S, k)
      PROVE  RowsStep
  BY <1>h, HandOutRows DEF RowsStep
<1>1. ASSUME NEW o \in OrderId, CreateOrder(o)
      PROVE  RowsStep
  BY <1>1, <1>k DEF CreateOrder
<1>2. ASSUME NEW o \in OrderId, Ready(o)
      PROVE  RowsStep
  BY <1>2, <1>k, <1>h DEF Ready
<1>3. ASSUME NEW o \in OrderId, NEW target \in {"accepted", "rejected", "preparing", "cancelled"},
             Transition(o, target)
      PROVE  RowsStep
  BY <1>3, <1>k DEF Transition
<1>4. ASSUME NEW r \in Rider, GoOnline(r)
      PROVE  RowsStep
  BY <1>4, <1>h DEF GoOnline
<1>5. ASSUME NEW r \in Rider, GoOffline(r)
      PROVE  RowsStep
  BY <1>5, <1>k DEF GoOffline
<1>6. ASSUME NEW r \in Rider, NEW o \in OrderId, NEW i \in 1..MaxAttempts, PickUp(r, o, i)
      PROVE  RowsStep
  <2>1. i \in Rows(o) /\ courier[o][i] = r /\ "picked_up" \in DeliveryAllowed[leg[o][i]]
    BY <1>6 DEF PickUp, MayMove
  <2>2. leg[o][i] = "assigned"
    BY <2>1, RowsAndRiders DEF DeliveryAllowed, DeliveryStatus
  <2>3. OneLegMoved(o, i, "picked_up") /\ \A q \in OrderId : Extended(q)
    BY <1>6, <2>1, SetLegRows DEF PickUp, DeliveryStatus
  <2>. QED
    BY <2>1, <2>2, <2>3 DEF RowsStep, LegStep
<1>7. ASSUME NEW r \in Rider, NEW o \in OrderId, NEW i \in 1..MaxAttempts, Complete(r, o, i)
      PROVE  RowsStep
  <2>1. i \in Rows(o) /\ courier[o][i] = r /\ "delivered" \in DeliveryAllowed[leg[o][i]]
    BY <1>7 DEF Complete, MayMove
  <2>2. leg[o][i] = "picked_up"
    BY <2>1, RowsAndRiders DEF DeliveryAllowed, DeliveryStatus
  <2>3. OneLegMoved(o, i, "delivered") /\ \A q \in OrderId : Extended(q)
    BY <1>7, <2>1, SetLegRows DEF Complete, DeliveryStatus
  <2>. QED
    BY <2>1, <2>2, <2>3 DEF RowsStep, LegStep
<1>8. ASSUME NEW r \in Rider, NEW o \in OrderId, NEW i \in 1..MaxAttempts, Fail(r, o, i)
      PROVE  RowsStep
  <2>1. i \in Rows(o) /\ courier[o][i] = r /\ "failed" \in DeliveryAllowed[leg[o][i]]
    BY <1>8 DEF Fail, MayMove
  <2>2. leg[o][i] \in ActiveStatuses
    BY <2>1, RowsAndRiders DEF DeliveryAllowed, DeliveryStatus, ActiveStatuses
  <2>3. OneLegMoved(o, i, "failed") /\ \A q \in OrderId : Extended(q)
    <3>1. CASE online \ {r} = {}
      BY <1>8, <2>1, <3>1, SetLegRows DEF Fail, DeliveryStatus
    <3>2. CASE online \ {r} # {}
      BY <1>8, <2>1, <3>2, FailAndReassignRows DEF Fail
    <3>. QED
      BY <3>1, <3>2
  <2>. QED
    BY <2>1, <2>2, <2>3 DEF RowsStep, LegStep
<1>9. ASSUME UNCHANGED vars
      PROVE  RowsStep
  BY <1>9, <1>k DEF vars
<1>. QED
  BY <1>1, <1>2, <1>3, <1>4, <1>5, <1>6, <1>7, <1>8, <1>9 DEF Next, ShopNext, RiderNext

LEMMA RowsStepKeepsHistory ==
    RowsStep => \A o \in OrderId : \A i \in Rows(o) :
                    /\ i \in Rows(o)'
                    /\ courier[o][i]' = courier[o][i]
                    /\ ~IsActive(o, i) => leg[o][i]' = leg[o][i]
<1>. SUFFICES ASSUME RowsStep, NEW o \in OrderId, NEW i \in Rows(o)
              PROVE  /\ i \in Rows(o)'
                     /\ courier'[o][i] = courier[o][i]
                     /\ ~IsActive(o, i) => leg'[o][i] = leg[o][i]
  OBVIOUS
<1>1. i \in Rows(o)' /\ courier'[o][i] = courier[o][i]
  BY DEF RowsStep, Extended
<1>2. ~IsActive(o, i) => leg'[o][i] = leg[o][i]
  BY DEF RowsStep, LegStep, OneLegMoved, LegsKept, IsActive, ActiveStatuses
<1>. QED
  BY <1>1, <1>2

\* Delivery rows are never dropped or re-attributed, and a settled one stays settled.
THEOREM RowsStayHistory == Spec => RowsAreHistory
<1>1. TypeOK /\ [Next]_vars =>
        [\A o \in OrderId : \A i \in Rows(o) :
            /\ i \in Rows(o)'
            /\ courier[o][i]' = courier[o][i]
            /\ ~IsActive(o, i) => leg[o][i]' = leg[o][i]]_vars
  BY NextRows, RowsStepKeepsHistory
<1>. QED
  BY <1>1, TypeCorrect, PTL DEF Spec, RowsAreHistory

-----------------------------------------------------------------------------
(* Fresh orders *)

LEMMA NextFresh ==
    TypeOK /\ FreshOrderWaitsForRiders /\ [Next]_vars => FreshOrderWaitsForRiders'
<1>. SUFFICES ASSUME TypeOK, FreshOrderWaitsForRiders, [Next]_vars, NEW q \in OrderId,
                     status'[q] = "ready_for_pickup", Rows(q)' = {}
              PROVE  online' = {}
  BY DEF FreshOrderWaitsForRiders
<1>0. Rows(q) = {}
  BY NextRows DEF RowsStep, Extended
<1>s. status'[q] = status[q] /\ online' \subseteq online => online' = {}
  BY <1>0 DEF FreshOrderWaitsForRiders
<1>1. ASSUME NEW o \in OrderId, CreateOrder(o)
      PROVE  online' = {}
  BY <1>1, <1>s DEF CreateOrder, Move, TypeOK
<1>2. ASSUME NEW o \in OrderId, Ready(o)
      PROVE  online' = {}
  <2>1. CASE q = o
    <3>1. ~HasActive(o)
      BY <1>0, <2>1 DEF HasActive
    <3>2. ASSUME online # {}
          PROVE  FALSE
      <4>1. PICK k \in Rider : HandOut({o}, k)
        BY <1>2, <3>1, <3>2 DEF Ready
      <4>. QED
        BY <2>1, <4>1, HandOutRows
    <3>. QED
      BY <1>2, <3>2 DEF Ready
  <2>2. CASE q # o
    BY <1>2, <2>2, <1>s DEF Ready, Move, TypeOK
  <2>. QED
    BY <2>1, <2>2
<1>3. ASSUME NEW o \in OrderId, NEW target \in {"accepted", "rejected", "preparing", "cancelled"},
             Transition(o, target)
      PROVE  online' = {}
  BY <1>3, <1>s DEF Transition, Move, TypeOK
<1>4. ASSUME NEW r \in Rider, GoOnline(r)
      PROVE  online' = {}
  <2>1. q \in Waiting
    BY <1>0, <1>4 DEF GoOnline, Waiting, HasActive
  <2>2. PICK k \in Rider : HandOut(Waiting, k)
    BY <1>4 DEF GoOnline
  <2>. QED
    BY <2>1, <2>2, HandOutRows
<1>5. ASSUME NEW r \in Rider, GoOffline(r)
      PROVE  online' = {}
  BY <1>5, <1>s DEF GoOffline
<1>6. ASSUME NEW r \in Rider, NEW o \in OrderId, NEW i \in 1..MaxAttempts, PickUp(r, o, i)
      PROVE  online' = {}
  BY <1>6, <1>s DEF PickUp, Move, TypeOK
<1>7. ASSUME NEW r \in Rider, NEW o \in OrderId, NEW i \in 1..MaxAttempts, Complete(r, o, i)
      PROVE  online' = {}
  BY <1>7, <1>s DEF Complete, Move, TypeOK
<1>8. ASSUME NEW r \in Rider, NEW o \in OrderId, NEW i \in 1..MaxAttempts, Fail(r, o, i)
      PROVE  online' = {}
  <2>1. q # o
    BY <1>0, <1>8 DEF Fail, MayMove
  <2>. QED
    BY <1>8, <2>1, <1>s DEF Fail, Move, TypeOK
<1>9. ASSUME UNCHANGED vars
      PROVE  online' = {}
  BY <1>9, <1>s DEF vars
<1>. QED
  BY <1>1, <1>2, <1>3, <1>4, <1>5, <1>6, <1>7, <1>8, <1>9 DEF Next, ShopNext, RiderNext

\* An order that was never given to a rider waits only while nobody is online.
THEOREM FreshOrdersWaitForRiders == Spec => []FreshOrderWaitsForRiders
<1>1. Init => FreshOrderWaitsForRiders
  BY DEF Init, FreshOrderWaitsForRiders
<1>. QED
  BY <1>1, NextFresh, TypeCorrect, PTL DEF Spec

-----------------------------------------------------------------------------
(* Custody *)

\* The two leg statuses that the custody view reads.
Seen == {"picked_up", "delivered"}

LEMMA CustodyKept ==
    ASSUME TypeOK, NEW q \in OrderId, Extended(q), LegsKept(q), NEW s \in Seen
    PROVE  WithLeg(q, s)' = WithLeg(q, s)
<1>1. {j \in Rows(q)' : leg'[q][j] = s} = {j \in Rows(q) : leg[q][j] = s}
  BY DEF Extended, LegsKept, Seen
<1>2. \A j \in Rows(q) : courier'[q][j] = courier[q][j]
  BY DEF Extended
<1>. QED
  BY <1>1, <1>2 DEF WithLeg

LEMMA CustodyMoved ==
    ASSUME TypeOK, Stories, NEW o \in OrderId, NEW i \in Rows(o), NEW to,
           leg[o][i] \in ActiveStatuses, Extended(o), OneLegMoved(o, i, to), NEW s \in Seen
    PROVE  /\ WithLeg(o, s) = IF leg[o][i] = s THEN {courier[o][i]} ELSE {}
           /\ WithLeg(o, s)' = IF to = s THEN {courier[o][i]} ELSE {}
<1>1. \A j \in Rows(o) \ {i} : leg[o][j] = "failed"
  BY DEF Stories, Story, Rows, ActiveStatuses
<1>2. {j \in Rows(o) : leg[o][j] = s} = IF leg[o][i] = s THEN {i} ELSE {}
  BY <1>1 DEF Seen
<1>3. {j \in Rows(o)' : leg'[o][j] = s} = IF to = s THEN {i} ELSE {}
  BY <1>1 DEF Seen, OneLegMoved, Extended
<1>4. courier'[o][i] = courier[o][i]
  BY DEF Extended
<1>. QED
  BY <1>2, <1>3, <1>4 DEF WithLeg

LEMMA CustodyInitial == Init => Custody!CustodyInit
<1>. SUFFICES ASSUME Init
              PROVE  Custody!CustodyInit
  OBVIOUS
<1>1. \A o \in OrderId : Rows(o) = {}
  BY DEF Init, Rows
<1>2. \A o \in OrderId, s \in Seen : WithLeg(o, s) = {}
  BY <1>1 DEF WithLeg
<1>. QED
  BY <1>2 DEF Custody!CustodyInit, CarriedBy, DeliveredBy, Seen

LEMMA CustodyStep ==
    TypeOK /\ Stories /\ [Next]_vars => [Custody!CustodyNext]_(Custody!custodyVars)
<1>. SUFFICES ASSUME TypeOK, Stories, RowsStep
              PROVE  Custody!CustodyNext \/ UNCHANGED Custody!custodyVars
  BY NextRows
<1>f. /\ CarriedBy = [q \in OrderId |-> CarriedBy[q]]
      /\ CarriedBy' = [q \in OrderId |-> CarriedBy'[q]]
      /\ DeliveredBy = [q \in OrderId |-> DeliveredBy[q]]
      /\ DeliveredBy' = [q \in OrderId |-> DeliveredBy'[q]]
  BY DEF CarriedBy, DeliveredBy
<1>v. \A q \in OrderId : /\ CarriedBy[q] = WithLeg(q, "picked_up")
                         /\ CarriedBy'[q] = WithLeg(q, "picked_up")'
                         /\ DeliveredBy[q] = WithLeg(q, "delivered")
                         /\ DeliveredBy'[q] = WithLeg(q, "delivered")'
  BY DEF CarriedBy, DeliveredBy
<1>k. \A q \in OrderId : LegsKept(q) => CarriedBy'[q] = CarriedBy[q] /\ DeliveredBy'[q] = DeliveredBy[q]
  BY <1>v, CustodyKept DEF RowsStep, Seen
<1>1. CASE \A q \in OrderId : LegsKept(q)
  BY <1>1, <1>k, <1>f DEF Custody!custodyVars
<1>2. ASSUME NEW r \in Rider, NEW o \in OrderId, NEW i \in Nat, LegStep(r, o, i)
      PROVE  Custody!CustodyNext \/ UNCHANGED Custody!custodyVars
  <2>1. i \in Rows(o) /\ courier[o][i] = r /\ leg[o][i] \in ActiveStatuses /\ Extended(o)
    BY <1>2 DEF LegStep, ActiveStatuses, RowsStep
  <2>2. \A q \in OrderId \ {o} : CarriedBy'[q] = CarriedBy[q] /\ DeliveredBy'[q] = DeliveredBy[q]
    BY <1>2, <1>k DEF LegStep, OneLegMoved
  <2>3. ASSUME leg[o][i] = "assigned", OneLegMoved(o, i, "picked_up")
        PROVE  Custody!Take(o, r)
    <3>1. /\ CarriedBy[o] = {} /\ CarriedBy'[o] = {r}
          /\ DeliveredBy[o] = {} /\ DeliveredBy'[o] = {}
      BY <2>1, <2>3, <1>v, CustodyMoved DEF Seen
    <3>. QED
      BY <3>1, <2>2, <1>f DEF Custody!Take
  <2>4. ASSUME leg[o][i] = "picked_up", OneLegMoved(o, i, "delivered")
        PROVE  Custody!Deliver(o, r)
    <3>1. /\ CarriedBy[o] = {r} /\ CarriedBy'[o] = {}
          /\ DeliveredBy[o] = {} /\ DeliveredBy'[o] = {r}
      BY <2>1, <2>4, <1>v, CustodyMoved DEF Seen
    <3>. QED
      BY <3>1, <2>2, <1>f DEF Custody!Deliver
  <2>5. ASSUME leg[o][i] = "picked_up", OneLegMoved(o, i, "failed")
        PROVE  Custody!BringBack(o, r)
    <3>1. /\ CarriedBy[o] = {r} /\ CarriedBy'[o] = {}
          /\ DeliveredBy[o] = {} /\ DeliveredBy'[o] = {}
      BY <2>1, <2>5, <1>v, CustodyMoved DEF Seen
    <3>. QED
      BY <3>1, <2>2, <1>f DEF Custody!BringBack
  <2>6. ASSUME leg[o][i] = "assigned", OneLegMoved(o, i, "failed")
        PROVE  UNCHANGED Custody!custodyVars
    <3>1. /\ CarriedBy[o] = {} /\ CarriedBy'[o] = {}
          /\ DeliveredBy[o] = {} /\ DeliveredBy'[o] = {}
      BY <2>1, <2>6, <1>v, CustodyMoved DEF Seen
    <3>. QED
      BY <3>1, <2>2, <1>f DEF Custody!custodyVars
  <2>. QED
    BY <1>2, <2>1, <2>3, <2>4, <2>5, <2>6 DEF LegStep, ActiveStatuses, Custody!CustodyNext
<1>. QED
  BY <1>1, <1>2 DEF RowsStep

\* Every behaviour of the riders' handlers is one in which parcels move between
\* the shop, one rider and the customer, and are delivered at most once.
THEOREM ImplementsCustody == Spec => CustodySpec
BY CustodyInitial, CustodyStep, TypeCorrect, SpecStories, PTL
   DEF Spec, CustodySpec, Custody!CustodySpec
=============================================================================
