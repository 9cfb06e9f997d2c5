# Formal model of MohallaShop

MohallaShop is a neighbourhood marketplace: customers fill a cart in one shop and
check out, a shopkeeper works on the order, a rider delivers it. A FastAPI service
(`backend/app/<domain>/service.py`) holds all rules and keeps all state in
PostgreSQL at READ COMMITTED; a Next.js application (`apps/web`) talks to it.
This directory specifies that system in TLA+, checks the specifications with TLC
on small instances and proves theorems about them with TLAPS.

    tlc   -workers 2 -config ordering.cfg MCOrdering     # any run: see section 4
    tlapm Dispatch_proofs.tla                            # any module *_proofs

## 1. Inventory

| Part | State | Operations that change it | What is hard about it | What makes it correct |
| --- | --- | --- | --- | --- |
| Orders (`orders/`) | `orders`, `order_items`, `order_state_history` | `create_order`, `cancel_order`, `accept`, `reject`, `preparing`, `ready` | several statements per transaction, rows locked in query order, lost answers and repeated checkouts | units are taken once and returned once; an order is exactly one cart of one shop; its history is a walk of the transition table |
| Catalogue and inventory (`shops/`) | `shops`, `products`, `inventory` | `create_shop`; product create, update, delete; inventory restatement | unlocked read then absolute write; deletion cascades under live carts and orders | stock is never negative and never decremented below a reservation |
| Carts (`carts/`) | `carts`, `cart_items` | add, update, delete, clear | no lock in any cart handler; the binding to a shop sits in another row than the lines | one shop per cart; nothing the customer put in is lost or ordered twice |
| Riders and deliveries (`riders/`) | `riders`, `deliveries` | online with catch-up, offline, assignment, pick up, complete, fail with reassignment | `SKIP LOCKED`, a partial unique index, counts read before the session is flushed | one rider at a time has an order; a delivered order pays one fee; nobody waits for ever |
| Users and addresses (`users/`) | `users`, `profiles`, `addresses` | provisioning, contact sync, address create, update, delete | check-then-insert under unique indexes; "one default" kept by two statements | a person is one user; a second default address only where two creates race |
| Favourites (`favorites/`) | `favorite_shops` | add, remove | check-then-insert | a repeated add is harmless |
| Administration (`admin/`) | `shops.status`; roles held by Supabase | shop status, role updates | read, merge and write against an external service | an overwrite undoes only what came in between; status moves along its table |
| Core (`core/`, `api/`) | none | authentication, sessions, pagination, errors | the transaction boundary of every handler | a refused request leaves no trace |
| Storefront widgets (`CartManager`, `AddProductButton`, `CheckoutForm`) | the cart shown, the busy line, the conflict dialog, `placing` | change, remove, clear; add, empty and add; place order | several requests on the way at once, answers out of order, a two-request switch of shops | a quiet page shows the server's cart; an emptied cart is never forgotten silently |
| Address page (`AddressManager`) | the list rendered, the form and what is typed in it, `deletingId` | edit, save, remove, refresh | the form outlives the row it was opened for; the list is as old as the last render | a save writes the address that was edited |
| Products page (`ProductManager`) | the list of products, a spinner and a details form for each row | create, edit, recount, toggle, remove | five independent requests about one row, each answering with the whole product | the list ends as the server's |
| Small forms (`FavoriteToggle`, `RegisterShopForm`) | row known, spinner | toggle, register | first requests of several tabs | nothing is made twice that a unique index guards |
| Administrators' pages (`UserRolesEditor`, `ShopStatusActions`) | editor with ticked roles, status shown | load, tick, save; change status | two administrators work from what they loaded | nothing is written back that was not loaded |
| Order and delivery buttons (`OrderActions`, `CancelOrderButton`, `DeliveryActions`) | status rendered, dialog, pending | press, refresh | pages older than the database, a timeout that hides a committed request | an outdated or repeated click does no harm |
| Sign-in and routing (`middleware`, pages, `LoginFlow`, `EmailPasswordAuth`, callback, `SignOutButton`) | session cookies, the form's mode, `next` | ask for a page, sign in, sign up, resend, follow the link, sign out | redirects by four parties; what a left page started navigates when it ends | the person ends on the page asked for; redirects end |

Components interact through the database only. `ready` calls the riders'
assignment inside its own transaction; the riders' handlers move orders along the
orders' transition table and write their history; deleting a product reaches carts
and orders through foreign keys; a page learns of all this only when it is
rendered again. `PROJECT.json` lists every component with its status, and under
`hazards` each place in the code where one of these difficulties bites, with the
properties that watch it.

## 2. Modules

    OrderStates ─┬─ Ordering ──── Ordering_proofs
                 │      └ refines ─ StockLedger
                 ├─ CheckoutTx ─ CheckoutTx_proofs
                 │      └ refines ─ StockLedger
                 └─ DeliveryRows ─┬─ Dispatch ─┬─ Dispatch_proofs ─┐
                                  │      │     └─ Workbench ───────┴─ Workbench_proofs
                                  │      └ refines ─ ParcelCustody
                                  └─ DispatchTx ─ DispatchTx_proofs
                                         └ refines ─ ParcelCustody
    CartTx ─ CartTx_proofs

    Storefront  ─┐
    AddressBook ─┼─ CustomerPages_proofs ─┐
    FirstRow    ─┤                        ├─ WebPages_proofs
    AdminDesk   ─┼─ WebPages ─────────────┘
    CatalogDesk ─┤
    SignIn ──────┘
      └ Sitemap

Two levels describe the server, a third the pages in the browser. At the **handler level** a request is one action;
a refused request rolls its session back and is a stuttering step. At the
**statement level** (`*Tx`) a request is a transaction that goes through its
database statements one by one, and other requests run in between.

**OrderStates** holds the order and delivery status vocabularies and both
transition tables (`_ALLOWED`, `_DELIVERY_ALLOWED`).

**Ordering** (handler level) is carts, catalogue, inventory and orders. Its
variables are the columns the handlers touch: `cartShop` and `cartLines`
(`carts.shop_id`, `cart_items`), `openShop`, `row`/`active` (a product's row and
`is_active`), `stock` (`inventory.quantity_available`), `orders`, `status`,
`history`. There is one action for each handler: `AddItem`, `UpdateItem`,
`DeleteItem`, `ClearCart`, `SetShopStatus`, `CreateProduct`, `UpdateProduct`,
`UpdateInventory`, `DeleteProduct` (with its cascades), `CreateOrder`,
`CancelOrder`, `ShopkeeperTransition`, and `RiderTransition` for what the riders'
handlers do to an order.

**StockLedger** is what the shelf promises: a claim reserves units only if they
are there, and is settled once, by returning them or keeping them. An order is a
claim: *held* while pending or accepted, *returned* when rejected or cancelled,
*kept* from `preparing` on.

**CheckoutTx** (statement level) interleaves checkouts, order moves, inventory
restatements and deletions: which rows a statement locks (`want`, `holds`), what
it read before (`got`, `seen`), and the database's own part, which is waiting for
locks and rolling back one transaction of a deadlock. A query that locks several
rows takes them in any order, as PostgreSQL may.

**CartTx** (statement level) is one customer's cart under that customer's own
concurrent requests: each handler works on the cart row and the line it loaded
(`sawShop`, `sawItem`, `sawQty`) and writes them back; only checkout locks.

**DeliveryRows** is the committed state of the delivery side (`online`, `status`,
and for each order the columns `courier` and `leg` of its delivery rows, oldest
first) and what the riders' service reads from it: active counts, the least loaded
rider, the single-row lookup that raises when there are two rows.

**Dispatch** (handler level): `GoOnline` with the catch-up pass, `GoOffline`,
`Ready` with the assignment, `PickUp`, `Complete`, `Fail` with reassignment, and
the order's other transitions. **DispatchTx** interleaves the same requests:
riders that are locked are skipped, the rows of a pass are inserted only when the
session is flushed at its end, an insertion waits for the order's row and fails on
the partial unique index.

**ParcelCustody** is what the delivery side promises: a parcel is with its shop,
with one rider, or delivered once.

**Workbench** puts pages over Dispatch: tabs that show the shop's or the
customer's order page or a rider's delivery card. `view` is what a page shows
(status as rendered, dialog open or not), `call` its request in flight, `due` a
refresh that was asked for, `late` requests the browser gave up after 15 seconds
while the proxy and the server went on with them. `Press` offers the buttons of
the status shown, `Serve` lets the server carry the request out or answer 409,
`Answer` is the rest of the component's `run()`, `Refresh` the later
`router.refresh()`.

The remaining modules are the other pages and the handlers behind them. A request
of a page is *sent*, then answered or given up by `apiFetch`'s timer; a request
given up may still be served later, once and unseen. An answer is taken over by
what the component does after its `await`, in any order, and dropped when the
component is gone.

**Storefront** is a customer's cart seen by three tabs. `cart` is the server's
cart, one handler a step; `page` is `CartManager` (lines shown, the busy line,
clearing), `button` is `AddProductButton` with the conflict dialog and its
clear-then-add, `placing` is `CheckoutForm`, which looks at the cart before it
orders. `calls` are requests and unread answers, `stray` those given up and
unserved.

**AddressBook** is the address page over `/me/addresses`, statement by statement:
`Load`, the bulk `UPDATE ... is_default = false` (`ScanDefaults` fixes the rows it
sees, `ClearDefaults` waits until none of them is locked), then `Insert`, `Set`,
which writes what differs from the row as loaded, or `Remove`. `form` is
what `AddressManager` shows and holds, `listed` the addresses it was rendered with.

**CatalogDesk** is `ProductManager` over one shop's catalogue while customers buy:
stock form, details form, visibility toggle, removal, creation. `wires` are its
requests, `mixed` and `sold` remember which rows the page may rightly be wrong
about.

**FirstRow** treats four "look, then insert" handlers alike, because they are
alike: `ensure_user`, the cart row, `add_favorite`, `create_shop`. The first three
have a unique index, on which a second insertion waits and then loses;
`shops.owner_user_id` has none. `tab` is the page (`FavoriteToggle`,
`RegisterShopForm`), `tx` the request. Which table a behaviour is about is its
first choice.

**AdminDesk** has two administrators over one user's roles and one shop's status.
`update_user_roles` is four calls with nothing locked (read the user from
Supabase, check, `PUT`, sign out), each of which may fail, or be carried out
without an answer; `set_shop_status` is a check and a write. `UserRolesEditor` may
have two loads on the way. `roles` and `isList` are what Supabase holds under
`app_metadata.roles`; `Detail` is what `_user_detail` reads there (nothing, unless it
is a list), `Known` what the editor's `rolesFrom` keeps of that, and a save writes a
list of the platform's roles.

**Sitemap** lists every page of the site: who may see it, which reads it must
have, which it does without, what it shows on a 404. `IsProtected`, `MayEnter`
and `LandingFor` are the middleware's and `redirect.ts`'s decisions. **SignIn** walks through it: the middleware,
the page's own `requireSession`, the reads that end in the page, an error, a 404
or another redirect to `/login` when the API refuses the token; the login page
with its look at the session and its three forms; the e-mail link with its
callback; sessions that end. `flights` is what a login page or a `SignOutButton`
began, which goes on after the page was left and navigates when it ends: `SignOut` is
the press, `EndSignOut` the `finally` that leads to `/login` from wherever the person
is by then.

**WebPages** extends these six and checks them together. They share no state their
properties speak of, so a behaviour visits one of them (`visit`) while the others
rest in one initial state; the next-state relation, the fairness and the
properties are those of the parts.

**MC\*** modules only add what a `.cfg` cannot say (symmetry, the shop of each
product). Definitions introduced by a comment "Mutant" are altered versions of the
definition below them; no specification uses them. They show that a property can
fail: putting one in the place of its original makes TLC refute the property.

## 3. What is simplified

- Data: quantities, statuses and identities are kept; prices, names, addresses,
  notes and times are not, except `placed_at` order where the catch-up pass sorts
  by it (DispatchTx). Delivery rows are ordered by creation.
- Requests are authenticated and carry the right role. The identity checks that
  remain are the ones the data decide: ownership of a delivery, a shop's orders.
- CheckoutTx has one shop and locks a cart line together with its product; cart
  requests of other customers are single steps there and are split in CartTx,
  which in turn lets the shelf accept or refuse as it likes.
- DispatchTx starts with orders in preparation; earlier steps touch no rider.
- The creation of the (empty) cart row is a behaviour of FirstRow, apart from the
  handlers that use the cart.
- Storefront, CatalogDesk and the cart behind them take a handler as one step;
  CartTx and CheckoutTx take the same handlers apart. AddressBook, FirstRow and
  AdminDesk are statement by statement themselves.
- The widgets have a browser token. (`getBrowserToken()` returning null pushes to
  `/login`, which is SignIn's business; Workbench and SignIn describe sessions that
  end.) Input checks that keep a form from sending are left out: what is sent
  passes them. The wording of notices, the resend cooldown and the display-name
  form, search bar and in-stock toggle, which hold a value each, are left out.
- `FirstRow` gives the loser of `ensure_user` an error, which is what the code
  does; see section 7.
- In SignIn the API's answers are what Sitemap's reads allow: present, missing,
  failing, or refusing the token; a person's roles (`Claims`) stay the same during a
  behaviour, and a change of roles shows as a session that ends.
- Two flights that were left behind, of one kind and with one `next`, are one
  element of `flights`: the second of two equal late navigations is left out.
  `MaxFlight` bounds the forms, `MaxAsk` the sign-outs.
- In CatalogDesk the answer to a save closes the details form of the row, also when
  the search field has hidden the row and shown it again meanwhile; in the code that
  answer's `setEditing` belongs to the row that is gone. In Workbench one call at a
  time keeps a tab from pressing, where the buttons disable only themselves.
- A tab of FirstRow whose request timed out waits until the server has ended it; in
  the browser it may press again, as the other tab does in the model.
- In CartTx an insertion beside a line of the same product that is being deleted
  fails at once; PostgreSQL waits for the deletion's commit first.
- A page whose widgets are modelled is mapped as a whole to its entry in Sitemap
  and to the widgets' modules; of other pages only the guard and the reads are.
- In Workbench a tab has one request in flight. The rider's list is unfiltered,
  the session does not expire (a click would lead to the login page instead of
  the server), and the availability card is the bare request.
- READ COMMITTED is modelled as: a statement sees what is committed when it runs;
  a lock request waits for the holder's end and then sees the new row.

## 4. Runs

Every run ends in less than four minutes with two workers.

| Run | Instance | Shows |
| --- | --- | --- |
| `ordering` | 1 customer, 2 shops, 3 products, 1 order, quantities up to 2, 7 history rows | the handlers together keep carts and orders single-shop, histories truthful, units conserved, and implement StockLedger |
| `dispatch_rows` | 2 orders, 3 riders, 3 delivery rows per order | one live row per order that fits its status; past rows stay; fresh orders wait only for riders; ParcelCustody is implemented |
| `dispatch_fewest` | 2 orders, 2 riders | *refuted:* the assigned rider has the fewest active deliveries (section 7) |
| `dispatch_blocked` | 1 order, 2 riders | *refuted:* a waiting order can be assigned (section 7) |
| `checkout_units` | 2 customers, 1 product, 2 orders, 2 transactions of four kinds | whatever statements interleave, StockLedger is implemented and an order is the cart it was made from, repeated checkouts included |
| `checkout_ends` | 1 customer, 2 products, 2 orders, 2 transactions | with two rows to lock in either order, deadlocks happen, are broken, and every request ends |
| `dispatchtx_rows` | 1 order, 2 riders, 3 concurrent requests of five kinds, 4 rows | `ready` and `fail` never collide with another assignment; custody survives everything |
| `dispatchtx_ends` | 2 orders, 2 riders, 2 concurrent passes or `ready` requests | no rider is picked twice from one count; requests end without a deadlock detector |
| `cart_orders` | 2 products of 2 shops, 2 requests of five kinds | checkout swallows no line and never mixes shops; every request ends |
| `cart_mixed` | 2 concurrent adds | *refuted:* a cart is single-shop (section 7) |
| `workbench` | 2 tabs, 1 order, 1 rider, 2 rows, 1 request served late | an outdated click takes effect in two cases only; a page that shows the truth is refused only for a stated reason |
| `web_pages` | six visits, each with the bounds below | pages settle on what the server has or have a reason not to; no widget stays disabled; races make a second row only where no index forbids it; redirects end at the page asked for |

### Bounds

- `MaxHistory` 7 covers every way of ending an order and one failed delivery with
  a second one; `MaxLine` and `RequestQty` 2 let a line be larger than the stock
  and let "one unit per line" differ from "the line's quantity". `ordering` has one
  customer and one order since the theorems of section 6 cover any number; two
  customers and two orders compete in `checkout_units`.
- `MaxAttempts` bounds an order's delivery rows. Two rows already make the lookup
  raise; three allow a reassignment after a reassignment; four give three
  concurrent requests a row each. A handler that would exceed the bound does not
  run: the bound never turns into a refusal the code would not make.
- Two transactions suffice for every pairwise race, three (`dispatchtx_rows`) for
  a catch-up pass that is overtaken twice. `Kinds` restricts a run to the requests
  its question is about; `Item` bounds the cart lines ever created.
- `Count` are the stock figures a shopkeeper may type.
- Two tabs can be any two of shop, customer and rider, or two of one; `MaxLate` 1
  allows one retry after a timeout to race the request it repeats.
- `web_pages`: the storefront has three products of two shops, a cart page with two
  requests on the way, three lines, quantities up to 2 and three presses, which is
  the shortest way to a switch of shops whose second half fails while the cart page
  acts. The address book has two requests, two saved addresses, a third one to be
  created and two saves. The products page has two requests, two products and two
  deals. First requests come from two tabs, four in all, with three rows to insert,
  since removing a favourite lets it be added again. Two administrators, one of
  them a super-admin, take three steps over the roles `rider` and `super_admin`:
  load, tick, save, with the other's save in between. The user has at first either a
  list with a role the platform does not know (`Foreign`) or the one string
  `super_admin` (`Stored`). Signing in has a person with no role, a shopkeeper and a
  super-admin, who read the about page or, signed in, their profile. They do two of
  these: ask for one of five paths (one of every kind of page) and then for the home
  page or the cart, follow the link, press "Sign out"; so a sign-out can be pressed,
  another page opened, and the sign-out end there. A form is sent while no look or
  form is on the way, and one `getUser` may go unanswered. All together this is
  343,538 distinct states.
- The safety properties of the six parts were also checked one part at a time at
  the next larger bounds (four presses; three deals; three tabs with six tries;
  three paths or two flights; four administrative steps; three saves) without a
  violation; those instances are too large to keep as runs.
- `MaxPress`, `MaxSave`, `MaxDeal`, `MaxTry`, `MaxAct` and `MaxAsk` bound what
  people begin, never what the program does with it, so that every behaviour ends in
  its last answer being taken over. They do not restrict the theorems.
- Deadlock checking is on in every run except `web_pages`: its visits are over when
  the last press is used up and answered, and nothing need happen afterwards.

### Fairness

The liveness properties (`EveryRequestEnds`) are about waiting for locks.
`SF_vars(Advance(t))` for each transaction: PostgreSQL queues those who wait for a
row, so a transaction whose lock becomes free again and again gets it; a weaker
assumption would let later requests overtake it for ever, which the queue does not.
`WF_vars(DeadlockVictim(t))`: a circle of waiting is found after
`deadlock_timeout`. DispatchTx does not assume it: its requests end by their lock
order alone. No fairness is put on the arrival of requests or on users.

The pages (`NoWidgetStuck`, `RedirectsEnd`) need less. `StoreFair`, `DeskFair`,
`FirstFair` and `AdminFair` are weak fairness of two things: a request on the way
is answered or given up, because `apiFetch` aborts it after 15 seconds
(`lib/api/client.ts`), and the browser runs what awaits an answer that is there.
FirstRow and AdminDesk need only the timer. AddressBook states no liveness: its two
waits end like the others'. `SignFair`
is weak fairness of the same kind for navigation: a page that was asked for is
answered, and a page that redirects is followed. In no case must anybody press,
type, or ask for a page; nor does a sign-out have to end, which Supabase's client
does not promise in any time. `RedirectsEnd` is stated for tokens that the API accepts
from some moment on (`<>[]accepts`); section 7 says what happens otherwise.

## 5. Properties

Each module has one type invariant; the others, by module:

- **Ordering**: `CartOfOneShop`, `OrderOfOneShop`, `HistoryTellsStatus`,
  `NeverUndoneOncePrepared` (nothing that was ever in preparation is cancelled or
  rejected, however often it went back to `ready_for_pickup`), `UnitsConserved`
  (a sum over shelf and live orders), `LedgerSpec` (refinement).
- **CheckoutTx**: `LedgerSpec` (the same ledger under interleaving),
  `OrderIsTheCart`, `EveryRequestEnds`.
- **CartTx**: `OrderIsTheCart`, `OrderOfOneShop`, `EveryRequestEnds`.
- **Dispatch**: `OneLiveRow`, `RowFitsOrder`, `OrderHasItsRow`,
  `FreshOrderWaitsForRiders`, `RowsAreHistory`, `CustodySpec` (refinement).
- **DispatchTx**: `CustodySpec`, `ReadyAndFailKeepIndex`, `NoDoubleAssign`,
  `EveryRequestEnds`.
- **Workbench**: `StaleActionOnlyCancelsOrCallsBack`, `RefusedForAReason`.
- **Storefront**: `EmptiedCartKeepsDialog` (a cart that "Empty & add" emptied and
  nothing has filled since is never hidden behind a closed dialog), and
  `QuietPageShowsTheCart`, half of `PagesShowTheServer`: a cart page with nothing on
  the way shows the server's cart unless its requests overlapped, one was given up
  and served, or another tab changed the cart.
- **CatalogDesk**: `QuietRowShowsTheProduct`, the other half. (That "Live", "Out of
  stock" and "Hidden" count every product is part of the type invariant.)
- **AddressBook**: `SecondDefaultOnlyByARacedCreate`, `EditedAddressStaysItself`.
- **FirstRow**: `FirstRequestsAgree`.
- **AdminDesk**: `OverwritesOnlyWhatMovedOn`, four action properties. The first two,
  on saving what was loaded and on `super_admin`, are about roles held in a list;
  of a string only the half that the code keeps is claimed (section 7).
- **SignIn**: `ShownWhereAsked` (what is shown at last is what was asked for, the
  landing of the role, or the login page for a reason), `RedirectsEnd`. Exceptions of
  the first are what ended late (sign-in, look, sign-out), a failed link, and a
  callback that was not told the roles.
- **WebPages**: `WebTypeOK`, `PagesShowTheServer`, `NoWidgetStuck` put the parts'
  invariants together.

The ghosts in these properties (`apart`, `mixed`, `sold`, `switched`, `raced`,
`blind`, `same`, `unsigned`, `overtaken`) record that a named race has happened.
They are what makes the statements exact: in each case TLC refutes the property
without its exception, and the exceptions are the deviations of section 7.

## 6. Theorems

For every value of the constants, under the named assumptions `OrderingAssumption`,
`DispatchAssumption`, `DispatchTxAssumption`, `WorkbenchAssumption`, `CheckoutAssumption`
and `CartAssumption` (products belong to shops, figures are naturals, riders are
comparable, there are finitely many orders, so that a rider's deliveries can be
counted), which every run of these modules also evaluates.

**Ordering_proofs.** `TypeCorrect` is inductive as it stands and includes that no
stock figure is negative: checkout's guard compares every line with the stock.
`CartsAreSingleShop` and `OrdersAreSingleShop` are inductive with the types.
`HistoryIsTheStory` and `PreparedNeverUndone` share `StoryInv`, which adds to
`HistoryTellsStatus` that an order whose history mentions `preparing` is in one of
the late states; without it an order that went back to `ready_for_pickup` could be
thought cancellable. The table offers late states only late successors
(`LateStaysLate`).

`ImplementsLedger`: the phase of an order is read off
its status; `CreateOrder` is `Reserve`, cancel and reject are `Return`,
`preparing` is `Keep`, every later move and every cart step is a stutter. It needs
that a cart line never exceeds `MaxLine` (`CartBounded`), since the ledger bounds
what a claim may take.

`UnitsAreConserved` needs a sum over the orders without an induction over them:
`Units` counts the units of the orders that were not undone as a set of pairs
(`Taken`), so an order placed adds a line's worth of pairs that were not there, and
an order undone removes them. That the set is finite is an invariant
(`TakenFinite`), so nothing is assumed of the number of orders.

**Dispatch_proofs.** The three invariants are inductive only together: that
`Ready` adds a row beside failed rows only needs that a live row has a fitting
status, and `Complete` closes the order only because its row is the live one.
`Story(l, s)` says all three of one order's column and status; one lemma per kind
of step (assign, pick up, complete, fail) keeps it, and `NextStories` sorts the
actions into these.

`NextRows` sums up what any step does to rows (they
are only appended, keep their rider, and at most one changes its status along the
table); `RowsStayHistory` and the step simulation `CustodyStep` follow from it,
with `Stories` for the guard of `Take` (nobody carries it, nobody delivered it).
`FreshOrdersWaitForRiders` rests on `GoOnline` handing out every waiting order.

**CheckoutTx_proofs.** `ImplementsLedger` at the statement level, from `TxInv`. Its
core is that what a transaction has read of a row it holds locked is what the row
contains: `CheckoutAt` for the cart and its lines, `MoveAt` for the order's status,
`DelistAt` for the product, `ShelfAt` for the inventory figures that cancel and reject
write back. A waiting transaction keeps this (`WaiterStays`) if a commit changes
nothing in rows that others have locked (`CartKept`, `OrdersKept`, `ShelfKept`), which
each commit is shown to do from its own locks (`Mine`). Beside the locks it needs that
carts hold listed products only, that a deleted product is never listed again (or a
cancel could miss one that returned after it looked), and that two checkouts never
carry the same order. A checkout is then `Reserve`, cancel and reject `Return`,
`preparing` `Keep`; every statement before the commit is a stutter.

**CartTx_proofs.** `CartInv` says which locks a transaction has at which statement
(`At`), that no two transactions hold conflicting locks (`LocksApart`), and that a
product has one line (`OneLineEach`). The three need one another: a checkout that is
about to commit holds every line there is, and this stays so because a line inserted
meanwhile would have come with a reference lock on the cart, which conflicts with the
checkout's `FOR UPDATE`; a product gets no second line because the transaction
inserting the first holds its place in the unique index. `CommitKeeps` says this once
for all four kinds of commit. `CheckoutSwallowsNothing` and `MixedCartIsNotOrdered`
follow: the order is all lines, and all lines are of the shop it names.

**DispatchTx_proofs.** `TxInv` has the committed rows on one side (`OneActive`: an
order has one active delivery; `DeliveredFits`: an order with a delivered row is
delivered) and, for each transaction, what it may rely on at its statement (`At`):
a rider it plans a row for is locked by it and has no more active deliveries than it
counted (`PlanAt`); `ready` and the riders' moves find their order and row as they
locked them (`ReadyAt`, `MoveAt`); a catch-up pass holds an order only while
inserting a row for it (`OnlineAt`). Locks are disjoint (`LocksApart`), so a commit
disturbs nobody: a rider's load can only fall under the eyes of the transaction that
counted it (`LoadFalls`). `ReadyAndFailNeverRefused` and `CountsStayGood` follow.
For `ImplementsCustody` a parcel is with the rider whose row is picked up, whatever
the order's status says: a stale pass may leave an `assigned` row on a finished
order, but no pickup is possible through it.

**Workbench_proofs.** `PagesLeaveDispatch` is the refinement that lets the theorems of
Dispatch_proofs speak of the server under the pages: `Serve` and `ServeLate` are one
of Dispatch's handlers or refused, every other step leaves its variables alone.
`DeskInv` says what an old page knows: the status it shows is one that its order or
row has had (`Former`), and a request's verb is one that a page of that status
offers (`MadeOver`). A delivery row moves one way only, so an outdated tap of a rider
finds a row further on than its verb (`StaleActionsAreHarmless`); an order can move
back from `out_for_delivery`, which is the call-back the property allows.

The web modules' theorems hold for any number of requests, tabs, rows, routes and
presses; the named assumptions are `StoreAssumption`, `BookAssumption`,
`FirstAssumption`, `DeskAssumption`, `AdminAssumption` and `SignInAssumption`.
`StoreAssumption` asks for a product and a line, as the first cart has one.
The first three modules are proved about in CustomerPages_proofs, the others and
the app as a whole in WebPages_proofs. In each the types are one conjunct of an
invariant and what a part needs beside them another (`BookShape`, `FirstShape`,
`AdminShape`: what the page waits for is on the way).

**Storefront.** `EmptiedCartTheorem` from `DialogInv`: the button's one call
belongs to its spinner, and while that call is the `clear` of a switch the dialog
is open. Every other page sends and takes in its own name (`OtherPages`), which is
the only thing to know about it. `StoreInv` adds `CartShown`: unless something set
the page apart, at most one request of the cart page is on the way, none is stray,
an answer not yet taken is the cart as it is, and without one the page shows it.

**AddressBook.** `SecondDefaultTheorem` from `BookInv`. The property says
nothing of a request half-way, so `LateRowsAreRaced` adds it: the rows that a
default's request has not cleared, or will not, were inserted after it had looked.
`EditedAddressTheorem` adds `OwnTexts`, that every request and the form hold the
text of the row they name, as long as `switched` is false. `BookShape` has the
row locks: a request takes those of the rows it saw, once nobody else has one.

**FirstRow.** `FirstRequestsTheorem` from `FirstInv`: until a request is
blind at most one is past its look and the table is empty meanwhile
(`OneInserts`); under a unique index committed and held rows together are at most
one (`OneRow`); and what a tab was told is there (`AnswersStand`).

**AdminDesk.** `OverwritesTheorem`, an action property, from `AdminInv`:
what is marked as the server's roles is what `Detail` and `Known` make of them
(`FreshIsSo`), so that saving it takes nothing from a list but unknown roles; a check that nothing moved
past still holds (`CheckedIsSo`), and a session with old roles has a sign-out to
come, or one that failed (`OldIsEnded`).

**CatalogDesk.** The web `DeskInv`: a product that is not `mixed` has one request
about it on the way at most and none lost (`OneEach`); an answer not yet taken is the
product as it is but for units sold (`AnswersFit`); a row without an answer on its
way shows it so (`RowsFit`); and a spinner has its request (`SpinnersFit`). The
creation of a product is the delicate case: its answer names a row that nobody can
have asked anything about before the page lists it (`Untouched`).

**SignIn.** `SignInv`: unless overtaken, the navigation is on its way to what was
asked for or to the landing page, by way of the login page's and the callback's
`next` too (`OnCourse`); what a page began and still shows
fits that page, a form its `next`, a sign-out a page with the button (`OwnGoOn`), so
that nothing is anybody's own while the browser navigates (`OwnIsShown`); pages that only forward are never shown (`PageIsShown`). Which page
forwards where is decided by evaluating Sitemap's table, page by page.

**WebPages.** `PartsStart` and `PartsStep` show that every behaviour of the app is one
of each part (`VisitsAreTheParts`), so the theorems above hold of the specification
that the run `web_pages` checks; `WebInv` is the conjunction of the parts'
invariants, and gives `PagesFitTheirRequests` (`WebTypeOK`),
`QuietPagesShowTheServer` (`PagesShowTheServer`) and `ArrivesWhereAsked`
(`ShownWhereAsked`).

Only model-checked: the liveness properties `EveryRequestEnds`, `NoWidgetStuck` and
`RedirectsEnd`. Fairness and ENABLED are beyond the prover; the proved type
invariants say that a spinner has its request on the way, the runs that the request
ends. Every other invariant and action property of the passing runs is a theorem.

## 7. Known deviations

Statements of the repository that the models refute. Three have a run:

- `dispatch_fewest`: `riders/service.py:132` "The online rider with the fewest
  active deliveries." A catch-up pass inserts without flushing
  (`autoflush=False`), so each of its choices sees the counts from before the pass
  and all waiting orders go to one rider.
- `dispatch_blocked`: `riders/service.py:188` "Assign every ready order without an
  active delivery". After two delivery rows `scalar_one_or_none` raises and no
  rider can come online while such an order waits.
- `cart_mixed`: `carts/service.py:3` "A cart is single-shop". Two first adds from
  two shops both succeed. Such a cart cannot be ordered (`OrderOfOneShop`).

Others are stated as properties in the modules and were refuted by TLC, but have
no configuration here, mostly because one of the runs above shows the same cause:

- `DispatchTx!LoserWaits` (`riders/service.py:135` "the loser waits on the lock and
  then sees the winner's updated load"): `SKIP LOCKED` makes it find no rider.
- `DispatchTx!AssignedIfOnline` (`riders/service.py:163-165`): a rider who comes online
  while an order becomes ready misses it, and it misses the rider.
- `DispatchTx!OnlyReadyAssigned` (`riders/service.py:188`): a pass that read an
  order before it was delivered inserts a row for it afterwards.
- `CartTx!LinesAreBound`, `CartTx!EmptyIsUnbound`, `Ordering!EmptyCartUnbound`
  (`carts/service.py:143` "If the cart is now empty, unbind the shop."): a removal
  beside an add leaves lines without binding, a deleted product leaves a binding
  without lines.
- `Ordering!MovesByDocumentedActor` (`docs/DATABASE/SCHEMA.md` section 6): the shop
  may move an order from `out_for_delivery` back to `ready_for_pickup`, which the
  documentation gives to the rider.
- A consequence on the pages: `OrderActions.tsx:16` "A concurrent change in another
  tab is surfaced as a 409". A "Mark ready" that is repeated after a timeout, or
  pressed on an outdated page, is carried out on an order that is out for delivery
  (`StaleActionOnlyCancelsOrCallsBack` allows exactly that case), and the rider's
  "Mark delivered" is refused from then on (`RefusedForAReason`).

The exceptions of the web modules' properties are deviations too. On the server:

- Two creates of a default address can leave two defaults
  (`docs/API/PHASE_1A.md:90` promises one): the second inserts behind the first
  one's bulk `UPDATE`. The next save of a default repairs it.
- Two registrations at once make two shops of one owner (no unique index), after
  which `scalar_one_or_none` answers every one of the owner's shop requests with an
  error.
- The loser of two first requests gets an error in place of the winner's row:
  `users/service.py:57-59` says it is re-read, but `begin_nested` flushes the new row
  before the savepoint exists, so the outer transaction is lost with it; and
  `add_favorite` does not catch the violation at all. Trying again works.
- A role update that read before another wrote undoes it, even a plain
  administrator's over a `super_admin` granted meanwhile; one whose `PUT` was
  carried out but not answered leaves the user signed in with the old roles.
- `admin/service.py:247` "Only a super-admin may grant or revoke the super-admin
  role" holds for roles held in a list. One string, which `core/security.py:120` and
  `redirect.ts:22` take for a role, is no role to `_user_detail`
  (`admin/service.py:221`): the editor shows none ticked, and any administrator's
  save replaces it. Roles the platform does not know, which `core/security.py:127`
  tolerates, are dropped by the editor (`UserRolesEditor.tsx:140`) and so by every
  save.

In the browser:

- Overlapping answers leave the cart or a product as the earlier answer had it
  until the page is loaded again; the summary on the checkout page is as old as
  its rendering.
- "Edit" on a second address while the form is open does not remount the form: the
  save writes the first address's fields into the second.
- A low-stock threshold can be set when a product is created and never cleared;
  the details form does not show it.
- If the add after "Empty & add" fails, the error stands behind the open dialog.
- The roles editor whose load failed shows no roles ticked and offers to save that.
- While the API refuses a token that Supabase accepts, `/login` forwards a signed-in
  person to the page that sends them back.
- A sign-in answered late takes the person away from a page opened meanwhile. An
  e-mail link that fails forgets where it was to lead.
- So does a sign-out (`SignOutButton.tsx:15-17`): whoever opens another page before
  Supabase has answered is thrown to a login page without `next`.
- If `getUser` is not answered after the link was exchanged (`callback/route.ts:39`),
  a shopkeeper, rider or administrator lands on the home page.

## 8. Not modelled, and why

Contact synchronisation and the display name write columns that no other handler
reads; matching a recreated identity by its contact is part of the same code.
Lists, details, dashboards, earnings and analytics only read; their pages are in
Sitemap with the reads they make. Pagination and the earnings summary are sums and
offsets computed by the database. Token verification is library code and role
checks are predicates on the token. Settings, logging, health, error envelopes,
migrations, seeds, layout and rendering keep no state that outlives a request.
`PhoneSignIn` is rendered by no page. Properties about the wording or the look of
a page are none of this project's. `PROJECT.json` says this for each component.

## 9. Plan

Built, in this order: OrderStates, StockLedger, Ordering with its proofs; Dispatch,
ParcelCustody with their proofs; CheckoutTx with its proofs; DispatchTx; CartTx with
its proofs; Workbench; Storefront, AddressBook, FirstRow and AdminDesk with their
proofs; CatalogDesk; Sitemap and SignIn; WebPages; the proofs of DispatchTx,
Workbench, CatalogDesk, SignIn and WebPages. What would come next:

1. **Pagination and earnings** as pure operators against reference definitions.
2. **Contact sync**: the check of a phone or an e-mail and its write, with the two
   unique indexes, statement by statement.
3. **Storefront over CartTx**: the page's requests as interleaved statements.
4. **Proofs**: that what DispatchTx does when its requests do not overlap is what
   Dispatch does, handler by handler.
