------------------------------ MODULE WebPages ------------------------------
(***************************************************************************)
(* The pages of the web app and the handlers behind them, those of orders  *)
(* and deliveries apart (Workbench): the storefront, the address book, the *)
(* products page, first requests, the administrators' pages and the way    *)
(* through sign-in.  They meet in no state the properties speak of, so a   *)
(* behaviour is a visit to one of them and the others stand still.         *)
(***************************************************************************)
EXTENDS Storefront, AddressBook, CatalogDesk, FirstRow, AdminDesk, SignIn

VARIABLE visit

webVars == <<visit, storeVars, bookVars, deskVars, firstVars, adminVars, signVars>>

Visits == {"store", "book", "desk", "first", "admin", "sign"}

\* What is not visited is as it begins, in one way where there are several.
StoreRests == StoreInit /\ cart[1].product = button.product /\ button.product = CHOOSE p \in Product : TRUE
BookRests == BookInit
FirstRests == FirstInit /\ table = "users"
AdminRests ==
    /\ AdminInit /\ screen = "shops"
    /\ [roles |-> roles, isList |-> isList] = CHOOSE m \in Stored : TRUE
SignRests == SignInit /\ live = FALSE /\ claims = CHOOSE c \in Claims : TRUE

WebInit ==
    /\ visit \in Visits
    /\ IF visit = "store" THEN StoreInit ELSE StoreRests
    /\ IF visit = "book" THEN BookInit ELSE BookRests
    /\ DeskInit
    /\ IF visit = "first" THEN FirstInit ELSE FirstRests
    /\ IF visit = "admin" THEN AdminInit ELSE AdminRests
    /\ IF visit = "sign" THEN SignInit ELSE SignRests

WebNext ==
    \/ /\ visit = "store" /\ StoreNext
       /\ UNCHANGED <<visit, bookVars, deskVars, firstVars, adminVars, signVars>>
    \/ /\ visit = "book" /\ BookNext
       /\ UNCHANGED <<visit, storeVars, deskVars, firstVars, adminVars, signVars>>
    \/ /\ visit = "desk" /\ DeskNext
       /\ UNCHANGED <<visit, storeVars, bookVars, firstVars, adminVars, signVars>>
    \/ /\ visit = "first" /\ FirstNext
       /\ UNCHANGED <<visit, storeVars, bookVars, deskVars, adminVars, signVars>>
    \/ /\ visit = "admin" /\ AdminNext
       /\ UNCHANGED <<visit, storeVars, bookVars, deskVars, firstVars, signVars>>
    \/ /\ visit = "sign" /\ SignNext
       /\ UNCHANGED <<visit, storeVars, bookVars, deskVars, firstVars, adminVars>>

\* What is not visited has nothing on the way, so nothing of it is due.
WebFair == StoreFair /\ DeskFair /\ FirstFair /\ AdminFair /\ SignFair

WebSpec == WebInit /\ [][WebNext]_webVars /\ WebFair

-----------------------------------------------------------------------------
(* Properties *)

\* Every part is well typed, and its spinners and pages fit what is on the way.
WebTypeOK ==
    /\ visit \in Visits
    /\ visit = "store" => StoreTypeOK
    /\ visit = "book" => BookTypeOK
    /\ visit = "desk" => DeskTypeOK
    /\ visit = "first" => FirstTypeOK
    /\ visit = "admin" => AdminTypeOK
    /\ visit = "sign" => SignTypeOK

\* CartManager.tsx, ProductManager.tsx: a page with nothing on the way shows
\* what the server has, unless two of its requests overlapped, one was given up
\* and served all the same, or the change was made elsewhere.
PagesShowTheServer == QuietPageShowsTheCart /\ QuietRowShowsTheProduct

\* No spinner, disabled button or "Loading" stays for good, whatever fails:
\* CartManager, AddProductButton, CheckoutForm, ProductManager, FavoriteToggle,
\* RegisterShopForm, UserRolesEditor, ShopStatusActions.
NoWidgetStuck == WidgetsComeBack /\ DeskComesBack /\ FirstComesBack /\ AdminComesBack
=============================================================================
