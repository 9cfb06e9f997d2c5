------------------------------ MODULE FirstRow ------------------------------
(***************************************************************************)
(* Rows a first request makes.  The person's own row in users, the active  *)
(* cart, a favourite shop and the owner's shop are all made the same way:  *)
(* look for the row, insert it if there is none.  Several tabs of one      *)
(* person do so at once; a unique index serialises the inserts of three of *)
(* the tables, shops.owner_user_id has none.                               *)
(***************************************************************************)
EXTENDS Integers, FiniteSets

CONSTANTS
    Tab,
    MaxFirst, \* bound: rows ever inserted
    MaxTry    \* bound: requests made

ASSUME FirstAssumption == MaxFirst \in Nat \ {0} /\ MaxTry \in Nat

VARIABLES
    table,   \* the table the behaviour is about
    present, \* its committed rows of this person
    lastIn,  \* the newest row, committed or not
    tx,      \* [Tab -> where its request is, and the row it is about]
    tab,     \* [Tab -> the row its page knows, its spinner, "sent" for good]
    tries,   \* requests made so far
    blind    \* ghost: a request found no row that another was already inserting

firstVars == <<table, present, lastIn, tx, tab, tries, blind>>

-----------------------------------------------------------------------------
Unknown == 0
Unique == {"users", "carts", "favorites"}
FirstId == 1..MaxFirst

Idle == [at |-> "idle", row |-> Unknown]

\* An answer nobody waits for is dropped.
Replies(t, a, r) ==
    tx' = [tx EXCEPT ![t] = IF tab[t].busy THEN [at |-> a, row |-> r] ELSE Idle]

Moves(t, a) == tx' = [tx EXCEPT ![t].at = a]

OnServer(t) == tx[t].at \in {"look", "insert", "held", "drop"}

Held == {tx[t].row : t \in {u \in Tab : tx[u].at = "held"}}

-----------------------------------------------------------------------------
(* The server. *)

\* create_shop refuses a second shop; two rows make its scalar_one_or_none
\* raise.  The others go on with the row they find.
Look(t) ==
    /\ tx[t].at = "look"
    /\ \/ /\ present = {} /\ Moves(t, "insert")
          /\ blind' = (blind \/ \E u \in Tab \ {t} : tx[u].at \in {"insert", "held"})
       \/ /\ present # {}
          /\ \/ table = "shops" /\ Replies(t, "refused", Unknown)
             \/ table \in Unique /\ \E r \in present : Replies(t, "served", r)
          /\ blind' = blind
    /\ UNCHANGED <<table, present, lastIn, tab, tries>>

\* Mutant: the favourites' unique constraint is missing.
InsertRowUnchecked(t) ==
    /\ tx[t].at = "insert"
    /\ table \in Unique \ {"favorites"} => Held = {}
    /\ IF table \in Unique \ {"favorites"} /\ present # {}
       THEN Replies(t, "refused", Unknown) /\ lastIn' = lastIn
       ELSE /\ lastIn < MaxFirst /\ lastIn' = lastIn + 1
            /\ tx' = [tx EXCEPT ![t] = [at |-> "held", row |-> lastIn']]
    /\ UNCHANGED <<table, present, tab, tries, blind>>

\* A unique index makes the second insert wait for the first, then refuses it.
\* ensure_user means to resolve to the winner's row, but its row is flushed by
\* begin_nested, before there is a savepoint: the lookup after it finds the
\* session's transaction rolled back and raises.
InsertRow(t) ==
    /\ tx[t].at = "insert"
    /\ table \in Unique => Held = {}
    /\ IF table \in Unique /\ present # {}
       THEN Replies(t, "refused", Unknown) /\ lastIn' = lastIn
       ELSE /\ lastIn < MaxFirst /\ lastIn' = lastIn + 1
            /\ tx' = [tx EXCEPT ![t] = [at |-> "held", row |-> lastIn']]
    /\ UNCHANGED <<table, present, tab, tries, blind>>

CommitRow(t) ==
    /\ tx[t].at = "held"
    /\ present' = present \cup {tx[t].row}
    /\ Replies(t, "served", tx[t].row)
    /\ UNCHANGED <<table, lastIn, tab, tries, blind>>

\* remove_favorite: 404 for a row that is gone.
DropFavorite(t) ==
    /\ tx[t].at = "drop"
    /\ present' = present \ {tx[t].row}
    /\ Replies(t, IF tx[t].row \in present THEN "served" ELSE "refused", Unknown)
    /\ UNCHANGED <<table, lastIn, tab, tries, blind>>

\* Any other error, and the end of a request that reads only: ensure_user's row
\* is not committed with it.
RollBack(t) ==
    /\ OnServer(t)
    /\ \/ Replies(t, "refused", Unknown)
       \/ table = "users" /\ tx[t].at = "held" /\ Replies(t, "served", Unknown)
    /\ UNCHANGED <<table, present, lastIn, tab, tries, blind>>

-----------------------------------------------------------------------------
(* The tabs. *)

\* "Save shop" or "Saved", "Register shop", or any request of the other tables.
PressFirst(t) ==
    /\ ~tab[t].busy /\ ~tab[t].done /\ tx[t] = Idle
    /\ tries < MaxTry /\ tries' = tries + 1
    /\ tab' = [tab EXCEPT ![t].busy = TRUE]
    /\ tx' = [tx EXCEPT ![t] =
                 IF table = "favorites" /\ tab[t].known # Unknown
                 THEN [at |-> "drop", row |-> tab[t].known]
                 ELSE [at |-> "look", row |-> Unknown]]
    /\ UNCHANGED <<table, present, lastIn, blind>>

\* What the page knows is left as it was by an error.
TakeFirst(t) ==
    /\ tx[t].at \in {"served", "refused"}
    /\ tab' = [tab EXCEPT ![t] =
                  [known |-> IF tx[t].at = "served" THEN tx[t].row ELSE @.known,
                   busy |-> FALSE,
                   done |-> @.done \/ (table = "shops" /\ tx[t].at = "served")]]
    /\ tx' = [tx EXCEPT ![t] = Idle]
    /\ UNCHANGED <<table, present, lastIn, tries, blind>>

\* 15 seconds.
StopWaiting(t) ==
    /\ tab[t].busy /\ OnServer(t)
    /\ tab' = [tab EXCEPT ![t].busy = FALSE]
    /\ UNCHANGED <<table, present, lastIn, tx, tries, blind>>

\* The page is loaded again; a dashboard with a shop, or with the error two of
\* them cause, offers no form.
OpenTab(t) ==
    /\ ~tab[t].busy
    /\ tab' = [tab EXCEPT ![t] =
                  [known |-> IF table = "favorites" /\ present # {}
                             THEN CHOOSE r \in present : TRUE ELSE Unknown,
                   busy |-> FALSE,
                   done |-> table = "shops" /\ present # {}]]
    /\ UNCHANGED <<table, present, lastIn, tx, tries, blind>>

-----------------------------------------------------------------------------
FirstInit ==
    /\ table \in Unique \cup {"shops"}
    /\ present = {} /\ lastIn = 0
    /\ tx = [t \in Tab |-> Idle]
    /\ tab = [t \in Tab |-> [known |-> Unknown, busy |-> FALSE, done |-> FALSE]]
    /\ tries = 0 /\ blind = FALSE

FirstNext ==
    \E t \in Tab :
        \/ Look(t) \/ InsertRow(t) \/ CommitRow(t) \/ DropFavorite(t) \/ RollBack(t)
        \/ PressFirst(t) \/ TakeFirst(t) \/ StopWaiting(t) \/ OpenTab(t)

FirstSpec == FirstInit /\ [][FirstNext]_firstVars

\* Waits end, with an answer or by their timer; there are only so many.
FirstFair == WF_firstVars(\E t \in Tab : TakeFirst(t) \/ StopWaiting(t))

-----------------------------------------------------------------------------
(* Properties *)

\* Rows, requests and pages are well typed; a spinner has its request.
FirstTypeOK ==
    /\ table \in Unique \cup {"shops"}
    /\ lastIn \in 0..MaxFirst /\ present \cup Held \subseteq 1..lastIn
    /\ \A t \in Tab :
          /\ tx[t].row \in {Unknown} \cup FirstId
          /\ tab[t].known \in {Unknown} \cup FirstId
          /\ tab[t].busy => tx[t] # Idle
          /\ OnServer(t) \/ tab[t].busy \/ tx[t] = Idle
    /\ tries \in 0..MaxTry

\* users:54, carts:34, favorites:47, shops:148.  However many tabs ask first, a
\* person has one row in users, one active cart and one favourite of a shop, and
\* every tab that was answered names that row.  Shops may be two, but only by
\* a registration that looked while another had looked and not committed.
FirstRequestsAgree ==
    /\ table \in Unique => Cardinality(present \cup Held) <= 1
    /\ \A t \in Tab : table \in {"users", "carts"} => tab[t].known \in present \cup {Unknown}
    /\ Cardinality(present \cup Held) > 1 => blind

\* No spinner stays.
FirstComesBack == \A t \in Tab : []<>(~tab[t].busy)
=============================================================================
