---------------------------- MODULE AddressBook ----------------------------
(***************************************************************************)
(* The saved addresses of one customer: the page with its form, and the    *)
(* handlers of /me/addresses, one database statement at a time (READ       *)
(* COMMITTED, row locks, nothing locked before it is written).  The page   *)
(* gives a request up after 15 seconds, so a second save may run beside    *)
(* the first; a removal runs beside a save in any case.                    *)
(***************************************************************************)
EXTENDS Integers, FiniteSets

CONSTANTS
    Req,    \* bound: requests the server serves at a time
    Saved,  \* addresses at first, the newest being the default
    MaxRow, \* bound: addresses ever saved
    MaxSave \* bound: requests made; nobody touches the form after the last

ASSUME BookAssumption == MaxRow \in Nat /\ Saved \in 0..MaxRow /\ MaxSave \in Nat

VARIABLES
    rows,     \* addresses: id |-> text and is_default
    lastRow,  \* the newest id
    served,   \* [Req -> the request, its statement, what it has read and locked]
    awaits,   \* [Req -> what the page does with the answer]
    form,     \* the form: closed, new, or editing a row; and what it holds
    deleting, \* deletingId
    listed,   \* the addresses the page was rendered with
    due,      \* router.refresh() was called
    saves,    \* requests made so far
    switched, \* ghost: "Edit" was pressed with another address in the form
    raced     \* ghost: rows inserted after a default's request had looked

bookVars == <<rows, lastRow, served, awaits, form, deleting, listed, due, saves, switched, raced>>

-----------------------------------------------------------------------------
NoRow == 0
NewRow == MaxRow + 1
RowId == 1..MaxRow

\* The text of an address is named for the row it was first saved as; a new one
\* gets its name when it is inserted.
Address == [text : RowId \cup {NewRow}, default : BOOLEAN]

Form == [row : {NoRow, NewRow} \cup RowId, value : Address, submitting : BOOLEAN]

Unfilled == [text |-> NewRow, default |-> FALSE]

NoReq == [kind |-> "none", row |-> NoRow, value |-> Unfilled, at |-> "idle",
          read |-> Unfilled, saw |-> {}, locks |-> {}]

Defaults == {i \in DOMAIN rows : rows[i].default}

\* Rows another request has written and not committed.
LockedByOthers(r) == UNION {served[u].locks : u \in Req \ {r}}

\* A request that makes its address the default.
SetsDefault(r) == served[r].kind \in {"create", "update"} /\ served[r].value.default

\* Rows inserted from now on keep their default whatever r does.
HasScanned(r) == SetsDefault(r) /\ served[r].at \in {"clear", "write"}

-----------------------------------------------------------------------------
(* The server. *)

Step(r, s) == served' = [served EXCEPT ![r] = s]

Stays == UNCHANGED <<awaits, form, deleting, listed, due, saves, switched>>

\* The answer; nobody may be waiting for it any more.
Answers(r, a) == Step(r, IF awaits[r] = "nothing" THEN NoReq ELSE [NoReq EXCEPT !.at = a])

Fails(r) ==
    /\ Answers(r, "failed")
    /\ UNCHANGED <<rows, lastRow, raced>>

\* _get_owned_address; create_address has nothing to load.
Load(r) ==
    LET s == served[r] IN
    /\ s.at = "load"
    /\ IF s.kind # "create" /\ s.row \notin DOMAIN rows
       THEN Fails(r)
       ELSE /\ Step(r, [s EXCEPT
                    !.at = IF SetsDefault(r) THEN "scan" ELSE "write",
                    !.read = IF s.kind = "create" THEN Unfilled ELSE rows[s.row]])
            /\ UNCHANGED <<rows, lastRow, raced>>
    /\ Stays

\* The bulk UPDATE sees the rows committed when it begins...
ScanDefaults(r) ==
    /\ served[r].at = "scan"
    /\ Step(r, [served[r] EXCEPT !.at = "clear", !.saw = DOMAIN rows])
    /\ UNCHANGED <<rows, lastRow, raced>>
    /\ Stays

\* ... and waits for those that others have written.
ClearDefaults(r) ==
    /\ served[r].at = "clear"
    /\ served[r].saw \cap LockedByOthers(r) = {}
    /\ Step(r, [served[r] EXCEPT !.at = "write",
                    !.locks = served[r].saw \cap DOMAIN rows,
                    !.read.default = FALSE])
    /\ UNCHANGED <<rows, lastRow, raced>>
    /\ Stays

Cleared(r) ==
    [i \in DOMAIN rows |->
        IF i \in served[r].locks THEN [rows[i] EXCEPT !.default = FALSE] ELSE rows[i]]

Insert(r) ==
    /\ served[r].at = "write" /\ served[r].kind = "create"
    /\ lastRow < MaxRow
    /\ lastRow' = lastRow + 1
    /\ rows' = [i \in DOMAIN rows \cup {lastRow'} |->
                   IF i = lastRow' THEN [text |-> lastRow', default |-> served[r].value.default]
                   ELSE Cleared(r)[i]]
    /\ raced' = IF \E u \in Req \ {r} : HasScanned(u) THEN raced \cup {lastRow'} ELSE raced
    /\ Answers(r, "done")
    /\ Stays

\* Mutant: the previous default is kept by an update.
SetWithoutClear(r) ==
    LET s == served[r] IN
    /\ s.at = "write" /\ s.kind = "update"
    /\ s.row \notin LockedByOthers(r)
    /\ IF s.row \notin DOMAIN rows
       THEN Fails(r)
       ELSE /\ rows' = [rows EXCEPT ![s.row] = s.value]
            /\ UNCHANGED <<lastRow, raced>>
            /\ Answers(r, "done")
    /\ Stays

\* Only attributes that differ from what was loaded are written.
Set(r) ==
    LET s == served[r] IN
    /\ s.at = "write" /\ s.kind = "update"
    /\ s.row \notin LockedByOthers(r)
    /\ IF s.row \notin DOMAIN rows
       THEN Fails(r)
       ELSE /\ rows' = [Cleared(r) EXCEPT
                           ![s.row].text = IF s.value.text = s.read.text THEN @ ELSE s.value.text,
                           ![s.row].default =
                               IF s.value.default = s.read.default THEN @ ELSE s.value.default]
            /\ UNCHANGED <<lastRow, raced>>
            /\ Answers(r, "done")
    /\ Stays

Remove(r) ==
    /\ served[r].at = "write" /\ served[r].kind = "delete"
    /\ served[r].row \notin LockedByOthers(r)
    /\ rows' = [i \in DOMAIN rows \ {served[r].row} |-> rows[i]]
    /\ UNCHANGED <<lastRow, raced>>
    /\ Answers(r, "done")
    /\ Stays

\* Any other error: the session, a rate limit, an order that refers to the
\* address, a deadlock, a connection lost before the request arrived.
AbortSave(r) ==
    /\ served[r].at \notin {"idle", "done", "failed"}
    /\ Fails(r)
    /\ Stays

-----------------------------------------------------------------------------
(* The page. *)

Free == {r \in Req : served[r].at = "idle" /\ awaits[r] = "nothing"}

\* Which free slot serves the request does not matter.
Ask(r, kind, row, value, awaiting) ==
    /\ Free # {} /\ r = CHOOSE u \in Free : TRUE
    /\ saves < MaxSave /\ saves' = saves + 1
    /\ Step(r, [NoReq EXCEPT !.kind = kind, !.row = row, !.value = value, !.at = "load"])
    /\ awaits' = [awaits EXCEPT ![r] = awaiting]
    /\ UNCHANGED <<rows, lastRow, listed, due, switched, raced>>

Shows(f) ==
    /\ saves < MaxSave
    /\ form' = f
    /\ UNCHANGED <<rows, lastRow, served, awaits, deleting, listed, due, saves, raced>>

\* "Add address": a form of its own.
AddAddress ==
    /\ form.row # NewRow
    /\ Shows([form EXCEPT !.row = NewRow, !.value = Unfilled])
    /\ UNCHANGED switched

\* Mutant: the form that creates an address is kept for the one that edits.
EditKeepingDraft(i) ==
    /\ i \in DOMAIN listed
    /\ Shows([form EXCEPT !.row = i, !.value = IF form.row = NoRow THEN listed[i] ELSE @])
    /\ switched' = (switched \/ form.row \notin {NoRow, NewRow, i})

\* "Edit": an AddressForm that already edits an address is not mounted again, so
\* it keeps its values when the page gives it another one.
Edit(i) ==
    /\ i \in DOMAIN listed
    /\ Shows([form EXCEPT !.row = i,
                 !.value = IF form.row \in RowId THEN @ ELSE listed[i]])
    /\ switched' = (switched \/ form.row \notin {NoRow, NewRow, i})

\* "Set as default address".
TickDefault ==
    /\ form.row # NoRow
    /\ Shows([form EXCEPT !.value.default = ~@])
    /\ UNCHANGED switched

CloseForm ==
    /\ form.row # NoRow /\ ~form.submitting
    /\ Shows([form EXCEPT !.row = NoRow, !.value = Unfilled])
    /\ UNCHANGED switched

\* submit: every field is sent, changed or not.
Submit(r) ==
    /\ form.row # NoRow /\ ~form.submitting
    /\ IF form.row = NewRow THEN Ask(r, "create", NoRow, form.value, "submit")
       ELSE Ask(r, "update", form.row, form.value, "submit")
    /\ form' = [form EXCEPT !.submitting = TRUE]
    /\ UNCHANGED deleting

PressRemove(r, i) ==
    /\ i \in DOMAIN listed /\ deleting # i
    /\ Ask(r, "delete", i, Unfilled, "remove")
    /\ deleting' = i
    /\ UNCHANGED form

\* The answer, or 15 seconds: then the request goes on unobserved.  A save that
\* succeeded closes whatever form is open by then.
TakeSaved(r) ==
    /\ awaits[r] = "submit"
    /\ \/ /\ served[r].at \in {"done", "failed"}
          /\ Step(r, NoReq)
       \/ /\ served[r].at \notin {"done", "failed"}
          /\ UNCHANGED served
    /\ awaits' = [awaits EXCEPT ![r] = "nothing"]
    /\ form' = IF served[r].at = "done"
               THEN [row |-> NoRow, value |-> Unfilled, submitting |-> FALSE]
               ELSE [form EXCEPT !.submitting = FALSE]
    /\ due' = (due \/ served[r].at = "done")
    /\ UNCHANGED <<rows, lastRow, deleting, listed, saves, switched, raced>>

TakeRemoved(r) ==
    /\ awaits[r] = "remove"
    /\ \/ /\ served[r].at \in {"done", "failed"}
          /\ Step(r, NoReq)
       \/ /\ served[r].at \notin {"done", "failed"}
          /\ UNCHANGED served
    /\ awaits' = [awaits EXCEPT ![r] = "nothing"]
    /\ deleting' = NoRow
    /\ due' = (due \/ served[r].at = "done")
    /\ UNCHANGED <<rows, lastRow, form, listed, saves, switched, raced>>

Reload ==
    /\ due
    /\ due' = FALSE
    /\ listed' = rows
    /\ UNCHANGED <<rows, lastRow, served, awaits, form, deleting, saves, switched, raced>>

-----------------------------------------------------------------------------
BookInit ==
    /\ lastRow = Saved
    /\ rows = [i \in 1..lastRow |-> [text |-> i, default |-> i = lastRow]]
    /\ served = [r \in Req |-> NoReq]
    /\ awaits = [r \in Req |-> "nothing"]
    /\ form = [row |-> NoRow, value |-> Unfilled, submitting |-> FALSE]
    /\ deleting = NoRow
    /\ listed = rows
    /\ due = FALSE
    /\ saves = 0
    /\ switched = FALSE
    /\ raced = {}

BookNext ==
    \/ \E r \in Req :
          \/ Load(r) \/ ScanDefaults(r) \/ ClearDefaults(r)
          \/ Insert(r) \/ Set(r) \/ Remove(r) \/ AbortSave(r)
          \/ Submit(r) \/ TakeSaved(r) \/ TakeRemoved(r)
          \/ \E i \in RowId : PressRemove(r, i)
    \/ \E i \in RowId : Edit(i)
    \/ AddAddress \/ TickDefault \/ CloseForm \/ Reload

BookSpec == BookInit /\ [][BookNext]_bookVars

-----------------------------------------------------------------------------
(* Properties *)

\* Addresses, requests and the form are well typed; a row is locked by one
\* request at most, and the form waits exactly while its save is awaited.
BookTypeOK ==
    /\ lastRow \in 0..MaxRow /\ DOMAIN rows \subseteq 1..lastRow
    /\ \A i \in DOMAIN rows : rows[i] \in Address
    /\ form \in Form /\ deleting \in RowId \cup {NoRow}
    /\ \A r \in Req : served[r].locks \subseteq RowId /\ served[r].value \in Address
    /\ \A r, u \in Req : served[r].locks \cap served[u].locks # {} => r = u
    /\ form.submitting <=> \E r \in Req : awaits[r] = "submit"

\* users/service.py:154.  Saving a default clears the previous one.  Of two
\* defaults side by side one was inserted while a request to set a default had
\* sent its bulk UPDATE, which cannot see that row; whatever else runs at once,
\* updates alone never leave two.
SecondDefaultOnlyByARacedCreate ==
    \A i, j \in Defaults : i # j => {i, j} \cap raced # {}

\* AddressManager.tsx: a save writes the address whose "Edit" was pressed, unless
\* the form was taken from one address straight to another.
EditedAddressStaysItself == ~switched => \A i \in DOMAIN rows : rows[i].text = i
=============================================================================
