----------------------------- MODULE AdminDesk -----------------------------
(***************************************************************************)
(* Two administrators, one of them a super-admin, over one user's roles    *)
(* and one shop's status.  UserRolesEditor loads the roles, keeps those it *)
(* knows, lets them be ticked and replaces them all; the backend reads the *)
(* user from Supabase, where the roles may be anything, checks, writes and *)
(* signs the user out, four calls with nothing locked.                     *)
(* ShopStatusActions offers what the table allows for the status shown;    *)
(* set_shop_status checks and writes without a lock.                       *)
(***************************************************************************)
EXTENDS Integers, FiniteSets

CONSTANTS
    Admin, Super, \* the administrators; those whose token says super_admin
    Role,         \* the roles of the platform, "super_admin" among them
    Foreign,      \* roles the platform does not know, which a user may have
    Stored,       \* bound: app_metadata.roles at first, see roles and isList
    MaxAct        \* bound: loads, ticks, saves and status changes

ASSUME AdminAssumption ==
    /\ Super \subseteq Admin /\ "super_admin" \in Role /\ MaxAct \in Nat
    /\ Stored \subseteq [roles : SUBSET (Role \cup Foreign), isList : BOOLEAN]

VARIABLES
    screen,  \* the page both have open: the customers or the shops
    roles,   \* the user's app_metadata.roles
    isList,  \* they are a list there, and not one string
    session, \* the user's session: none, with those roles, or with old ones
    status,  \* shops.status
    editor,  \* [Admin -> the UserRolesEditor]
    loads,   \* [Admin -> two slots for getAdminUser on the way]
    job,     \* [Admin -> the save or status change being served]
    seen,    \* [Admin -> the status its shops page shows]
    acts,    \* of those, so far
    unsigned \* ghost: a sign-out failed, or a write was applied and not answered

adminVars == <<screen, roles, isList, session, status, editor, loads, job, seen, acts, unsigned>>

-----------------------------------------------------------------------------
Status == {"pending", "active", "suspended", "inactive"}

\* _SHOP_STATUS_TARGETS and ACTIONS_BY_STATUS, which are the same table.
Targets == [s \in Status |->
    CASE s = "active" -> {"suspended", "inactive"}
      [] s = "suspended" -> {"active", "inactive"}
      [] OTHER -> {"active"}]

LoadSlot == {1, 2}
NoLoad == [at |-> "none", roles |-> {}, fresh |-> FALSE]

\* _user_detail: what the backend takes for the user's roles.
Detail == IF isList THEN roles ELSE {}

\* rolesFrom: what the editor keeps of a list.
Known(names) == names \cap Role

\* same: what was read is still so.  asIs: the roles are those loaded, and the
\* server has not changed them since.
NoJob == [at |-> "idle", kind |-> "save", roles |-> {}, to |-> "active",
          same |-> TRUE, asIs |-> FALSE]

Shut == [open |-> FALSE, loading |-> FALSE, saving |-> FALSE, busy |-> FALSE,
         roles |-> {}, fresh |-> FALSE]

Acts == acts < MaxAct /\ acts' = acts + 1

-----------------------------------------------------------------------------
(* The browser. *)

FreeLoads(a) == {n \in LoadSlot : loads[a][n].at = "none"}

\* "Manage roles".  An earlier load may still be on the way.
OpenEditor(a) ==
    /\ screen = "customers"
    /\ ~editor[a].open /\ FreeLoads(a) # {}
    /\ Acts
    /\ editor' = [editor EXCEPT ![a].open = TRUE, ![a].loading = TRUE]
    /\ loads' = [loads EXCEPT ![a][CHOOSE n \in FreeLoads(a) : TRUE].at = "sent"]
    /\ UNCHANGED <<screen, roles, isList, session, status, job, seen, unsigned>>

ServeLoad(a, n) ==
    /\ loads[a][n].at = "sent"
    /\ loads' = [loads EXCEPT ![a][n] = [at |-> "read", roles |-> Detail, fresh |-> TRUE]]
    /\ UNCHANGED <<screen, roles, isList, session, status, editor, job, seen, acts, unsigned>>

\* An error leaves whatever was ticked, and "Save roles" enabled.
TakeLoad(a, n) ==
    /\ \/ /\ loads[a][n].at = "read"
          /\ editor' = [editor EXCEPT ![a].loading = FALSE, ![a].fresh = loads[a][n].fresh,
                                      ![a].roles = Known(loads[a][n].roles)]
       \/ /\ loads[a][n].at = "sent"
          /\ editor' = [editor EXCEPT ![a].loading = FALSE]
    /\ loads' = [loads EXCEPT ![a][n] = NoLoad]
    /\ UNCHANGED <<screen, roles, isList, session, status, job, seen, acts, unsigned>>

Tick(a, r) ==
    /\ editor[a].open /\ ~editor[a].loading
    /\ Acts
    /\ editor' = [editor EXCEPT ![a].fresh = FALSE,
                     ![a].roles = IF r \in @ THEN @ \ {r} ELSE @ \cup {r}]
    /\ UNCHANGED <<screen, roles, isList, session, status, loads, job, seen, unsigned>>

CloseEditor(a) ==
    /\ editor[a].open /\ ~editor[a].saving
    /\ editor' = [editor EXCEPT ![a].open = FALSE]
    /\ UNCHANGED <<screen, roles, isList, session, status, loads, job, seen, acts, unsigned>>

\* "Save roles": the whole list.
PressSave(a) ==
    /\ editor[a].open /\ ~editor[a].loading /\ ~editor[a].saving /\ job[a] = NoJob
    /\ Acts
    /\ editor' = [editor EXCEPT ![a].saving = TRUE]
    /\ job' = [job EXCEPT ![a] = [NoJob EXCEPT !.at = "read", !.roles = editor[a].roles,
                                               !.asIs = editor[a].fresh]]
    /\ UNCHANGED <<screen, roles, isList, session, status, loads, seen, unsigned>>

PressStatus(a, s) ==
    /\ screen = "shops"
    /\ s \in Targets[seen[a]] /\ ~editor[a].busy /\ job[a] = NoJob
    /\ Acts
    /\ editor' = [editor EXCEPT ![a].busy = TRUE]
    /\ job' = [job EXCEPT ![a] = [NoJob EXCEPT !.at = "read", !.kind = "status", !.to = s]]
    /\ UNCHANGED <<screen, roles, isList, session, status, loads, seen, unsigned>>

\* The shops page is loaded again.
ShowShop(a) ==
    /\ screen = "shops"
    /\ seen' = [seen EXCEPT ![a] = status]
    /\ UNCHANGED <<screen, roles, isList, session, status, editor, loads, job, acts, unsigned>>

\* save and apply end: with the answer, or after 15 seconds without it.
EndWait(a) ==
    /\ \/ editor[a].saving /\ editor' = [editor EXCEPT ![a].saving = FALSE]
       \/ editor[a].busy /\ editor' = [editor EXCEPT ![a].busy = FALSE]
    /\ job' = [job EXCEPT ![a] = IF @.at = "over" THEN NoJob ELSE @]
    /\ UNCHANGED <<screen, roles, isList, session, status, loads, seen, acts, unsigned>>

-----------------------------------------------------------------------------
(* The backend and Supabase. *)

Ends(a) == [job EXCEPT ![a] =
    IF editor[a].saving \/ editor[a].busy THEN [NoJob EXCEPT !.at = "over"] ELSE NoJob]

\* update_user_roles: get_user, and only a super-admin may go on with a list or
\* a user that has super_admin.
ReadUser(a) ==
    /\ job[a].at = "read" /\ job[a].kind = "save"
    /\ IF a \notin Super /\ "super_admin" \in Detail \cup job[a].roles
       THEN job' = Ends(a)
       ELSE job' = [job EXCEPT ![a].at = "write", ![a].same = TRUE]
    /\ UNCHANGED <<screen, roles, isList, session, status, editor, loads, seen, acts, unsigned>>

\* update_app_metadata: a list, whatever was there.  Nothing read elsewhere is
\* up to date after a change.  No answer within 10 seconds and the user is not
\* signed out.
WriteRoles(a) ==
    LET changed == ~isList \/ roles # job[a].roles
        written == [x \in Admin |-> [job[x] EXCEPT
                       !.same = @ /\ ~(changed /\ job[x].kind = "save"),
                       !.asIs = @ /\ ~changed]]
    IN
    /\ job[a].at = "write" /\ job[a].kind = "save"
    /\ roles' = job[a].roles /\ isList' = TRUE
    /\ session' = IF changed /\ session = "current" THEN "old" ELSE session
    /\ \/ /\ job' = [written EXCEPT ![a].at = "out"]
          /\ unsigned' = unsigned
       \/ /\ job' = [written EXCEPT ![a] = Ends(a)[a]]
          /\ unsigned' = TRUE
    /\ editor' = [x \in Admin |-> [editor[x] EXCEPT !.fresh = @ /\ ~changed]]
    /\ loads' = [x \in Admin |-> [n \in LoadSlot |->
                    [loads[x][n] EXCEPT !.fresh = @ /\ ~changed]]]
    /\ UNCHANGED <<screen, status, seen, acts>>

\* Best effort.
SignUserOut(a) ==
    /\ job[a].at = "out"
    /\ \/ session' = "none" /\ unsigned' = unsigned
       \/ session' = session /\ unsigned' = TRUE
    /\ job' = Ends(a)
    /\ UNCHANGED <<screen, roles, isList, status, editor, loads, seen, acts>>

\* The user signs in, or the session is refreshed.
UserSignsIn ==
    /\ screen = "customers" /\ session # "current"
    /\ session' = "current"
    /\ UNCHANGED <<screen, roles, isList, status, editor, loads, job, seen, acts, unsigned>>

\* Mutant: any status may follow any other.
ReadShopWithoutTable(a) ==
    /\ job[a].at = "read" /\ job[a].kind = "status"
    /\ job' = [job EXCEPT ![a].at = "write", ![a].same = TRUE]
    /\ UNCHANGED <<screen, roles, isList, session, status, editor, loads, seen, acts, unsigned>>

\* set_shop_status: the check...
ReadShop(a) ==
    /\ job[a].at = "read" /\ job[a].kind = "status"
    /\ IF job[a].to \notin Targets[status]
       THEN job' = Ends(a)
       ELSE job' = [job EXCEPT ![a].at = "write", ![a].same = TRUE]
    /\ UNCHANGED <<screen, roles, isList, session, status, editor, loads, seen, acts, unsigned>>

\* ... and the write.
WriteShop(a) ==
    /\ job[a].at = "write" /\ job[a].kind = "status"
    /\ status' = job[a].to
    /\ job' = [x \in Admin |->
                  IF x = a THEN Ends(a)[a]
                  ELSE [job[x] EXCEPT !.same = @ /\ ~(job[x].kind = "status" /\ status # status')]]
    /\ UNCHANGED <<screen, roles, isList, session, editor, loads, seen, acts, unsigned>>

\* An error of the session, of Supabase or of the database.
AbortJob(a) ==
    /\ job[a].at \in {"read", "write"}
    /\ job' = Ends(a)
    /\ UNCHANGED <<screen, roles, isList, session, status, editor, loads, seen, acts, unsigned>>

-----------------------------------------------------------------------------
AdminInit ==
    /\ screen \in {"customers", "shops"}
    /\ \E m \in Stored : roles = m.roles /\ isList = m.isList
    /\ session = "current" /\ status = "pending"
    /\ \E loaded \in {{}, Admin} :
          /\ loaded # {} => screen = "customers"
          /\ editor = [a \in Admin |->
                [Shut EXCEPT !.open = a \in loaded, !.fresh = a \in loaded,
                             !.roles = IF a \in loaded THEN Known(Detail) ELSE {}]]
    /\ loads = [a \in Admin |-> [n \in LoadSlot |-> NoLoad]]
    /\ job = [a \in Admin |-> NoJob]
    /\ seen = [a \in Admin |-> status]
    /\ acts = 0 /\ unsigned = FALSE

AdminNext ==
    \/ \E a \in Admin :
          \/ OpenEditor(a) \/ CloseEditor(a) \/ PressSave(a) \/ ShowShop(a) \/ EndWait(a)
          \/ \E n \in LoadSlot : ServeLoad(a, n) \/ TakeLoad(a, n)
          \/ \E r \in Role : Tick(a, r)
          \/ \E s \in Status : PressStatus(a, s)
          \/ ReadUser(a) \/ WriteRoles(a) \/ SignUserOut(a)
          \/ ReadShop(a) \/ WriteShop(a) \/ AbortJob(a)
    \/ UserSignsIn

AdminSpec == AdminInit /\ [][AdminNext]_adminVars

\* Waits end, with an answer or by their timer; there are only so many.
AdminFair ==
    WF_adminVars(\E a \in Admin : EndWait(a) \/ \E n \in LoadSlot : TakeLoad(a, n))

-----------------------------------------------------------------------------
(* Properties *)

\* Roles, statuses and editors are well typed; an editor that loads has a load
\* on the way, and a job that ended is still waited for.
AdminTypeOK ==
    /\ roles \subseteq Role \cup Foreign /\ isList \in BOOLEAN /\ status \in Status
    /\ session \in {"none", "current", "old"}
    /\ \A a \in Admin :
          /\ editor[a].roles \subseteq Role /\ seen[a] \in Status
          /\ editor[a].loading => \E n \in LoadSlot : loads[a][n].at # "none"
          /\ job[a].at = "over" => editor[a].saving \/ editor[a].busy
    /\ acts \in 0..MaxAct

Writes(a) == job[a].at = "write" /\ job'[a].at # "write"

\* admin/service.py:147, :221 and :254, UserRolesEditor.tsx:140.  No lock is held
\* between what an administrator saw and what is written, so a write may undo
\* another's; but only another's, as long as the metadata holds a list:
\*   - a list saved as it was loaded gives and takes none of the platform's
\*     roles, unless they moved on; it gives none even where the metadata held
\*     a string, which the backend reads as no roles;
\*   - only a super-admin's save gives or takes super_admin, unless it moved
\*     between the check and the write of another's;
\*   - a shop changes as the table says, unless it moved in between;
\*   - a session with old roles is about to be ended, or the attempt failed.
OverwritesOnlyWhatMovedOn ==
    /\ [][\A a \in Admin :
            Writes(a) /\ job[a].asIs =>
                /\ roles' \subseteq roles
                /\ isList => roles' \cap Role = roles \cap Role]_adminVars
    /\ [][\A a \in Admin \ Super :
            Writes(a) /\ job[a].kind = "save" /\ job[a].same /\ isList =>
                ("super_admin" \in roles' <=> "super_admin" \in roles)]_adminVars
    /\ [][\A a \in Admin :
            Writes(a) /\ job[a].kind = "status" /\ job[a].same /\ status' # status =>
                status' \in Targets[status]]_adminVars
    /\ [](session = "old" => unsigned \/ \E a \in Admin : job[a].at = "out")

\* "Loading roles", "Save roles" and the shop's buttons come back.
AdminComesBack ==
    \A a \in Admin : []<>(~editor[a].saving) /\ []<>(~editor[a].busy) /\ []<>(~editor[a].loading)
=============================================================================
