-------------------------- MODULE WebPages_proofs --------------------------
(***************************************************************************)
(* Machine-checked theorems about the pages of the web app, for every      *)
(* value of the constants: the administrators' pages, the products page    *)
(* and sign-in; and, with the customers' pages, the app as a whole.        *)
(***************************************************************************)
EXTENDS WebPages, CustomerPages_proofs

-----------------------------------------------------------------------------
(***************************************************************************)
(* The administrators' pages.                                              *)
(***************************************************************************)

-----------------------------------------------------------------------------
(* The inductive invariant *)

Jobs == [at : {"idle", "read", "write", "out", "over"}, kind : {"save", "status"},
         roles : SUBSET Role, to : Status, same : BOOLEAN, asIs : BOOLEAN]

Loads == [at : {"none", "sent", "read"}, roles : SUBSET (Role \cup Foreign), fresh : BOOLEAN]

Editors == [open : BOOLEAN, loading : BOOLEAN, saving : BOOLEAN, busy : BOOLEAN,
            roles : SUBSET Role, fresh : BOOLEAN]

AdminTypes ==
    /\ roles \in SUBSET (Role \cup Foreign) /\ isList \in BOOLEAN /\ status \in Status
    /\ job \in [Admin -> Jobs]
    /\ loads \in [Admin -> [LoadSlot -> Loads]]
    /\ editor \in [Admin -> Editors]

\* What is marked as the roles the backend answers with is so.
FreshIsSo ==
    \A a \in Admin :
        /\ job[a].asIs => job[a].roles = Detail \cap Role /\ job[a].kind = "save"
        /\ editor[a].fresh => editor[a].roles = Detail \cap Role
        /\ \A n \in LoadSlot : loads[a][n].fresh => loads[a][n].roles = Detail

\* What was checked and has not moved on still passes the check.
CheckedIsSo ==
    \A a \in Admin : job[a].at = "write" /\ job[a].same =>
        /\ job[a].kind = "save" /\ a \notin Super => "super_admin" \notin Detail \cup job[a].roles
        /\ job[a].kind = "status" => job[a].to \in Targets[status]

OldIsEnded == session = "old" => unsigned \/ \E a \in Admin : job[a].at = "out"

AdminInv == AdminTypes /\ FreshIsSo /\ CheckedIsSo /\ OldIsEnded

-----------------------------------------------------------------------------
(* Steps that change neither roles nor status *)

\* Nothing is written, one job becomes j, and nothing is marked fresh that is not.
LEMMA NothingWritten ==
    ASSUME AdminInv, UNCHANGED <<roles, isList, status>>, NEW a \in Admin, NEW j \in Jobs,
           job' = [job EXCEPT ![a] = j],
           j.asIs => j.roles = Detail \cap Role /\ j.kind = "save",
           j.at = "write" /\ j.same =>
               /\ j.kind = "save" /\ a \notin Super => "super_admin" \notin Detail \cup j.roles
               /\ j.kind = "status" => j.to \in Targets[status],
           session' = "old" => (session = "old" /\ (unsigned => unsigned')
                                /\ (job[a].at = "out" => j.at = "out")) \/ unsigned',
           loads' \in [Admin -> [LoadSlot -> Loads]], editor' \in [Admin -> Editors],
           \A x \in Admin : /\ editor'[x].fresh => editor'[x].roles = Detail \cap Role
                            /\ \A n \in LoadSlot : loads'[x][n].fresh => loads'[x][n].roles = Detail
    PROVE  AdminInv'
<1>1. job' \in [Admin -> Jobs] /\ job'[a] = j /\ \A x \in Admin \ {a} : job'[x] = job[x]
  BY DEF AdminInv, AdminTypes
<1>. Detail' = Detail
  BY DEF Detail
<1>2. AdminTypes'
  BY <1>1 DEF AdminInv, AdminTypes
<1>3. FreshIsSo'
  BY <1>1 DEF AdminInv, FreshIsSo
<1>4. CheckedIsSo'
  BY <1>1 DEF AdminInv, CheckedIsSo
<1>5. OldIsEnded'
  BY <1>1 DEF AdminInv, OldIsEnded
<1>. QED
  BY <1>2, <1>3, <1>4, <1>5 DEF AdminInv

\* What Ends leaves: no job, or one that is over.
LEMMA EndedJob ==
    ASSUME AdminTypes, NEW a \in Admin
    PROVE  \E j \in Jobs : /\ Ends(a) = [job EXCEPT ![a] = j]
                           /\ j.at \in {"idle", "over"} /\ ~j.asIs
<1>1. NoJob \in Jobs /\ [NoJob EXCEPT !.at = "over"] \in Jobs
  BY DEF NoJob, Jobs, Status
<1>. QED
  BY <1>1 DEF Ends, NoJob

LEMMA AdminEndKeeps ==
    ASSUME AdminInv, NEW a \in Admin, job' = Ends(a),
           UNCHANGED <<roles, isList, status, loads, editor>>,
           session' = "old" => (session = "old" /\ unsigned' = unsigned /\ job[a].at # "out")
                               \/ unsigned'
    PROVE  AdminInv'
<1>1. PICK j \in Jobs : job' = [job EXCEPT ![a] = j] /\ j.at \in {"idle", "over"} /\ ~j.asIs
  BY EndedJob DEF AdminInv
<1>2. loads' \in [Admin -> [LoadSlot -> Loads]] /\ editor' \in [Admin -> Editors]
  BY DEF AdminInv, AdminTypes
<1>3. \A x \in Admin : /\ editor'[x].fresh => editor'[x].roles = Detail \cap Role
                       /\ \A n \in LoadSlot : loads'[x][n].fresh => loads'[x][n].roles = Detail
  BY DEF AdminInv, FreshIsSo
<1>4. session' = "old" => (session = "old" /\ (unsigned => unsigned')
                           /\ (job[a].at = "out" => j.at = "out")) \/ unsigned'
  OBVIOUS
<1>5. j.asIs => j.roles = Detail \cap Role /\ j.kind = "save"
  BY <1>1
<1>6. j.at = "write" /\ j.same =>
          /\ j.kind = "save" /\ a \notin Super => "super_admin" \notin Detail \cup j.roles
          /\ j.kind = "status" => j.to \in Targets[status]
  BY <1>1
<1>. QED
  BY <1>1, <1>2, <1>3, <1>4, <1>5, <1>6, NothingWritten

\* Only the browser's own state changes.
LEMMA PageKeeps ==
    ASSUME AdminInv, UNCHANGED <<roles, isList, status, session, unsigned, job>>,
           loads' \in [Admin -> [LoadSlot -> Loads]], editor' \in [Admin -> Editors],
           \A x \in Admin : /\ editor'[x].fresh => editor'[x].roles = Detail \cap Role
                            /\ \A n \in LoadSlot : loads'[x][n].fresh => loads'[x][n].roles = Detail
    PROVE  AdminInv'
<1>. Detail' = Detail
  BY DEF Detail
<1>1. AdminTypes'
  BY DEF AdminInv, AdminTypes
<1>2. FreshIsSo'
  BY DEF AdminInv, FreshIsSo
<1>3. CheckedIsSo' /\ OldIsEnded'
  BY DEF AdminInv, CheckedIsSo, OldIsEnded
<1>. QED
  BY <1>1, <1>2, <1>3 DEF AdminInv

\* A spinner goes on or off.
LEMMA FlagTypes ==
    ASSUME AdminInv, NEW a \in Admin, UNCHANGED <<roles, isList, loads>>,
           \E e \in BOOLEAN : \/ editor' = [editor EXCEPT ![a].saving = e]
                            \/ editor' = [editor EXCEPT ![a].busy = e]
    PROVE  /\ editor' \in [Admin -> Editors] /\ loads' \in [Admin -> [LoadSlot -> Loads]]
           /\ \A x \in Admin :
                  /\ editor'[x].fresh => editor'[x].roles = Detail \cap Role
                  /\ \A n \in LoadSlot : loads'[x][n].fresh => loads'[x][n].roles = Detail
<1>1. editor \in [Admin -> Editors] /\ editor[a] \in Editors
  BY DEF AdminInv, AdminTypes
<1>2. \A e \in BOOLEAN :
          /\ [editor[a] EXCEPT !.saving = e] \in Editors
          /\ [editor[a] EXCEPT !.saving = e].fresh = editor[a].fresh
          /\ [editor[a] EXCEPT !.saving = e].roles = editor[a].roles
          /\ [editor[a] EXCEPT !.busy = e] \in Editors
          /\ [editor[a] EXCEPT !.busy = e].fresh = editor[a].fresh
          /\ [editor[a] EXCEPT !.busy = e].roles = editor[a].roles
  BY <1>1 DEF Editors
<1>3. PICK r \in Editors : /\ editor' = [editor EXCEPT ![a] = r]
                           /\ r.fresh = editor[a].fresh /\ r.roles = editor[a].roles
  BY <1>1, <1>2
<1>. QED
  BY <1>1, <1>3 DEF AdminInv, AdminTypes, FreshIsSo

LEMMA EditorKeeps ==
    ASSUME AdminInv, NEW a \in Admin,
           \/ OpenEditor(a) \/ CloseEditor(a)
           \/ \E n \in LoadSlot : ServeLoad(a, n) \/ TakeLoad(a, n)
           \/ \E r \in Role : Tick(a, r)
    PROVE  AdminInv'
<1>1. /\ UNCHANGED <<roles, isList, status, session, unsigned, job>>
  BY DEF OpenEditor, CloseEditor, ServeLoad, TakeLoad, Tick
<1>2. /\ loads \in [Admin -> [LoadSlot -> Loads]] /\ editor \in [Admin -> Editors]
      /\ Detail \in SUBSET (Role \cup Foreign)
      /\ \A x \in Admin : /\ editor[x].fresh => editor[x].roles = Detail \cap Role
                          /\ \A n \in LoadSlot : loads[x][n].fresh => loads[x][n].roles = Detail
  BY DEF AdminInv, AdminTypes, FreshIsSo, Detail
<1>3. CASE OpenEditor(a)
  <2>1. PICK n \in LoadSlot : loads' = [loads EXCEPT ![a][n].at = "sent"]
    BY <1>3 DEF OpenEditor, FreeLoads
  <2>. DEFINE l == [loads[a][n] EXCEPT !.at = "sent"]
  <2>2. l \in Loads /\ l.fresh = loads[a][n].fresh /\ l.roles = loads[a][n].roles
    <3>1. loads[a][n] \in Loads
      BY <1>2
    <3>. QED
      BY <3>1 DEF Loads
  <2>. HIDE DEF l
  <2>3. /\ loads' \in [Admin -> [LoadSlot -> Loads]]
        /\ \A x \in Admin, m \in LoadSlot : loads'[x][m].fresh = loads[x][m].fresh
                                            /\ loads'[x][m].roles = loads[x][m].roles
    <3>1. loads' = [loads EXCEPT ![a][n] = l]
      BY <1>2, <2>1 DEF l
    <3>. QED
      BY <1>2, <2>2, <3>1
  <2>4. editor' = [editor EXCEPT ![a].open = TRUE, ![a].loading = TRUE]
    BY <1>3 DEF OpenEditor
  <2>5. /\ editor' \in [Admin -> Editors]
        /\ \A x \in Admin : editor'[x].fresh = editor[x].fresh
                            /\ editor'[x].roles = editor[x].roles
    BY <1>2, <2>4 DEF Editors
  <2>6. \A x \in Admin : /\ editor'[x].fresh => editor'[x].roles = Detail \cap Role
                         /\ \A m \in LoadSlot : loads'[x][m].fresh => loads'[x][m].roles = Detail
    <3>. SUFFICES ASSUME NEW x \in Admin
                  PROVE  /\ editor'[x].fresh => editor'[x].roles = Detail \cap Role
                         /\ \A m \in LoadSlot : loads'[x][m].fresh => loads'[x][m].roles = Detail
      OBVIOUS
    <3>1. editor'[x].fresh => editor'[x].roles = Detail \cap Role
      BY <1>2, <2>5
    <3>2. ASSUME NEW m \in LoadSlot
          PROVE  loads'[x][m].fresh => loads'[x][m].roles = Detail
      BY <1>2, <2>3
    <3>. QED
      BY <3>1, <3>2
  <2>. QED
    BY <1>1, <2>3, <2>5, <2>6, PageKeeps
<1>4. CASE CloseEditor(a)
  <2>1. editor' = [editor EXCEPT ![a].open = FALSE] /\ UNCHANGED loads
    BY <1>4 DEF CloseEditor
  <2>2. /\ editor' \in [Admin -> Editors]
        /\ \A x \in Admin : editor'[x].fresh = editor[x].fresh
                            /\ editor'[x].roles = editor[x].roles
    BY <1>2, <2>1 DEF Editors
  <2>3. /\ loads' \in [Admin -> [LoadSlot -> Loads]]
        /\ \A x \in Admin : /\ editor'[x].fresh => editor'[x].roles = Detail \cap Role
                            /\ \A n \in LoadSlot : loads'[x][n].fresh => loads'[x][n].roles = Detail
    BY <1>2, <2>1, <2>2
  <2>. QED
    BY <1>1, <2>2, <2>3, PageKeeps
<1>5. ASSUME NEW n \in LoadSlot, ServeLoad(a, n)
      PROVE  AdminInv'
  <2>. DEFINE l == [at |-> "read", roles |-> Detail, fresh |-> TRUE]
  <2>1. loads' = [loads EXCEPT ![a][n] = l] /\ UNCHANGED editor
    BY <1>5 DEF ServeLoad
  <2>2. l \in Loads /\ l.roles = Detail
    BY <1>2 DEF Loads
  <2>. HIDE DEF l
  <2>3. /\ loads' \in [Admin -> [LoadSlot -> Loads]]
        /\ \A x \in Admin, m \in LoadSlot : loads'[x][m] \in {l, loads[x][m]}
    BY <1>2, <2>1, <2>2
  <2>. QED
    BY <1>1, <1>2, <2>1, <2>2, <2>3, PageKeeps
<1>6. ASSUME NEW n \in LoadSlot, TakeLoad(a, n)
      PROVE  AdminInv'
  <2>1. loads' = [loads EXCEPT ![a][n] = NoLoad] /\ NoLoad \in Loads /\ ~NoLoad.fresh
    BY <1>6 DEF TakeLoad, NoLoad, Loads
  <2>. DEFINE l == loads[a][n]
  <2>2. \/ editor' = [editor EXCEPT ![a].loading = FALSE, ![a].fresh = l.fresh,
                                    ![a].roles = l.roles \cap Role]
        \/ editor' = [editor EXCEPT ![a].loading = FALSE]
    BY <1>6 DEF TakeLoad, Known
  <2>3. l \in Loads /\ (l.fresh => l.roles = Detail) /\ l.fresh \in BOOLEAN
    BY <1>2 DEF Loads
  <2>. HIDE DEF l, NoLoad
  <2>4. /\ loads' \in [Admin -> [LoadSlot -> Loads]]
        /\ \A x \in Admin, m \in LoadSlot : loads'[x][m] \in {NoLoad, loads[x][m]}
    BY <1>2, <2>1
  <2>5. /\ editor' \in [Admin -> Editors]
        /\ \A x \in Admin : editor'[x].fresh => editor'[x].roles = Detail \cap Role
    <3>1. editor[a] \in Editors
      BY <1>2
    <3>2. PICK e \in Editors : editor' = [editor EXCEPT ![a] = e] /\ (e.fresh => e.roles = Detail \cap Role)
      <4>1. CASE editor' = [editor EXCEPT ![a].loading = FALSE]
        <5>1. [editor[a] EXCEPT !.loading = FALSE] \in Editors
          BY <3>1 DEF Editors
        <5>2. /\ [editor[a] EXCEPT !.loading = FALSE].fresh = editor[a].fresh
              /\ [editor[a] EXCEPT !.loading = FALSE].roles = editor[a].roles
          BY <3>1 DEF Editors
        <5>. QED
          BY <1>2, <4>1, <5>1, <5>2
      <4>2. CASE editor' = [editor EXCEPT ![a].loading = FALSE, ![a].fresh = l.fresh,
                                          ![a].roles = l.roles \cap Role]
        <5>. DEFINE e == [editor[a] EXCEPT !.loading = FALSE, !.fresh = l.fresh,
                                           !.roles = l.roles \cap Role]
        <5>1. e \in Editors /\ e.fresh = l.fresh /\ e.roles = l.roles \cap Role
          BY <2>3, <3>1 DEF Editors
        <5>2. editor' = [editor EXCEPT ![a] = e]
          BY <1>2, <4>2
        <5>. HIDE DEF e
        <5>. QED
          BY <2>3, <5>1, <5>2
      <4>. QED
        BY <2>2, <4>1, <4>2
    <3>. QED
      BY <1>2, <3>2
  <2>. QED
    BY <1>1, <1>2, <2>1, <2>4, <2>5, PageKeeps
<1>7. ASSUME NEW r \in Role, Tick(a, r)
      PROVE  AdminInv'
  <2>. DEFINE R == IF r \in editor[a].roles THEN editor[a].roles \ {r}
                   ELSE editor[a].roles \cup {r}
  <2>1. editor' = [editor EXCEPT ![a].fresh = FALSE, ![a].roles = R] /\ UNCHANGED loads
    BY <1>7 DEF Tick
  <2>2. R \in SUBSET Role
    BY <1>2 DEF Editors
  <2>. HIDE DEF R
  <2>3. /\ editor' \in [Admin -> Editors]
        /\ \A x \in Admin : editor'[x].fresh => editor'[x].roles = Detail \cap Role
    <3>. DEFINE e == [editor[a] EXCEPT !.fresh = FALSE, !.roles = R]
    <3>1. editor[a] \in Editors
      BY <1>2
    <3>2. e \in Editors /\ ~e.fresh
      BY <2>2, <3>1 DEF Editors
    <3>3. editor' = [editor EXCEPT ![a] = e]
      BY <1>2, <2>1
    <3>. HIDE DEF e
    <3>. QED
      BY <1>2, <3>2, <3>3
  <2>4. /\ loads' \in [Admin -> [LoadSlot -> Loads]]
        /\ \A x \in Admin, n \in LoadSlot : loads'[x][n].fresh => loads'[x][n].roles = Detail
    BY <1>2, <2>1
  <2>. QED
    BY <1>1, <2>3, <2>4, PageKeeps
<1>. QED
  BY <1>3, <1>4, <1>5, <1>6, <1>7

\* A save, or a change of the shop's status, is sent.
LEMMA AdminPressKeeps ==
    ASSUME AdminInv, NEW a \in Admin, PressSave(a) \/ \E s \in Status : PressStatus(a, s)
    PROVE  AdminInv'
<1>1. /\ UNCHANGED <<roles, isList, status, session, unsigned, loads>>
      /\ editor[a] \in Editors /\ NoJob \in Jobs /\ job[a] = NoJob
  BY DEF PressSave, PressStatus, AdminInv, AdminTypes, NoJob, Jobs, Status
<1>2. PICK j \in Jobs : /\ job' = [job EXCEPT ![a] = j] /\ j.at = "read"
                        /\ j.asIs => j.roles = Detail \cap Role /\ j.kind = "save"
  <2>1. CASE PressSave(a)
    <3>. DEFINE j == [NoJob EXCEPT !.at = "read", !.roles = editor[a].roles,
                                   !.asIs = editor[a].fresh]
    <3>1. job' = [job EXCEPT ![a] = j]
      BY <2>1 DEF PressSave
    <3>2. j \in Jobs /\ j.at = "read" /\ j.kind = "save"
          /\ j.roles = editor[a].roles /\ j.asIs = editor[a].fresh
      BY <1>1 DEF NoJob, Jobs, Editors
    <3>3. editor[a].fresh => editor[a].roles = Detail \cap Role
      BY DEF AdminInv, FreshIsSo
    <3>. HIDE DEF j
    <3>. QED
      BY <3>1, <3>2, <3>3
  <2>2. ASSUME NEW s \in Status, PressStatus(a, s)
        PROVE  \E j \in Jobs : /\ job' = [job EXCEPT ![a] = j] /\ j.at = "read"
                               /\ j.asIs => j.roles = Detail \cap Role /\ j.kind = "save"
    <3>. DEFINE j == [NoJob EXCEPT !.at = "read", !.kind = "status", !.to = s]
    <3>1. job' = [job EXCEPT ![a] = j]
      BY <2>2 DEF PressStatus
    <3>2. j \in Jobs /\ j.at = "read" /\ ~j.asIs
      BY <1>1 DEF NoJob, Jobs
    <3>. HIDE DEF j
    <3>. QED
      BY <3>1, <3>2
  <2>. QED
    BY <2>1, <2>2
<1>3. /\ editor' \in [Admin -> Editors] /\ loads' \in [Admin -> [LoadSlot -> Loads]]
      /\ \A x \in Admin :
             /\ editor'[x].fresh => editor'[x].roles = Detail \cap Role
             /\ \A n \in LoadSlot : loads'[x][n].fresh => loads'[x][n].roles = Detail
  BY <1>1, FlagTypes DEF PressSave, PressStatus
<1>4. job[a].at # "out"
  BY <1>1 DEF NoJob
<1>5. session' = "old" => (session = "old" /\ (unsigned => unsigned')
                           /\ (job[a].at = "out" => j.at = "out")) \/ unsigned'
  BY <1>1, <1>4
<1>6. j.asIs => j.roles = Detail \cap Role /\ j.kind = "save"
  BY <1>2
<1>7. j.at = "write" /\ j.same =>
          /\ j.kind = "save" /\ a \notin Super => "super_admin" \notin Detail \cup j.roles
          /\ j.kind = "status" => j.to \in Targets[status]
  BY <1>2
<1>8. job' = [job EXCEPT ![a] = j] /\ UNCHANGED <<roles, isList, status>>
  BY <1>1, <1>2
<1>. QED
  BY <1>3, <1>5, <1>6, <1>7, <1>8, NothingWritten

\* The page stops waiting; a job that was over is forgotten.
LEMMA WaitKeeps ==
    ASSUME AdminInv, NEW a \in Admin, EndWait(a)
    PROVE  AdminInv'
<1>. DEFINE j == IF job[a].at = "over" THEN NoJob ELSE job[a]
<1>1. /\ job' = [job EXCEPT ![a] = j] /\ UNCHANGED <<roles, isList, status, session, unsigned, loads>>
  BY DEF EndWait, AdminInv, AdminTypes
<1>2. job[a] \in Jobs /\ NoJob \in Jobs
  BY DEF AdminInv, AdminTypes, NoJob, Jobs, Status
<1>3. /\ j \in Jobs
      /\ j.asIs => j.roles = Detail \cap Role /\ j.kind = "save"
      /\ j.at = "write" /\ j.same =>
             /\ j.kind = "save" /\ a \notin Super => "super_admin" \notin Detail \cup j.roles
             /\ j.kind = "status" => j.to \in Targets[status]
      /\ job[a].at = "out" => j.at = "out"
  BY <1>2 DEF NoJob, AdminInv, FreshIsSo, CheckedIsSo
<1>. HIDE DEF j
<1>4. /\ editor' \in [Admin -> Editors] /\ loads' \in [Admin -> [LoadSlot -> Loads]]
      /\ \A x \in Admin :
             /\ editor'[x].fresh => editor'[x].roles = Detail \cap Role
             /\ \A n \in LoadSlot : loads'[x][n].fresh => loads'[x][n].roles = Detail
  BY <1>1, FlagTypes DEF EndWait
<1>5. session' = "old" => (session = "old" /\ (unsigned => unsigned')
                           /\ (job[a].at = "out" => j.at = "out")) \/ unsigned'
  BY <1>1, <1>3
<1>6. j \in Jobs
  BY <1>3
<1>7. j.asIs => j.roles = Detail \cap Role /\ j.kind = "save"
  BY <1>3
<1>8. j.at = "write" /\ j.same =>
          /\ j.kind = "save" /\ a \notin Super => "super_admin" \notin Detail \cup j.roles
          /\ j.kind = "status" => j.to \in Targets[status]
  BY <1>3
<1>. QED
  BY <1>1, <1>4, <1>5, <1>6, <1>7, <1>8, NothingWritten

\* The checks: what passes is so when it is marked as checked.
LEMMA ReadKeeps ==
    ASSUME AdminInv, NEW a \in Admin, ReadUser(a) \/ ReadShop(a) \/ AbortJob(a)
    PROVE  AdminInv'
<1>1. UNCHANGED <<roles, isList, status, session, unsigned, loads, editor>> /\ job[a].at # "out"
  BY DEF ReadUser, ReadShop, AbortJob
<1>2. CASE job' = Ends(a)
  BY <1>1, <1>2, AdminEndKeeps
<1>3. CASE job' # Ends(a)
  <2>. DEFINE j == [job[a] EXCEPT !.at = "write", !.same = TRUE]
  <2>1. job[a] \in Jobs /\ (job[a].asIs => job[a].roles = Detail \cap Role /\ job[a].kind = "save")
    BY DEF AdminInv, AdminTypes, FreshIsSo
  <2>2. job' = [job EXCEPT ![a] = j]
    BY <1>3 DEF ReadUser, ReadShop, AbortJob, AdminInv, AdminTypes
  <2>3. /\ j \in Jobs /\ j.kind = job[a].kind /\ j.roles = job[a].roles
        /\ j.to = job[a].to /\ j.asIs = job[a].asIs
    BY <2>1 DEF Jobs
  <2>4. /\ job[a].kind = "save" /\ a \notin Super => "super_admin" \notin Detail \cup job[a].roles
        /\ job[a].kind = "status" => job[a].to \in Targets[status]
    BY <1>3 DEF ReadUser, ReadShop, AbortJob
  <2>. HIDE DEF j
  <2>5. /\ editor' \in [Admin -> Editors] /\ loads' \in [Admin -> [LoadSlot -> Loads]]
        /\ \A x \in Admin :
               /\ editor'[x].fresh => editor'[x].roles = Detail \cap Role
               /\ \A n \in LoadSlot : loads'[x][n].fresh => loads'[x][n].roles = Detail
    BY <1>1 DEF AdminInv, AdminTypes, FreshIsSo
  <2>. QED
    BY <1>1, <2>1, <2>2, <2>3, <2>4, <2>5, NothingWritten
<1>. QED
  BY <1>2, <1>3

-----------------------------------------------------------------------------
(* Steps that write *)

\* The jobs after the write of a: its own ends or goes on to sign the user out,
\* the others keep what they are marked with only if nothing moved.
LEMMA RolesWritten ==
    ASSUME AdminInv, NEW a \in Admin, WriteRoles(a)
    PROVE  /\ roles' = job[a].roles /\ isList' /\ UNCHANGED status
           /\ job' \in [Admin -> Jobs]
           /\ job'[a].at \in {"out", "idle", "over"}
           /\ job'[a].asIs => job[a].asIs /\ Detail' = Detail
                              /\ job'[a].roles = job[a].roles /\ job'[a].kind = job[a].kind
           /\ job'[a].at = "out" \/ unsigned'
           /\ \A x \in Admin \ {a} :
                 /\ job'[x].at = job[x].at /\ job'[x].kind = job[x].kind
                 /\ job'[x].roles = job[x].roles /\ job'[x].to = job[x].to
                 /\ job'[x].same => job[x].same /\ (job[x].kind = "save" => Detail' = Detail)
                 /\ job'[x].asIs => job[x].asIs /\ Detail' = Detail
<1>. DEFINE changed == ~isList \/ roles # job[a].roles
            written == [x \in Admin |-> [job[x] EXCEPT
                           !.same = @ /\ ~(changed /\ job[x].kind = "save"),
                           !.asIs = @ /\ ~changed]]
<1>1. job \in [Admin -> Jobs]
  BY DEF AdminInv, AdminTypes
<1>2. roles' = job[a].roles /\ isList' /\ UNCHANGED status /\ (~changed => Detail' = Detail)
  BY DEF WriteRoles, Detail
<1>3. /\ written \in [Admin -> Jobs]
      /\ \A x \in Admin :
            /\ written[x].at = job[x].at /\ written[x].kind = job[x].kind
            /\ written[x].roles = job[x].roles /\ written[x].to = job[x].to
            /\ written[x].same => job[x].same /\ (job[x].kind = "save" => ~changed)
            /\ written[x].asIs => job[x].asIs /\ ~changed
  <2>. SUFFICES ASSUME NEW x \in Admin
                PROVE  /\ written[x] \in Jobs
                       /\ written[x].at = job[x].at /\ written[x].kind = job[x].kind
                       /\ written[x].roles = job[x].roles /\ written[x].to = job[x].to
                       /\ written[x].same => job[x].same /\ (job[x].kind = "save" => ~changed)
                       /\ written[x].asIs => job[x].asIs /\ ~changed
    OBVIOUS
  <2>1. job[x] \in Jobs
    BY <1>1
  <2>2. written[x] = [job[x] EXCEPT
                         !.same = job[x].same /\ ~(changed /\ job[x].kind = "save"),
                         !.asIs = job[x].asIs /\ ~changed]
    OBVIOUS
  <2>. HIDE DEF written, changed
  <2>3. (job[x].same /\ ~(changed /\ job[x].kind = "save")) \in BOOLEAN
        /\ (job[x].asIs /\ ~changed) \in BOOLEAN
    OBVIOUS
  <2>. QED
    BY <2>1, <2>2, <2>3 DEF Jobs
<1>4. \/ job' = [written EXCEPT ![a].at = "out"]
      \/ job' = [written EXCEPT ![a] = Ends(a)[a]] /\ unsigned'
  BY DEF WriteRoles
<1>5. PICK e \in Jobs : Ends(a)[a] = e /\ e.at \in {"idle", "over"} /\ ~e.asIs
  BY <1>1, EndedJob DEF AdminInv
<1>. HIDE DEF written, changed
<1>6. [written[a] EXCEPT !.at = "out"] \in Jobs
  BY <1>3 DEF Jobs
<1>7. CASE job' = [written EXCEPT ![a].at = "out"]
  <2>1. job' \in [Admin -> Jobs] /\ job'[a] = [written[a] EXCEPT !.at = "out"]
        /\ \A x \in Admin \ {a} : job'[x] = written[x]
    BY <1>3, <1>6, <1>7
  <2>2. /\ job'[a].at = "out" /\ job'[a].asIs = written[a].asIs
        /\ job'[a].roles = written[a].roles /\ job'[a].kind = written[a].kind
    BY <1>3, <2>1 DEF Jobs
  <2>. QED
    BY <1>2, <1>3, <2>1, <2>2
<1>8. CASE job' = [written EXCEPT ![a] = Ends(a)[a]] /\ unsigned'
  <2>1. job' \in [Admin -> Jobs] /\ job'[a] = e
        /\ \A x \in Admin \ {a} : job'[x] = written[x]
    BY <1>3, <1>5, <1>8
  <2>. QED
    BY <1>2, <1>3, <1>5, <1>8, <2>1
<1>. QED
  BY <1>4, <1>7, <1>8

LEMMA WriteRolesKeeps ==
    ASSUME AdminInv, NEW a \in Admin, WriteRoles(a)
    PROVE  AdminInv'
<1>. DEFINE changed == ~isList \/ roles # job[a].roles
<1>1. /\ roles' = job[a].roles /\ isList' = TRUE /\ UNCHANGED status
      /\ ~changed => Detail' = Detail
      /\ editor' = [x \in Admin |-> [editor[x] EXCEPT !.fresh = @ /\ ~changed]]
      /\ loads' = [x \in Admin |-> [n \in LoadSlot |->
                      [loads[x][n] EXCEPT !.fresh = @ /\ ~changed]]]
  BY DEF WriteRoles, Detail
<1>2. /\ job \in [Admin -> Jobs] /\ editor \in [Admin -> Editors]
      /\ loads \in [Admin -> [LoadSlot -> Loads]] /\ status \in Status
  BY DEF AdminInv, AdminTypes
<1>. HIDE DEF changed
<1>3. /\ editor' \in [Admin -> Editors]
      /\ \A x \in Admin : /\ editor'[x].fresh => editor[x].fresh /\ ~changed
                          /\ editor'[x].roles = editor[x].roles
  <2>. SUFFICES ASSUME NEW x \in Admin
                PROVE  /\ editor'[x] \in Editors
                       /\ editor'[x].fresh => editor[x].fresh /\ ~changed
                       /\ editor'[x].roles = editor[x].roles
    BY <1>1
  <2>1. editor[x] \in Editors /\ (editor[x].fresh /\ ~changed) \in BOOLEAN
    BY <1>2
  <2>2. editor'[x] = [editor[x] EXCEPT !.fresh = editor[x].fresh /\ ~changed]
    BY <1>1
  <2>. QED
    BY <2>1, <2>2 DEF Editors
<1>4. /\ loads' \in [Admin -> [LoadSlot -> Loads]]
      /\ \A x \in Admin, n \in LoadSlot :
            /\ loads'[x][n].fresh => loads[x][n].fresh /\ ~changed
            /\ loads'[x][n].roles = loads[x][n].roles
  <2>. SUFFICES ASSUME NEW x \in Admin, NEW n \in LoadSlot
                PROVE  /\ loads'[x][n] \in Loads
                       /\ loads'[x][n].fresh => loads[x][n].fresh /\ ~changed
                       /\ loads'[x][n].roles = loads[x][n].roles
    BY <1>1
  <2>1. loads[x][n] \in Loads /\ (loads[x][n].fresh /\ ~changed) \in BOOLEAN
    BY <1>2
  <2>2. loads'[x][n] = [loads[x][n] EXCEPT !.fresh = loads[x][n].fresh /\ ~changed]
    BY <1>1
  <2>. QED
    BY <2>1, <2>2 DEF Loads
<1>5. AdminTypes'
  <2>1. job[a].roles \in SUBSET Role
    BY <1>2 DEF Jobs
  <2>. QED
    BY <1>1, <1>2, <1>3, <1>4, <2>1, RolesWritten DEF AdminTypes
<1>6. FreshIsSo'
  <2>. SUFFICES ASSUME NEW x \in Admin
                PROVE  /\ job'[x].asIs => job'[x].roles = Detail' \cap Role /\ job'[x].kind = "save"
                       /\ editor'[x].fresh => editor'[x].roles = Detail' \cap Role
                       /\ \A n \in LoadSlot : loads'[x][n].fresh => loads'[x][n].roles = Detail'
    BY DEF FreshIsSo
  <2>1. /\ job[x].asIs => job[x].roles = Detail \cap Role /\ job[x].kind = "save"
        /\ editor[x].fresh => editor[x].roles = Detail \cap Role
        /\ \A n \in LoadSlot : loads[x][n].fresh => loads[x][n].roles = Detail
    BY DEF AdminInv, FreshIsSo
  <2>2. job'[x].asIs => job[x].asIs /\ Detail' = Detail
                        /\ job'[x].roles = job[x].roles /\ job'[x].kind = job[x].kind
    BY RolesWritten
  <2>3. job'[x].asIs => job'[x].roles = Detail' \cap Role /\ job'[x].kind = "save"
    BY <2>1, <2>2
  <2>4. editor'[x].fresh => editor'[x].roles = Detail' \cap Role
    BY <1>1, <1>3, <2>1
  <2>5. ASSUME NEW n \in LoadSlot, loads'[x][n].fresh
        PROVE  loads'[x][n].roles = Detail'
    <3>1. loads[x][n].fresh /\ ~changed /\ loads'[x][n].roles = loads[x][n].roles
      BY <1>4, <2>5
    <3>2. loads[x][n].roles = Detail /\ Detail' = Detail
      BY <1>1, <2>1, <3>1
    <3>. QED
      BY <3>1, <3>2
  <2>. QED
    BY <2>3, <2>4, <2>5
<1>7. CheckedIsSo'
  <2>. SUFFICES ASSUME NEW x \in Admin, job'[x].at = "write", job'[x].same
                PROVE  /\ job'[x].kind = "save" /\ x \notin Super =>
                              "super_admin" \notin Detail' \cup job'[x].roles
                       /\ job'[x].kind = "status" => job'[x].to \in Targets[status']
    BY DEF CheckedIsSo
  <2>1. x # a
    BY RolesWritten
  <2>2. /\ job[x].at = "write" /\ job[x].same /\ (job[x].kind = "save" => Detail' = Detail)
        /\ job'[x].kind = job[x].kind /\ job'[x].roles = job[x].roles /\ job'[x].to = job[x].to
    BY <2>1, RolesWritten
  <2>. QED
    BY <1>1, <2>2 DEF AdminInv, CheckedIsSo
<1>8. OldIsEnded'
  BY RolesWritten DEF OldIsEnded
<1>. QED
  BY <1>5, <1>6, <1>7, <1>8 DEF AdminInv

LEMMA ShopWritten ==
    ASSUME AdminInv, NEW a \in Admin, WriteShop(a)
    PROVE  /\ status' = job[a].to /\ UNCHANGED <<roles, isList, session, unsigned, loads, editor>>
           /\ job[a].at = "write" /\ job[a].kind = "status"
           /\ job' \in [Admin -> Jobs]
           /\ job'[a].at \in {"idle", "over"} /\ ~job'[a].asIs
           /\ \A x \in Admin \ {a} :
                 /\ job'[x].at = job[x].at /\ job'[x].kind = job[x].kind
                 /\ job'[x].roles = job[x].roles /\ job'[x].to = job[x].to
                 /\ job'[x].asIs = job[x].asIs
                 /\ job'[x].same => job[x].same /\ (job[x].kind = "status" => status' = status)
<1>. DEFINE s(x) == job[x].same /\ ~(job[x].kind = "status" /\ status # status')
<1>1. /\ status' = job[a].to /\ UNCHANGED <<roles, isList, session, unsigned, loads, editor>>
      /\ job[a].at = "write" /\ job[a].kind = "status"
      /\ job' = [x \in Admin |-> IF x = a THEN Ends(a)[a] ELSE [job[x] EXCEPT !.same = s(x)]]
  BY DEF WriteShop
<1>2. job \in [Admin -> Jobs]
  BY DEF AdminInv, AdminTypes
<1>3. PICK e \in Jobs : Ends(a)[a] = e /\ e.at \in {"idle", "over"} /\ ~e.asIs
  BY <1>2, EndedJob DEF AdminInv
<1>4. ASSUME NEW x \in Admin \ {a}
      PROVE  /\ job'[x] \in Jobs
             /\ job'[x].at = job[x].at /\ job'[x].kind = job[x].kind
             /\ job'[x].roles = job[x].roles /\ job'[x].to = job[x].to
             /\ job'[x].asIs = job[x].asIs
             /\ job'[x].same => job[x].same /\ (job[x].kind = "status" => status' = status)
  <2>1. job[x] \in Jobs /\ s(x) \in BOOLEAN
    BY <1>2
  <2>2. job'[x] = [job[x] EXCEPT !.same = s(x)]
    BY <1>1
  <2>3. s(x) => job[x].same /\ (job[x].kind = "status" => status' = status)
    OBVIOUS
  <2>. HIDE DEF s
  <2>. QED
    BY <2>1, <2>2, <2>3 DEF Jobs
<1>5. job'[a] = e
  BY <1>1, <1>3
<1>6. job' \in [Admin -> Jobs]
  BY <1>1, <1>3, <1>4, <1>5
<1>. QED
  BY <1>1, <1>3, <1>4, <1>5, <1>6

LEMMA WriteShopKeeps ==
    ASSUME AdminInv, NEW a \in Admin, WriteShop(a)
    PROVE  AdminInv'
<1>1. AdminTypes'
  <2>1. job[a].to \in Status
    BY DEF AdminInv, AdminTypes, Jobs
  <2>. QED
    BY <2>1, ShopWritten DEF AdminInv, AdminTypes
<1>. Detail' = Detail
  BY ShopWritten DEF Detail
<1>2. FreshIsSo'
  BY ShopWritten DEF AdminInv, FreshIsSo
<1>3. CheckedIsSo'
  <2>. SUFFICES ASSUME NEW x \in Admin, job'[x].at = "write", job'[x].same
                PROVE  /\ job'[x].kind = "save" /\ x \notin Super =>
                              "super_admin" \notin Detail' \cup job'[x].roles
                       /\ job'[x].kind = "status" => job'[x].to \in Targets[status']
    BY DEF CheckedIsSo
  <2>1. x # a
    BY ShopWritten
  <2>. QED
    BY <2>1, ShopWritten DEF AdminInv, CheckedIsSo
<1>4. OldIsEnded'
  BY ShopWritten DEF AdminInv, OldIsEnded
<1>. QED
  BY <1>1, <1>2, <1>3, <1>4 DEF AdminInv

LEMMA RestKeeps ==
    ASSUME AdminInv,
           (\E a \in Admin : SignUserOut(a) \/ ShowShop(a)) \/ UserSignsIn \/ UNCHANGED adminVars
    PROVE  AdminInv'
<1>1. ASSUME NEW a \in Admin, SignUserOut(a)
      PROVE  AdminInv'
  <2>1. job' = Ends(a) /\ UNCHANGED <<roles, isList, status, loads, editor>>
        /\ (session' = "none" \/ unsigned')
    BY <1>1 DEF SignUserOut
  <2>. QED
    BY <2>1, AdminEndKeeps
<1>2. CASE UserSignsIn
  <2>1. session' = "current" /\ UNCHANGED <<roles, isList, status, job, loads, editor>>
    BY <1>2 DEF UserSignsIn
  <2>. QED
    BY <2>1 DEF AdminInv, AdminTypes, FreshIsSo, CheckedIsSo, OldIsEnded, Detail
<1>3. CASE UNCHANGED <<roles, isList, status, session, unsigned, job, loads, editor>>
  BY <1>3 DEF AdminInv, AdminTypes, FreshIsSo, CheckedIsSo, OldIsEnded, Detail
<1>. QED
  BY <1>1, <1>2, <1>3 DEF ShowShop, adminVars

LEMMA AdminInvKept ==
    ASSUME AdminInv, [AdminNext]_adminVars
    PROVE  AdminInv'
BY EditorKeeps, AdminPressKeeps, WaitKeeps, ReadKeeps, WriteRolesKeeps, WriteShopKeeps, RestKeeps
DEF AdminNext

-----------------------------------------------------------------------------
(* What a write may do *)

\* The steps that end a write: which of them change something, and for whom.
LEMMA WhoWrites ==
    ASSUME AdminInv, AdminNext, NEW a \in Admin, Writes(a)
    PROVE  \/ WriteRoles(a) \/ WriteShop(a)
           \/ UNCHANGED <<roles, isList, status>>
<1>1. ASSUME NEW b \in Admin, WriteRoles(b)
      PROVE  b = a
  BY <1>1, RolesWritten DEF Writes
<1>2. ASSUME NEW b \in Admin, WriteShop(b)
      PROVE  b = a
  BY <1>2, ShopWritten DEF Writes
<1>3. CASE UserSignsIn \/ \E b \in Admin : SignUserOut(b)
  BY <1>3 DEF UserSignsIn, SignUserOut
<1>4. ASSUME NEW b \in Admin, NEW n \in LoadSlot, ServeLoad(b, n) \/ TakeLoad(b, n)
      PROVE  UNCHANGED <<roles, isList, status>>
  BY <1>4 DEF ServeLoad, TakeLoad
<1>. QED
  BY <1>1, <1>2, <1>3, <1>4
  DEF AdminNext, OpenEditor, CloseEditor, PressSave, ShowShop, EndWait, Tick,
      PressStatus, ReadUser, ReadShop, AbortJob

LEMMA AdminStarts == AdminInit => AdminInv
<1>. SUFFICES ASSUME AdminInit PROVE AdminInv
  OBVIOUS
<1>0. roles \in SUBSET (Role \cup Foreign) /\ isList \in BOOLEAN
  BY AdminAssumption DEF AdminInit
<1>1. NoJob \in Jobs /\ ~NoJob.asIs /\ NoJob.at = "idle"
  BY DEF NoJob, Jobs, Status
<1>2. NoLoad \in Loads /\ ~NoLoad.fresh
  BY DEF NoLoad, Loads
<1>3. PICK loaded : editor = [a \in Admin |->
            [Shut EXCEPT !.open = a \in loaded, !.fresh = a \in loaded,
                         !.roles = IF a \in loaded THEN Detail \cap Role ELSE {}]]
  BY DEF AdminInit, Known
<1>4. /\ editor \in [Admin -> Editors]
      /\ \A a \in Admin : editor[a].fresh => editor[a].roles = Detail \cap Role
  <2>. DEFINE e(a) == [Shut EXCEPT !.open = a \in loaded, !.fresh = a \in loaded,
                                   !.roles = IF a \in loaded THEN Detail \cap Role ELSE {}]
  <2>2. ASSUME NEW a \in Admin
        PROVE  e(a) \in Editors /\ (e(a).fresh => e(a).roles = Detail \cap Role)
    <3>. DEFINE R == IF a \in loaded THEN Detail \cap Role ELSE {}
                o == a \in loaded
    <3>1. o \in BOOLEAN /\ R \in SUBSET Role /\ (o => R = Detail \cap Role)
      OBVIOUS
    <3>2. e(a) = [Shut EXCEPT !.open = o, !.fresh = o, !.roles = R]
      OBVIOUS
    <3>. HIDE DEF e, o, R
    <3>. QED
      BY <3>1, <3>2 DEF Shut, Editors
  <2>3. editor = [a \in Admin |-> e(a)]
    BY <1>3
  <2>. HIDE DEF e
  <2>. QED
    BY <2>2, <2>3
<1>. QED
  BY <1>0, <1>1, <1>2, <1>4
  DEF AdminInit, AdminInv, AdminTypes, FreshIsSo, CheckedIsSo, OldIsEnded, Status

\* admin/service.py:147, :221 and :254, UserRolesEditor.tsx:140.  However many
\* administrators, and whatever the metadata holds first: what none of them saw
\* change, no write of theirs undoes, as far as it was kept in a list.
THEOREM OverwritesTheorem == AdminSpec => OverwritesOnlyWhatMovedOn
<1>1. AdminInit => AdminInv
  BY AdminStarts
<1>2. AdminInv /\ [AdminNext]_adminVars => AdminInv'
  BY AdminInvKept
<1>3. AdminInv /\ [AdminNext]_adminVars =>
          [\A a \in Admin :
              Writes(a) /\ job[a].asIs =>
                  /\ roles' \subseteq roles
                  /\ isList => roles' \cap Role = roles \cap Role]_adminVars
  <2>. SUFFICES ASSUME AdminInv, AdminNext, NEW a \in Admin, Writes(a), job[a].asIs
                PROVE  /\ roles' \subseteq roles
                       /\ isList => roles' \cap Role = roles \cap Role
    BY DEF adminVars, Writes
  <2>1. job[a].roles = Detail \cap Role
    BY DEF AdminInv, FreshIsSo
  <2>. QED
    BY <2>1, WhoWrites, RolesWritten, ShopWritten DEF Detail
<1>4. AdminInv /\ [AdminNext]_adminVars =>
          [\A a \in Admin \ Super :
              Writes(a) /\ job[a].kind = "save" /\ job[a].same /\ isList =>
                  ("super_admin" \in roles' <=> "super_admin" \in roles)]_adminVars
  BY WhoWrites, RolesWritten, ShopWritten DEF AdminInv, CheckedIsSo, Writes, Detail
<1>5. AdminInv /\ [AdminNext]_adminVars =>
          [\A a \in Admin :
              Writes(a) /\ job[a].kind = "status" /\ job[a].same /\ status' # status =>
                  status' \in Targets[status]]_adminVars
  BY WhoWrites, RolesWritten, ShopWritten DEF AdminInv, CheckedIsSo, Writes
<1>6. AdminInv => (session = "old" => unsigned \/ \E a \in Admin : job[a].at = "out")
  BY DEF AdminInv, OldIsEnded
<1>. QED
  BY <1>1, <1>2, <1>3, <1>4, <1>5, <1>6, PTL DEF AdminSpec, OverwritesOnlyWhatMovedOn

-----------------------------------------------------------------------------
(* What is left of the types *)

\* An editor that loads has its load, and a job that ended is waited for.
AdminShape ==
    /\ session \in {"none", "current", "old"} /\ acts \in 0..MaxAct
    /\ \A a \in Admin :
          /\ seen[a] \in Status
          /\ editor[a].loading => \E n \in LoadSlot : loads[a][n].at # "none"
          /\ job[a].at = "over" => editor[a].saving \/ editor[a].busy

\* A job that ends while nobody waits is gone.
LEMMA EndsShape ==
    ASSUME AdminInv, AdminShape, NEW a \in Admin, job' = Ends(a),
           UNCHANGED <<editor, loads, seen, acts>>, session' \in {"none", "current", "old"}
    PROVE  AdminShape'
<1>1. job \in [Admin -> Jobs]
  BY DEF AdminInv, AdminTypes
<1>2. \A x \in Admin \ {a} : job'[x] = job[x]
  BY <1>1 DEF Ends
<1>3. job'[a].at = "over" => editor[a].saving \/ editor[a].busy
  BY <1>1 DEF Ends, NoJob
<1>. QED
  BY <1>2, <1>3 DEF AdminShape

\* One press more, or none.
LEMMA ActCounted == acts \in 0..MaxAct /\ (Acts \/ UNCHANGED acts) => acts' \in 0..MaxAct
BY AdminAssumption DEF Acts

LEMMA AdminShapeKept ==
    ASSUME AdminInv, AdminShape, [AdminNext]_adminVars
    PROVE  AdminShape'
<1>1. /\ job \in [Admin -> Jobs] /\ editor \in [Admin -> Editors]
      /\ loads \in [Admin -> [LoadSlot -> Loads]] /\ status \in Status
  BY DEF AdminInv, AdminTypes
<1>2. ASSUME NEW a \in Admin, OpenEditor(a)
      PROVE  AdminShape'
  <2>. DEFINE slot == CHOOSE n \in FreeLoads(a) : TRUE
  <2>1. slot \in LoadSlot
    BY <1>2 DEF OpenEditor, FreeLoads
  <2>2. /\ Acts /\ UNCHANGED <<session, job, seen>>
        /\ editor' = [editor EXCEPT ![a].open = TRUE, ![a].loading = TRUE]
        /\ loads' = [loads EXCEPT ![a][slot].at = "sent"]
    BY <1>2 DEF OpenEditor
  <2>. HIDE DEF slot
  <2>3. loads[a] \in [LoadSlot -> Loads] /\ loads[a][slot] \in Loads
    BY <1>1, <2>1
  <2>4. loads'[a][slot].at = "sent" /\ \A x \in Admin \ {a} : loads'[x] = loads[x]
    BY <1>1, <2>1, <2>2, <2>3 DEF Loads
  <2>5. /\ editor'[a].saving = editor[a].saving /\ editor'[a].busy = editor[a].busy
        /\ \A x \in Admin \ {a} : editor'[x] = editor[x]
    BY <1>1, <2>2 DEF Editors
  <2>6. acts' \in 0..MaxAct
    BY <2>2, ActCounted DEF AdminShape
  <2>7. ASSUME NEW x \in Admin, editor'[x].loading
        PROVE  \E n \in LoadSlot : loads'[x][n].at # "none"
    <3>1. CASE x = a
      BY <2>1, <2>4, <3>1
    <3>2. CASE x # a
      BY <2>4, <2>5, <2>7, <3>2 DEF AdminShape
    <3>. QED
      BY <3>1, <3>2
  <2>8. \A x \in Admin : job'[x].at = "over" => editor'[x].saving \/ editor'[x].busy
    BY <2>2, <2>5 DEF AdminShape
  <2>. QED
    BY <2>2, <2>6, <2>7, <2>8 DEF AdminShape
<1>3. ASSUME NEW a \in Admin, NEW n \in LoadSlot, ServeLoad(a, n)
      PROVE  AdminShape'
  <2>1. /\ UNCHANGED <<session, editor, job, seen, acts>>
        /\ loads' = [loads EXCEPT ![a][n] = [at |-> "read", roles |-> Detail, fresh |-> TRUE]]
    BY <1>3 DEF ServeLoad
  <2>2. loads'[a][n].at = "read" /\ \A x \in Admin \ {a} : loads'[x] = loads[x]
    BY <1>1, <2>1
  <2>. QED
    BY <2>1, <2>2 DEF AdminShape
<1>4. ASSUME NEW a \in Admin, NEW n \in LoadSlot, TakeLoad(a, n)
      PROVE  AdminShape'
  <2>1. /\ UNCHANGED <<session, job, seen, acts>>
        /\ loads' = [loads EXCEPT ![a][n] = NoLoad]
        /\ \/ editor' = [editor EXCEPT ![a].loading = FALSE, ![a].fresh = loads[a][n].fresh,
                                       ![a].roles = Known(loads[a][n].roles)]
           \/ editor' = [editor EXCEPT ![a].loading = FALSE]
    BY <1>4 DEF TakeLoad
  <2>2. \A x \in Admin \ {a} : loads'[x] = loads[x] /\ editor'[x] = editor[x]
    BY <1>1, <2>1
  <2>3. /\ editor'[a].saving = editor[a].saving /\ editor'[a].busy = editor[a].busy
        /\ editor'[a].loading = FALSE
    BY <1>1, <2>1 DEF Editors
  <2>. QED
    BY <2>1, <2>2, <2>3 DEF AdminShape
<1>5. ASSUME NEW a \in Admin, CloseEditor(a) \/ \E r \in Role : Tick(a, r)
      PROVE  AdminShape'
  <2>1. /\ UNCHANGED <<session, job, seen, loads>> /\ (Acts \/ UNCHANGED acts)
        /\ \A x \in Admin : /\ editor'[x].loading = editor[x].loading
                            /\ editor'[x].saving = editor[x].saving
                            /\ editor'[x].busy = editor[x].busy
    <3>1. CASE CloseEditor(a)
      BY <1>1, <3>1 DEF CloseEditor, Editors
    <3>2. ASSUME NEW r \in Role, Tick(a, r)
          PROVE  /\ UNCHANGED <<session, job, seen, loads>> /\ Acts
                 /\ \A x \in Admin : /\ editor'[x].loading = editor[x].loading
                                     /\ editor'[x].saving = editor[x].saving
                                     /\ editor'[x].busy = editor[x].busy
      <4>1. /\ UNCHANGED <<session, job, seen, loads>> /\ Acts
            /\ editor' = [editor EXCEPT ![a].fresh = FALSE,
                   ![a].roles = IF r \in @ THEN @ \ {r} ELSE @ \cup {r}]
        BY <3>2 DEF Tick
      <4>. QED
        BY <1>1, <4>1 DEF Editors
    <3>. QED
      BY <1>5, <3>1, <3>2
  <2>. QED
    BY <2>1, ActCounted DEF AdminShape
<1>6. ASSUME NEW a \in Admin, PressSave(a) \/ \E s \in Status : PressStatus(a, s)
      PROVE  AdminShape'
  <2>1. /\ UNCHANGED <<session, seen, loads>> /\ Acts
        /\ \A x \in Admin : /\ editor'[x].loading = editor[x].loading
                            /\ x # a => editor'[x] = editor[x] /\ job'[x] = job[x]
    <3>1. PICK j : job' = [job EXCEPT ![a] = j]
      BY <1>6 DEF PressSave, PressStatus
    <3>2. /\ UNCHANGED <<session, seen, loads>> /\ Acts
          /\ \/ editor' = [editor EXCEPT ![a].saving = TRUE]
             \/ editor' = [editor EXCEPT ![a].busy = TRUE]
      BY <1>6 DEF PressSave, PressStatus
    <3>3. \A x \in Admin : /\ editor'[x].loading = editor[x].loading
                           /\ x # a => editor'[x] = editor[x]
      BY <1>1, <3>2 DEF Editors
    <3>. QED
      BY <1>1, <3>1, <3>2, <3>3
  <2>2. job'[a].at = "read"
    <3>1. CASE PressSave(a)
      BY <1>1, <3>1 DEF PressSave, NoJob
    <3>2. ASSUME NEW s \in Status, PressStatus(a, s)
          PROVE  job'[a].at = "read"
      BY <1>1, <3>2 DEF PressStatus, NoJob
    <3>. QED
      BY <1>6, <3>1, <3>2
  <2>. QED
    BY <2>1, <2>2, ActCounted DEF AdminShape
<1>7. ASSUME NEW a \in Admin, ShowShop(a)
      PROVE  AdminShape'
  <2>1. UNCHANGED <<session, editor, loads, job, acts>> /\ seen' = [seen EXCEPT ![a] = status]
    BY <1>7 DEF ShowShop
  <2>2. \A x \in Admin : seen'[x] \in Status
    <3>. SUFFICES ASSUME NEW x \in Admin PROVE seen'[x] \in Status
      OBVIOUS
    <3>. QED
      BY <1>1, <2>1 DEF AdminShape
  <2>. QED
    BY <2>1, <2>2 DEF AdminShape
<1>8. ASSUME NEW a \in Admin, EndWait(a)
      PROVE  AdminShape'
  <2>1. /\ UNCHANGED <<session, loads, seen, acts>>
        /\ job' = [job EXCEPT ![a] = IF @.at = "over" THEN NoJob ELSE @]
        /\ \/ editor' = [editor EXCEPT ![a].saving = FALSE]
           \/ editor' = [editor EXCEPT ![a].busy = FALSE]
    BY <1>8 DEF EndWait
  <2>2. /\ job'[a].at # "over"
        /\ editor'[a].loading = editor[a].loading
        /\ \A x \in Admin \ {a} : editor'[x] = editor[x] /\ job'[x] = job[x]
    BY <1>1, <2>1 DEF NoJob, Editors
  <2>. QED
    BY <2>1, <2>2 DEF AdminShape
<1>9. ASSUME NEW a \in Admin, ReadUser(a) \/ ReadShop(a) \/ AbortJob(a) \/ SignUserOut(a)
      PROVE  AdminShape'
  <2>1. UNCHANGED <<editor, loads, seen, acts>> /\ session' \in {"none", "current", "old"}
    BY <1>9 DEF ReadUser, ReadShop, AbortJob, SignUserOut, AdminShape
  <2>2. CASE job' = [job EXCEPT ![a].at = "write", ![a].same = TRUE]
    <3>1. job'[a].at = "write" /\ \A x \in Admin \ {a} : job'[x] = job[x]
      BY <1>1, <2>2 DEF Jobs
    <3>. QED
      BY <2>1, <3>1 DEF AdminShape
  <2>3. CASE job' = Ends(a)
    BY <2>1, <2>3, EndsShape
  <2>. QED
    BY <1>9, <2>2, <2>3 DEF ReadUser, ReadShop, AbortJob, SignUserOut
<1>10. ASSUME NEW a \in Admin, WriteRoles(a)
      PROVE  AdminShape'
  <2>. DEFINE changed == ~isList \/ roles # job[a].roles
              written == [x \in Admin |-> [job[x] EXCEPT
                             !.same = @ /\ ~(changed /\ job[x].kind = "save"),
                             !.asIs = @ /\ ~changed]]
  <2>1. /\ UNCHANGED <<seen, acts>> /\ session' \in {session, "old"}
        /\ editor' = [x \in Admin |-> [editor[x] EXCEPT !.fresh = @ /\ ~changed]]
        /\ loads' = [x \in Admin |-> [n \in LoadSlot |->
                        [loads[x][n] EXCEPT !.fresh = @ /\ ~changed]]]
        /\ \/ job' = [written EXCEPT ![a].at = "out"]
           \/ job' = [written EXCEPT ![a] = Ends(a)[a]]
    BY <1>10 DEF WriteRoles
  <2>2. \A x \in Admin : /\ editor'[x].loading = editor[x].loading
                         /\ editor'[x].saving = editor[x].saving
                         /\ editor'[x].busy = editor[x].busy
    BY <1>1, <2>1 DEF Editors
  <2>3. \A x \in Admin, n \in LoadSlot : loads'[x][n].at = loads[x][n].at
    <3>. SUFFICES ASSUME NEW x \in Admin, NEW n \in LoadSlot
                  PROVE  loads'[x][n].at = loads[x][n].at
      OBVIOUS
    <3>1. loads[x][n] \in Loads
      BY <1>1
    <3>. QED
      BY <2>1, <3>1 DEF Loads
  <2>4. \A x \in Admin : x # a => job'[x].at = job[x].at
    BY <1>10, RolesWritten
  <2>5. job'[a].at = "over" => editor[a].saving \/ editor[a].busy
    <3>1. CASE job' = [written EXCEPT ![a].at = "out"]
      <4>1. job'[a].at = "out"
        BY <1>1, <3>1 DEF Jobs
      <4>. QED
        BY <4>1
    <3>2. CASE job' = [written EXCEPT ![a] = Ends(a)[a]]
      <4>1. job'[a] = Ends(a)[a]
        BY <3>2
      <4>. QED
        BY <1>1, <4>1 DEF Ends, NoJob
    <3>. QED
      BY <2>1, <3>1, <3>2
  <2>6. session' \in {"none", "current", "old"} /\ acts' \in 0..MaxAct
        /\ \A x \in Admin : seen'[x] \in Status
    BY <2>1 DEF AdminShape
  <2>7. \A x \in Admin : editor'[x].loading => \E n \in LoadSlot : loads'[x][n].at # "none"
    BY <2>2, <2>3 DEF AdminShape
  <2>8. \A x \in Admin : job'[x].at = "over" => editor'[x].saving \/ editor'[x].busy
    BY <2>2, <2>4, <2>5 DEF AdminShape
  <2>. QED
    BY <2>6, <2>7, <2>8 DEF AdminShape
<1>11. ASSUME NEW a \in Admin, WriteShop(a)
      PROVE  AdminShape'
  <2>1. /\ UNCHANGED <<session, editor, loads, seen, acts>>
        /\ \A x \in Admin : job'[x].at = IF x = a THEN Ends(a)[a].at ELSE job[x].at
    BY <1>1, <1>11 DEF WriteShop, Jobs
  <2>2. job'[a].at = "over" => editor[a].saving \/ editor[a].busy
    BY <1>1, <2>1 DEF Ends, NoJob
  <2>. QED
    BY <2>1, <2>2 DEF AdminShape
<1>12. CASE UserSignsIn \/ UNCHANGED adminVars
  BY <1>12 DEF UserSignsIn, adminVars, AdminShape
<1>. QED
  BY <1>2, <1>3, <1>4, <1>5, <1>6, <1>7, <1>8, <1>9, <1>10, <1>11, <1>12 DEF AdminNext

LEMMA AdminShapeStarts == AdminInit => AdminShape
<1>. SUFFICES ASSUME AdminInit PROVE AdminShape
  OBVIOUS
<1>1. \A a \in Admin : job[a].at = "idle" /\ seen[a] \in Status
  BY DEF AdminInit, NoJob, Status
<1>2. PICK loaded \in {{}, Admin} :
        editor = [a \in Admin |->
            [Shut EXCEPT !.open = a \in loaded, !.fresh = a \in loaded,
                         !.roles = IF a \in loaded THEN Known(Detail) ELSE {}]]
  BY DEF AdminInit
<1>3. \A a \in Admin : ~editor[a].loading
  BY <1>2 DEF Shut
<1>4. session = "current" /\ acts = 0
  BY DEF AdminInit
<1>5. acts \in 0..MaxAct
  BY <1>4, AdminAssumption
<1>. QED
  BY <1>1, <1>3, <1>4, <1>5 DEF AdminShape

LEMMA AdminFacts == AdminInv /\ AdminShape => AdminTypeOK
BY DEF AdminInv, AdminTypes, AdminShape, AdminTypeOK, Editors

-----------------------------------------------------------------------------
(***************************************************************************)
(* The products page.                                                      *)
(***************************************************************************)

\* What the products page asks for.
DeskRequest ==
    [op : {"create"}, id : {0}, goods : Goods]
    \cup [op : {"toggle"}, id : Id, live : BOOLEAN]
    \cup [op : {"details"}, id : Id, label : Label, live : BOOLEAN]
    \cup [op : {"stock"}, id : Id, units : Units, alert : Alert]
    \cup [op : {"delete"}, id : Id]

WireState ==
    {NoWire}
    \cup [state : {"sent", "failed"}, request : DeskRequest, own : BOOLEAN]
    \cup [state : {"ok"}, request : {q \in DeskRequest : q.op # "delete"}, own : BOOLEAN,
          goods : [id : Id, now : Goods]]
    \cup [state : {"ok"}, request : {q \in DeskRequest : q.op = "delete"}, own : BOOLEAN,
          goods : [id : Id]]

On(w) == wires[w].state # "free"

DeskTypes ==
    /\ made \in 0..MaxProduct
    /\ DOMAIN stock \subseteq 1..made /\ \A i \in DOMAIN stock : stock[i] \in Goods
    /\ DOMAIN shown \subseteq 1..made /\ \A i \in DOMAIN shown : shown[i] \in Goods
    /\ DOMAIN desk = DOMAIN shown /\ \A i \in DOMAIN desk : desk[i] \in Row
    /\ wires \in [Slot -> WireState] /\ ghosts \subseteq DeskRequest /\ creating \in BOOLEAN
    /\ \A w \in Slot : On(w) => wires[w].request.id <= made
    /\ \A q \in ghosts : q.id <= made

\* g is product i as the server has it, but for units traded since.
SameProduct(g, i) ==
    i \in DOMAIN stock /\ g = [stock[i] EXCEPT !.units = IF i \in sold THEN g.units ELSE @]

\* A product that is not "mixed" has one request about it at most, none of them lost.
OneEach ==
    /\ \A q \in ghosts : q.id \in mixed
    /\ \A w, x \in Slot :
          On(w) /\ On(x) /\ wires[w].request.id = wires[x].request.id =>
              w = x \/ wires[w].request.id \in mixed \cup {0}

\* Nobody has asked for anything about the product that slot w's answer brings.
Untouched(w, i) ==
    /\ \A x \in Slot : On(x) => wires[x].request.id # i
    /\ \A x \in Slot \ {w} :
          wires[x].state = "ok" /\ wires[x].request.op = "create" => wires[x].goods.id # i
    /\ \A p \in ghosts : p.id # i

\* An answer not yet taken is up to date.
AnswerFits(w, a) ==
    /\ a.request.op = "create" =>
          /\ a.goods.id \in 1..made /\ a.goods.id \notin DOMAIN shown
          /\ SameProduct(a.goods.now, a.goods.id) /\ Untouched(w, a.goods.id)
    /\ a.request.op = "delete" => a.request.id \in mixed \/ a.request.id \notin DOMAIN stock
    /\ a.request.op \notin {"create", "delete"} =>
          a.request.id \in mixed \/ SameProduct(a.goods.now, a.request.id)

AnswersFit ==
    \A w \in Slot : \A a \in WireState : wires[w] = a /\ a.state = "ok" => AnswerFits(w, a)

\* A listed product without an answer on its way is shown as it is.
RowFits(i, g) ==
    /\ i \notin mixed
    /\ \A w \in Slot : wires[w].state = "ok" => wires[w].request.id # i
    => SameProduct(g, i)

RowsFit == \A i \in DOMAIN shown : \A g \in Goods : shown[i] = g => RowFits(i, g)

\* A spinner belongs to a request that the row, or the create form, awaits.
SpinnersFit ==
    /\ \A i \in DOMAIN desk : desk[i].busy =>
          \E w \in Slot : /\ On(w) /\ wires[w].own /\ wires[w].request.id = i
                          /\ wires[w].request.op # "details"
    /\ creating => \E w \in Slot : On(w) /\ wires[w].own /\ wires[w].request.op = "create"

DeskInv == DeskTypes /\ OneEach /\ AnswersFit /\ RowsFit /\ SpinnersFit

-----------------------------------------------------------------------------
LEMMA DeskRequestParts ==
    ASSUME NEW q \in DeskRequest
    PROVE  /\ q.op \in {"create", "toggle", "details", "stock", "delete"}
           /\ q.op = "create" <=> q.id = 0
           /\ q.op # "create" => q.id \in Id
           /\ q.op = "create" => q.goods \in Goods
           /\ q.op \in {"toggle", "details"} => q.live \in BOOLEAN
           /\ q.op = "details" => q.label \in Label
           /\ q.op = "stock" => q.units \in Units /\ q.alert \in Alert
BY DEF DeskRequest, Id

LEMMA WireParts ==
    ASSUME NEW a \in WireState, a.state # "free"
    PROVE  /\ a.state \in {"sent", "failed", "ok"}
           /\ a.request \in DeskRequest /\ a.own \in BOOLEAN
           /\ a.state = "ok" => a.goods.id \in Id
           /\ a.state = "ok" /\ a.request.op # "delete" => a.goods.now \in Goods
BY DEF WireState, NoWire

LEMMA DisownedWire ==
    ASSUME NEW a \in WireState, a.state # "free"
    PROVE  LET b == [a EXCEPT !.own = FALSE] IN
           /\ b \in WireState /\ b.state = a.state /\ b.request = a.request
           /\ b.own = FALSE /\ a.state = "ok" => b.goods = a.goods
<1>1. CASE a \in [state : {"sent", "failed"}, request : DeskRequest, own : BOOLEAN]
  BY <1>1 DEF WireState
<1>2. CASE a \in [state : {"ok"}, request : {q \in DeskRequest : q.op # "delete"}, own : BOOLEAN,
                  goods : [id : Id, now : Goods]]
  BY <1>2 DEF WireState
<1>3. CASE a \in [state : {"ok"}, request : {q \in DeskRequest : q.op = "delete"}, own : BOOLEAN,
                  goods : [id : Id]]
  BY <1>3 DEF WireState
<1>. QED
  BY <1>1, <1>2, <1>3 DEF WireState, NoWire

LEMMA FailedWire ==
    ASSUME NEW a \in WireState, a.state = "sent"
    PROVE  LET b == [a EXCEPT !.state = "failed"] IN
           b \in WireState /\ b.state = "failed" /\ b.request = a.request /\ b.own = a.own
<1>1. a \in [state : {"sent", "failed"}, request : DeskRequest, own : BOOLEAN]
  BY DEF WireState, NoWire
<1>. QED
  BY <1>1 DEF WireState

\* What the server carries out changes one product, or makes one.
LEMMA Carried ==
    ASSUME DeskTypes, NEW q \in DeskRequest, q.id <= made, Exists(q), Carries(q)
    PROVE  /\ made' \in 0..MaxProduct /\ made <= made'
           /\ DOMAIN stock' \subseteq 1..made' /\ \A i \in DOMAIN stock' : stock'[i] \in Goods
           /\ \A i \in 1..made : i # q.id =>
                 /\ i \in DOMAIN stock' <=> i \in DOMAIN stock
                 /\ i \in DOMAIN stock => stock'[i] = stock[i]
           /\ q.op = "create" => made' = made + 1 /\ made' \in DOMAIN stock' /\ stock'[made'] = q.goods
           /\ q.op = "delete" => q.id \notin DOMAIN stock'
           /\ q.op \notin {"create", "delete"} => q.id \in DOMAIN stock'
<1>0. /\ MaxProduct \in Nat \ {0} /\ made \in 0..MaxProduct
      /\ DOMAIN stock \subseteq 1..made /\ \A i \in DOMAIN stock : stock[i] \in Goods
  BY DeskAssumption DEF DeskTypes
<1>1. CASE q.op = "create"
  <2>1. made' = made + 1 /\ made' \in 0..MaxProduct /\ q.goods \in Goods /\ q.id = 0
    BY <1>0, <1>1, DeskRequestParts DEF Carries
  <2>2. stock' = [j \in DOMAIN stock \cup {made'} |-> IF j = made' THEN q.goods ELSE stock[j]]
    BY <1>1, <2>1 DEF Carries, Effected, With
  <2>. QED
    BY <1>0, <1>1, <2>1, <2>2
<1>2. CASE q.op = "delete"
  <2>1. made' = made /\ stock' = [j \in DOMAIN stock \ {q.id} |-> stock[j]]
    BY <1>2 DEF Carries, Effected, Less
  <2>. QED
    BY <1>0, <1>2, <2>1
<1>3. CASE q.op \in {"toggle", "details", "stock"}
  <2>. DEFINE p == stock[q.id]
  <2>1. made' = made /\ q.id \in DOMAIN stock /\ p \in Goods
    BY <1>0, <1>3 DEF Carries, Exists
  <2>2. PICK g \in Goods : stock' = [stock EXCEPT ![q.id] = g]
    <3>1. CASE q.op = "toggle"
      <4>1. [p EXCEPT !.live = q.live] \in Goods
        BY <2>1, <3>1, DeskRequestParts DEF Goods
      <4>2. stock' = [stock EXCEPT ![q.id] = [p EXCEPT !.live = q.live]]
        BY <3>1 DEF Carries, Effected
      <4>. QED
        BY <4>1, <4>2
    <3>2. CASE q.op = "details"
      <4>1. [p EXCEPT !.live = q.live, !.label = q.label] \in Goods
        BY <2>1, <3>2, DeskRequestParts DEF Goods
      <4>2. stock' = [stock EXCEPT ![q.id] = [p EXCEPT !.live = q.live, !.label = q.label]]
        BY <2>1, <3>2 DEF Carries, Effected
      <4>. QED
        BY <4>1, <4>2
    <3>3. CASE q.op = "stock"
      <4>. DEFINE alert == IF q.alert = NoAlert THEN p.alert ELSE q.alert
      <4>1. [p EXCEPT !.units = q.units, !.alert = alert] \in Goods
        BY <2>1, <3>3, DeskRequestParts DEF Goods
      <4>2. stock' = [stock EXCEPT ![q.id] = [p EXCEPT !.units = q.units, !.alert = alert]]
        BY <2>1, <3>3 DEF Carries, Effected, Goods
      <4>. QED
        BY <4>1, <4>2
    <3>. QED
      BY <1>3, <3>1, <3>2, <3>3
  <2>3. DOMAIN stock' = DOMAIN stock /\ stock'[q.id] = g
        /\ \A i \in DOMAIN stock \ {q.id} : stock'[i] = stock[i]
    BY <2>1, <2>2
  <2>. QED
    BY <1>0, <1>3, <2>1, <2>3
<1>. QED
  BY <1>1, <1>2, <1>3, DeskRequestParts

LEMMA SameStays ==
    ASSUME NEW g \in Goods, NEW i, SameProduct(g, i), i \in DOMAIN stock', stock'[i] = stock[i],
           stock[i] \in Goods, i \in sold => i \in sold'
    PROVE  SameProduct(g, i)'
BY DEF SameProduct, Goods

LEMMA AsServed ==
    ASSUME NEW g \in Goods, NEW i, i \in DOMAIN stock, stock[i] = g
    PROVE  SameProduct(g, i)
BY DEF SameProduct, Goods

LEMMA OnWire ==
    ASSUME DeskTypes, NEW w \in Slot, On(w)
    PROVE  /\ wires[w] \in WireState /\ wires[w].state \in {"sent", "failed", "ok"}
           /\ wires[w].request \in DeskRequest /\ wires[w].own \in BOOLEAN
           /\ wires[w].request.id <= made /\ wires[w].request.id \in 0..made
           /\ wires[w].request.op = "create" <=> wires[w].request.id = 0
<1>1. wires[w] \in WireState /\ wires[w].request.id <= made /\ made \in Nat
  BY DeskAssumption DEF DeskTypes
<1>2. /\ wires[w].state \in {"sent", "failed", "ok"}
      /\ wires[w].request \in DeskRequest /\ wires[w].own \in BOOLEAN
  BY <1>1, WireParts DEF On
<1>3. /\ wires[w].request.op = "create" <=> wires[w].request.id = 0
      /\ wires[w].request.id \in Id \cup {0}
  BY <1>2, DeskRequestParts
<1>. QED
  BY <1>1, <1>2, <1>3, DeskAssumption DEF Id

\* The requests on the way are some of those there were.
Fewer ==
    \A w \in Slot : wires'[w].state # "free" =>
        /\ wires[w].state # "free" /\ wires'[w].request = wires[w].request
        /\ wires'[w].state = "ok" => wires[w].state = "ok" /\ wires'[w].goods = wires[w].goods

\* Nothing is served, and no request is new.
LEMMA FewerFit ==
    ASSUME DeskInv, Fewer, UNCHANGED <<stock, made, sold>>, mixed \subseteq mixed',
           \A q \in ghosts' : q.id \in mixed',
           \A q \in ghosts' : q \in ghosts \/ \E w \in Slot : On(w) /\ q = wires[w].request,
           \A w \in Slot : wires'[w].state = "ok" /\ wires[w].request.op = "create"
                              => wires[w].goods.id \notin DOMAIN shown'
    PROVE  OneEach' /\ AnswersFit'
<1>1. OneEach'
  <2>1. ASSUME NEW w \in Slot, NEW x \in Slot, On(w)', On(x)', (wires[w].request.id = wires[x].request.id)'
        PROVE  w = x \/ wires'[w].request.id \in mixed' \cup {0}
    BY <2>1 DEF DeskInv, OneEach, On, Fewer
  <2>. QED
    BY <2>1 DEF OneEach
<1>2. ASSUME NEW w \in Slot, NEW a \in WireState, wires'[w] = a, a.state = "ok"
      PROVE  AnswerFits(w, a)'
  <2>1. /\ On(w) /\ wires[w].state = "ok"
        /\ a.request = wires[w].request /\ a.goods = wires[w].goods
    BY <1>2 DEF Fewer, On
  <2>2. wires[w] \in WireState /\ wires[w].state = "ok"
    BY <2>1, OnWire DEF DeskInv
  <2>3. AnswerFits(w, wires[w])
    BY <2>2 DEF DeskInv, AnswersFit
  <2>4. AnswerFits(w, a)
    BY <2>1, <2>3 DEF AnswerFits
  <2>5. ASSUME a.request.op = "create"
        PROVE  Untouched(w, a.goods.id)'
    <3>1. Untouched(w, a.goods.id)
      BY <2>4, <2>5 DEF AnswerFits
    <3>2. ASSUME NEW x \in Slot, On(x)'
          PROVE  wires'[x].request.id # a.goods.id
      BY <3>1, <3>2 DEF Untouched, Fewer, On
    <3>3. ASSUME NEW x \in Slot \ {w}, wires'[x].state = "ok", wires'[x].request.op = "create"
          PROVE  wires'[x].goods.id # a.goods.id
      BY <3>1, <3>3 DEF Untouched, Fewer
    <3>4. ASSUME NEW p \in ghosts'
          PROVE  p.id # a.goods.id
      BY <3>1, <3>4 DEF Untouched
    <3>. QED
      BY <3>2, <3>3, <3>4 DEF Untouched
  <2>6. a.request.op = "create" => a.goods.id \notin DOMAIN shown'
    BY <1>2, <2>1
  <2>7. \A g, i : SameProduct(g, i) => SameProduct(g, i)'
    BY DEF SameProduct
  <2>. QED
    BY <2>4, <2>5, <2>6, <2>7 DEF AnswerFits
<1>3. AnswersFit'
  BY <1>2 DEF AnswersFit
<1>. QED
  BY <1>1, <1>3

\* What nobody takes leaves the rows as they fit.
LEMMA RowsStayFit ==
    ASSUME DeskInv, UNCHANGED <<stock, sold, shown>>, mixed \subseteq mixed',
           \A w \in Slot : wires[w].state = "ok" =>
               wires'[w].state = "ok" /\ wires'[w].request = wires[w].request
    PROVE  RowsFit'
<1>1. ASSUME NEW i \in DOMAIN shown, NEW g \in Goods, shown[i] = g, i \notin mixed',
             \A w \in Slot : wires'[w].state = "ok" => wires'[w].request.id # i
      PROVE  SameProduct(g, i)'
  <2>1. RowFits(i, g)
    BY <1>1 DEF DeskInv, RowsFit
  <2>2. SameProduct(g, i)
    BY <1>1, <2>1 DEF RowFits
  <2>. QED
    BY <2>2 DEF SameProduct
<1>. QED
  BY <1>1 DEF RowsFit, RowFits

\* Whatever is on the way stays what it is about, e apart.
StaysBut(e) ==
    \A i \in 1..made : i # e =>
        /\ i \notin DOMAIN stock => i \notin DOMAIN stock'
        /\ \A g \in Goods : SameProduct(g, i) => SameProduct(g, i)'

\* The catalogue changes at e; slot w's answer, if it is one, is looked at apart.
LEMMA OtherAnswersFit ==
    ASSUME DeskInv, NEW e, StaysBut(e), made \in Nat, made' \in Nat, made <= made',
           UNCHANGED <<shown, mixed>>,
           NEW x \in Slot, NEW a \in WireState, wires[x] = a, a.state = "ok",
           a.request.id = e => e \in mixed \cup {0},
           a.request.op = "create" => a.goods.id # e /\ Untouched(x, a.goods.id)'
    PROVE  AnswerFits(x, a)'
<1>1. AnswerFits(x, a)
  BY DEF DeskInv, AnswersFit
<1>2. /\ a.request \in DeskRequest
      /\ a.request.op # "delete" => a.goods.now \in Goods
  BY WireParts
<1>3. /\ a.request.op = "create" <=> a.request.id = 0
      /\ a.request.op # "create" => a.request.id \in 1..made
  BY OnWire DEF DeskInv, On
<1>4. CASE a.request.op = "create"
  <2>1. a.goods.id \in 1..made /\ a.goods.id \notin DOMAIN shown /\ SameProduct(a.goods.now, a.goods.id)
    BY <1>1, <1>4 DEF AnswerFits
  <2>2. SameProduct(a.goods.now, a.goods.id)'
    BY <1>2, <1>4, <2>1 DEF StaysBut
  <2>3. a.goods.id \in 1..made'
    BY <2>1
  <2>. QED
    BY <1>4, <2>1, <2>2, <2>3 DEF AnswerFits
<1>5. CASE a.request.op # "create" /\ a.request.id \in mixed
  BY <1>5 DEF AnswerFits
<1>6. CASE a.request.op # "create" /\ a.request.id \notin mixed
  <2>1. a.request.id # e /\ a.request.id \in 1..made
    BY <1>3, <1>6
  <2>. QED
    BY <1>1, <1>2, <1>6, <2>1 DEF AnswerFits, StaysBut
<1>. QED
  BY <1>4, <1>5, <1>6

\* The catalogue changes at e, and whoever shows e has an answer to come.
LEMMA OtherRowsFit ==
    ASSUME DeskInv, NEW e, StaysBut(e), UNCHANGED <<shown, mixed>>,
           \A w \in Slot : wires[w].state = "ok" =>
               wires'[w].state = "ok" /\ wires'[w].request = wires[w].request,
           e \in mixed \cup {0} \/ \E w \in Slot : wires'[w].state = "ok" /\ wires'[w].request.id = e
    PROVE  RowsFit'
<1>1. ASSUME NEW i \in DOMAIN shown, NEW g \in Goods, shown[i] = g, i \notin mixed,
             \A w \in Slot : wires'[w].state = "ok" => wires'[w].request.id # i
      PROVE  SameProduct(g, i)'
  <2>1. RowFits(i, g)
    BY <1>1 DEF DeskInv, RowsFit
  <2>2. SameProduct(g, i)
    BY <1>1, <2>1 DEF RowFits
  <2>3. i \in 1..made /\ i # e
    BY <1>1, DeskAssumption DEF DeskInv, DeskTypes
  <2>. QED
    BY <2>2, <2>3 DEF StaysBut
<1>. QED
  BY <1>1 DEF RowsFit, RowFits

-----------------------------------------------------------------------------
(* The server's steps *)

\* What slot w's answer carries, once q is served.
AnswerTo(q) ==
    CASE q.op = "create" -> [id |-> made', now |-> q.goods]
      [] q.op = "delete" -> [id |-> q.id]
      [] OTHER -> [id |-> q.id, now |-> stock'[q.id]]

LEMMA CarriedStays ==
    ASSUME DeskTypes, NEW q \in DeskRequest, q.id <= made, Exists(q), Carries(q),
           \A i \in sold : i # q.id => i \in sold'
    PROVE  StaysBut(q.id)
<1>1. \A i \in 1..made : i # q.id =>
          /\ i \in DOMAIN stock' <=> i \in DOMAIN stock
          /\ i \in DOMAIN stock => stock'[i] = stock[i]
  BY Carried
<1>2. ASSUME NEW i \in 1..made, i # q.id, NEW g \in Goods, SameProduct(g, i)
      PROVE  SameProduct(g, i)'
  <2>1. i \in DOMAIN stock /\ stock[i] \in Goods /\ i \in DOMAIN stock' /\ stock'[i] = stock[i]
    BY <1>1, <1>2 DEF SameProduct, DeskTypes
  <2>. QED
    BY <1>2, <2>1, SameStays
<1>. QED
  BY <1>1, <1>2 DEF StaysBut

LEMMA ServeDeskKeeps ==
    ASSUME DeskInv, NEW w \in Slot, ServeDesk(w)
    PROVE  DeskInv'
<1>0. /\ On(w) /\ wires[w].state = "sent" /\ DeskTypes
      /\ UNCHANGED <<shown, desk, creating, ghosts, deals, mixed>>
  BY DEF ServeDesk, On, DeskInv
<1>. PICK q \in DeskRequest : q = wires[w].request
  BY <1>0, OnWire
<1>1. /\ q.id <= made /\ q.id \in 0..made /\ (q.op = "create" <=> q.id = 0)
      /\ wires[w] \in WireState /\ wires[w].own \in BOOLEAN
      /\ wires \in [Slot -> WireState]
  BY <1>0, OnWire DEF DeskTypes
<1>2. CASE ~Exists(q)
  <2>1. wires' = [wires EXCEPT ![w].state = "failed"] /\ UNCHANGED <<stock, made, sold>>
    BY <1>2 DEF ServeDesk
  <2>2. PICK b \in WireState : /\ b = [wires[w] EXCEPT !.state = "failed"] /\ b.state = "failed"
                               /\ b.request = wires[w].request /\ b.own = wires[w].own
    BY <1>0, <1>1, FailedWire
  <2>3. /\ wires' = [wires EXCEPT ![w] = b] /\ wires' \in [Slot -> WireState] /\ wires'[w] = b
        /\ \A x \in Slot \ {w} : wires'[x] = wires[x]
    BY <1>1, <2>1, <2>2
  <2>4. Fewer
    BY <1>0, <2>2, <2>3 DEF Fewer
  <2>5. OneEach' /\ AnswersFit'
    <3>1. \A p \in ghosts' : p.id \in mixed'
      BY <1>0 DEF DeskInv, OneEach
    <3>2. ASSUME NEW x \in Slot, wires'[x].state = "ok", wires[x].request.op = "create"
          PROVE  wires[x].goods.id \notin DOMAIN shown'
      <4>1. x # w /\ wires[x].state = "ok" /\ wires[x] \in WireState
        BY <1>1, <2>2, <2>3, <3>2
      <4>2. AnswerFits(x, wires[x])
        BY <4>1 DEF DeskInv, AnswersFit
      <4>. QED
        BY <1>0, <3>2, <4>2 DEF AnswerFits
    <3>. QED
      BY <1>0, <2>1, <2>4, <3>1, <3>2, FewerFit
  <2>6. RowsFit'
    <3>1. \A x \in Slot : wires[x].state = "ok" =>
              wires'[x].state = "ok" /\ wires'[x].request = wires[x].request
      BY <1>0, <2>3
    <3>. QED
      BY <1>0, <2>1, <3>1, RowsStayFit
  <2>7. DeskTypes'
    <3>1. \A x \in Slot : On(x)' => wires'[x].request.id <= made'
      BY <1>0, <2>1, <2>4 DEF Fewer, DeskTypes, On
    <3>. QED
      BY <1>0, <2>1, <2>3, <3>1 DEF DeskTypes
  <2>8. SpinnersFit'
    <3>1. \A x \in Slot : On(x) => wires'[x].state # "free" /\ wires'[x].own = wires[x].own
                                    /\ wires'[x].request = wires[x].request
      BY <2>2, <2>3 DEF On
    <3>. QED
      BY <1>0, <3>1 DEF DeskInv, SpinnersFit, On
  <2>. QED
    BY <2>5, <2>6, <2>7, <2>8 DEF DeskInv
<1>3. CASE Exists(q)
  <2>1. /\ Carries(q) /\ sold' = sold \ {q.id}
        /\ wires' = [wires EXCEPT ![w] =
               [state |-> "ok", request |-> q, own |-> wires[w].own, goods |-> AnswerTo(q)]]
    BY <1>3 DEF ServeDesk, AnswerTo
  <2>2. /\ made' \in 0..MaxProduct /\ made <= made' /\ made \in Nat /\ made' \in Nat
        /\ DOMAIN stock' \subseteq 1..made' /\ \A i \in DOMAIN stock' : stock'[i] \in Goods
        /\ q.op = "create" => made' = made + 1 /\ made' \in DOMAIN stock' /\ stock'[made'] = q.goods
        /\ q.op = "delete" => q.id \notin DOMAIN stock'
        /\ q.op \notin {"create", "delete"} => q.id \in DOMAIN stock'
    BY <1>0, <1>1, <1>3, <2>1, Carried, DeskAssumption DEF DeskTypes
  <2>3. StaysBut(q.id)
    BY <1>0, <1>1, <1>3, <2>1, CarriedStays
  <2>4. PICK b \in WireState : /\ b = [state |-> "ok", request |-> q, own |-> wires[w].own,
                                       goods |-> AnswerTo(q)]
    <3>1. q.op = "create" => AnswerTo(q) \in [id : Id, now : Goods]
      <4>1. q.op = "create" => made' \in Id /\ q.goods \in Goods
        BY <2>2, DeskRequestParts, DeskAssumption, <1>1 DEF Id
      <4>. QED
        BY <4>1 DEF AnswerTo
    <3>2. q.op = "delete" => AnswerTo(q) \in [id : Id]
      BY DeskRequestParts DEF AnswerTo
    <3>3. q.op \notin {"create", "delete"} => AnswerTo(q) \in [id : Id, now : Goods]
      <4>1. q.op \notin {"create", "delete"} => q.id \in Id /\ stock'[q.id] \in Goods
        BY <2>2, DeskRequestParts
      <4>. QED
        BY <4>1 DEF AnswerTo
    <3>. QED
      BY <1>1, <3>1, <3>2, <3>3 DEF WireState
  <2>5. /\ wires' = [wires EXCEPT ![w] = b] /\ wires' \in [Slot -> WireState] /\ wires'[w] = b
        /\ b.state = "ok" /\ b.request = q /\ b.own = wires[w].own /\ b.goods = AnswerTo(q)
        /\ \A x \in Slot \ {w} : wires'[x] = wires[x]
    BY <1>1, <2>1, <2>4
  <2>6. \A x \in Slot : /\ On(x)' <=> On(x)
                        /\ On(x) => wires'[x].own = wires[x].own /\ wires'[x].request = wires[x].request
    BY <1>0, <2>5 DEF On
  <2>7. OneEach'
    BY <1>0, <2>6 DEF DeskInv, OneEach
  <2>8. ASSUME NEW x \in Slot \ {w}, NEW a \in WireState, wires'[x] = a, a.state = "ok"
        PROVE  AnswerFits(x, a)'
    <3>1. wires[x] = a /\ On(x)
      BY <2>5, <2>8 DEF On
    <3>2. a.request.id = q.id => q.id \in mixed \cup {0}
      BY <1>0, <3>1 DEF DeskInv, OneEach
    <3>3. AnswerFits(x, a)
      BY <2>8, <3>1 DEF DeskInv, AnswersFit
    <3>4. ASSUME a.request.op = "create"
          PROVE  a.goods.id # q.id /\ Untouched(x, a.goods.id)'
      <4>1. Untouched(x, a.goods.id) /\ a.goods.id \in 1..made
        BY <3>3, <3>4 DEF AnswerFits
      <4>2. a.goods.id # q.id
        BY <1>0, <4>1 DEF Untouched
      <4>3. \A y \in Slot : On(y)' => wires'[y].request.id # a.goods.id
        BY <2>6, <4>1 DEF Untouched
      <4>4. ASSUME NEW y \in Slot \ {x}, wires'[y].state = "ok", wires'[y].request.op = "create"
            PROVE  wires'[y].goods.id # a.goods.id
        <5>1. CASE y = w
          <6>1. q.op = "create"
            BY <2>5, <4>4, <5>1
          <6>2. wires'[y].goods.id = made'
            BY <2>5, <5>1, <6>1 DEF AnswerTo
          <6>. QED
            BY <2>2, <4>1, <6>1, <6>2
        <5>2. CASE y # w
          BY <2>5, <4>1, <4>4, <5>2 DEF Untouched
        <5>. QED
          BY <5>1, <5>2
      <4>. QED
        BY <1>0, <4>1, <4>2, <4>3, <4>4 DEF Untouched
    <3>. QED
      BY <1>0, <2>2, <2>3, <2>8, <3>1, <3>2, <3>4, OtherAnswersFit
  <2>9. AnswerFits(w, b)'
    <3>1. CASE q.op = "create"
      <4>1. b.goods.id = made' /\ b.goods.now = q.goods /\ made' = made + 1 /\ q.goods \in Goods
        BY <2>2, <2>5, <3>1, DeskRequestParts DEF AnswerTo
      <4>2. made' \notin DOMAIN shown' /\ made' \in 1..made'
        BY <1>0, <2>2, <4>1 DEF DeskTypes
      <4>3. SameProduct(b.goods.now, b.goods.id)'
        BY <2>2, <3>1, <4>1 DEF SameProduct, Goods
      <4>4. \A x \in Slot : On(x)' => wires'[x].request.id # b.goods.id
        BY <1>0, <2>2, <2>6, <4>1 DEF DeskTypes
      <4>5. ASSUME NEW x \in Slot \ {w}, wires'[x].state = "ok", wires'[x].request.op = "create"
            PROVE  wires'[x].goods.id # b.goods.id
        <5>1. wires[x] \in WireState /\ wires[x].state = "ok" /\ wires[x].request.op = "create"
          BY <1>1, <2>5, <4>5
        <5>2. AnswerFits(x, wires[x])
          BY <5>1 DEF DeskInv, AnswersFit
        <5>3. wires[x].goods.id \in 1..made /\ wires'[x] = wires[x]
          BY <2>5, <5>1, <5>2 DEF AnswerFits
        <5>. QED
          BY <2>2, <4>1, <5>3
      <4>6. \A p \in ghosts' : p.id # b.goods.id
        <5>1. \A p \in ghosts : p.id \in 0..made
          BY <1>0, DeskRequestParts, <2>2 DEF DeskTypes, Id
        <5>. QED
          BY <1>0, <2>2, <4>1, <5>1
      <4>. QED
        BY <2>5, <3>1, <4>1, <4>2, <4>3, <4>4, <4>5, <4>6 DEF AnswerFits, Untouched
    <3>2. CASE q.op = "delete"
      BY <2>2, <2>5, <3>2 DEF AnswerFits
    <3>3. CASE q.op \notin {"create", "delete"}
      <4>1. b.goods.now = stock'[q.id] /\ q.id \in DOMAIN stock' /\ stock'[q.id] \in Goods
        BY <2>2, <2>5, <3>3 DEF AnswerTo
      <4>2. SameProduct(b.goods.now, b.request.id)'
        BY <2>5, <4>1 DEF SameProduct, Goods
      <4>. QED
        BY <2>5, <3>3, <4>2 DEF AnswerFits
    <3>. QED
      BY <3>1, <3>2, <3>3
  <2>10. AnswersFit'
    BY <2>5, <2>8, <2>9 DEF AnswersFit
  <2>11. RowsFit'
    <3>1. \A x \in Slot : wires[x].state = "ok" =>
              wires'[x].state = "ok" /\ wires'[x].request = wires[x].request
      BY <1>0, <2>5
    <3>2. wires'[w].state = "ok" /\ wires'[w].request.id = q.id
      BY <2>5
    <3>. QED
      BY <1>0, <2>3, <3>1, <3>2, OtherRowsFit
  <2>12. DeskTypes'
    <3>1. \A x \in Slot : On(x)' => wires'[x].request.id <= made'
      <4>1. \A x \in Slot : On(x) => wires[x].request.id \in 0..made
        BY <1>0, OnWire
      <4>. QED
        BY <2>2, <2>6, <4>1
    <3>2. \A p \in ghosts' : p.id <= made'
      <4>1. \A p \in ghosts : p.id \in 0..made
        BY <1>0, DeskRequestParts, <2>2 DEF DeskTypes, Id
      <4>. QED
        BY <1>0, <2>2, <4>1
    <3>3. DOMAIN shown' \subseteq 1..made'
      BY <1>0, <2>2 DEF DeskTypes
    <3>. QED
      BY <1>0, <2>2, <2>5, <3>1, <3>2, <3>3 DEF DeskTypes
  <2>13. SpinnersFit'
    BY <1>0, <2>6 DEF DeskInv, SpinnersFit
  <2>. QED
    BY <2>7, <2>10, <2>11, <2>12, <2>13 DEF DeskInv
<1>. QED
  BY <1>2, <1>3

\* The catalogue changes at e, of which nobody waits for an answer.
LEMMA StockMovesKeep ==
    ASSUME DeskInv, NEW e, e \in mixed \cup {0}, StaysBut(e),
           made' \in 0..MaxProduct, made <= made',
           DOMAIN stock' \subseteq 1..made', \A i \in DOMAIN stock' : stock'[i] \in Goods,
           ghosts' \subseteq ghosts, UNCHANGED <<shown, desk, creating, wires, mixed>>,
           \A w \in Slot : \A a \in WireState :
               wires[w] = a /\ a.state = "ok" /\ a.request.op = "create" => a.goods.id # e
    PROVE  DeskInv'
<1>1. DeskTypes /\ made \in Nat /\ made' \in Nat
  BY DeskAssumption DEF DeskInv, DeskTypes
<1>2. DeskTypes'
  <2>1. \A x \in Slot : On(x)' => wires'[x].request.id <= made'
    <3>1. \A x \in Slot : On(x) => wires[x].request.id \in 0..made
      BY <1>1, OnWire
    <3>. QED
      BY <1>1, <3>1 DEF On
  <2>2. \A p \in ghosts' : p.id <= made'
    <3>1. \A p \in ghosts : p.id \in 0..made
      BY <1>1, DeskRequestParts DEF DeskTypes, Id
    <3>. QED
      BY <1>1, <3>1
  <2>3. DOMAIN shown' \subseteq 1..made'
    BY <1>1 DEF DeskTypes
  <2>. QED
    BY <1>1, <2>1, <2>2, <2>3 DEF DeskTypes
<1>3. OneEach'
  BY DEF DeskInv, OneEach, On
<1>4. AnswersFit'
  <2>1. ASSUME NEW x \in Slot, NEW a \in WireState, wires'[x] = a, a.state = "ok"
        PROVE  AnswerFits(x, a)'
    <3>1. wires[x] = a /\ AnswerFits(x, a)
      BY <2>1 DEF DeskInv, AnswersFit
    <3>2. a.request.op = "create" => a.goods.id # e /\ Untouched(x, a.goods.id)'
      <4>1. a.request.op = "create" => a.goods.id # e
        BY <2>1, <3>1
      <4>2. a.request.op = "create" => Untouched(x, a.goods.id)
        BY <3>1 DEF AnswerFits
      <4>. QED
        BY <4>1, <4>2 DEF Untouched, On
    <3>. QED
      BY <1>1, <2>1, <3>1, <3>2, OtherAnswersFit
  <2>. QED
    BY <2>1 DEF AnswersFit
<1>5. RowsFit'
  BY OtherRowsFit
<1>6. SpinnersFit'
  BY DEF DeskInv, SpinnersFit, On
<1>. QED
  BY <1>2, <1>3, <1>4, <1>5, <1>6 DEF DeskInv

LEMMA ServeGhostKeeps ==
    ASSUME DeskInv, NEW q \in ghosts, ServeGhost(q)
    PROVE  DeskInv'
<1>1. /\ DeskTypes /\ q \in DeskRequest /\ q.id <= made /\ q.id \in mixed
      /\ ghosts' \subseteq ghosts
      /\ UNCHANGED <<shown, desk, creating, wires, mixed, sold>>
  BY DEF ServeGhost, DeskInv, DeskTypes, OneEach
<1>2. ASSUME NEW w \in Slot, NEW a \in WireState,
             wires[w] = a, a.state = "ok", a.request.op = "create"
      PROVE  a.goods.id # q.id
  <2>1. AnswerFits(w, a)
    BY <1>2 DEF DeskInv, AnswersFit
  <2>. QED
    BY <1>2, <2>1 DEF AnswerFits, Untouched
<1>3. CASE Exists(q)
  <2>1. Carries(q)
    BY <1>3 DEF ServeGhost
  <2>2. StaysBut(q.id)
    BY <1>1, <1>3, <2>1, CarriedStays
  <2>3. /\ made' \in 0..MaxProduct /\ made <= made'
        /\ DOMAIN stock' \subseteq 1..made' /\ \A i \in DOMAIN stock' : stock'[i] \in Goods
    BY <1>1, <1>3, <2>1, Carried
  <2>. QED
    BY <1>1, <1>2, <2>2, <2>3, StockMovesKeep
<1>4. CASE ~Exists(q)
  <2>1. UNCHANGED <<stock, made>>
    BY <1>4 DEF ServeGhost
  <2>2. StaysBut(q.id)
    BY <1>1, <2>1 DEF StaysBut, SameProduct
  <2>3. /\ made' \in 0..MaxProduct /\ made <= made'
        /\ DOMAIN stock' \subseteq 1..made' /\ \A i \in DOMAIN stock' : stock'[i] \in Goods
    BY <1>1, <2>1, DeskAssumption DEF DeskTypes
  <2>. QED
    BY <1>1, <1>2, <2>2, <2>3, StockMovesKeep
<1>. QED
  BY <1>3, <1>4

LEMMA TradeKeeps ==
    ASSUME DeskInv, NEW i \in Id, Trade(i)
    PROVE  DeskInv'
<1>1. /\ DeskTypes /\ i \in DOMAIN stock /\ stock[i] \in Goods /\ sold' = sold \cup {i}
      /\ UNCHANGED <<made, shown, desk, creating, wires, ghosts, mixed>>
  BY DEF Trade, DeskInv, DeskTypes
<1>2. PICK n \in Units : stock' = [stock EXCEPT ![i].units = n]
  BY DEF Trade
<1>3. PICK g \in Goods : g = [stock[i] EXCEPT !.units = n]
  BY <1>1 DEF Goods
<1>4. /\ DOMAIN stock' = DOMAIN stock /\ stock'[i] = g
      /\ \A j \in DOMAIN stock \ {i} : stock'[j] = stock[j]
  BY <1>1, <1>2, <1>3
<1>5. ASSUME NEW j \in 1..made, NEW h \in Goods, SameProduct(h, j)
      PROVE  SameProduct(h, j)'
  <2>1. CASE j # i
    <3>1. j \in DOMAIN stock /\ stock[j] \in Goods /\ stock'[j] = stock[j]
      BY <1>1, <1>4, <1>5, <2>1 DEF SameProduct, DeskTypes
    <3>. QED
      BY <1>1, <1>4, <1>5, <3>1, SameStays
  <2>2. CASE j = i
    <3>1. h = [stock[i] EXCEPT !.units = h.units]
      BY <1>1, <1>5, <2>2 DEF SameProduct, Goods
    <3>2. h = [g EXCEPT !.units = h.units]
      BY <1>1, <1>3, <3>1 DEF Goods
    <3>. QED
      BY <1>1, <1>4, <2>2, <3>2 DEF SameProduct
  <2>. QED
    BY <2>1, <2>2
<1>6. StaysBut(0)
  BY <1>4, <1>5 DEF StaysBut
<1>7. /\ made' \in 0..MaxProduct /\ made <= made'
      /\ DOMAIN stock' \subseteq 1..made' /\ \A j \in DOMAIN stock' : stock'[j] \in Goods
  BY <1>1, <1>4, DeskAssumption DEF DeskTypes
<1>8. ASSUME NEW w \in Slot, NEW a \in WireState,
             wires[w] = a, a.state = "ok", a.request.op = "create"
      PROVE  a.goods.id # 0
  <2>1. AnswerFits(w, a)
    BY <1>8 DEF DeskInv, AnswersFit
  <2>. QED
    BY <1>1, <1>8, <2>1, DeskAssumption DEF AnswerFits, DeskTypes
<1>. QED
  BY <1>1, <1>6, <1>7, <1>8, StockMovesKeep

\* An error, or silence.
LEMMA LoseDeskKeeps ==
    ASSUME DeskInv, NEW w \in Slot, LoseDesk(w)
    PROVE  DeskInv'
<1>1. /\ DeskTypes /\ On(w) /\ wires[w].state = "sent" /\ wires \in [Slot -> WireState]
      /\ wires[w] \in WireState
      /\ wires' = [wires EXCEPT ![w].state = "failed"]
      /\ UNCHANGED <<stock, made, shown, desk, creating, sold>>
  BY DEF LoseDesk, On, DeskInv, DeskTypes
<1>2. PICK b \in WireState : /\ b = [wires[w] EXCEPT !.state = "failed"] /\ b.state = "failed"
                             /\ b.request = wires[w].request /\ b.own = wires[w].own
  BY <1>1, FailedWire
<1>3. /\ wires' \in [Slot -> WireState] /\ wires'[w] = b
      /\ \A x \in Slot \ {w} : wires'[x] = wires[x]
  BY <1>1, <1>2
<1>4. Fewer
  BY <1>1, <1>2, <1>3 DEF Fewer
<1>5. /\ mixed \subseteq mixed' /\ \A p \in ghosts' : p.id \in mixed'
      /\ \A p \in ghosts' : p \in ghosts \/ p = wires[w].request
  BY DEF LoseDesk, DeskInv, OneEach
<1>6. ASSUME NEW x \in Slot, wires'[x].state = "ok", wires[x].request.op = "create"
      PROVE  wires[x].goods.id \notin DOMAIN shown'
  <2>1. wires[x].state = "ok" /\ wires[x] \in WireState
    BY <1>1, <1>2, <1>3, <1>6
  <2>2. AnswerFits(x, wires[x])
    BY <2>1 DEF DeskInv, AnswersFit
  <2>. QED
    BY <1>1, <1>6, <2>2 DEF AnswerFits
<1>7. OneEach' /\ AnswersFit'
  BY <1>1, <1>4, <1>5, <1>6, FewerFit
<1>8. RowsFit'
  <2>1. \A x \in Slot : wires[x].state = "ok" =>
            wires'[x].state = "ok" /\ wires'[x].request = wires[x].request
    BY <1>1, <1>3
  <2>. QED
    BY <1>1, <1>5, <2>1, RowsStayFit
<1>9. DeskTypes'
  <2>1. \A x \in Slot : On(x)' => wires'[x].request.id <= made'
    BY <1>1, <1>4 DEF Fewer, DeskTypes, On
  <2>2. ghosts' \subseteq DeskRequest /\ \A p \in ghosts' : p.id <= made'
    BY <1>1, <1>5, OnWire DEF DeskTypes
  <2>. QED
    BY <1>1, <1>3, <2>1, <2>2 DEF DeskTypes
<1>10. SpinnersFit'
  <2>1. \A x \in Slot : On(x) => wires'[x].state # "free" /\ wires'[x].own = wires[x].own
                                  /\ wires'[x].request = wires[x].request
    BY <1>2, <1>3 DEF On
  <2>. QED
    BY <1>1, <2>1 DEF DeskInv, SpinnersFit, On
<1>. QED
  BY <1>7, <1>8, <1>9, <1>10 DEF DeskInv

-----------------------------------------------------------------------------
(* Requests made *)

LEMMA CallKeeps ==
    ASSUME DeskInv, NEW q \in DeskRequest, Call(q),
           q.id = 0 \/ q.id \in DOMAIN shown,
           DOMAIN desk' = DOMAIN desk, \A i \in DOMAIN desk' : desk'[i] \in Row,
           creating' \in BOOLEAN,
           \A i \in DOMAIN desk : desk'[i].busy => desk[i].busy \/ (i = q.id /\ q.op # "details"),
           creating' => creating \/ q.op = "create"
    PROVE  DeskInv'
<1>. DEFINE c == CHOOSE w \in FreeWires : TRUE
<1>1. /\ c \in Slot /\ ~On(c) /\ DeskTypes /\ wires \in [Slot -> WireState] /\ made \in Nat
      /\ wires' = [wires EXCEPT ![c] = Wire(q)]
      /\ UNCHANGED <<stock, made, shown, ghosts, sold>>
  BY DeskAssumption DEF Call, FreeWires, On, DeskInv, DeskTypes
<1>2. Wire(q) \in WireState /\ Wire(q).state = "sent" /\ Wire(q).request = q /\ Wire(q).own
  BY DEF Wire, WireState
<1>. HIDE DEF c
<1>3. /\ wires' \in [Slot -> WireState] /\ wires'[c] = Wire(q)
      /\ \A x \in Slot \ {c} : wires'[x] = wires[x]
  BY <1>1, <1>2
<1>4. \A x \in Slot : On(x)' => IF x = c THEN wires'[x].request = q /\ wires'[x].own
                                ELSE On(x) /\ wires'[x] = wires[x]
  BY <1>2, <1>3 DEF On
<1>5. \A x \in Slot : On(x) => x # c /\ wires'[x] = wires[x] /\ wires'[x].state # "free"
  BY <1>1, <1>3 DEF On
<1>6. /\ mixed \subseteq mixed'
      /\ q.id = 0 \/ q.id \in mixed' \/ \A x \in Slot : On(x) => wires[x].request.id # q.id
  BY DEF Call, Pending, On
<1>7. OneEach'
  <2>1. \A p \in ghosts' : p.id \in mixed'
    BY <1>1, <1>6 DEF DeskInv, OneEach
  <2>2. ASSUME NEW w \in Slot, NEW x \in Slot, On(w)', On(x)', (wires[w].request.id = wires[x].request.id)'
        PROVE  w = x \/ wires'[w].request.id \in mixed' \cup {0}
    <3>1. CASE w # c /\ x # c
      BY <1>4, <1>6, <2>2, <3>1 DEF DeskInv, OneEach
    <3>2. CASE w = c /\ x # c
      BY <1>4, <1>6, <2>2, <3>2
    <3>3. CASE w # c /\ x = c
      BY <1>4, <1>6, <2>2, <3>3
    <3>. QED
      BY <3>1, <3>2, <3>3
  <2>. QED
    BY <2>1, <2>2 DEF OneEach
<1>8. AnswersFit'
  <2>1. ASSUME NEW w \in Slot, NEW a \in WireState, wires'[w] = a, a.state = "ok"
        PROVE  AnswerFits(w, a)'
    <3>1. w # c /\ wires[w] = a
      BY <1>2, <1>3, <2>1
    <3>2. AnswerFits(w, a)
      BY <2>1, <3>1 DEF DeskInv, AnswersFit
    <3>3. ASSUME a.request.op = "create"
          PROVE  Untouched(w, a.goods.id)'
      <4>1. Untouched(w, a.goods.id) /\ a.goods.id \in 1..made /\ a.goods.id \notin DOMAIN shown
        BY <3>2, <3>3 DEF AnswerFits
      <4>2. q.id # a.goods.id
        BY <4>1, <1>1
      <4>3. \A x \in Slot : On(x)' => wires'[x].request.id # a.goods.id
        BY <1>4, <4>1, <4>2 DEF Untouched
      <4>4. \A x \in Slot \ {w} : wires'[x].state = "ok" /\ wires'[x].request.op = "create"
                => wires'[x].goods.id # a.goods.id
        BY <1>2, <1>3, <4>1 DEF Untouched
      <4>. QED
        BY <1>1, <4>1, <4>3, <4>4 DEF Untouched
    <3>4. \A g, i : SameProduct(g, i) => SameProduct(g, i)'
      BY <1>1 DEF SameProduct
    <3>. QED
      BY <1>1, <1>6, <3>2, <3>3, <3>4 DEF AnswerFits
  <2>. QED
    BY <2>1 DEF AnswersFit
<1>9. RowsFit'
  <2>1. \A x \in Slot : wires[x].state = "ok" =>
            wires'[x].state = "ok" /\ wires'[x].request = wires[x].request
    BY <1>5 DEF On
  <2>. QED
    BY <1>1, <1>6, <2>1, RowsStayFit
<1>10. DeskTypes'
  <2>1. q.id <= made
    BY <1>1 DEF DeskTypes
  <2>2. \A x \in Slot : On(x)' => wires'[x].request.id <= made'
    BY <1>1, <1>4, <2>1 DEF DeskTypes
  <2>. QED
    BY <1>1, <1>3, <2>2 DEF DeskTypes
<1>11. SpinnersFit'
  <2>1. q.id # 0 => q.op # "create"
    BY DeskRequestParts
  <2>2. ASSUME NEW i \in DOMAIN desk', desk'[i].busy
        PROVE  \E w \in Slot : /\ On(w)' /\ wires'[w].own /\ wires'[w].request.id = i
                               /\ wires'[w].request.op # "details"
    <3>1. CASE desk[i].busy
      <4>1. PICK w \in Slot : /\ On(w) /\ wires[w].own /\ wires[w].request.id = i
                              /\ wires[w].request.op # "details"
        BY <2>2, <3>1 DEF DeskInv, SpinnersFit
      <4>. QED
        BY <1>5, <4>1 DEF On
    <3>2. CASE i = q.id /\ q.op # "details"
      BY <1>1, <1>2, <1>3, <3>2 DEF On
    <3>. QED
      BY <2>2, <3>1, <3>2
  <2>3. ASSUME creating'
        PROVE  \E w \in Slot : On(w)' /\ wires'[w].own /\ wires'[w].request.op = "create"
    <3>1. CASE creating
      <4>1. PICK w \in Slot : On(w) /\ wires[w].own /\ wires[w].request.op = "create"
        BY <3>1 DEF DeskInv, SpinnersFit
      <4>. QED
        BY <1>5, <4>1 DEF On
    <3>2. CASE q.op = "create"
      BY <1>1, <1>2, <1>3, <3>2 DEF On
    <3>. QED
      BY <2>3, <3>1, <3>2
  <2>. QED
    BY <2>2, <2>3 DEF SpinnersFit
<1>. QED
  BY <1>7, <1>8, <1>9, <1>10, <1>11 DEF DeskInv

LEMMA RowCallsKeep ==
    ASSUME DeskInv, NEW i \in Id, NEW q \in DeskRequest, q.id = i, q.op # "details", RowCalls(i, q)
    PROVE  DeskInv'
<1>1. /\ Call(q) /\ i \in DOMAIN shown /\ DeskTypes /\ creating' = creating
      /\ desk' = [desk EXCEPT ![i].busy = TRUE] /\ DOMAIN desk = DOMAIN shown /\ desk[i] \in Row
  BY DEF RowCalls, DeskInv, DeskTypes
<1>2. [desk[i] EXCEPT !.busy = TRUE] \in Row
  BY <1>1 DEF Row
<1>3. /\ DOMAIN desk' = DOMAIN desk /\ desk'[i] \in Row
      /\ \A j \in DOMAIN desk \ {i} : desk'[j] = desk[j]
  BY <1>1, <1>2
<1>. QED
  BY <1>1, <1>3, CallKeeps DEF DeskTypes

LEMMA DeskCallsKeep ==
    ASSUME DeskInv, NEW i \in Id
    PROVE  /\ ToggleActive(i) => DeskInv'
           /\ DoDelete(i) => DeskInv'
           /\ \A n \in Units, a \in Alert : SaveInventory(i, n, a) => DeskInv'
           /\ \A l \in Label, b \in BOOLEAN : SaveDetails(i, l, b) => DeskInv'
           /\ \A g \in Goods : SubmitNew(g) => DeskInv'
<1>1. ASSUME ToggleActive(i)
      PROVE  DeskInv'
  <2>1. PICK b \in BOOLEAN : b = ~shown[i].live
    OBVIOUS
  <2>2. [op |-> "toggle", id |-> i, live |-> b] \in DeskRequest
    BY <2>1 DEF DeskRequest
  <2>3. RowCalls(i, [op |-> "toggle", id |-> i, live |-> b])
    BY <1>1, <2>1 DEF ToggleActive
  <2>. QED
    BY <2>2, <2>3, RowCallsKeep
<1>2. ASSUME DoDelete(i)
      PROVE  DeskInv'
  <2>1. [op |-> "delete", id |-> i] \in DeskRequest
    BY DEF DeskRequest
  <2>. QED
    BY <1>2, <2>1, RowCallsKeep DEF DoDelete
<1>3. ASSUME NEW n \in Units, NEW a \in Alert, SaveInventory(i, n, a)
      PROVE  DeskInv'
  <2>1. [op |-> "stock", id |-> i, units |-> n, alert |-> a] \in DeskRequest
    BY DEF DeskRequest
  <2>. QED
    BY <1>3, <2>1, RowCallsKeep DEF SaveInventory
<1>4. ASSUME NEW l \in Label, NEW b \in BOOLEAN, SaveDetails(i, l, b)
      PROVE  DeskInv'
  <2>. DEFINE q == [op |-> "details", id |-> i, label |-> l, live |-> b]
  <2>1. q \in DeskRequest
    BY DEF DeskRequest
  <2>2. /\ Call(q) /\ i \in DOMAIN shown /\ DeskTypes /\ creating' = creating
        /\ desk' = [desk EXCEPT ![i].saving = TRUE] /\ DOMAIN desk = DOMAIN shown /\ desk[i] \in Row
    BY <1>4 DEF SaveDetails, DeskInv, DeskTypes
  <2>3. /\ [desk[i] EXCEPT !.saving = TRUE] \in Row
        /\ [desk[i] EXCEPT !.saving = TRUE].busy = desk[i].busy
    BY <2>2 DEF Row
  <2>4. /\ DOMAIN desk' = DOMAIN desk /\ desk'[i] \in Row /\ desk'[i].busy = desk[i].busy
        /\ \A j \in DOMAIN desk \ {i} : desk'[j] = desk[j]
    BY <2>2, <2>3
  <2>5. q.id = i
    OBVIOUS
  <2>. HIDE DEF q
  <2>. QED
    BY <2>1, <2>2, <2>4, <2>5, CallKeeps DEF DeskTypes
<1>5. ASSUME NEW g \in Goods, SubmitNew(g)
      PROVE  DeskInv'
  <2>. DEFINE q == [op |-> "create", id |-> 0, goods |-> g]
  <2>1. q \in DeskRequest
    BY DEF DeskRequest
  <2>2. Call(q) /\ DeskTypes /\ creating' = TRUE /\ desk' = desk
    BY <1>5 DEF SubmitNew, DeskInv
  <2>3. q.id = 0 /\ q.op = "create"
    OBVIOUS
  <2>. HIDE DEF q
  <2>. QED
    BY <2>1, <2>2, <2>3, CallKeeps DEF DeskTypes
<1>. QED
  BY <1>1, <1>2, <1>3, <1>4, <1>5

-----------------------------------------------------------------------------
(* The page's own steps *)

\* The list stays, and no answer is taken.
LEMMA BrowserKeeps ==
    ASSUME DeskInv, wires' \in [Slot -> WireState], Fewer,
           UNCHANGED <<stock, made, shown, ghosts, mixed, sold>>,
           \A x \in Slot : wires[x].state = "ok" =>
               wires'[x].state = "ok" /\ wires'[x].request = wires[x].request,
           DOMAIN desk' = DOMAIN desk, \A i \in DOMAIN desk' : desk'[i] \in Row,
           creating' \in BOOLEAN, SpinnersFit'
    PROVE  DeskInv'
<1>1. OneEach' /\ AnswersFit'
  <2>1. \A p \in ghosts' : p.id \in mixed'
    BY DEF DeskInv, OneEach
  <2>2. ASSUME NEW x \in Slot, wires'[x].state = "ok", wires[x].request.op = "create"
        PROVE  wires[x].goods.id \notin DOMAIN shown'
    <3>1. wires[x].state = "ok" /\ wires[x] \in WireState
      BY <2>2 DEF Fewer, DeskInv, DeskTypes
    <3>2. AnswerFits(x, wires[x])
      BY <3>1 DEF DeskInv, AnswersFit
    <3>. QED
      BY <2>2, <3>2 DEF AnswerFits
  <2>. QED
    BY <2>1, <2>2, FewerFit
<1>2. RowsFit'
  BY RowsStayFit
<1>3. DeskTypes'
  <2>1. \A x \in Slot : On(x)' => wires'[x].request.id <= made'
    BY DEF Fewer, DeskInv, DeskTypes, On
  <2>. QED
    BY <2>1 DEF DeskInv, DeskTypes
<1>. QED
  BY <1>1, <1>2, <1>3 DEF DeskInv

LEMMA DisownKeeps ==
    ASSUME DeskTypes, NEW S \in SUBSET Slot, \A x \in S : On(x), Disown(S)
    PROVE  /\ wires' \in [Slot -> WireState] /\ Fewer
           /\ \A x \in Slot : On(x) =>
                 /\ wires'[x].state = wires[x].state /\ wires'[x].request = wires[x].request
                 /\ x \notin S => wires'[x].own = wires[x].own
<1>1. ASSUME NEW x \in S
      PROVE  /\ wires'[x] \in WireState /\ On(x)
             /\ wires'[x].state = wires[x].state /\ wires'[x].request = wires[x].request
             /\ wires[x].state = "ok" => wires'[x].goods = wires[x].goods
  <2>1. wires[x] \in WireState /\ wires[x].state # "free"
    BY DEF DeskTypes, On
  <2>2. wires'[x] = [wires[x] EXCEPT !.own = FALSE]
    BY DEF Disown
  <2>. QED
    BY <2>1, <2>2, DisownedWire DEF On
<1>2. \A x \in Slot \ S : wires'[x] = wires[x] /\ wires[x] \in WireState
  BY DEF Disown, DeskTypes
<1>3. wires' \in [Slot -> WireState]
  <2>1. \A x \in Slot : wires'[x] \in WireState
    BY <1>1, <1>2
  <2>2. wires' = [x \in Slot |-> wires'[x]]
    BY DEF Disown
  <2>. QED
    BY <2>1, <2>2
<1>4. Fewer
  BY <1>1, <1>2 DEF Fewer, On
<1>. QED
  BY <1>1, <1>2, <1>3, <1>4

LEMMA FormsKeep ==
    ASSUME DeskInv, NEW i \in Id
    PROVE  (OpenEdit(i) => DeskInv') /\ (CloseEdit(i) => DeskInv')
           /\ (Refilter(i) => DeskInv') /\ (CloseNew => DeskInv')
<1>0. /\ DeskTypes /\ DOMAIN desk = DOMAIN shown /\ \A j \in DOMAIN desk : desk[j] \in Row
      /\ wires \in [Slot -> WireState] /\ creating \in BOOLEAN
      /\ \A j \in DOMAIN desk : j # 0
  BY DeskAssumption DEF DeskInv, DeskTypes
<1>1. ASSUME OpenEdit(i)
      PROVE  DeskInv'
  <2>1. /\ UNCHANGED <<stock, made, shown, creating, wires, ghosts, mixed, sold>>
        /\ desk' = [desk EXCEPT ![i].editing = TRUE] /\ i \in DOMAIN desk
    BY <1>0, <1>1 DEF OpenEdit
  <2>2. PICK r \in Row : r = [desk[i] EXCEPT !.editing = TRUE] /\ r.busy = desk[i].busy
    <3>1. PICK s \in Row : s = desk[i]
      BY <1>0, <2>1
    <3>2. [s EXCEPT !.editing = TRUE] \in Row /\ [s EXCEPT !.editing = TRUE].busy = s.busy
      BY DEF Row
    <3>. QED
      BY <3>1, <3>2
  <2>3. /\ DOMAIN desk' = DOMAIN desk /\ desk'[i] = r
        /\ \A j \in DOMAIN desk \ {i} : desk'[j] = desk[j]
    BY <2>1, <2>2
  <2>4. \A j \in DOMAIN desk' : desk'[j] \in Row /\ desk'[j].busy = desk[j].busy
    BY <1>0, <2>2, <2>3
  <2>5. SpinnersFit'
    BY <2>1, <2>3, <2>4 DEF DeskInv, SpinnersFit, On
  <2>6. Fewer
    BY <2>1 DEF Fewer
  <2>. QED
    BY <1>0, <2>1, <2>3, <2>4, <2>5, <2>6, BrowserKeeps
<1>2. ASSUME CloseEdit(i)
      PROVE  DeskInv'
  <2>. DEFINE S == {w \in Pending(i) : wires[w].request.op = "details"}
  <2>1. /\ UNCHANGED <<stock, made, shown, creating, ghosts, mixed, sold>> /\ Disown(S)
        /\ desk' = [desk EXCEPT ![i].editing = FALSE, ![i].saving = FALSE] /\ i \in DOMAIN desk
    BY <1>0, <1>2 DEF CloseEdit
  <2>2. S \in SUBSET Slot /\ \A x \in S : On(x) /\ wires[x].request.op = "details"
    BY DEF Pending, On
  <2>. HIDE DEF S
  <2>3. /\ wires' \in [Slot -> WireState] /\ Fewer
        /\ \A x \in Slot : On(x) =>
              /\ wires'[x].state = wires[x].state /\ wires'[x].request = wires[x].request
              /\ x \notin S => wires'[x].own = wires[x].own
    BY <1>0, <2>1, <2>2, DisownKeeps
  <2>4. PICK r \in Row : r = [desk[i] EXCEPT !.editing = FALSE, !.saving = FALSE] /\ r.busy = desk[i].busy
    <3>1. PICK s \in Row : s = desk[i]
      BY <1>0, <2>1
    <3>2. /\ [s EXCEPT !.editing = FALSE, !.saving = FALSE] \in Row
          /\ [s EXCEPT !.editing = FALSE, !.saving = FALSE].busy = s.busy
      BY DEF Row
    <3>. QED
      BY <3>1, <3>2
  <2>5. desk' = [desk EXCEPT ![i] = r]
    BY <2>1, <2>4
  <2>6. \A j \in DOMAIN desk' : desk'[j] \in Row /\ desk'[j].busy = desk[j].busy
    BY <1>0, <2>1, <2>4, <2>5
  <2>7. SpinnersFit'
    BY <2>1, <2>2, <2>3, <2>5, <2>6 DEF DeskInv, SpinnersFit, On
  <2>8. \A x \in Slot : wires[x].state = "ok" =>
            wires'[x].state = "ok" /\ wires'[x].request = wires[x].request
    BY <2>3 DEF On
  <2>. QED
    BY <1>0, <2>1, <2>3, <2>5, <2>6, <2>7, <2>8, BrowserKeeps
<1>3. ASSUME Refilter(i)
      PROVE  DeskInv'
  <2>1. /\ UNCHANGED <<stock, made, shown, creating, ghosts, mixed, sold>> /\ Disown(Pending(i))
        /\ desk' = [desk EXCEPT ![i] = FreshRow] /\ i \in DOMAIN desk
    BY <1>0, <1>3 DEF Refilter
  <2>2. Pending(i) \in SUBSET Slot /\ \A x \in Pending(i) : On(x) /\ wires[x].request.id = i
    BY DEF Pending, On
  <2>3. /\ wires' \in [Slot -> WireState] /\ Fewer
        /\ \A x \in Slot : On(x) =>
              /\ wires'[x].state = wires[x].state /\ wires'[x].request = wires[x].request
              /\ x \notin Pending(i) => wires'[x].own = wires[x].own
    BY <1>0, <2>1, <2>2, DisownKeeps
  <2>4. FreshRow \in Row /\ ~FreshRow.busy
    BY DEF FreshRow, Row
  <2>5. \A j \in DOMAIN desk' : desk'[j] \in Row /\ (desk'[j].busy => j # i /\ desk[j].busy)
    BY <1>0, <2>1, <2>4
  <2>6. SpinnersFit'
    <3>1. ASSUME NEW j \in DOMAIN desk', desk'[j].busy
          PROVE  \E w \in Slot : /\ On(w)' /\ wires'[w].own /\ wires'[w].request.id = j
                                 /\ wires'[w].request.op # "details"
      <4>1. PICK w \in Slot : /\ On(w) /\ wires[w].own /\ wires[w].request.id = j
                              /\ wires[w].request.op # "details"
        BY <2>1, <2>5, <3>1 DEF DeskInv, SpinnersFit
      <4>. QED
        BY <2>2, <2>3, <2>5, <3>1, <4>1 DEF On
    <3>2. ASSUME creating'
          PROVE  \E w \in Slot : On(w)' /\ wires'[w].own /\ wires'[w].request.op = "create"
      <4>1. PICK w \in Slot : On(w) /\ wires[w].own /\ wires[w].request.op = "create"
        BY <2>1, <3>2 DEF DeskInv, SpinnersFit
      <4>2. w \notin Pending(i)
        BY <1>0, <2>1, <2>2, <4>1, OnWire
      <4>. QED
        BY <2>3, <4>1, <4>2 DEF On
    <3>. QED
      BY <3>1, <3>2 DEF SpinnersFit
  <2>7. \A x \in Slot : wires[x].state = "ok" =>
            wires'[x].state = "ok" /\ wires'[x].request = wires[x].request
    BY <2>3 DEF On
  <2>. QED
    BY <1>0, <2>1, <2>3, <2>5, <2>6, <2>7, BrowserKeeps
<1>4. ASSUME CloseNew
      PROVE  DeskInv'
  <2>. DEFINE S == {w \in Slot : wires[w].state # "free" /\ wires[w].request.op = "create"}
  <2>1. /\ UNCHANGED <<stock, made, shown, desk, ghosts, mixed, sold>> /\ Disown(S)
        /\ creating' = FALSE
    BY <1>4 DEF CloseNew
  <2>2. S \in SUBSET Slot /\ \A x \in S : On(x) /\ wires[x].request.op = "create"
    BY DEF On
  <2>. HIDE DEF S
  <2>3. /\ wires' \in [Slot -> WireState] /\ Fewer
        /\ \A x \in Slot : On(x) =>
              /\ wires'[x].state = wires[x].state /\ wires'[x].request = wires[x].request
              /\ x \notin S => wires'[x].own = wires[x].own
    BY <1>0, <2>1, <2>2, DisownKeeps
  <2>4. SpinnersFit'
    <3>1. ASSUME NEW j \in DOMAIN desk', desk'[j].busy
          PROVE  \E w \in Slot : /\ On(w)' /\ wires'[w].own /\ wires'[w].request.id = j
                                 /\ wires'[w].request.op # "details"
      <4>1. PICK w \in Slot : /\ On(w) /\ wires[w].own /\ wires[w].request.id = j
                              /\ wires[w].request.op # "details"
        BY <2>1, <3>1 DEF DeskInv, SpinnersFit
      <4>2. w \notin S
        BY <1>0, <2>1, <2>2, <3>1, <4>1, OnWire
      <4>. QED
        BY <2>3, <4>1, <4>2 DEF On
    <3>. QED
      BY <2>1, <3>1 DEF SpinnersFit
  <2>5. \A x \in Slot : wires[x].state = "ok" =>
            wires'[x].state = "ok" /\ wires'[x].request = wires[x].request
    BY <2>3 DEF On
  <2>. QED
    BY <1>0, <2>1, <2>3, <2>4, <2>5, BrowserKeeps
<1>. QED
  BY <1>1, <1>2, <1>3, <1>4

\* The row's own component, once slot w's request is over.
LEMMA ReleasedRow ==
    ASSUME DeskTypes, NEW w \in Slot, On(w), wires[w].request.id \in DOMAIN desk
    PROVE  \E r \in Row : /\ r = Released(w)
                          /\ r.busy => /\ desk[wires[w].request.id].busy
                                       /\ ~wires[w].own \/ wires[w].request.op = "details"
<1>1. PICK s \in Row : s = desk[wires[w].request.id]
  BY DEF DeskTypes
<1>2. /\ [s EXCEPT !.saving = FALSE] \in Row /\ [s EXCEPT !.saving = FALSE].busy = s.busy
      /\ [s EXCEPT !.busy = FALSE] \in Row /\ [s EXCEPT !.busy = FALSE].busy = FALSE
  BY DEF Row
<1>. QED
  BY <1>1, <1>2 DEF Released

LEMMA TakeErrorKeeps ==
    ASSUME DeskInv, NEW w \in Slot, TakeError(w)
    PROVE  DeskInv'
<1>1. /\ DeskTypes /\ On(w) /\ wires[w].state = "failed" /\ wires \in [Slot -> WireState]
      /\ wires' = [wires EXCEPT ![w] = NoWire] /\ DOMAIN desk = DOMAIN shown
      /\ creating \in BOOLEAN
      /\ UNCHANGED <<stock, made, shown, ghosts, mixed, sold>>
  BY DEF TakeError, On, DeskInv, DeskTypes
<1>. PICK q \in DeskRequest : q = wires[w].request
  BY <1>1, OnWire
<1>2. /\ wires' \in [Slot -> WireState] /\ wires'[w].state = "free"
      /\ \A x \in Slot \ {w} : wires'[x] = wires[x]
  BY <1>1 DEF NoWire, WireState
<1>3. Fewer
  BY <1>2 DEF Fewer
<1>4. /\ DOMAIN desk' = DOMAIN desk
      /\ \A j \in DOMAIN desk' :
            /\ desk'[j] \in Row
            /\ desk'[j].busy => /\ desk[j].busy
                                /\ j = q.id => ~wires[w].own \/ q.op = "details"
  <2>1. CASE q.id \in DOMAIN desk
    <3>1. PICK r \in Row : /\ r = Released(w)
                           /\ r.busy => desk[q.id].busy /\ (~wires[w].own \/ q.op = "details")
      BY <1>1, <2>1, ReleasedRow
    <3>2. desk' = [desk EXCEPT ![q.id] = r]
      BY <2>1, <3>1 DEF TakeError
    <3>. QED
      BY <1>1, <2>1, <3>1, <3>2 DEF DeskTypes
  <2>2. CASE q.id \notin DOMAIN desk
    <3>1. desk' = desk
      BY <2>2 DEF TakeError
    <3>. QED
      BY <1>1, <2>2, <3>1 DEF DeskTypes
  <2>. QED
    BY <2>1, <2>2
<1>5. creating' \in BOOLEAN /\ (creating' => creating /\ ~(q.op = "create" /\ wires[w].own))
  BY <1>1 DEF TakeError
<1>6. SpinnersFit'
  <2>1. ASSUME NEW j \in DOMAIN desk', desk'[j].busy
        PROVE  \E x \in Slot : /\ On(x)' /\ wires'[x].own /\ wires'[x].request.id = j
                               /\ wires'[x].request.op # "details"
    <3>1. PICK x \in Slot : /\ On(x) /\ wires[x].own /\ wires[x].request.id = j
                            /\ wires[x].request.op # "details"
      BY <1>4, <2>1 DEF DeskInv, SpinnersFit
    <3>2. x # w
      BY <1>4, <2>1, <3>1
    <3>. QED
      BY <1>2, <3>1, <3>2 DEF On
  <2>2. ASSUME creating'
        PROVE  \E x \in Slot : On(x)' /\ wires'[x].own /\ wires'[x].request.op = "create"
    <3>1. PICK x \in Slot : On(x) /\ wires[x].own /\ wires[x].request.op = "create"
      BY <1>5, <2>2 DEF DeskInv, SpinnersFit
    <3>2. x # w
      BY <1>5, <2>2, <3>1
    <3>. QED
      BY <1>2, <3>1, <3>2 DEF On
  <2>. QED
    BY <2>1, <2>2 DEF SpinnersFit
<1>7. \A x \in Slot : wires[x].state = "ok" =>
          wires'[x].state = "ok" /\ wires'[x].request = wires[x].request
  BY <1>1, <1>2
<1>. QED
  BY <1>1, <1>2, <1>3, <1>4, <1>5, <1>6, <1>7, BrowserKeeps

-----------------------------------------------------------------------------
(* Answers taken *)

LEMMA TakesWire ==
    ASSUME DeskTypes, NEW w \in Slot, On(w), Takes(w)
    PROVE  /\ wires' \in [Slot -> WireState] /\ Fewer /\ wires'[w].state = "free"
           /\ \A x \in Slot \ {w} : On(x) =>
                 /\ wires'[x].state = wires[x].state /\ wires'[x].request = wires[x].request
                 /\ wires[x].request.op # wires[w].request.op
                    \/ wires[w].request.op \notin {"create", "details"} => wires'[x].own = wires[x].own
<1>. DEFINE closed == {x \in Slot \ {w} :
                         /\ wires[w].request.op \in {"create", "details"} /\ wires[x].state # "free"
                         /\ wires[x].request.op = wires[w].request.op
                         /\ wires[x].request.id = wires[w].request.id}
<1>1. wires' = [x \in Slot |-> IF x = w THEN NoWire
                               ELSE IF x \in closed THEN [wires[x] EXCEPT !.own = FALSE]
                               ELSE wires[x]]
  BY DEF Takes
<1>2. /\ closed \subseteq Slot \ {w}
      /\ \A x \in closed : On(x)
      /\ \A x \in closed : /\ wires[x].request.op = wires[w].request.op
                           /\ wires[w].request.op \in {"create", "details"}
  BY DEF On
<1>. HIDE DEF closed
<1>3. ASSUME NEW x \in closed
      PROVE  /\ wires'[x] \in WireState /\ On(x)
             /\ wires'[x].state = wires[x].state /\ wires'[x].request = wires[x].request
             /\ wires[x].state = "ok" => wires'[x].goods = wires[x].goods
  <2>1. wires[x] \in WireState /\ wires[x].state # "free"
    BY <1>2 DEF DeskTypes, On
  <2>2. wires'[x] = [wires[x] EXCEPT !.own = FALSE]
    BY <1>1, <1>2
  <2>. QED
    BY <2>1, <2>2, DisownedWire DEF On
<1>4. \A x \in Slot \ {w} : x \notin closed => wires'[x] = wires[x] /\ wires[x] \in WireState
  BY <1>1 DEF DeskTypes
<1>5. wires'[w] = NoWire /\ wires'[w].state = "free" /\ NoWire \in WireState
  BY <1>1 DEF NoWire, WireState
<1>6. wires' \in [Slot -> WireState]
  <2>1. \A x \in Slot : wires'[x] \in WireState
    BY <1>3, <1>4, <1>5
  <2>2. wires' = [x \in Slot |-> wires'[x]]
    BY <1>1
  <2>. QED
    BY <2>1, <2>2
<1>7. Fewer
  BY <1>3, <1>4, <1>5 DEF Fewer, On
<1>. QED
  BY <1>2, <1>3, <1>4, <1>5, <1>6, <1>7

LEMMA TakeChangeKeeps ==
    ASSUME DeskInv, NEW w \in Slot, TakeChange(w)
    PROVE  DeskInv'
<1>1. /\ DeskTypes /\ On(w) /\ wires[w].state = "ok" /\ Takes(w) /\ wires[w] \in WireState
      /\ DOMAIN desk = DOMAIN shown /\ creating \in BOOLEAN /\ made \in Nat
      /\ UNCHANGED <<stock, made, creating, ghosts, mixed, sold>>
  BY DeskAssumption DEF TakeChange, On, DeskInv, DeskTypes
<1>. PICK q \in DeskRequest : q = wires[w].request
  BY <1>1, OnWire
<1>. PICK g \in Goods : g = wires[w].goods.now
  BY <1>1, WireParts DEF TakeChange
<1>2. /\ q.op \in {"toggle", "details", "stock"} /\ q.id # 0
      /\ q.id \in mixed \/ SameProduct(g, q.id)
  <2>1. q.op \in {"toggle", "details", "stock"} /\ q.id # 0
    BY <1>1, OnWire DEF TakeChange
  <2>2. AnswerFits(w, wires[w])
    BY <1>1 DEF DeskInv, AnswersFit
  <2>. QED
    BY <2>1, <2>2 DEF AnswerFits
<1>3. /\ wires' \in [Slot -> WireState] /\ Fewer /\ wires'[w].state = "free"
      /\ \A x \in Slot \ {w} : On(x) =>
            /\ wires'[x].state = wires[x].state /\ wires'[x].request = wires[x].request
            /\ wires[x].request.op # q.op \/ q.op \notin {"create", "details"}
                  => wires'[x].own = wires[x].own
  BY <1>1, TakesWire
<1>4. /\ DOMAIN shown' = DOMAIN shown /\ \A j \in DOMAIN shown : shown'[j] = IF j = q.id THEN g ELSE shown[j]
      /\ DOMAIN desk' = DOMAIN desk
      /\ \A j \in DOMAIN desk' :
            /\ desk'[j] \in Row
            /\ desk'[j].busy => /\ desk[j].busy
                                /\ j = q.id => ~wires[w].own \/ q.op = "details"
  <2>1. CASE q.id \in DOMAIN shown
    <3>1. shown' = [shown EXCEPT ![q.id] = g] /\ desk' = [desk EXCEPT ![q.id] = ClosesForm(w, Released(w))]
      BY <2>1 DEF TakeChange
    <3>2. PICK r \in Row : /\ r = Released(w)
                           /\ r.busy => desk[q.id].busy /\ (~wires[w].own \/ q.op = "details")
      BY <1>1, <2>1, ReleasedRow
    <3>3. /\ [r EXCEPT !.editing = FALSE, !.saving = FALSE] \in Row
          /\ [r EXCEPT !.editing = FALSE, !.saving = FALSE].busy = r.busy
      BY DEF Row
    <3>4. PICK s \in Row : s = ClosesForm(w, Released(w)) /\ s.busy = r.busy
      BY <3>2, <3>3 DEF ClosesForm
    <3>5. desk' = [desk EXCEPT ![q.id] = s]
      BY <3>1, <3>4
    <3>6. DOMAIN desk' = DOMAIN desk /\ desk'[q.id] = s /\ \A j \in DOMAIN desk \ {q.id} : desk'[j] = desk[j]
      BY <1>1, <2>1, <3>5
    <3>7. DOMAIN shown' = DOMAIN shown /\ \A j \in DOMAIN shown : shown'[j] = IF j = q.id THEN g ELSE shown[j]
      BY <3>1
    <3>. QED
      BY <1>1, <3>2, <3>4, <3>6, <3>7 DEF DeskTypes
  <2>2. CASE q.id \notin DOMAIN shown
    <3>1. desk' = desk /\ shown' = shown
      BY <2>2 DEF TakeChange
    <3>. QED
      BY <1>1, <2>2, <3>1 DEF DeskTypes
  <2>. QED
    BY <2>1, <2>2
<1>5. OneEach' /\ AnswersFit'
  <2>1. \A p \in ghosts' : p.id \in mixed'
    BY <1>1 DEF DeskInv, OneEach
  <2>2. ASSUME NEW x \in Slot, wires'[x].state = "ok", wires[x].request.op = "create"
        PROVE  wires[x].goods.id \notin DOMAIN shown'
    <3>1. wires[x].state = "ok" /\ wires[x] \in WireState
      BY <1>1, <1>3, <2>2 DEF Fewer, DeskTypes
    <3>2. AnswerFits(x, wires[x])
      BY <3>1 DEF DeskInv, AnswersFit
    <3>. QED
      BY <1>4, <2>2, <3>2 DEF AnswerFits
  <2>. QED
    BY <1>1, <1>3, <2>1, <2>2, FewerFit
<1>6. RowsFit'
  <2>1. ASSUME NEW j \in DOMAIN shown', NEW h \in Goods, shown'[j] = h, j \notin mixed',
               \A x \in Slot : wires'[x].state = "ok" => wires'[x].request.id # j
        PROVE  SameProduct(h, j)'
    <3>1. CASE j = q.id
      <4>1. SameProduct(h, j)
        BY <1>1, <1>2, <1>4, <2>1, <3>1
      <4>. QED
        BY <1>1, <4>1 DEF SameProduct
    <3>2. CASE j # q.id
      <4>1. \A x \in Slot : wires[x].state = "ok" => wires[x].request.id # j
        BY <1>1, <1>3, <2>1, <3>2 DEF On
      <4>2. RowFits(j, h)
        BY <1>4, <2>1, <3>2 DEF DeskInv, RowsFit
      <4>3. SameProduct(h, j)
        BY <1>1, <2>1, <4>1, <4>2 DEF RowFits
      <4>. QED
        BY <1>1, <4>3 DEF SameProduct
    <3>. QED
      BY <3>1, <3>2
  <2>. QED
    BY <2>1 DEF RowsFit, RowFits
<1>7. DeskTypes'
  <2>1. \A x \in Slot : On(x)' => wires'[x].request.id <= made'
    BY <1>1, <1>3 DEF Fewer, DeskTypes, On
  <2>2. \A j \in DOMAIN shown' : shown'[j] \in Goods
    BY <1>1, <1>4 DEF DeskTypes
  <2>. QED
    BY <1>1, <1>3, <1>4, <2>1, <2>2 DEF DeskTypes
<1>8. SpinnersFit'
  <2>1. ASSUME NEW j \in DOMAIN desk', desk'[j].busy
        PROVE  \E x \in Slot : /\ On(x)' /\ wires'[x].own /\ wires'[x].request.id = j
                               /\ wires'[x].request.op # "details"
    <3>1. PICK x \in Slot : /\ On(x) /\ wires[x].own /\ wires[x].request.id = j
                            /\ wires[x].request.op # "details"
      BY <1>4, <2>1 DEF DeskInv, SpinnersFit
    <3>2. x # w
      BY <1>4, <2>1, <3>1
    <3>3. wires[x].request.op # q.op \/ q.op \notin {"create", "details"}
      BY <1>2, <3>1
    <3>. QED
      BY <1>3, <3>1, <3>2, <3>3 DEF On
  <2>2. ASSUME creating'
        PROVE  \E x \in Slot : On(x)' /\ wires'[x].own /\ wires'[x].request.op = "create"
    <3>1. PICK x \in Slot : On(x) /\ wires[x].own /\ wires[x].request.op = "create"
      BY <1>1, <2>2 DEF DeskInv, SpinnersFit
    <3>2. x # w /\ wires[x].request.op # q.op
      BY <1>2, <3>1
    <3>. QED
      BY <1>3, <3>1, <3>2 DEF On
  <2>. QED
    BY <2>1, <2>2 DEF SpinnersFit
<1>. QED
  BY <1>5, <1>6, <1>7, <1>8 DEF DeskInv

LEMMA TakeMembershipKeeps ==
    ASSUME DeskInv, NEW w \in Slot, TakeMembership(w)
    PROVE  DeskInv'
<1>1. /\ DeskTypes /\ On(w) /\ wires[w].state = "ok" /\ Takes(w) /\ wires[w] \in WireState
      /\ DOMAIN desk = DOMAIN shown /\ creating \in BOOLEAN /\ made \in Nat
      /\ DOMAIN shown \subseteq 1..made
      /\ UNCHANGED <<stock, made, ghosts, mixed, sold>>
  BY DeskAssumption DEF TakeMembership, On, DeskInv, DeskTypes
<1>. PICK q \in DeskRequest : q = wires[w].request
  BY <1>1, OnWire
<1>2. /\ wires' \in [Slot -> WireState] /\ Fewer /\ wires'[w].state = "free"
      /\ \A x \in Slot \ {w} : On(x) =>
            /\ wires'[x].state = wires[x].state /\ wires'[x].request = wires[x].request
            /\ wires[x].request.op # q.op \/ q.op \notin {"create", "details"}
                  => wires'[x].own = wires[x].own
  BY <1>1, TakesWire
<1>3. AnswerFits(w, wires[w])
  BY <1>1 DEF DeskInv, AnswersFit
<1>4. /\ \A p \in ghosts' : p.id \in mixed'
      /\ \A x \in Slot : On(x)' => wires'[x].request.id <= made'
  BY <1>1, <1>2 DEF DeskInv, OneEach, Fewer, DeskTypes, On
<1>5. ASSUME NEW x \in Slot, wires'[x].state = "ok"
      PROVE  x # w /\ wires[x].state = "ok" /\ wires[x] \in WireState /\ AnswerFits(x, wires[x])
  <2>1. x # w /\ wires[x].state = "ok" /\ wires[x] \in WireState
    BY <1>1, <1>2, <1>5 DEF Fewer, DeskTypes
  <2>. QED
    BY <2>1 DEF DeskInv, AnswersFit
<1>6. CASE q.op = "delete"
  <2>1. shown' = Less(shown, q.id) /\ desk' = Less(desk, q.id) /\ creating' = creating /\ q.id # 0
    BY <1>1, <1>6, OnWire DEF TakeMembership
  <2>2. /\ DOMAIN shown' = DOMAIN shown \ {q.id} /\ DOMAIN desk' = DOMAIN desk \ {q.id}
        /\ \A j \in DOMAIN shown' : shown'[j] = shown[j]
        /\ \A j \in DOMAIN desk' : desk'[j] = desk[j]
    BY <2>1 DEF Less
  <2>3. OneEach' /\ AnswersFit'
    <3>1. \A x \in Slot : wires'[x].state = "ok" /\ wires[x].request.op = "create"
              => wires[x].goods.id \notin DOMAIN shown'
      BY <1>5, <2>2 DEF AnswerFits
    <3>. QED
      BY <1>1, <1>2, <1>4, <3>1, FewerFit
  <2>4. RowsFit'
    <3>1. ASSUME NEW j \in DOMAIN shown', NEW h \in Goods, shown'[j] = h, j \notin mixed',
                 \A x \in Slot : wires'[x].state = "ok" => wires'[x].request.id # j
          PROVE  SameProduct(h, j)'
      <4>1. \A x \in Slot : wires[x].state = "ok" => wires[x].request.id # j
        BY <1>1, <1>2, <2>2, <3>1 DEF On
      <4>2. RowFits(j, h)
        BY <2>2, <3>1 DEF DeskInv, RowsFit
      <4>3. SameProduct(h, j)
        BY <1>1, <3>1, <4>1, <4>2 DEF RowFits
      <4>. QED
        BY <1>1, <4>3 DEF SameProduct
    <3>. QED
      BY <3>1 DEF RowsFit, RowFits
  <2>5. DeskTypes'
    BY <1>1, <1>2, <1>4, <2>1, <2>2 DEF DeskTypes
  <2>6. SpinnersFit'
    <3>1. ASSUME NEW j \in DOMAIN desk', desk'[j].busy
          PROVE  \E x \in Slot : /\ On(x)' /\ wires'[x].own /\ wires'[x].request.id = j
                                 /\ wires'[x].request.op # "details"
      <4>1. PICK x \in Slot : /\ On(x) /\ wires[x].own /\ wires[x].request.id = j
                              /\ wires[x].request.op # "details"
        BY <2>2, <3>1 DEF DeskInv, SpinnersFit
      <4>. QED
        BY <1>2, <1>6, <2>2, <3>1, <4>1 DEF On
    <3>2. ASSUME creating'
          PROVE  \E x \in Slot : On(x)' /\ wires'[x].own /\ wires'[x].request.op = "create"
      <4>1. PICK x \in Slot : On(x) /\ wires[x].own /\ wires[x].request.op = "create"
        BY <2>1, <3>2 DEF DeskInv, SpinnersFit
      <4>. QED
        BY <1>2, <1>6, <4>1 DEF On
    <3>. QED
      BY <3>1, <3>2 DEF SpinnersFit
  <2>. QED
    BY <2>3, <2>4, <2>5, <2>6 DEF DeskInv
<1>7. CASE q.op = "create"
  <2>. DEFINE new == wires[w].goods
  <2>1. /\ shown' = With(shown, new.id, new.now) /\ desk' = With(desk, new.id, FreshRow)
        /\ creating' = FALSE
    BY <1>7 DEF TakeMembership
  <2>2. /\ new.now \in Goods /\ new.id \in 1..made /\ SameProduct(new.now, new.id) /\ Untouched(w, new.id)
        /\ FreshRow \in Row /\ ~FreshRow.busy
    BY <1>1, <1>3, <1>7, WireParts DEF AnswerFits, FreshRow, Row
  <2>. HIDE DEF new
  <2>3. /\ DOMAIN shown' = DOMAIN shown \cup {new.id} /\ DOMAIN desk' = DOMAIN desk \cup {new.id}
        /\ shown'[new.id] = new.now /\ desk'[new.id] = FreshRow
        /\ \A j \in DOMAIN shown \ {new.id} : shown'[j] = shown[j]
        /\ \A j \in DOMAIN desk \ {new.id} : desk'[j] = desk[j]
    BY <2>1 DEF With
  <2>4. OneEach' /\ AnswersFit'
    <3>1. ASSUME NEW x \in Slot, wires'[x].state = "ok", wires[x].request.op = "create"
          PROVE  wires[x].goods.id \notin DOMAIN shown'
      <4>1. wires[x].goods.id \notin DOMAIN shown
        BY <1>5, <3>1 DEF AnswerFits
      <4>2. wires[x].goods.id # new.id
        BY <1>5, <2>2, <3>1 DEF Untouched
      <4>. QED
        BY <2>3, <4>1, <4>2
    <3>. QED
      BY <1>1, <1>2, <1>4, <3>1, FewerFit
  <2>5. RowsFit'
    <3>1. ASSUME NEW j \in DOMAIN shown', NEW h \in Goods, shown'[j] = h, j \notin mixed',
                 \A x \in Slot : wires'[x].state = "ok" => wires'[x].request.id # j
          PROVE  SameProduct(h, j)'
      <4>1. CASE j = new.id
        <5>1. h = new.now
          BY <2>3, <3>1, <4>1
        <5>. QED
          BY <1>1, <2>2, <4>1, <5>1 DEF SameProduct
      <4>2. CASE j # new.id
        <5>1. wires[w].request.id # j
          BY <1>1, <1>7, <2>3, <3>1, <4>2, OnWire
        <5>2. \A x \in Slot : wires[x].state = "ok" => wires[x].request.id # j
          BY <1>1, <1>2, <3>1, <5>1 DEF On
        <5>3. RowFits(j, h) /\ j \in DOMAIN shown
          BY <2>3, <3>1, <4>2 DEF DeskInv, RowsFit
        <5>4. SameProduct(h, j)
          BY <1>1, <3>1, <5>2, <5>3 DEF RowFits
        <5>. QED
          BY <1>1, <5>4 DEF SameProduct
      <4>. QED
        BY <4>1, <4>2
    <3>. QED
      BY <3>1 DEF RowsFit, RowFits
  <2>6. DeskTypes'
    <3>1. DOMAIN shown' \subseteq 1..made' /\ DOMAIN desk' = DOMAIN shown' /\ creating' \in BOOLEAN
      BY <1>1, <2>1, <2>2, <2>3
    <3>2. \A j \in DOMAIN shown' : shown'[j] \in Goods
      BY <1>1, <2>2, <2>3 DEF DeskTypes
    <3>3. \A j \in DOMAIN desk' : desk'[j] \in Row
      BY <1>1, <2>2, <2>3 DEF DeskTypes
    <3>. QED
      BY <1>1, <1>2, <1>4, <3>1, <3>2, <3>3 DEF DeskTypes
  <2>7. SpinnersFit'
    <3>1. ASSUME NEW j \in DOMAIN desk', desk'[j].busy
          PROVE  \E x \in Slot : /\ On(x)' /\ wires'[x].own /\ wires'[x].request.id = j
                                 /\ wires'[x].request.op # "details"
      <4>1. j # new.id /\ j \in DOMAIN desk /\ desk[j].busy
        BY <2>2, <2>3, <3>1
      <4>2. PICK x \in Slot : /\ On(x) /\ wires[x].own /\ wires[x].request.id = j
                              /\ wires[x].request.op # "details"
        BY <4>1 DEF DeskInv, SpinnersFit
      <4>3. wires[x].request.op # "create"
        BY <1>1, <4>1, <4>2, OnWire
      <4>. QED
        BY <1>2, <1>7, <4>2, <4>3 DEF On
    <3>. QED
      BY <2>1, <3>1 DEF SpinnersFit
  <2>. QED
    BY <2>4, <2>5, <2>6, <2>7 DEF DeskInv
<1>. QED
  BY <1>6, <1>7 DEF TakeMembership

-----------------------------------------------------------------------------
(* The products page *)

LEMMA DeskStarts == DeskInit => DeskInv
<1>. SUFFICES ASSUME DeskInit PROVE DeskInv
  OBVIOUS
<1>1. PICK g \in Goods : stock = <<g>>
  BY DEF DeskInit
<1>2. /\ DOMAIN stock = {1} /\ stock[1] = g /\ made = 1 /\ 1..made = {1} /\ made \in 0..MaxProduct
      /\ shown = stock /\ DOMAIN desk = {1} /\ \A i \in DOMAIN desk : desk[i] = FreshRow
      /\ creating = FALSE /\ ghosts = {} /\ mixed = {}
      /\ wires \in [Slot -> {NoWire}] /\ \A w \in Slot : wires[w] = NoWire /\ wires[w].state = "free"
  BY <1>1, DeskAssumption DEF DeskInit, NoWire
<1>3. FreshRow \in Row /\ ~FreshRow.busy /\ NoWire \in WireState
  BY DEF FreshRow, Row, WireState
<1>4. DeskTypes
  BY <1>2, <1>3 DEF DeskTypes, On
<1>5. OneEach /\ AnswersFit
  BY <1>2 DEF OneEach, On, AnswersFit
<1>6. RowsFit
  BY <1>2, AsServed DEF RowsFit, RowFits
<1>7. SpinnersFit
  BY <1>2, <1>3 DEF SpinnersFit
<1>. QED
  BY <1>4, <1>5, <1>6, <1>7 DEF DeskInv

LEMMA DeskKept == DeskInv /\ [DeskNext]_deskVars => DeskInv'
<1>. SUFFICES ASSUME DeskInv, [DeskNext]_deskVars PROVE DeskInv'
  OBVIOUS
<1>1. ASSUME NEW w \in Slot, ServeDesk(w) \/ LoseDesk(w) \/ TakeChange(w) \/ TakeMembership(w) \/ TakeError(w)
      PROVE  DeskInv'
  BY ONLY <1>1, DeskInv, ServeDeskKeeps, LoseDeskKeeps, TakeChangeKeeps, TakeMembershipKeeps, TakeErrorKeeps
<1>2. ASSUME NEW i \in Id, Trade(i) \/ Refilter(i) \/ OpenEdit(i) \/ CloseEdit(i)
      PROVE  DeskInv'
  BY ONLY <1>2, DeskInv, TradeKeeps, FormsKeep
<1>3. ASSUME NEW i \in Id,
             \/ ToggleActive(i) \/ DoDelete(i)
             \/ \E n \in Units, a \in Alert : SaveInventory(i, n, a)
             \/ \E l \in Label, b \in BOOLEAN : SaveDetails(i, l, b)
      PROVE  DeskInv'
  BY ONLY <1>3, DeskInv, DeskCallsKeep
<1>4. 1 \in Id
  BY DeskAssumption DEF Id
<1>5. ASSUME CloseNew PROVE DeskInv'
  BY ONLY <1>4, <1>5, DeskInv, FormsKeep
<1>6. ASSUME NEW g \in Goods, SubmitNew(g) PROVE DeskInv'
  BY ONLY <1>4, <1>6, DeskInv, DeskCallsKeep
<1>7. ASSUME NEW q \in ghosts, ServeGhost(q) PROVE DeskInv'
  BY <1>7, ServeGhostKeeps
<1>8. CASE UNCHANGED deskVars
  <2>1. UNCHANGED <<stock, made, shown, desk, creating, wires, ghosts, mixed, sold>>
    BY <1>8 DEF deskVars
  <2>2. StaysBut(0) /\ DeskTypes /\ made \in Nat
    BY <2>1, DeskAssumption DEF StaysBut, SameProduct, DeskInv, DeskTypes
  <2>3. DeskTypes' /\ SpinnersFit' /\ OneEach'
    BY <2>1 DEF DeskInv, DeskTypes, SpinnersFit, OneEach, On
  <2>4. Fewer
    BY <2>1 DEF Fewer
  <2>. QED
    BY <2>1, <2>3, <2>4, BrowserKeeps DEF DeskTypes
<1>. QED
  BY <1>1, <1>2, <1>3, <1>5, <1>6, <1>7, <1>8 DEF DeskNext

LEMMA DeskFacts == DeskInv => DeskTypeOK /\ QuietRowShowsTheProduct
<1>. SUFFICES ASSUME DeskInv PROVE DeskTypeOK /\ QuietRowShowsTheProduct
  OBVIOUS
<1>1. DeskTypes /\ SpinnersFit /\ RowsFit /\ MaxUnits \in Nat
  BY DeskAssumption DEF DeskInv
<1>2. Live \cup Hidden \cup OutOfStock = DOMAIN shown
  <2>1. \A i \in DOMAIN shown : shown[i].live \in BOOLEAN /\ shown[i].units \in Nat
    BY <1>1 DEF DeskTypes, Goods, Units
  <2>. QED
    BY <2>1 DEF Live, Hidden, OutOfStock
<1>3. \A i \in DOMAIN shown : desk[i].busy => \E w \in Pending(i) : wires[w].own
  BY <1>1 DEF SpinnersFit, Pending, On, DeskTypes
<1>4. DeskTypeOK
  BY <1>1, <1>2, <1>3 DEF DeskTypeOK, DeskTypes, SpinnersFit, On
<1>5. ASSUME NEW i \in DOMAIN shown \ mixed, Pending(i) = {}
      PROVE  /\ i \in DOMAIN stock
             /\ shown[i] = [stock[i] EXCEPT !.units = IF i \in sold THEN shown[i].units ELSE @]
  <2>1. PICK g \in Goods : shown[i] = g
    BY <1>1 DEF DeskTypes
  <2>2. \A w \in Slot : wires[w].state = "ok" => wires[w].request.id # i
    BY <1>5 DEF Pending
  <2>3. SameProduct(g, i)
    BY <1>1, <2>1, <2>2 DEF RowsFit, RowFits
  <2>. QED
    BY <2>1, <2>3 DEF SameProduct
<1>6. QuietRowShowsTheProduct
  BY <1>5 DEF QuietRowShowsTheProduct
<1>. QED
  BY <1>4, <1>6

-----------------------------------------------------------------------------
(***************************************************************************)
(* Sign-in and routing.                                                    *)
(***************************************************************************)

\* Where a navigation may go on to.
Somewhere == (Paths \ {Callback.path}) \cup {None}

SignTypes ==
    /\ nav = [at |-> nav.at, path |-> nav.path, next |-> nav.next, shows |-> nav.shows]
    /\ nav.at \in {"asked", "render", "shown"} /\ nav.path \in Paths /\ nav.next \in Somewhere
    /\ asked \in Paths \ {Callback.path}
    /\ link = [sent |-> link.sent, next |-> link.next] /\ link.next \in Somewhere
    /\ flights \subseteq Flight /\ \A f \in flights : f.next \in Somewhere
    /\ mode \in {"signin", "signup", "verify"}
    /\ asks \in 0..MaxAsk /\ blips \in 0..MaxBlip

\* The callback and the pages that only forward are never shown.
PageIsShown ==
    nav.at = "shown" => nav.path # Callback.path /\ PageAt(nav.path).kind # "forward"

\* A form that is still there goes on to where its page does, unless a sign-out
\* that ended late took that from the page.
OwnFits(f) ==
    IF f.kind = "signout" THEN AtSignOut ELSE AtLogin /\ (overtaken \/ f.next = nav.next)

OwnGoOn == \A f \in flights : f.own => OwnFits(f)

LEMMA OwnIsShown == OwnGoOn /\ nav.at # "shown" => \A f \in flights : ~f.own
BY DEF OwnGoOn, OwnFits, AtLogin, AtSignOut

Course == Wanted \cup {asked}

\* The navigation is on its way to what was asked for, by way of the login page
\* or the callback too.
OnCourse ==
    ~overtaken =>
        IF nav.path \in {Login.path, Callback.path}
        THEN IF nav.next = None THEN asked = Login.path ELSE nav.next \in Course
        ELSE nav.path \in Course

SignInv == SignTypes /\ PageIsShown /\ OwnGoOn /\ OnCourse

-----------------------------------------------------------------------------
(* The map of the site *)

\* The paths are spelled out; only three pages forward, and only two are the
\* login page and the callback.
LEMMA CustomerPaths ==
    /\ Root.path = << >> /\ Root.kind = "forward" /\ Root.to = <<"home">>
    /\ About.path = <<"about">> /\ About.kind = "guest"
    /\ Login.path = <<"login">> /\ Login.kind = "guest"
    /\ Callback.path = <<"auth", "callback">> /\ Callback.kind = "guest"
    /\ Home.path = <<"home">> /\ Home.kind = "guest"
    /\ Shops.path = <<"shops">> /\ Shops.kind = "guest"
    /\ ShopDetail.path = <<"shops", "id">> /\ ShopDetail.kind = "guest"
    /\ ProductDetail.path = <<"products", "id">> /\ ProductDetail.kind = "guest"
    /\ Search.path = <<"search">> /\ Search.kind = "guest"
    /\ Categories.path = <<"categories">> /\ Categories.kind = "guest"
    /\ Support.path = <<"support">> /\ Support.kind = "guest"
    /\ Cart.path = <<"cart">> /\ Cart.kind = "signed"
    /\ Checkout.path = <<"checkout">> /\ Checkout.kind = "signed"
    /\ Orders.path = <<"orders">> /\ Orders.kind = "signed"
    /\ OrderDetail.path = <<"orders", "id">> /\ OrderDetail.kind = "signed"
    /\ Profile.path = <<"profile">> /\ Profile.kind = "signed"
    /\ Favorites.path = <<"favorites">> /\ Favorites.kind = "signed"
<1>1. /\ Root.path = << >> /\ Root.kind = "forward" /\ Root.to = <<"home">>
      /\ About.path = <<"about">> /\ About.kind = "guest"
      /\ Login.path = <<"login">> /\ Login.kind = "guest"
      /\ Callback.path = <<"auth", "callback">> /\ Callback.kind = "guest"
  BY DEF Root, About, Login, Callback, Forward, Guest
<1>2. /\ Home.path = <<"home">> /\ Home.kind = "guest"
      /\ Shops.path = <<"shops">> /\ Shops.kind = "guest"
      /\ Search.path = <<"search">> /\ Search.kind = "guest"
      /\ Categories.path = <<"categories">> /\ Categories.kind = "guest"
      /\ Support.path = <<"support">> /\ Support.kind = "guest"
  BY DEF Home, Shops, Search, Categories, Support, InCustomerShell, Guest
<1>3. /\ ShopDetail.path = <<"shops", "id">> /\ ShopDetail.kind = "guest"
      /\ ProductDetail.path = <<"products", "id">> /\ ProductDetail.kind = "guest"
  BY DEF ShopDetail, ProductDetail, On404, InCustomerShell, Guest
<1>4. /\ Cart.path = <<"cart">> /\ Cart.kind = "signed"
      /\ Checkout.path = <<"checkout">> /\ Checkout.kind = "signed"
      /\ Orders.path = <<"orders">> /\ Orders.kind = "signed"
      /\ Profile.path = <<"profile">> /\ Profile.kind = "signed"
      /\ Favorites.path = <<"favorites">> /\ Favorites.kind = "signed"
  BY DEF Cart, Checkout, Orders, Profile, Favorites, InCustomerShell, Signed, Guest
<1>5. OrderDetail.path = <<"orders", "id">> /\ OrderDetail.kind = "signed"
  BY DEF OrderDetail, On404, InCustomerShell, Signed, Guest
<1>. QED
  BY <1>1, <1>2, <1>3, <1>4, <1>5

LEMMA StaffPaths ==
    /\ ShopDashboard.path = <<"shop">> /\ ShopDashboard.kind = "signed"
    /\ ShopOrders.path = <<"shop", "orders">> /\ ShopOrders.kind = "signed"
    /\ ShopOrderDetail.path = <<"shop", "orders", "id">> /\ ShopOrderDetail.kind = "signed"
    /\ ShopProducts.path = <<"shop", "products">> /\ ShopProducts.kind = "signed"
    /\ Rider.path = <<"rider">> /\ Rider.kind = "forward" /\ Rider.to = <<"rider", "dashboard">>
    /\ RiderDashboard.path = <<"rider", "dashboard">> /\ RiderDashboard.kind = "signed"
    /\ RiderDeliveries.path = <<"rider", "deliveries">> /\ RiderDeliveries.kind = "signed"
    /\ RiderEarnings.path = <<"rider", "earnings">> /\ RiderEarnings.kind = "signed"
    /\ RiderProfile.path = <<"rider", "profile">> /\ RiderProfile.kind = "signed"
    /\ AdminRoot.path = <<"admin">> /\ AdminRoot.kind = "forward"
    /\ AdminRoot.to = <<"admin", "dashboard">>
    /\ AdminDashboard.path = <<"admin", "dashboard">> /\ AdminDashboard.kind = "signed"
    /\ AdminOrders.path = <<"admin", "orders">> /\ AdminOrders.kind = "signed"
    /\ AdminRiders.path = <<"admin", "riders">> /\ AdminRiders.kind = "signed"
    /\ AdminCustomers.path = <<"admin", "customers">> /\ AdminCustomers.kind = "signed"
    /\ AdminShops.path = <<"admin", "shops">> /\ AdminShops.kind = "signed"
    /\ AdminProducts.path = <<"admin", "products">> /\ AdminProducts.kind = "signed"
    /\ AdminAnalytics.path = <<"admin", "analytics">> /\ AdminAnalytics.kind = "signed"
    /\ AdminSettings.path = <<"admin", "settings">> /\ AdminSettings.kind = "signed"
<1>1. /\ ShopDashboard.path = <<"shop">> /\ ShopDashboard.kind = "signed"
      /\ ShopOrders.path = <<"shop", "orders">> /\ ShopOrders.kind = "signed"
      /\ ShopOrderDetail.path = <<"shop", "orders", "id">> /\ ShopOrderDetail.kind = "signed"
      /\ ShopProducts.path = <<"shop", "products">> /\ ShopProducts.kind = "signed"
  BY DEF ShopDashboard, ShopOrders, ShopOrderDetail, ShopProducts, On404, Signed, Guest
<1>2. /\ Rider.path = <<"rider">> /\ Rider.kind = "forward" /\ Rider.to = <<"rider", "dashboard">>
      /\ AdminRoot.path = <<"admin">> /\ AdminRoot.kind = "forward"
      /\ AdminRoot.to = <<"admin", "dashboard">>
  BY DEF Rider, AdminRoot, Forward, Guest
<1>3. /\ RiderDashboard.path = <<"rider", "dashboard">> /\ RiderDashboard.kind = "signed"
      /\ RiderDeliveries.path = <<"rider", "deliveries">> /\ RiderDeliveries.kind = "signed"
      /\ RiderEarnings.path = <<"rider", "earnings">> /\ RiderEarnings.kind = "signed"
      /\ RiderProfile.path = <<"rider", "profile">> /\ RiderProfile.kind = "signed"
  BY DEF RiderDashboard, RiderDeliveries, RiderEarnings, RiderProfile, Signed, Guest
<1>4. /\ AdminDashboard.path = <<"admin", "dashboard">> /\ AdminDashboard.kind = "signed"
      /\ AdminOrders.path = <<"admin", "orders">> /\ AdminOrders.kind = "signed"
      /\ AdminRiders.path = <<"admin", "riders">> /\ AdminRiders.kind = "signed"
      /\ AdminCustomers.path = <<"admin", "customers">> /\ AdminCustomers.kind = "signed"
  BY DEF AdminDashboard, AdminOrders, AdminRiders, AdminCustomers, Signed, Guest
<1>5. /\ AdminShops.path = <<"admin", "shops">> /\ AdminShops.kind = "signed"
      /\ AdminProducts.path = <<"admin", "products">> /\ AdminProducts.kind = "signed"
      /\ AdminAnalytics.path = <<"admin", "analytics">> /\ AdminAnalytics.kind = "signed"
      /\ AdminSettings.path = <<"admin", "settings">> /\ AdminSettings.kind = "signed"
  BY DEF AdminShops, AdminProducts, AdminAnalytics, AdminSettings, Signed, Guest
<1>. QED
  BY <1>1, <1>2, <1>3, <1>4, <1>5

LEMMA OnlyPages ==
    ASSUME NEW p \in Pages
    PROVE  /\ p.path = Login.path => p = Login
           /\ p.path = Callback.path => p = Callback
           /\ p.kind = "forward" => p \in {Root, Rider, AdminRoot}
<1>1. CASE p \in {Root, About, Home, Shops, ShopDetail, ProductDetail}
  BY <1>1, CustomerPaths
<1>2. CASE p \in {Login, Callback}
  BY <1>2, CustomerPaths
<1>3. CASE p \in {Search, Categories, Support, Cart, Checkout, Orders, OrderDetail, Profile, Favorites}
  BY <1>3, CustomerPaths
<1>4. CASE p \in {ShopDashboard, ShopOrders, ShopOrderDetail, ShopProducts,
                  Rider, RiderDashboard, RiderDeliveries, RiderEarnings, RiderProfile}
  BY <1>4, CustomerPaths, StaffPaths
<1>5. CASE p \in {AdminRoot, AdminDashboard, AdminOrders, AdminRiders, AdminCustomers, AdminShops,
                  AdminProducts, AdminAnalytics, AdminSettings}
  BY <1>5, CustomerPaths, StaffPaths
<1>. QED
  BY <1>1, <1>2, <1>3, <1>4, <1>5 DEF Pages

LEMMA EveryKind ==
    ASSUME NEW p \in Pages
    PROVE  p.kind \in {"guest", "signed", "forward"}
<1>1. CASE p \in {Root, About, Login, Callback, Home, Shops, ShopDetail, ProductDetail, Search, Categories}
  BY <1>1, CustomerPaths
<1>2. CASE p \in {Support, Cart, Checkout, Orders, OrderDetail, Profile, Favorites}
  BY <1>2, CustomerPaths
<1>3. CASE p \in {ShopDashboard, ShopOrders, ShopOrderDetail, ShopProducts,
                  Rider, RiderDashboard, RiderDeliveries, RiderEarnings, RiderProfile}
  BY <1>3, StaffPaths
<1>4. CASE p \in {AdminRoot, AdminDashboard, AdminOrders, AdminRiders, AdminCustomers, AdminShops,
                  AdminProducts, AdminAnalytics, AdminSettings}
  BY <1>4, StaffPaths
<1>. QED
  BY <1>1, <1>2, <1>3, <1>4 DEF Pages

LEMMA PageOfPath ==
    ASSUME NEW path \in Paths
    PROVE  /\ PageAt(path) \in Pages /\ PageAt(path).path = path
           /\ PageAt(path) = Login <=> path = Login.path
           /\ PageAt(path) = Callback <=> path = Callback.path
           /\ PageAt(path).kind = "forward" =>
                 \/ path = << >> /\ PageAt(path).to = <<"home">>
                 \/ path = <<"rider">> /\ PageAt(path).to = <<"rider", "dashboard">>
                 \/ path = <<"admin">> /\ PageAt(path).to = <<"admin", "dashboard">>
<1>1. PICK p \in Pages : p.path = path
  BY DEF Paths
<1>2. PageAt(path) \in Pages /\ PageAt(path).path = path
  BY <1>1 DEF PageAt
<1>3. PageAt(path).kind = "forward" => PageAt(path) \in {Root, Rider, AdminRoot}
  BY <1>2, OnlyPages
<1>4. PageAt(path).kind = "forward" =>
          \/ path = << >> /\ PageAt(path).to = <<"home">>
          \/ path = <<"rider">> /\ PageAt(path).to = <<"rider", "dashboard">>
          \/ path = <<"admin">> /\ PageAt(path).to = <<"admin", "dashboard">>
  <2>1. CASE PageAt(path) = Root
    BY <1>2, <2>1, CustomerPaths
  <2>2. CASE PageAt(path) = Rider
    BY <1>2, <2>2, StaffPaths
  <2>3. CASE PageAt(path) = AdminRoot
    BY <1>2, <2>3, StaffPaths
  <2>. QED
    BY <1>3, <2>1, <2>2, <2>3
<1>5. PageAt(path) = Login <=> path = Login.path
  BY <1>2, OnlyPages
<1>6. PageAt(path) = Callback <=> path = Callback.path
  BY <1>2, OnlyPages
<1>. QED
  BY <1>2, <1>4, <1>5, <1>6

\* The pages that navigations end at, by themselves.
LEMMA Landings ==
    /\ <<"home">> \in Paths /\ <<"rider", "dashboard">> \in Paths /\ <<"admin", "dashboard">> \in Paths
    /\ <<"shop">> \in Paths /\ <<"login">> \in Paths /\ <<"about">> \in Paths
    /\ Callback.path \in Paths
    /\ Login.path = <<"login">> /\ About.path = <<"about">>
    /\ {LandingFor(claims), LandingFor({})} \subseteq
           {<<"home">>, <<"shop">>, <<"rider", "dashboard">>, <<"admin", "dashboard">>}
    /\ \A path \in {<<"home">>, <<"shop">>, <<"rider", "dashboard">>, <<"admin", "dashboard">>,
                    <<"about">>, <<"login">>} :
          path \in Paths => PageAt(path).kind # "forward" /\ path # Callback.path
    /\ \A path \in {<<"home">>, <<"shop">>, <<"rider", "dashboard">>, <<"admin", "dashboard">>} :
          path # Login.path
<1>1. {Home, ShopDashboard, RiderDashboard, AdminDashboard, Login, About, Callback} \subseteq Pages
  BY DEF Pages
<1>2. /\ Home.path \in Paths /\ ShopDashboard.path \in Paths /\ RiderDashboard.path \in Paths
      /\ AdminDashboard.path \in Paths /\ Login.path \in Paths /\ About.path \in Paths
      /\ Callback.path \in Paths
  BY <1>1 DEF Paths
<1>3. {LandingFor(claims), LandingFor({})} \subseteq
          {Home.path, ShopDashboard.path, RiderDashboard.path, AdminDashboard.path}
  BY DEF LandingFor
<1>4. \A path \in {<<"home">>, <<"shop">>, <<"rider", "dashboard">>, <<"admin", "dashboard">>,
                   <<"about">>, <<"login">>} :
          path # << >> /\ path # <<"rider">> /\ path # <<"admin">> /\ path # <<"auth", "callback">>
  OBVIOUS
<1>5. \A path \in {<<"home">>, <<"shop">>, <<"rider", "dashboard">>, <<"admin", "dashboard">>} :
          path # <<"login">>
  OBVIOUS
<1>6. /\ Home.path = <<"home">> /\ ShopDashboard.path = <<"shop">> /\ Login.path = <<"login">>
      /\ RiderDashboard.path = <<"rider", "dashboard">> /\ About.path = <<"about">>
      /\ AdminDashboard.path = <<"admin", "dashboard">> /\ Callback.path = <<"auth", "callback">>
  BY CustomerPaths, StaffPaths
<1>7. ASSUME NEW path \in {<<"home">>, <<"shop">>, <<"rider", "dashboard">>, <<"admin", "dashboard">>,
                           <<"about">>, <<"login">>}, path \in Paths
      PROVE  PageAt(path).kind # "forward" /\ path # Callback.path
  <2>1. path # << >> /\ path # <<"rider">> /\ path # <<"admin">> /\ path # <<"auth", "callback">>
    BY <1>4
  <2>2. PageAt(path).kind # "forward"
    BY <1>7, <2>1, PageOfPath
  <2>. QED
    BY <1>6, <2>1, <2>2
<1>8. {LandingFor(claims), LandingFor({})} \subseteq
          {<<"home">>, <<"shop">>, <<"rider", "dashboard">>, <<"admin", "dashboard">>}
  BY <1>3, <1>6
<1>9. /\ <<"home">> \in Paths /\ <<"rider", "dashboard">> \in Paths /\ <<"admin", "dashboard">> \in Paths
      /\ <<"shop">> \in Paths /\ <<"login">> \in Paths /\ <<"about">> \in Paths
  BY <1>2, <1>6
<1>. QED
  BY <1>2, <1>5, <1>6, <1>7, <1>8, <1>9

LEMMA Protection ==
    /\ ~IsProtected(Login.path) /\ ~IsProtected(Callback.path)
    /\ MayEnter(claims, LandingFor(claims))
    /\ MayEnter(claims, << >>) /\ MayEnter(claims, <<"home">>)
    /\ MayEnter(claims, <<"rider">>) => MayEnter(claims, <<"rider", "dashboard">>)
    /\ MayEnter(claims, <<"admin">>) => MayEnter(claims, <<"admin", "dashboard">>)
<1>1. /\ Head(<<"login">>) = "login" /\ Head(<<"auth", "callback">>) = "auth"
      /\ Head(<<"home">>) = "home" /\ Head(<<"shop">>) = "shop"
      /\ Head(<<"rider">>) = "rider" /\ Head(<<"rider", "dashboard">>) = "rider"
      /\ Head(<<"admin">>) = "admin" /\ Head(<<"admin", "dashboard">>) = "admin"
  OBVIOUS
<1>2. /\ DOMAIN AreaRole = {"shop", "rider", "admin"}
      /\ AreaRole["shop"] = "shopkeeper" /\ AreaRole["rider"] = "rider" /\ AreaRole["admin"] = "admin"
  BY DEF AreaRole
<1>3. ~IsProtected(Login.path) /\ ~IsProtected(Callback.path)
  BY <1>1, CustomerPaths DEF IsProtected, CustomerProtected
<1>4. /\ MayEnter(claims, << >>) /\ MayEnter(claims, <<"home">>)
      /\ MayEnter(claims, <<"rider">>) => MayEnter(claims, <<"rider", "dashboard">>)
      /\ MayEnter(claims, <<"admin">>) => MayEnter(claims, <<"admin", "dashboard">>)
  BY <1>1, <1>2 DEF MayEnter
<1>5. MayEnter(claims, LandingFor(claims))
  <2>1. CASE {"admin", "super_admin"} \cap claims # {}
    <3>1. LandingFor(claims) = <<"admin", "dashboard">>
      BY <2>1, StaffPaths DEF LandingFor
    <3>. QED
      BY <1>1, <1>2, <2>1, <3>1 DEF MayEnter
  <2>2. CASE {"admin", "super_admin"} \cap claims = {} /\ "shopkeeper" \in claims
    <3>1. LandingFor(claims) = <<"shop">>
      BY <2>2, StaffPaths DEF LandingFor
    <3>. QED
      BY <1>1, <1>2, <2>2, <3>1 DEF MayEnter
  <2>3. CASE {"admin", "super_admin"} \cap claims = {} /\ "shopkeeper" \notin claims /\ "rider" \in claims
    <3>1. LandingFor(claims) = <<"rider", "dashboard">>
      BY <2>3, StaffPaths DEF LandingFor
    <3>. QED
      BY <1>1, <1>2, <2>3, <3>1 DEF MayEnter
  <2>4. CASE {"admin", "super_admin"} \cap claims = {} /\ "shopkeeper" \notin claims /\ "rider" \notin claims
    <3>1. LandingFor(claims) = <<"home">>
      BY <2>4, CustomerPaths DEF LandingFor
    <3>. QED
      BY <1>4, <3>1
  <2>. QED
    BY <2>1, <2>2, <2>3, <2>4
<1>. QED
  BY <1>3, <1>4, <1>5

\* What is on course: where it leads, and where a refusal leads.
LEMMA CourseLeads ==
    ASSUME asked \in Paths \ {Callback.path}, NEW path \in Course
    PROVE  /\ path \in Paths \ {Callback.path}
           /\ path = Login.path => asked = Login.path
           /\ TargetOf(path) \in Wanted
           /\ PageAt(path).kind = "forward" => PageAt(path).to \in Wanted
           /\ ~MayEnter(claims, path) => LandingFor(claims) \in Wanted
<1>1. TargetOf(asked) \in Wanted
  BY DEF Wanted
<1>2. \/ TargetOf(asked) = asked /\ PageAt(asked).kind # "forward"
      \/ asked = << >> /\ TargetOf(asked) = <<"home">>
      \/ asked = <<"rider">> /\ TargetOf(asked) = <<"rider", "dashboard">>
      \/ asked = <<"admin">> /\ TargetOf(asked) = <<"admin", "dashboard">>
  BY PageOfPath DEF TargetOf
<1>3. CASE path = asked
  <2>1. PageAt(path).kind = "forward" => TargetOf(path) = PageAt(path).to
    BY DEF TargetOf
  <2>2. ~MayEnter(claims, path) => LandingFor(claims) \in Wanted
    BY <1>3 DEF Wanted
  <2>. QED
    BY <1>1, <1>3, <2>1, <2>2
<1>4. CASE path = TargetOf(asked) /\ path # asked
  <2>1. \/ asked = << >> /\ path = <<"home">>
        \/ asked = <<"rider">> /\ path = <<"rider", "dashboard">>
        \/ asked = <<"admin">> /\ path = <<"admin", "dashboard">>
    BY <1>2, <1>4
  <2>2. path \in Paths /\ path # Callback.path /\ path # Login.path /\ PageAt(path).kind # "forward"
    BY <2>1, Landings
  <2>3. TargetOf(path) = path
    BY <2>2 DEF TargetOf
  <2>4. ~MayEnter(claims, path) => ~MayEnter(claims, asked)
    BY <2>1, Protection
  <2>. QED
    BY <1>1, <1>4, <2>2, <2>3, <2>4 DEF Wanted
<1>5. CASE path = LandingFor(claims) /\ path \in Wanted
  <2>1. path \in Paths /\ path # Callback.path /\ path # Login.path /\ PageAt(path).kind # "forward"
    BY <1>5, Landings
  <2>2. TargetOf(path) = path
    BY <2>1 DEF TargetOf
  <2>. QED
    BY <1>5, <2>1, <2>2, Protection
<1>. QED
  BY <1>3, <1>4, <1>5 DEF Course, Wanted

-----------------------------------------------------------------------------
(* The steps *)

\* A step that leaves what was asked for leaves the course.
LEMMA SameCourse ==
    ASSUME UNCHANGED <<claims, asked>>
    PROVE  Course' = Course
BY DEF Course, Wanted

\* Whoever is sent to d, from wherever, is on course if d is.
LEMMA SentOn ==
    ASSUME SignTypes, UNCHANGED <<claims, asked>>, NEW d \in Paths \ {Callback.path},
           nav' = To(d, None), ~overtaken' => d \in Course
    PROVE  /\ nav' = [at |-> nav.at, path |-> nav.path, next |-> nav.next, shows |-> nav.shows]'
           /\ nav'.at = "asked" /\ nav'.path \in Paths /\ nav'.next \in Somewhere
           /\ OnCourse'
<1>1. nav'.at = "asked" /\ nav'.path = d /\ nav'.next = None
      /\ nav' = [at |-> nav.at, path |-> nav.path, next |-> nav.next, shows |-> nav.shows]'
  BY DEF To
<1>2. asked \in Paths \ {Callback.path}
  BY DEF SignTypes
<1>3. OnCourse'
  <2>. SUFFICES ASSUME ~overtaken'
                PROVE  IF d = Login.path THEN asked = Login.path ELSE d \in Course
    BY <1>1, SameCourse DEF OnCourse
  <2>. QED
    BY <1>2, CourseLeads
<1>. QED
  BY <1>1, <1>3 DEF Somewhere

LEMMA NoneIsNoPath == None \notin Paths
<1>1. \A p \in Pages : p.path # <<"none">>
  <2>. TAKE p \in Pages
  <2>1. CASE p \in {Root, About, Login, Callback, Home, Shops, ShopDetail, ProductDetail, Search, Categories}
    BY <2>1, CustomerPaths
  <2>2. CASE p \in {Support, Cart, Checkout, Orders, OrderDetail, Profile, Favorites}
    BY <2>2, CustomerPaths
  <2>3. CASE p \in {ShopDashboard, ShopOrders, ShopOrderDetail, ShopProducts,
                    Rider, RiderDashboard, RiderDeliveries, RiderEarnings, RiderProfile}
    BY <2>3, StaffPaths
  <2>4. CASE p \in {AdminRoot, AdminDashboard, AdminOrders, AdminRiders, AdminCustomers, AdminShops,
                    AdminProducts, AdminAnalytics, AdminSettings}
    BY <2>4, StaffPaths
  <2>. QED
    BY <2>1, <2>2, <2>3, <2>4 DEF Pages
<1>. QED
  BY <1>1 DEF Paths, None

\* To the login page, which goes on to path.
LEMMA SentToLogin ==
    ASSUME SignTypes, UNCHANGED <<claims, asked>>, NEW path \in Paths \ {Callback.path},
           nav' = To(Login.path, path), ~overtaken' => path \in Course
    PROVE  /\ nav' = [at |-> nav.at, path |-> nav.path, next |-> nav.next, shows |-> nav.shows]'
           /\ nav'.at = "asked" /\ nav'.path \in Paths /\ nav'.next \in Somewhere
           /\ OnCourse'
<1>1. nav'.at = "asked" /\ nav'.path = Login.path /\ nav'.next = path
      /\ nav' = [at |-> nav.at, path |-> nav.path, next |-> nav.next, shows |-> nav.shows]'
  BY DEF To
<1>2. Login.path \in Paths /\ None \notin Paths
  BY Landings, NoneIsNoPath
<1>3. OnCourse'
  BY <1>1, <1>2, SameCourse DEF OnCourse
<1>. QED
  BY <1>1, <1>2, <1>3 DEF Somewhere

\* getUser, answered or not.
LEMMA Blips ==
    ASSUME SignTypes, GetUser(TRUE) \/ GetUser(FALSE) \/ blips' = blips
    PROVE  blips' \in 0..MaxBlip
BY SignInAssumption DEF SignTypes, GetUser

LEMMA GuardKeeps ==
    ASSUME SignInv, Guard
    PROVE  SignInv'
<1>1. /\ SignTypes /\ nav.at = "asked" /\ nav.path \in Paths /\ asked \in Paths \ {Callback.path}
      /\ UNCHANGED <<claims, live, accepts, asked, mode, flights, link, asks, overtaken>>
  BY DEF Guard, SignInv, SignTypes
<1>2. blips' \in 0..MaxBlip
  BY <1>1, Blips DEF Guard
<1>3. \A f \in flights : ~f.own
  BY <1>1, OwnIsShown DEF SignInv
<1>4. /\ nav' = [at |-> nav.at, path |-> nav.path, next |-> nav.next, shows |-> nav.shows]'
      /\ nav'.at \in {"asked", "render"} /\ nav'.path \in Paths /\ nav'.next \in Somewhere
      /\ OnCourse'
  <2>1. CASE nav' = [nav EXCEPT !.at = "render"]
    <3>1. nav'.at = "render" /\ nav'.path = nav.path /\ nav'.next = nav.next
          /\ nav' = [at |-> nav.at, path |-> nav.path, next |-> nav.next, shows |-> nav.shows]'
      BY <1>1, <2>1 DEF SignTypes
    <3>2. OnCourse'
      BY <1>1, <3>1, SameCourse DEF SignInv, OnCourse
    <3>. QED
      BY <1>1, <3>1, <3>2 DEF SignTypes
  <2>2. CASE nav' # [nav EXCEPT !.at = "render"]
    <3>1. IsProtected(nav.path)
      BY <2>2 DEF Guard
    <3>2. nav.path # Login.path /\ nav.path # Callback.path
      BY <3>1, Protection
    <3>3. ~overtaken => nav.path \in Course
      BY <3>2 DEF SignInv, OnCourse
    <3>4. \/ nav' = To(Login.path, nav.path)
          \/ ~MayEnter(claims, nav.path) /\ nav' = To(LandingFor(claims), None)
      BY <2>2, <3>1 DEF Guard
    <3>5. CASE nav' = To(Login.path, nav.path)
      BY <1>1, <3>2, <3>3, <3>5, SentToLogin
    <3>6. CASE ~MayEnter(claims, nav.path) /\ nav' = To(LandingFor(claims), None)
      <4>1. LandingFor(claims) \in Paths \ {Callback.path}
        BY Landings
      <4>2. ~overtaken => LandingFor(claims) \in Course
        BY <1>1, <3>3, <3>6, CourseLeads DEF Course
      <4>. QED
        BY <1>1, <3>6, <4>1, <4>2, SentOn
    <3>. QED
      BY <3>4, <3>5, <3>6
  <2>. QED
    BY <2>1, <2>2
<1>. QED
  BY <1>1, <1>2, <1>3, <1>4 DEF SignInv, SignTypes, PageIsShown, OwnGoOn

LEMMA RenderKeeps ==
    ASSUME SignInv, Render
    PROVE  SignInv'
<1>. DEFINE here == PageAt(nav.path)
<1>1. /\ SignTypes /\ nav.at = "render" /\ nav.path \in Paths /\ asked \in Paths \ {Callback.path}
      /\ here \notin {Login, Callback} /\ here.kind # "forward"
      /\ UNCHANGED <<claims, live, accepts, asked, mode, flights, link, asks, overtaken>>
  BY DEF Render, SignInv, SignTypes
<1>2. here.path = nav.path /\ nav.path # Login.path /\ nav.path # Callback.path
  BY <1>1, PageOfPath
<1>3. blips' \in 0..MaxBlip
  <2>1. CASE here.kind = "signed"
    BY <1>1, <2>1, Blips DEF Render
  <2>2. CASE here.kind # "signed"
    <3>1. here.kind = "guest"
      BY <1>1, <2>2, PageOfPath, EveryKind
    <3>. QED
      BY <1>1, <2>2, <3>1, Blips DEF Render
  <2>. QED
    BY <2>1, <2>2
<1>4. \A f \in flights : ~f.own
  BY <1>1, OwnIsShown DEF SignInv
<1>5. ~overtaken => nav.path \in Course
  BY <1>2 DEF SignInv, OnCourse
<1>6. \/ nav' = To(Login.path, nav.path)
      \/ \E s : nav' = [nav EXCEPT !.at = "shown", !.shows = s]
  BY <1>2 DEF Render
<1>7. CASE nav' = To(Login.path, nav.path)
  <2>1. /\ nav' = [at |-> nav.at, path |-> nav.path, next |-> nav.next, shows |-> nav.shows]'
        /\ nav'.at = "asked" /\ nav'.path \in Paths /\ nav'.next \in Somewhere
        /\ OnCourse'
    BY <1>1, <1>2, <1>5, <1>7, SentToLogin
  <2>. QED
    BY <1>1, <1>3, <1>4, <2>1 DEF SignInv, SignTypes, PageIsShown, OwnGoOn
<1>8. CASE \E s : nav' = [nav EXCEPT !.at = "shown", !.shows = s]
  <2>1. /\ nav' = [at |-> nav.at, path |-> nav.path, next |-> nav.next, shows |-> nav.shows]'
        /\ nav'.at = "shown" /\ nav'.path = nav.path /\ nav'.next = nav.next
    BY <1>1, <1>8 DEF SignTypes
  <2>2. OnCourse'
    BY <1>1, <2>1, SameCourse DEF SignInv, OnCourse
  <2>. QED
    BY <1>1, <1>2, <1>3, <1>4, <2>1, <2>2 DEF SignInv, SignTypes, PageIsShown, OwnGoOn
<1>. QED
  BY <1>6, <1>7, <1>8

LEMMA RenderForwardKeeps ==
    ASSUME SignInv, RenderForward
    PROVE  SignInv'
<1>. DEFINE d == PageAt(nav.path).to
<1>1. /\ SignTypes /\ nav.at = "render" /\ nav.path \in Paths /\ asked \in Paths \ {Callback.path}
      /\ PageAt(nav.path).kind = "forward" /\ nav' = To(d, None)
      /\ UNCHANGED <<claims, live, accepts, asked, mode, flights, link, asks, blips, overtaken>>
  BY DEF RenderForward, SignInv, SignTypes
<1>2. d \in {<<"home">>, <<"rider", "dashboard">>, <<"admin", "dashboard">>}
  BY <1>1, PageOfPath
<1>3. d \in Paths \ {Callback.path}
  BY <1>2, Landings
<1>4. nav.path # Login.path /\ nav.path # Callback.path
  BY <1>1, PageOfPath, CustomerPaths
<1>5. ~overtaken => d \in Course
  BY <1>1, <1>4, CourseLeads DEF SignInv, OnCourse, Course
<1>6. \A f \in flights : ~f.own
  BY <1>1, OwnIsShown DEF SignInv
<1>. HIDE DEF d
<1>7. /\ nav' = [at |-> nav.at, path |-> nav.path, next |-> nav.next, shows |-> nav.shows]'
      /\ nav'.at = "asked" /\ nav'.path \in Paths /\ nav'.next \in Somewhere
      /\ OnCourse'
  BY <1>1, <1>3, <1>5, SentOn
<1>. QED
  BY <1>1, <1>6, <1>7 DEF SignInv, SignTypes, PageIsShown, OwnGoOn

LEMMA RenderCallbackKeeps ==
    ASSUME SignInv, RenderCallback
    PROVE  SignInv'
<1>. DEFINE lands(found) == IF nav.next # None THEN nav.next ELSE LandingFor(found)
<1>1. /\ SignTypes /\ nav.at = "render" /\ nav.path = Callback.path /\ asked \in Paths \ {Callback.path}
      /\ nav.next \in Somewhere /\ link' = [link EXCEPT !.sent = FALSE]
      /\ UNCHANGED <<claims, accepts, asked, mode, flights, asks>>
  BY DEF RenderCallback, SignInv, SignTypes
<1>2. \A f \in flights : ~f.own
  BY <1>1, OwnIsShown DEF SignInv
<1>3. link' = [sent |-> link.sent, next |-> link.next]' /\ link'.next \in Somewhere
  BY <1>1 DEF SignTypes
<1>4. blips' \in 0..MaxBlip
  BY SignInAssumption DEF RenderCallback, SignInv, SignTypes
<1>5. \/ nav' = To(lands(claims), None) /\ (~overtaken' => ~overtaken)
      \/ nav' = To(lands({}), None) /\ (~overtaken' => ~overtaken /\ lands({}) = lands(claims))
      \/ nav' = To(Login.path, None) /\ overtaken'
  <2>1. CASE nav' = To(lands(claims), None) /\ overtaken' = overtaken
    BY <2>1
  <2>2. CASE nav' = To(lands({}), None) /\ overtaken' = (overtaken \/ lands({}) # lands(claims))
    BY <2>2
  <2>3. CASE nav' = To(Login.path, None) /\ overtaken' = TRUE
    BY <2>3
  <2>. QED
    BY <2>1, <2>2, <2>3 DEF RenderCallback
<1>6. {Login.path, lands(claims), lands({})} \subseteq Paths \ {Callback.path}
  BY <1>1, Landings DEF Somewhere
<1>7. ~overtaken => lands(claims) \in Course
  <2>1. CASE nav.next = None
    BY <1>1, <2>1 DEF SignInv, OnCourse, Course, Wanted
  <2>2. CASE nav.next # None
    BY <1>1, <2>2 DEF SignInv, OnCourse
  <2>. QED
    BY <2>1, <2>2
<1>. HIDE DEF lands
<1>8. PICK d \in Paths \ {Callback.path} : nav' = To(d, None) /\ (~overtaken' => d \in Course)
  <2>1. CASE nav' = To(lands(claims), None) /\ (~overtaken' => ~overtaken)
    BY <1>6, <1>7, <2>1
  <2>2. CASE nav' = To(lands({}), None) /\ (~overtaken' => ~overtaken /\ lands({}) = lands(claims))
    BY <1>6, <1>7, <2>2
  <2>3. CASE nav' = To(Login.path, None) /\ overtaken'
    BY <1>6, <2>3
  <2>. QED
    BY <1>5, <2>1, <2>2, <2>3
<1>9. /\ nav' = [at |-> nav.at, path |-> nav.path, next |-> nav.next, shows |-> nav.shows]'
      /\ nav'.at = "asked" /\ nav'.path \in Paths /\ nav'.next \in Somewhere
      /\ OnCourse'
  BY <1>1, <1>8, SentOn
<1>. QED
  BY <1>1, <1>2, <1>3, <1>4, <1>9 DEF SignInv, SignTypes, PageIsShown, OwnGoOn

\* Flights whose page is gone.
LEMMA LeftFlights ==
    ASSUME NEW F \in SUBSET flights, SignTypes
    PROVE  \A g \in {[f EXCEPT !.own = FALSE] : f \in F} :
               g \in Flight /\ g.next \in Somewhere /\ ~g.own
<1>1. ASSUME NEW f \in F
      PROVE  /\ [f EXCEPT !.own = FALSE] \in Flight
             /\ [f EXCEPT !.own = FALSE].next \in Somewhere /\ ~[f EXCEPT !.own = FALSE].own
  <2>1. PICK h \in Flight : h = f
    BY DEF SignTypes
  <2>2. [h EXCEPT !.own = FALSE] \in Flight /\ [h EXCEPT !.own = FALSE].next = h.next
        /\ ~[h EXCEPT !.own = FALSE].own
    BY DEF Flight
  <2>3. f.next \in Somewhere
    BY DEF SignTypes
  <2>. QED
    BY <2>1, <2>2, <2>3
<1>. QED
  BY <1>1

LEMMA RenderLoginKeeps ==
    ASSUME SignInv, RenderLogin
    PROVE  SignInv'
<1>1. /\ SignTypes /\ nav.at = "render" /\ nav.path = Login.path /\ asked \in Paths \ {Callback.path}
      /\ nav' = [nav EXCEPT !.at = "shown", !.shows = "whole"] /\ mode' = "signin"
      /\ flights' = Leaves \cup {LookGoingTo(nav.next)}
      /\ UNCHANGED <<claims, live, accepts, asked, link, asks, blips, overtaken>>
      /\ nav.next \in Somewhere
  BY DEF RenderLogin, SignInv, SignTypes
<1>2. /\ nav' = [at |-> nav.at, path |-> nav.path, next |-> nav.next, shows |-> nav.shows]'
      /\ nav'.at = "shown" /\ nav'.path = nav.path /\ nav'.next = nav.next
  BY <1>1 DEF SignTypes
<1>. DEFINE look == LookGoingTo(nav.next)
<1>3. look \in Flight /\ look.next = nav.next /\ look.kind = "look"
  BY <1>1 DEF LookGoingTo, Flight, Somewhere
<1>4. \A f \in flights' : /\ f \in Flight /\ f.next \in Somewhere
                          /\ f.own => f.next = nav.next /\ f.kind = "look"
  BY <1>1, <1>3, LeftFlights DEF Leaves
<1>5. AtLogin' /\ nav'.path # Callback.path /\ PageAt(nav'.path).kind # "forward"
  BY <1>1, <1>2, Landings DEF AtLogin
<1>6. OnCourse'
  BY <1>1, <1>2, SameCourse DEF SignInv, OnCourse
<1>7. SignTypes'
  BY <1>1, <1>2, <1>4 DEF SignTypes
<1>8. OwnGoOn'
  BY <1>2, <1>4, <1>5 DEF OwnGoOn, OwnFits
<1>. QED
  BY <1>5, <1>6, <1>7, <1>8 DEF SignInv, PageIsShown

\* A flight that replaces the page: what is still there goes where its page does.
LEMMA ReplacesKeep ==
    ASSUME SignInv, NEW f \in flights, f.kind # "signout", Replaces(f), blips' \in 0..MaxBlip,
           flights' = {[g EXCEPT !.own = FALSE] : g \in flights \ {f}},
           UNCHANGED <<claims, live, accepts, asked, mode, link, asks>>
    PROVE  SignInv'
<1>1. /\ SignTypes /\ f.next \in Somewhere /\ asked \in Paths \ {Callback.path} /\ flights \ {f} \in SUBSET flights
      /\ f.own => AtLogin /\ (overtaken \/ f.next = nav.next)
      /\ nav' = To(DestinationFor(f.next), None) /\ (~overtaken' => ~overtaken /\ f.own)
  BY DEF SignInv, SignTypes, OwnGoOn, OwnFits, Replaces
<1>2. PICK d \in Paths \ {Callback.path} : d = DestinationFor(f.next)
  BY <1>1, Landings DEF DestinationFor, Somewhere
<1>3. ASSUME ~overtaken'
      PROVE  d \in Course
  <2>1. ~overtaken /\ f.next = nav.next /\ nav.path = Login.path
    BY <1>1, <1>3 DEF AtLogin
  <2>2. IF nav.next = None THEN asked = Login.path ELSE nav.next \in Course
    BY <2>1 DEF SignInv, OnCourse
  <2>3. asked = Login.path => LandingFor(claims) \in Course
    BY DEF Course, Wanted
  <2>. QED
    BY <1>2, <2>1, <2>2, <2>3 DEF DestinationFor
<1>4. /\ nav' = [at |-> nav.at, path |-> nav.path, next |-> nav.next, shows |-> nav.shows]'
      /\ nav'.at = "asked" /\ nav'.path \in Paths /\ nav'.next \in Somewhere
      /\ OnCourse'
  BY <1>1, <1>2, <1>3, SentOn
<1>5. \A g \in flights' : g \in Flight /\ g.next \in Somewhere /\ ~g.own
  BY <1>1, LeftFlights
<1>6. SignTypes'
  BY <1>1, <1>4, <1>5 DEF SignTypes
<1>. QED
  BY <1>4, <1>5, <1>6 DEF SignInv, PageIsShown, OwnGoOn

\* The navigation stays, and no flight is one that its page does not lead.
LEMMA FlightsKeep ==
    ASSUME SignInv, UNCHANGED <<claims, asked, nav, overtaken>>,
           \A f \in flights' : f \in Flight /\ f.next \in Somewhere /\ (f.own => OwnFits(f)),
           mode' \in {"signin", "signup", "verify"}, asks' \in 0..MaxAsk, blips' \in 0..MaxBlip,
           link' = [sent |-> link.sent, next |-> link.next]', link'.next \in Somewhere
    PROVE  SignInv'
<1>1. SignTypes'
  BY DEF SignInv, SignTypes
<1>2. OnCourse'
  BY SameCourse DEF SignInv, OnCourse
<1>3. OwnGoOn'
  BY DEF OwnGoOn, OwnFits, AtLogin, AtSignOut
<1>. QED
  BY <1>1, <1>2, <1>3 DEF SignInv, PageIsShown

LEMMA FlightParts ==
    ASSUME SignInv, NEW f \in flights
    PROVE  /\ f \in Flight /\ f.next \in Somewhere /\ (f.own => OwnFits(f))
           /\ [f EXCEPT !.kind = "boot"] \in Flight /\ [f EXCEPT !.kind = "boot"].next = f.next
           /\ f.kind # "signout" /\ [f EXCEPT !.kind = "boot"].own => OwnFits([f EXCEPT !.kind = "boot"])
<1>1. f \in Flight /\ f.next \in Somewhere /\ (f.own => OwnFits(f))
  BY DEF SignInv, SignTypes, OwnGoOn
<1>2. /\ [f EXCEPT !.kind = "boot"] \in Flight /\ [f EXCEPT !.kind = "boot"].next = f.next
      /\ [f EXCEPT !.kind = "boot"].own = f.own /\ [f EXCEPT !.kind = "boot"].kind = "boot"
  BY <1>1 DEF Flight
<1>. QED
  BY <1>1, <1>2 DEF OwnFits

LEMMA SignEndsKeep ==
    ASSUME SignInv, NEW f \in flights
    PROVE  (EndLook(f) => SignInv') /\ (EndForm(f) => SignInv') /\ (EndBoot(f) => SignInv')
<1>0. /\ SignTypes /\ link = [sent |-> link.sent, next |-> link.next] /\ link.next \in Somewhere
      /\ mode \in {"signin", "signup", "verify"} /\ asks \in 0..MaxAsk /\ blips \in 0..MaxBlip
  BY DEF SignInv, SignTypes
<1>1. ASSUME EndLook(f)
      PROVE  SignInv'
  <2>1. blips' \in 0..MaxBlip /\ UNCHANGED <<claims, live, accepts, asked, mode, link, asks>>
    BY <1>0, <1>1, Blips DEF EndLook
  <2>2. CASE Replaces(f) /\ flights' = {[g EXCEPT !.own = FALSE] : g \in flights \ {f}}
    BY <1>1, <2>1, <2>2, ReplacesKeep DEF EndLook
  <2>3. CASE flights' = flights \ {f} /\ UNCHANGED <<nav, overtaken>>
    BY <1>0, <2>1, <2>3, FlightsKeep, FlightParts
  <2>. QED
    BY <1>1, <2>2, <2>3 DEF EndLook
<1>2. ASSUME EndForm(f)
      PROVE  SignInv'
  <2>1. UNCHANGED <<claims, accepts, nav, asked, asks, blips, overtaken>>
    BY <1>2 DEF EndForm
  <2>2. mode' \in {"signin", "signup", "verify"}
    BY <1>0, <1>2 DEF EndForm
  <2>3. link' = [sent |-> link.sent, next |-> link.next]' /\ link'.next \in Somewhere
    <3>1. link' \in {link, [sent |-> TRUE, next |-> f.next]}
      BY <1>2 DEF EndForm
    <3>2. CASE link' = link
      BY <1>0, <3>2
    <3>3. CASE link' = [sent |-> TRUE, next |-> f.next]
      <4>1. link'.sent = TRUE /\ link'.next = f.next
        BY <3>3
      <4>. QED
        BY <3>3, <4>1, FlightParts
    <3>. QED
      BY <3>1, <3>2, <3>3
  <2>4. flights' \subseteq flights \cup {[f EXCEPT !.kind = "boot"]} /\ f.kind # "signout"
    BY <1>2 DEF EndForm, FormKind
  <2>. QED
    BY <1>0, <2>1, <2>2, <2>3, <2>4, FlightsKeep, FlightParts
<1>3. ASSUME EndBoot(f)
      PROVE  SignInv'
  BY <1>0, <1>3, ReplacesKeep DEF EndBoot
<1>. QED
  BY <1>1, <1>2, <1>3

LEMMA SignFormKeeps ==
    ASSUME SignInv
    PROVE  /\ \A m \in {"signin", "signup"} : SwitchMode(m) => SignInv'
           /\ \A k \in FormKind : PressForm(k) => SignInv'
           /\ SessionEnds => SignInv'
           /\ ApiTurns => SignInv'
<1>0. /\ link = [sent |-> link.sent, next |-> link.next] /\ link.next \in Somewhere
      /\ mode \in {"signin", "signup", "verify"} /\ asks \in 0..MaxAsk /\ blips \in 0..MaxBlip
      /\ nav.next \in Somewhere
  BY DEF SignInv, SignTypes
<1>1. ASSUME NEW m \in {"signin", "signup"}, SwitchMode(m)
      PROVE  SignInv'
  BY <1>0, <1>1, FlightsKeep, FlightParts DEF SwitchMode
<1>2. ASSUME NEW k \in FormKind, PressForm(k)
      PROVE  SignInv'
  <2>. DEFINE new == [kind |-> k, next |-> nav.next, own |-> TRUE]
  <2>1. new \in Flight /\ new.next = nav.next /\ new.kind # "signout"
    BY <1>0 DEF Flight, FormKind, Somewhere
  <2>2. flights' = flights \cup {new} /\ AtLogin
        /\ UNCHANGED <<claims, live, accepts, nav, asked, mode, link, asks, blips, overtaken>>
    BY <1>2 DEF PressForm
  <2>. HIDE DEF new
  <2>. QED
    BY <1>0, <2>1, <2>2, FlightsKeep, FlightParts DEF OwnFits
<1>3. ASSUME SessionEnds
      PROVE  SignInv'
  BY <1>0, <1>3, FlightsKeep, FlightParts DEF SessionEnds
<1>4. ASSUME ApiTurns
      PROVE  SignInv'
  BY <1>0, <1>4, FlightsKeep, FlightParts DEF ApiTurns
<1>. QED
  BY <1>1, <1>2, <1>3, <1>4

\* The person asks for something, and whatever there was is left behind.
LEMMA AsksAnewKeep ==
    ASSUME SignInv, UNCHANGED <<claims, mode, link, blips>>, Asks,
           asked' \in Paths \ {Callback.path},
           \A f \in flights' : f \in Flight /\ f.next \in Somewhere /\ ~f.own,
           \/ nav' = To(asked', None)
           \/ nav' = To(Callback.path, None) /\ asked' = Login.path
           \/ nav' = To(Callback.path, asked')
    PROVE  SignInv'
<1>1. /\ nav' = [at |-> nav.at, path |-> nav.path, next |-> nav.next, shows |-> nav.shows]'
      /\ nav'.at = "asked"
      /\ \/ nav'.path = asked' /\ nav'.next = None
         \/ nav'.path = Callback.path /\ nav'.next = None /\ asked' = Login.path
         \/ nav'.path = Callback.path /\ nav'.next = asked'
  BY DEF To
<1>2. nav'.path \in Paths /\ nav'.next \in Somewhere
  BY <1>1, Landings DEF Somewhere
<1>3. asked' \in Course'
  BY DEF Course
<1>4. OnCourse'
  BY <1>1, <1>3, NoneIsNoPath DEF OnCourse
<1>5. asks' \in 0..MaxAsk
  BY SignInAssumption DEF Asks, SignInv, SignTypes
<1>6. SignTypes'
  BY <1>1, <1>2, <1>5 DEF SignInv, SignTypes
<1>. QED
  BY <1>1, <1>4, <1>6 DEF SignInv, PageIsShown, OwnGoOn

LEMMA PersonKeeps ==
    ASSUME SignInv
    PROVE  /\ \A p \in First \cup Again : AskFor(p) => SignInv'
           /\ OpenLink => SignInv'
<1>0. SignTypes /\ link.next \in Somewhere /\ Login.path \in Paths \ {Callback.path}
  BY Landings DEF SignInv, SignTypes
<1>1. ASSUME NEW p \in First \cup Again, AskFor(p)
      PROVE  SignInv'
  <2>1. p \in Paths \ {Callback.path}
    <3>1. PICK q \in Pages \ {Callback} : p = q.path
      BY SignInAssumption
    <3>. QED
      BY <3>1, OnlyPages DEF Paths
  <2>2. \A f \in flights' : f \in Flight /\ f.next \in Somewhere /\ ~f.own
    BY <1>0, <1>1, LeftFlights DEF AskFor, Leaves
  <2>3. /\ Asks /\ asked' = p /\ nav' = To(asked', None)
        /\ UNCHANGED <<claims, mode, link, blips>>
    BY <1>1 DEF AskFor
  <2>. QED
    BY <2>1, <2>2, <2>3, AsksAnewKeep
<1>2. ASSUME OpenLink
      PROVE  SignInv'
  <2>1. \A f \in flights' : f \in Flight /\ f.next \in Somewhere /\ ~f.own
    BY <1>0, <1>2, LeftFlights DEF OpenLink, Leaves
  <2>2. /\ Asks /\ nav' = To(Callback.path, link.next)
        /\ asked' = IF link.next = None THEN Login.path ELSE link.next
        /\ UNCHANGED <<claims, mode, link, blips>>
    BY <1>2 DEF OpenLink
  <2>3. asked' \in Paths \ {Callback.path}
    BY <1>0, <2>2 DEF Somewhere
  <2>. QED
    BY <2>1, <2>2, <2>3, AsksAnewKeep
<1>. QED
  BY <1>1, <1>2

\* A sign-out is pressed on its page; it ends wherever the person is.
LEMMA SignOutKeeps ==
    ASSUME SignInv
    PROVE  SignOut \/ (\E f \in flights : EndSignOut(f)) => SignInv'
<1>0. /\ SignTypes /\ link = [sent |-> link.sent, next |-> link.next] /\ link.next \in Somewhere
      /\ mode \in {"signin", "signup", "verify"} /\ asks \in 0..MaxAsk /\ blips \in 0..MaxBlip
      /\ None \in Somewhere /\ Login.path \in Paths \ {Callback.path}
  BY Landings DEF SignInv, SignTypes, Somewhere
<1>1. ASSUME SignOut
      PROVE  SignInv'
  <2>. DEFINE new == [kind |-> "signout", next |-> None, own |-> TRUE]
  <2>1. new \in Flight /\ new.next = None /\ new.kind = "signout"
    BY DEF Flight
  <2>2. flights' = flights \cup {new} /\ AtSignOut
        /\ UNCHANGED <<claims, nav, asked, mode, link, blips, overtaken>>
    BY <1>1 DEF SignOut
  <2>3. asks' \in 0..MaxAsk
    BY <1>0, <1>1, SignInAssumption DEF SignOut, Asks
  <2>. HIDE DEF new
  <2>4. OwnFits(new)
    BY <2>1, <2>2 DEF OwnFits
  <2>. QED
    BY <1>0, <2>1, <2>2, <2>3, <2>4, FlightsKeep, FlightParts
<1>2. ASSUME NEW f \in flights, EndSignOut(f), ~AtLogin
      PROVE  SignInv'
  <2>1. /\ nav' = To(Login.path, None) /\ overtaken' = ~f.own
        /\ asked' = IF f.own THEN Login.path ELSE asked
        /\ flights' = {[g EXCEPT !.own = FALSE] : g \in flights \ {f}}
        /\ UNCHANGED <<claims, accepts, mode, link, asks, blips>>
    BY <1>2 DEF EndSignOut
  <2>2. /\ nav' = [at |-> nav.at, path |-> nav.path, next |-> nav.next, shows |-> nav.shows]'
        /\ nav'.at = "asked" /\ nav'.path = Login.path /\ nav'.next = None
    BY <2>1 DEF To
  <2>3. \A g \in flights' : g \in Flight /\ g.next \in Somewhere /\ ~g.own
    BY <1>0, <2>1, LeftFlights
  <2>4. asked' \in Paths \ {Callback.path}
    BY <1>0, <2>1 DEF SignTypes
  <2>5. SignTypes'
    BY <1>0, <2>1, <2>2, <2>3, <2>4 DEF SignTypes
  <2>6. OnCourse'
    BY <2>1, <2>2 DEF OnCourse
  <2>. QED
    BY <2>2, <2>3, <2>5, <2>6 DEF SignInv, PageIsShown, OwnGoOn
<1>3. ASSUME NEW f \in flights, EndSignOut(f), AtLogin
      PROVE  SignInv'
  <2>. DEFINE look == LookGoingTo(None)
  <2>1. /\ nav' = [nav EXCEPT !.next = None] /\ overtaken' = ~f.own
        /\ flights' \subseteq flights \cup {look} /\ f.kind = "signout"
        /\ UNCHANGED <<claims, accepts, asked, mode, link, asks, blips>>
    BY <1>3 DEF EndSignOut
  <2>2. /\ nav' = [at |-> nav.at, path |-> nav.path, next |-> nav.next, shows |-> nav.shows]'
        /\ nav'.at = "shown" /\ nav'.path = Login.path /\ nav'.next = None /\ nav.path = Login.path
    BY <1>0, <1>3, <2>1 DEF SignTypes, AtLogin
  <2>3. ~AtSignOut
    <3>1. Login \notin {Profile, ShopDashboard, RiderProfile}
      BY CustomerPaths, StaffPaths
    <3>. QED
      BY <1>0, <2>2, <3>1, PageOfPath DEF AtSignOut
  <2>4. overtaken'
    BY <1>3, <2>1, <2>3, FlightParts DEF OwnFits
  <2>5. look \in Flight /\ look.next = None /\ look.kind = "look"
    BY DEF LookGoingTo, Flight
  <2>. HIDE DEF look
  <2>6. \A g \in flights' : g \in Flight /\ g.next \in Somewhere /\ (g.own => g.kind # "signout")
    BY <1>0, <2>1, <2>3, <2>5, FlightParts DEF OwnFits
  <2>7. AtLogin' /\ nav'.path # Callback.path /\ PageAt(nav'.path).kind # "forward"
    BY <1>0, <2>2, Landings DEF AtLogin
  <2>8. SignTypes'
    BY <1>0, <2>1, <2>2, <2>6 DEF SignTypes
  <2>9. OwnGoOn'
    BY <2>4, <2>6, <2>7 DEF OwnGoOn, OwnFits
  <2>. QED
    BY <2>4, <2>7, <2>8, <2>9 DEF SignInv, PageIsShown, OnCourse
<1>. QED
  BY <1>1, <1>2, <1>3

-----------------------------------------------------------------------------
(* Sign-in *)

LEMMA SignStarts == SignInit => SignInv
<1>. SUFFICES ASSUME SignInit PROVE SignInv
  OBVIOUS
<1>1. /\ asked \in {About.path, Profile.path} /\ nav = [To(asked, None) EXCEPT !.at = "shown", !.shows = "whole"]
      /\ mode = "signin" /\ flights = {} /\ link = [sent |-> FALSE, next |-> None]
      /\ asks = 0 /\ blips = 0
  BY DEF SignInit
<1>2. nav = [at |-> "shown", path |-> asked, next |-> None, shows |-> "whole"]
  BY <1>1 DEF To
<1>3. /\ asked \in Paths \ {Callback.path} /\ asked # Login.path
      /\ PageAt(asked).kind # "forward"
  <2>1. <<"about">> # <<"login">> /\ <<"profile">> # <<"login">>
        /\ <<"profile">> \notin {<<"auth", "callback">>, << >>, <<"rider">>, <<"admin">>}
    OBVIOUS
  <2>2. Profile.path \in Paths
    BY DEF Paths, Pages
  <2>. QED
    BY <1>1, <2>1, <2>2, Landings, CustomerPaths, PageOfPath
<1>4. nav.at = "shown" /\ nav.path = asked /\ nav.next = None /\ nav.shows = "whole"
      /\ link.sent = FALSE /\ link.next = None
  <2>1. nav.at = "shown" /\ nav.path = asked /\ nav.next = None /\ nav.shows = "whole"
    BY ONLY <1>2
  <2>2. link = [sent |-> FALSE, next |-> None]
    BY ONLY <1>1
  <2>. QED
    BY ONLY <2>1, <2>2
<1>5. SignTypes
  <2>1. 0 \in 0..MaxAsk /\ 0 \in 0..MaxBlip
    BY SignInAssumption
  <2>2. nav = [at |-> nav.at, path |-> nav.path, next |-> nav.next, shows |-> nav.shows]
    BY <1>2, <1>4
  <2>3. link = [sent |-> link.sent, next |-> link.next]
    BY <1>1, <1>4
  <2>. QED
    BY <1>1, <1>3, <1>4, <2>1, <2>2, <2>3 DEF SignTypes, Somewhere
<1>6. OnCourse
  <2>1. nav.path = asked /\ nav.path \notin {Login.path, Callback.path}
    BY <1>3, <1>4
  <2>. QED
    BY ONLY <2>1 DEF OnCourse, Course
<1>. QED
  BY <1>1, <1>3, <1>4, <1>5, <1>6 DEF SignInv, PageIsShown, OwnGoOn

LEMMA SignKept == SignInv /\ [SignNext]_signVars => SignInv'
<1>. SUFFICES ASSUME SignInv, [SignNext]_signVars PROVE SignInv'
  OBVIOUS
<1>1. CASE Guard \/ Render \/ RenderForward \/ RenderCallback \/ RenderLogin
  BY ONLY <1>1, SignInv, GuardKeeps, RenderKeeps, RenderForwardKeeps, RenderCallbackKeeps, RenderLoginKeeps
<1>2. ASSUME NEW f \in flights, EndLook(f) \/ EndForm(f) \/ EndBoot(f) \/ EndSignOut(f)
      PROVE  SignInv'
  BY ONLY <1>2, SignInv, SignEndsKeep, SignOutKeeps
<1>3. ASSUME NEW m \in {"signin", "signup"}, SwitchMode(m)
      PROVE  SignInv'
  BY ONLY <1>3, SignInv, SignFormKeeps
<1>4. ASSUME NEW k \in FormKind, PressForm(k)
      PROVE  SignInv'
  BY ONLY <1>4, SignInv, SignFormKeeps
<1>5. ASSUME NEW p \in First \cup Again, AskFor(p)
      PROVE  SignInv'
  BY ONLY <1>5, SignInv, PersonKeeps
<1>6. CASE OpenLink \/ SignOut \/ SessionEnds \/ ApiTurns
  BY ONLY <1>6, SignInv, PersonKeeps, SignFormKeeps, SignOutKeeps
<1>7. CASE UNCHANGED signVars
  <2>1. /\ link = [sent |-> link.sent, next |-> link.next] /\ link.next \in Somewhere
        /\ mode \in {"signin", "signup", "verify"} /\ asks \in 0..MaxAsk /\ blips \in 0..MaxBlip
    BY DEF SignInv, SignTypes
  <2>. QED
    BY <1>7, <2>1, FlightsKeep, FlightParts DEF signVars
<1>. QED
  BY <1>1, <1>2, <1>3, <1>4, <1>5, <1>6, <1>7 DEF SignNext

LEMMA SignFacts == SignInv => SignTypeOK /\ ShownWhereAsked
<1>. SUFFICES ASSUME SignInv PROVE SignTypeOK /\ ShownWhereAsked
  OBVIOUS
<1>1. SignTypeOK
  BY DEF SignInv, SignTypes, OwnGoOn, OwnFits, SignTypeOK, Somewhere
<1>2. ASSUME nav.at = "shown", ~overtaken
      PROVE  \/ nav.path \in Wanted
             \/ nav.path = Login.path /\ nav.next # None /\ TargetOf(nav.next) \in Wanted
  <2>1. nav.path # Callback.path /\ PageAt(nav.path).kind # "forward" /\ asked \in Paths \ {Callback.path}
    BY <1>2 DEF SignInv, PageIsShown, SignTypes
  <2>2. TargetOf(nav.path) = nav.path
    BY <2>1 DEF TargetOf
  <2>3. CASE nav.path = Login.path /\ nav.next # None
    BY <1>2, <2>1, <2>3, CourseLeads DEF SignInv, OnCourse
  <2>4. CASE nav.path = Login.path /\ nav.next = None
    <3>1. asked = nav.path
      BY <1>2, <2>4 DEF SignInv, OnCourse
    <3>. QED
      BY <2>2, <3>1 DEF Wanted
  <2>5. CASE nav.path # Login.path
    <3>1. nav.path \in Course
      BY <1>2, <2>1, <2>5 DEF SignInv, OnCourse
    <3>. QED
      BY <2>1, <2>2, <3>1, CourseLeads
  <2>. QED
    BY <2>3, <2>4, <2>5
<1>. QED
  BY <1>1, <1>2 DEF ShownWhereAsked, Settled

-----------------------------------------------------------------------------
(***************************************************************************)
(* The app.                                                                *)
(***************************************************************************)

\* Every part begins as it does by itself, visited or not...
LEMMA PartsStart ==
    WebInit => StoreInit /\ BookInit /\ DeskInit /\ FirstInit /\ AdminInit /\ SignInit
BY DEF WebInit, StoreRests, BookRests, FirstRests, AdminRests, SignRests

\* ... and takes its own steps, or stands still.
LEMMA PartsStep ==
    [WebNext]_webVars => /\ [StoreNext]_storeVars /\ [BookNext]_bookVars /\ [DeskNext]_deskVars
                         /\ [FirstNext]_firstVars /\ [AdminNext]_adminVars /\ [SignNext]_signVars
                         /\ UNCHANGED visit
BY DEF WebNext, webVars

WebInv ==
    /\ visit \in Visits
    /\ StoreInv
    /\ BookInv /\ BookShape
    /\ DeskInv
    /\ FirstInv /\ FirstShape
    /\ AdminInv /\ AdminShape
    /\ SignInv

LEMMA WebStarts == WebInit => WebInv
<1>. SUFFICES ASSUME WebInit PROVE WebInv
  OBVIOUS
<1>1. visit \in Visits
  BY DEF WebInit
<1>2. StoreInit /\ BookInit /\ DeskInit /\ FirstInit /\ AdminInit /\ SignInit
  BY PartsStart
<1>3. StoreInv /\ DeskInv /\ SignInv
  BY <1>2, StoreStarts, DeskStarts, SignStarts
<1>4. BookInv /\ BookShape
  BY <1>2, BookInitially, BookShapeStarts
<1>5. FirstInv /\ FirstShape
  BY <1>2, FirstStarts, FirstShapeStarts
<1>6. AdminInv /\ AdminShape
  BY <1>2, AdminStarts, AdminShapeStarts
<1>. QED
  BY <1>1, <1>3, <1>4, <1>5, <1>6 DEF WebInv

LEMMA WebKept == WebInv /\ [WebNext]_webVars => WebInv'
<1>. SUFFICES ASSUME WebInv, [WebNext]_webVars PROVE WebInv'
  OBVIOUS
<1>1. /\ [StoreNext]_storeVars /\ [BookNext]_bookVars /\ [DeskNext]_deskVars
      /\ [FirstNext]_firstVars /\ [AdminNext]_adminVars /\ [SignNext]_signVars
      /\ UNCHANGED visit
  BY PartsStep
<1>2. StoreInv' /\ DeskInv' /\ SignInv'
  BY <1>1, StoreKept, DeskKept, SignKept DEF WebInv
<1>3. BookInv' /\ BookShape'
  BY <1>1, BookInvKept, BookShapeKept DEF WebInv
<1>4. FirstInv' /\ FirstShape'
  BY <1>1, FirstKept, FirstShapeKept DEF WebInv
<1>5. AdminInv' /\ AdminShape'
  BY <1>1, AdminInvKept, AdminShapeKept DEF WebInv
<1>. QED
  BY <1>1, <1>2, <1>3, <1>4, <1>5 DEF WebInv

\* What a run of the app shows of a part, the part's own specification says: the
\* theorems about the parts hold of every visit.
THEOREM VisitsAreTheParts == WebSpec => StoreSpec /\ BookSpec /\ FirstSpec /\ AdminSpec
<1>1. WebInit => StoreInit /\ BookInit /\ FirstInit /\ AdminInit
  BY PartsStart
<1>2. [WebNext]_webVars => /\ [StoreNext]_storeVars /\ [BookNext]_bookVars
                           /\ [FirstNext]_firstVars /\ [AdminNext]_adminVars
  BY PartsStep
<1>. QED
  BY <1>1, <1>2, PTL DEF WebSpec, StoreSpec, BookSpec, FirstSpec, AdminSpec

\* The pages, apiFetch and the handlers.  Whatever the products, shops, addresses,
\* roles, pages, bounds and visit: every part is well typed; a row is locked by one
\* request at most, and a spinner, disabled button or form that waits has what it
\* waits for on the way.
THEOREM PagesFitTheirRequests == WebSpec => []WebTypeOK
<1>1. WebInv => WebTypeOK
  <2>. SUFFICES ASSUME WebInv PROVE WebTypeOK
    OBVIOUS
  <2>1. StoreTypeOK /\ DeskTypeOK /\ SignTypeOK
    BY StoreFacts, DeskFacts, SignFacts DEF WebInv
  <2>2. BookTypeOK /\ FirstTypeOK /\ AdminTypeOK
    BY BookFacts, FirstFacts, AdminFacts DEF WebInv
  <2>. QED
    BY <2>1, <2>2 DEF WebInv, WebTypeOK
<1>. QED
  BY WebStarts, WebKept, <1>1, PTL DEF WebSpec

\* CartManager.tsx, ProductManager.tsx.  Whatever is pressed, given up and
\* answered in whatever order: a page at rest shows what the server has, unless
\* requests overlapped or the change was made elsewhere.
THEOREM QuietPagesShowTheServer == WebSpec => []PagesShowTheServer
<1>1. WebInv => PagesShowTheServer
  BY StoreFacts, DeskFacts DEF WebInv, PagesShowTheServer
<1>. QED
  BY WebStarts, WebKept, <1>1, PTL DEF WebSpec

\* middleware.ts, session.ts, redirect.ts, LoginFlow.tsx, auth/callback,
\* SignOutButton.tsx.  Whatever the routes asked for, the roles, the redirects,
\* sign-ins, sign-outs and failures on the way: who comes to rest on a page is
\* where they asked to be, on the landing page, or on a login page that still knows
\* where to go on to; or a sign-in, look or sign-out of a page they had left took
\* them along, the link failed, or the callback was not told their roles.
THEOREM ArrivesWhereAsked == WebSpec => []ShownWhereAsked
<1>1. WebInv => ShownWhereAsked
  BY SignFacts DEF WebInv
<1>. QED
  BY WebStarts, WebKept, <1>1, PTL DEF WebSpec
=============================================================================
