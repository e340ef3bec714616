--------------------------- MODULE UserDirectory ---------------------------
(***************************************************************************)
(* The directory of users: create_user, update_user, set_user_headquarters *)
(* and delete_user of users/service.py, and the cached list of users of    *)
(* users/router.py.  It details the database work that Sessions leaves     *)
(* open: the edits of one user's row of users and of his rows of           *)
(* user_roles, ase_tsm_mapping, user_depot and user_headquarters_mapping.  *)
(*                                                                         *)
(* Every call of the database is a transaction of its own.  The service is *)
(* synchronous: while it works no other request of its process advances,   *)
(* but the requests of another process do.  The work of an edit is a list  *)
(* of groups of writes; when a write fails, the code either gives up the   *)
(* rest of its group and goes on, or gives up the rest of the edit.        *)
(***************************************************************************)
EXTENDS Sessions

CONSTANTS
    Role,           \* roles
    OneHqRole,      \* those whose holders have at most one headquarters
    Manager, Depot, Hq,
    Payload         \* bound: the edits that administrators make
\* A mix also gives the edits that occur in it, their number, whether the list
\* of users is read, and the role the user has at first, Nobody for no row.

Nobody   == "nobody"
RowState == {"none", "off", "on"}
Keep     == "keep"
Clear    == "clear"
Unknown  == "unknown"   \* a name, or an id, that no row of its table has

\* is_active as JSON: the Booleans, the strings the router knows, and whatever
\* else Python takes for true, like 1, or for false, like 0 and "".
Status == {Keep, "true", "false", "active", "inactive", "one", "zero"}

(***************************************************************************)
(* A payload: the operation, the new is_active, role, manager and depot,   *)
(* and the list of headquarters if one is given.  A creation names a role  *)
(* and creates a user who is active; the other operations than an update   *)
(* have no fields but their own.  (A payload that is refused before the    *)
(* first write changes nothing and is left out.)                           *)
(***************************************************************************)
Operation == {"create", "update", "delete", "headquarters"}
PayloadOK(p) ==
    /\ p.op \in Operation
    /\ p.status \in Status
    /\ p.role \in Role \cup {Keep, Unknown}
    /\ p.manager \in Manager \cup {Keep, Clear, Unknown}
    /\ p.depot \in Depot \cup {Keep, Clear, Unknown}
    /\ p.hqGiven \in BOOLEAN /\ p.hq \in Seq(Hq \cup {Unknown})
    /\ p.op # "update" => p.status = Keep
    /\ p.op = "create" => p.role # Keep /\ Clear \notin {p.manager, p.depot}
    /\ p.op \in {"delete", "headquarters"} =>
          /\ {p.role, p.manager, p.depot} = {Keep}
          /\ p.hqGiven <=> p.op = "headquarters"

ASSUME DirectoryAssumption ==
    /\ OneHqRole \subseteq Role
    /\ {Nobody, Keep, Unknown} \cap Role = {} /\ Unknown \notin Hq
    /\ {Keep, Clear, Unknown} \cap (Manager \cup Depot) = {}
    /\ Payload # {} /\ \A p \in Payload : PayloadOK(p)
    /\ \A m \in Mixes : /\ m.payloads \subseteq Payload /\ m.edits \in Nat
                        /\ m.lists \in BOOLEAN /\ m.known \subseteq Role \cup {Nobody}

VARIABLES
    roles,          \* user_roles: the user's row for each role, if any
    managers,       \* ase_tsm_mapping: his rows, per manager
    depots,         \* user_depot
    hqs,            \* user_headquarters_mapping, per headquarters
    exists,         \* has users a row for him?
    job,            \* the edit each request makes
    edits,          \* bound: edits begun
    listed,         \* rll:cache:users_list in Redis: "none", "fresh" or "stale"
    copies,         \* and in the fallback store of each process
    reader,         \* a call of list_users under way, and what it has read
    \* history
    overlapped,     \* have two edits overlapped?
    astray          \* has one of four things befallen the list, since all of
                    \* it was last deleted with no reader under way: an edit
                    \* has overtaken a reader, one that failed has been answered
                    \* with an error, a process has lost touch with Redis when
                    \* it deleted or stored the list, list_users has failed?

tableVars     == <<roles, managers, depots, hqs, exists>>
listVars      == <<listed, copies, reader, astray>>
directoryVars == <<tableVars, job, edits, overlapped, listVars>>
vars          == <<sessionVars, directoryVars>>

NoJob == [payload |-> CHOOSE p \in Payload : TRUE, todo |-> <<>>, hq |-> <<>>,
          before |-> <<>>, alone |-> FALSE, refused |-> FALSE]

Write == {"users", "roles_status", "managers_status", "hqs_status",
          "roles_off", "role_on", "manager_off", "manager_on",
          "depot_off", "depot_on", "hq_check", "hq_off", "hq_on"}

Tables == [account |-> account, roles |-> roles, managers |-> managers,
           depots |-> depots, hqs |-> hqs]

TablesType == [account : {"active", "inactive"}, roles : [Role -> RowState],
               managers : [Manager -> RowState], depots : SUBSET Depot,
               hqs : [Hq -> RowState]]

Group == [fatal : BOOLEAN, writes : Seq(Write)]

JobType == [payload : Payload, todo : Seq(Group), hq : Seq(Hq),
            before : {<<>>} \cup TablesType, alone : BOOLEAN, refused : BOOLEAN]

Copy == {"none", "fresh", "stale"}

TypeOK ==
    /\ SessionTypeOK
    /\ Tables \in TablesType /\ exists \in BOOLEAN
    /\ job \in [Request -> JobType]
    /\ edits \in 0..mix.edits
    /\ listed \in Copy /\ copies \in [Process -> Copy] /\ reader \in Copy
    /\ overlapped \in BOOLEAN /\ astray \in BOOLEAN

Init ==
    /\ SessionInit
    /\ \E first \in mix.known :
        /\ exists = (first # Nobody)
        /\ roles = [x \in Role |-> IF x = first THEN "on" ELSE "none"]
    /\ account = IF exists THEN "active" ELSE "inactive"
    /\ managers = [m \in Manager |-> "none"]
    /\ depots = {}
    /\ hqs = [h \in Hq |-> "none"]
    /\ job = [r \in Request |-> NoJob]
    /\ edits = 0
    /\ listed = "none" /\ copies = [p \in Process |-> "none"] /\ reader = "none"
    /\ overlapped = FALSE /\ astray = FALSE

-----------------------------------------------------------------------------
(***************************************************************************)
(* The groups of writes of an edit, in their order.                        *)
(***************************************************************************)
Tolerant(writes) == <<[fatal |-> FALSE, writes |-> writes]>>
Fatal(writes)    == <<[fatal |-> TRUE, writes |-> writes]>>
When(given, groups) == IF given THEN groups ELSE <<>>

StatusGroups ==
    Tolerant(<<"roles_status">>) \o Tolerant(<<"managers_status">>)
        \o Tolerant(<<"hqs_status">>)

\* A depot that is not found is passed over.
DepotGroups(p) ==
    CASE p.depot \in {Keep, Unknown} -> <<>>
      [] p.depot = Clear             -> Fatal(<<"depot_off">>)
      [] OTHER                       -> Tolerant(<<"depot_off", "depot_on">>)

HqWrites(list) ==
    IF list = <<>> THEN <<"hq_check", "hq_off">> ELSE <<"hq_check", "hq_off", "hq_on">>

\* A role that cannot be written is fatal to an update and not to a creation.
\* A role that is not found is passed over by both.
CreateGroups(p) ==
    Fatal(<<"users">>)
        \o When(p.role \in Role, Tolerant(<<"roles_off">>) \o Tolerant(<<"role_on">>))
        \o When(p.manager \in Manager, Tolerant(<<"manager_off", "manager_on">>))
        \o When(p.depot \in Depot, DepotGroups(p))
        \o When(p.hqGiven /\ p.hq # <<>>, Tolerant(HqWrites(p.hq)))

\* Mutant: the status is spread although none is given.
UpdateStatusAlways(p) ==
    Fatal(<<"users">>) \o StatusGroups
        \o When(p.role \in Role, Tolerant(<<"roles_off">>) \o Fatal(<<"role_on">>))
        \o When(p.manager \in Manager, Tolerant(<<"manager_off", "manager_on">>))
        \o When(p.manager \in {Clear, Unknown}, Tolerant(<<"manager_off">>))
        \o DepotGroups(p)
        \o When(p.hqGiven, Fatal(HqWrites(p.hq)))

\* Mutant: the status is spread after the other fields have been written.
UpdateStatusLast(p) ==
    Fatal(<<"users">>)
        \o When(p.role \in Role, Tolerant(<<"roles_off">>) \o Fatal(<<"role_on">>))
        \o When(p.manager \in Manager, Tolerant(<<"manager_off", "manager_on">>))
        \o When(p.manager \in {Clear, Unknown}, Tolerant(<<"manager_off">>))
        \o DepotGroups(p)
        \o When(p.hqGiven, Fatal(HqWrites(p.hq)))
        \o When(p.status # Keep, StatusGroups)

\* The row of users notes at least who made the update.  A manager that is not
\* found is taken for one that is cleared.
UpdateGroups(p) ==
    Fatal(<<"users">>) \o When(p.status # Keep, StatusGroups)
        \o When(p.role \in Role, Tolerant(<<"roles_off">>) \o Fatal(<<"role_on">>))
        \o When(p.manager \in Manager, Tolerant(<<"manager_off", "manager_on">>))
        \o When(p.manager \in {Clear, Unknown}, Tolerant(<<"manager_off">>))
        \o DepotGroups(p)
        \o When(p.hqGiven, Fatal(HqWrites(p.hq)))

DeleteGroups == Tolerant(<<"users">>) \o StatusGroups

HeadquartersGroups(p) == Fatal(HqWrites(p.hq))

Groups(p) ==
    CASE p.op = "create"       -> CreateGroups(p)
      [] p.op = "update"       -> UpdateGroups(p)
      [] p.op = "delete"       -> DeleteGroups
      [] p.op = "headquarters" -> HeadquartersGroups(p)

\* The request of Sessions that makes the edit: the router looks at is_active
\* by itself, and knows some values only.
KindOf(p) ==
    CASE p.op = "create"                                           -> "create"
      [] p.op = "delete" \/ p.status \in {"false", "inactive"}     -> "deactivate"
      [] p.op # "create" /\ p.status \in {"true", "active"}        -> "reactivate"
      [] OTHER                                                     -> "edit"

\* An edit the caller hears of when it fails: the others answer success.
Reports(p) == p.op \in {"create", "headquarters"}

-----------------------------------------------------------------------------
(***************************************************************************)
(* What an edit should come to: all of its fields, and nothing else.  The  *)
(* service writes is_active by its truth value, also in roles and mappings *)
(* (the string "inactive" is true), and passes over what it does not find, *)
(* but for a manager: the update that names him leaves the user with none. *)
(***************************************************************************)
Turn(rows, status) ==
    [x \in DOMAIN rows |-> IF rows[x] = "none" THEN "none" ELSE status]
Only(rows, y) == [x \in DOMAIN rows |-> IF x = y THEN "on" ELSE "none"]

\* bool(is_active)
Truth(status) == IF status \in {"false", "zero"} THEN "off" ELSE "on"

StatusOf(p) ==
    IF p.op = "delete" THEN "off"
    ELSE IF p.status = Keep THEN Keep ELSE Truth(p.status)

AccountAfter(p, before) ==
    CASE StatusOf(p) = "off"                      -> "inactive"
      [] StatusOf(p) = "on" \/ p.op = "create"    -> "active"
      [] OTHER                                    -> before

WithStatus(p, rows) ==
    IF StatusOf(p) = Keep \/ p.op = "create" THEN rows ELSE Turn(rows, StatusOf(p))

Applied(p, b) ==
    [account  |-> AccountAfter(p, b.account),
     roles    |-> IF p.role \notin Role THEN WithStatus(p, b.roles)
                  ELSE [Turn(b.roles, "off") EXCEPT ![p.role] = "on"],
     managers |-> CASE p.manager \in Manager -> Only(b.managers, p.manager)
                    [] p.manager = Clear \/ (p.manager = Unknown /\ p.op = "update")
                                             -> Turn(b.managers, "none")
                    [] OTHER                 -> WithStatus(p, b.managers),
     depots   |-> CASE p.depot \in Depot -> {p.depot}
                    [] p.depot = Clear   -> {}
                    [] OTHER             -> b.depots]

Chosen(list) == {list[i] : i \in 1..Len(list)}

\* The headquarters given, or the last of them for the holder of one.  A list
\* with one that is unknown, inactive or another tenant's is refused.
HqRows(p, b, list) ==
    IF Unknown \in Chosen(list) THEN WithStatus(p, b.hqs)
    ELSE [h \in Hq |-> IF h \in Chosen(list) THEN "on" ELSE "none"]

HqOutcome(p, b) ==
    IF ~p.hqGiven \/ (p.op = "create" /\ p.hq = <<>>) THEN {WithStatus(p, b.hqs)}
    ELSE {HqRows(p, b, list) :
            list \in {p.hq} \cup (IF p.hq = <<>> THEN {} ELSE {<<p.hq[Len(p.hq)]>>})}

-----------------------------------------------------------------------------
(***************************************************************************)
(* The steps.  Other requests of a process wait while its directory works. *)
(***************************************************************************)
LoopFree(r) ==
    \A q \in Request \ {r} : IsAt(q, "edited") => Proc(q) # Proc(r)

Editing(r) == request[r].kind \in Administration \ {"reset"}
                /\ request[r].at \in {"edit", "edited"}

\* Everything a request has read before an edit is out of date afterwards.
Age(value) == IF value = "fresh" THEN "stale" ELSE value
ListAges ==
    /\ listed' = Age(listed)
    /\ copies' = [p \in Process |-> Age(copies[p])]
    /\ reader' = Age(reader)
    /\ astray' = (astray \/ reader # "none")

\* create_user refuses a user who has a row.
BeginOther(r) ==
    /\ Begin(r)
    /\ request'[r].kind \notin Administration \ {"reset"}
    /\ UNCHANGED directoryVars

BeginEdit(r) ==
    /\ edits < mix.edits /\ edits' = edits + 1
    /\ Begin(r)
    /\ \E p \in mix.payloads :
        /\ request'[r].kind = KindOf(p)
        /\ (p.op = "create") <=> ~exists
        /\ LET alone == ~\E q \in Request : Editing(q) IN
           job' = [q \in Request |->
               IF q = r THEN [NoJob EXCEPT !.payload = p, !.todo = Groups(p),
                                           !.alone = alone,
                                           !.before = IF alone THEN Tables ELSE <<>>]
               ELSE IF Editing(q) THEN [job[q] EXCEPT !.alone = FALSE, !.before = <<>>]
               ELSE job[q]]
           /\ overlapped' = (overlapped \/ ~alone)
    /\ UNCHANGED <<tableVars, listVars>>

\* set_user_headquarters looks at some row of user_roles, active or not.
Allowed(list) ==
    {list} \cup
    (IF Len(list) > 1 /\ \E x \in OneHqRole : roles[x] # "none"
     THEN {<<list[Len(list)]>>} ELSE {})

\* Mutant: the role is not looked at.
NeverCut(list) == FALSE

MustCut(list) ==
    Len(list) > 1 /\ (\E x \in Role : roles[x] # "none")
                  /\ \A x \in Role : roles[x] # "none" => x \in OneHqRole

Put(rows, y, state) == [rows EXCEPT ![y] = state]
NoRows(rows) == [x \in DOMAIN rows |-> "none"]

Perform(r, write) ==
    LET p == job[r].payload IN
    /\ roles' = CASE write = "roles_status" -> Turn(roles, StatusOf(p))
                  [] write = "roles_off"    -> Turn(roles, "off")
                  [] write = "role_on"      -> Put(roles, p.role, "on")
                  [] OTHER                  -> roles
    /\ managers' = CASE write = "managers_status" -> Turn(managers, StatusOf(p))
                     [] write = "manager_off"     -> NoRows(managers)
                     [] write = "manager_on"      -> Put(managers, p.manager, "on")
                     [] OTHER                     -> managers
    /\ depots' = CASE write = "depot_off" -> {}
                   [] write = "depot_on"  -> depots \cup {p.depot}
                   [] OTHER               -> depots
    /\ hqs' = CASE write = "hqs_status" -> Turn(hqs, StatusOf(p))
                [] write = "hq_off"     -> NoRows(hqs)
                [] write = "hq_on"      ->
                     [h \in Hq |-> IF h \in Chosen(job[r].hq) THEN "on" ELSE hqs[h]]
                [] OTHER                -> hqs
    /\ exists' = (exists \/ write = "users")

\* What is left of an edit after its first write has succeeded, or failed.
Rest(todo) ==
    LET g == Head(todo) IN
    IF Len(g.writes) = 1 THEN Tail(todo)
    ELSE <<[g EXCEPT !.writes = Tail(@)]>> \o Tail(todo)

RestAfterFailure(todo) == IF Head(todo).fatal THEN <<>> ELSE Tail(todo)

Stopped(j) == [j EXCEPT !.todo = RestAfterFailure(@),
                        !.refused = Head(j.todo).fatal /\ Reports(j.payload)]

\* Nothing is claimed of an edit that has met another, or a failure.
Spoilt(j) == [j EXCEPT !.alone = FALSE, !.before = <<>>]

NextWrite(r) == Head(Head(job[r].todo).writes)

\* The row of users: the first write of an edit that has one.
WriteUsers(r) ==
    /\ job[r].todo # <<>> /\ NextWrite(r) = "users"
    /\ EditAccount(r)
    /\ IF faults' > faults
       THEN /\ job' = [job EXCEPT ![r] = Spoilt(Stopped(@))]
            /\ UNCHANGED <<tableVars, listVars>>
       ELSE /\ Perform(r, "users")
            /\ account' = AccountAfter(job[r].payload, account)
            /\ job' = [job EXCEPT ![r].todo = Rest(@)]
            /\ ListAges
    /\ UNCHANGED <<edits, overlapped>>

\* The other edits begin here.
StartEdit(r) ==
    /\ IsAt(r, "edit") /\ Editing(r)
    /\ job[r].todo # <<>> /\ NextWrite(r) # "users"
    /\ EditAccount(r) /\ faults' = faults /\ account' = account
    /\ UNCHANGED directoryVars

WriteTable(r) ==
    /\ IsAt(r, "edited") /\ Editing(r)
    /\ job[r].todo # <<>> /\ NextWrite(r) \notin {"users", "hq_check"}
    /\ Perform(r, NextWrite(r))
    /\ job' = [job EXCEPT ![r].todo = Rest(@)]
    /\ ListAges
    /\ UNCHANGED <<sessionVars, edits, overlapped>>

CheckedHq(j, list) ==
    IF Unknown \in Chosen(list) THEN Stopped(j)
    ELSE [j EXCEPT !.todo = Rest(@), !.hq = list]

CheckHq(r) ==
    /\ IsAt(r, "edited") /\ Editing(r)
    /\ job[r].todo # <<>> /\ NextWrite(r) = "hq_check"
    /\ \E list \in Allowed(job[r].payload.hq) :
        /\ MustCut(job[r].payload.hq) => list # job[r].payload.hq
        /\ job' = [job EXCEPT ![r] = CheckedHq(@, list)]
    /\ UNCHANGED <<sessionVars, tableVars, edits, overlapped, listVars>>

WriteFails(r) ==
    /\ EditFails(r) /\ Editing(r)
    /\ job[r].todo # <<>>
    /\ job' = [job EXCEPT ![r] = Spoilt(Stopped(@))]
    /\ UNCHANGED <<tableVars, edits, overlapped, listVars>>

(***************************************************************************)
(* A name is looked up before its first write.  When that fails, the code  *)
(* goes on as if there were no such role, manager or depot, and as if the  *)
(* user's role allowed all the headquarters that are given.                *)
(***************************************************************************)
LooksUp(g) ==
    \/ Head(g.writes) \in {"roles_off", "hq_check"}
    \/ Head(g.writes) \in {"manager_off", "depot_off"} /\ Len(g.writes) > 1

NotFound(j) ==
    LET write == Head(Head(j.todo).writes) IN
    CASE write = "hq_check"  -> CheckedHq(j, j.payload.hq)
      [] write = "roles_off" -> [j EXCEPT !.todo = SubSeq(@, 3, Len(@))]
      [] write = "manager_off" /\ j.payload.op = "update" ->
           [j EXCEPT !.todo = Tolerant(<<"manager_off">>) \o Tail(@)]
      [] OTHER -> [j EXCEPT !.todo = Tail(@)]

LookupFails(r) ==
    /\ EditFails(r) /\ Editing(r)
    /\ job[r].todo # <<>> /\ LooksUp(Head(job[r].todo))
    /\ job' = [job EXCEPT ![r] = Spoilt(NotFound(@))]
    /\ UNCHANGED <<tableVars, edits, overlapped, listVars>>

\* Mutant: the answer is sent before the flag is set.
EndEditAtOnce(r) ==
    /\ IsAt(r, "edited") /\ Editing(r)
    /\ job[r].todo = <<>>
    /\ Finish(r)
    /\ job' = [job EXCEPT ![r] = NoJob]
    /\ UNCHANGED <<storeVars, boundVars, historyVars, tableVars, edits, overlapped, listVars>>

\* An edit that reports its failure leaves without refreshing the list.
EndEdit(r) ==
    /\ FinishEdit(r) /\ Editing(r)
    /\ job[r].todo = <<>>
    /\ job[r].refused <=> (request'[r] = Idle)
    /\ job' = [job EXCEPT ![r] = NoJob]
    /\ astray' = (astray \/ job[r].refused)
    /\ UNCHANGED <<tableVars, edits, overlapped, listed, copies, reader>>

ResetPassword(r) ==
    /\ request[r].kind = "reset"
    /\ EditAccount(r) \/ FinishEdit(r)
    /\ UNCHANGED directoryVars

\* Mutant: the list is left to the reader that is started.
KeepList(r) ==
    /\ RefreshList(r)
    /\ UNCHANGED directoryVars

\* refresh_users_list_cache deletes the list, and starts a reader.  A deletion
\* that fails in Redis is passed over; the copy of the process is gone.
PurgeList(r) ==
    /\ RefreshList(r)
    /\ copies' = [copies EXCEPT ![Proc(r)] = "none"]
    /\ \/ /\ listed' = "none"
          /\ astray' = (astray /\ (reader # "none" \/ \E p \in Process : copies'[p] # "none"))
       \/ /\ listed # "none" /\ UNCHANGED listed
          /\ astray' = TRUE
    /\ UNCHANGED <<tableVars, job, edits, overlapped, reader>>

\* list_users reads table by table: what an edit under way has still to
\* write, and what comes later, is missing from what is read here.  When the
\* database fails it answers with the users this process has created.
ReadList ==
    /\ reader = "none" /\ exists /\ mix.lists
    /\ \/ /\ reader' = "fresh"
          /\ astray' = (astray \/ \E r \in Request : IsAt(r, "edited") /\ Editing(r))
       \/ reader' = "stale" /\ astray' = TRUE
    /\ UNCHANGED <<sessionVars, tableVars, job, edits, overlapped, listed, copies>>

\* safe_set: in Redis, or in the memory of the process when that fails
StoreList ==
    /\ reader # "none" /\ reader' = "none"
    /\ \/ listed' = reader /\ UNCHANGED <<copies, astray>>
       \/ /\ \E p \in mix.processes : copies' = [copies EXCEPT ![p] = reader]
          /\ astray' = TRUE /\ UNCHANGED listed
    /\ UNCHANGED <<sessionVars, tableVars, job, edits, overlapped>>

ExpireList ==
    /\ \/ listed # "none" /\ listed' = "none" /\ UNCHANGED copies
       \/ /\ \E p \in Process : /\ copies[p] # "none"
                                /\ copies' = [copies EXCEPT ![p] = "none"]
          /\ UNCHANGED listed
    /\ UNCHANGED <<sessionVars, tableVars, job, edits, overlapped, reader, astray>>

-----------------------------------------------------------------------------
DirectoryStep(r) ==
    \/ WriteUsers(r) \/ StartEdit(r) \/ WriteTable(r) \/ CheckHq(r) \/ EndEdit(r)
    \/ ResetPassword(r)

Serve(r) == IF IsAt(r, "refresh_list") THEN PurgeList(r)
            ELSE ServeStep(r) /\ UNCHANGED directoryVars

RequestStep(r) == LoopFree(r) /\ (Serve(r) \/ DirectoryStep(r))

Next ==
    \/ \E r \in Request :
        \/ BeginOther(r) \/ BeginEdit(r)
        \/ RequestStep(r)
        \/ LoopFree(r) /\ (WriteFails(r) \/ LookupFails(r))
    \/ ReadList \/ StoreList \/ ExpireList
    \/ ExpireStep /\ UNCHANGED directoryVars

\* What is cached for five minutes goes in the end; no request need go on.
Fairness ==
    /\ WF_vars(ExpireProfile /\ UNCHANGED directoryVars)
    /\ \A p \in Process : /\ WF_vars(ExpireRam(p) /\ UNCHANGED directoryVars)
                          /\ WF_vars(ForgetMemory(p) /\ UNCHANGED directoryVars)

Spec == Init /\ [][Next]_vars /\ Fairness

-----------------------------------------------------------------------------
(***************************************************************************)
(* Properties, with those of Sessions.                                     *)
(***************************************************************************)
\* An edit that no other edit overlaps, and none of whose calls fails, changes
\* the user's rows in all its tables to exactly what the service takes it to
\* say: is_active by its truth value, so that "inactive" makes a user active
\* whom the router has taken for deactivated; every field it names, except
\* that a role or depot that is not found and a list with a headquarters that
\* is not valid leave their rows alone, and a manager that an update does not
\* find leaves none (create_user, update_user, delete_user,
\* set_user_headquarters).
EditIsWhole ==
    \A r \in Request :
        IsAt(r, "edited") /\ Editing(r) /\ job[r].todo = <<>> /\ job[r].alone =>
            LET p == job[r].payload  b == job[r].before  a == Applied(p, b) IN
            /\ account = a.account /\ roles = a.roles
            /\ managers = a.managers /\ depots = a.depots
            /\ hqs \in HqOutcome(p, b)

\* "ASE and TSM / ASM can have at most 1 headquarters": it holds, as long as
\* users are created with a role that exists, the user has never had another
\* role, no two edits overlap and no call fails (set_user_headquarters, which
\* looks at any row of user_roles, and cuts nothing when there is none).
OneHq ==
    /\ ~overlapped /\ faults = 0
    /\ \A p \in mix.payloads : p.op = "create" => p.role \in Role
    /\ \E x \in Role : roles[x] # "none"
    /\ \A x \in Role : roles[x] # "none" => x \in OneHqRole
    /\ ~\E r \in Request : Editing(r)
    => Cardinality({h \in Hq : hqs[h] = "on"}) <= 1

\* The cached list of users, which lives for a day in Redis or in the memory of
\* a process, is out of date only while an edit is on its way to purging it,
\* unless the list has gone astray: an edit has overtaken a call of list_users,
\* or failed with an error, or a deletion, storing or reading of the list has
\* failed, which the code passes over.  A purge that reaches Redis while no
\* reader is under way and no other process holds a copy ends that exception
\* (refresh_users_list_cache, list_users).
ListIsFresh ==
    (listed = "stale" \/ \E p \in Process : copies[p] = "stale") /\ ~astray =>
        \E r \in Request : request[r].kind \in Administration

=============================================================================
