------------------------- MODULE ReportPermissions --------------------------
(***************************************************************************)
(* The administration of report and menu permissions under several         *)
(* administrators at once: the per-report panel (api/routes/roles.py), the *)
(* per-subject screens (api/routes/permissions_admin.py), the deletion of  *)
(* groups, local users and reports (groups.py, users.py, reports.py) and   *)
(* the grant to the author of a report (pbix_import.py).                   *)
(*                                                                         *)
(* A request is one READ COMMITTED transaction: it locks the row of a user *)
(* or a group, reads the rows that exist, and commits what is missing.     *)
(* Roles and departments have no row lock.  Inserts and deletes take       *)
(* effect at the commit; a row that appeared meanwhile (UNIQUE), or a      *)
(* report that is gone (foreign key), makes the transaction roll back.     *)
(***************************************************************************)
EXTENDS Naturals, FiniteSets

CONSTANTS
    Owners,         \* users and groups: subjects with a row lock
    Categories,     \* roles and departments: subjects without one
    Reports,
    View,           \* PermissionAction.VIEW
    Implying,       \* ACTIONS_IMPLYING_VIEW
    Plain,          \* the other codes: VIEW_STATS
    MenuKeys,       \* GRANTABLE_MENU_KEYS
    Admins,         \* requests that can be under way at a time
    None            \* the value of a row lock nobody holds

Subjects == Owners \cup Categories
Codes == {View} \cup Implying \cup Plain
Grants == Reports \X Subjects \X Codes

ASSUME ConstantsOK ==
    /\ Owners \cap Categories = {}
    /\ View \notin Implying \cup Plain
    /\ Implying \cap Plain = {}
    /\ None \notin Admins

VARIABLES
    granted,    \* the committed rows of report_permissions
    menus,      \* menus[s]: the committed rows of menu_permissions
    owners,     \* the users and groups that exist
    reports,    \* the reports that exist
    locked,     \* locked[s]: who holds SELECT ... FOR UPDATE on the row of s
    pc,         \* pc[a]: where request a is
    req,        \* req[a]: what it asks for
    found       \* found[a]: the rows it read

tables == <<granted, menus, owners, reports>>
vars == <<tables, locked, pc, req, found>>

-----------------------------------------------------------------------------
Op == {"grant", "bulk", "set", "revoke", "menus", "delete"}
Request == [op : Op, subject : Subjects, reports : SUBSET Reports,
            codes : SUBSET (Codes \cup MenuKeys)]
PC == {"idle", "lock", "read", "write"}

TypeOK ==
    /\ granted \subseteq Grants
    /\ menus \in [Owners -> SUBSET MenuKeys]
    /\ owners \subseteq Owners
    /\ reports \subseteq Reports
    /\ locked \in [Owners -> Admins \cup {None}]
    /\ pc \in [Admins -> PC]
    /\ req \in [Admins -> Request \cup {None}]
    /\ found \in [Admins -> SUBSET Grants]

\* Subjects and reports get fresh ids: one that is not there yet has no rows,
\* and one that is gone never comes back.
Init ==
    /\ granted = {}
    /\ menus = [s \in Owners |-> {}]
    /\ owners = Owners
    /\ reports = Reports
    /\ locked = [s \in Owners |-> None]
    /\ pc = [a \in Admins |-> "idle"]
    /\ req = [a \in Admins |-> None]
    /\ found = [a \in Admins |-> {}]

\* Faulty variant: a code is granted without the VIEW that it needs.
AsRequested(cs) == cs

\* normalize_grant_codes: the codes, with VIEW if one of them implies it.
Normalized(cs) == cs \cup {c \in {View} : cs \cap Implying # {}}

Rows(rs, s, cs) == rs \X {s} \X cs

Scope(q) == Rows(q.reports, q.subject, Codes)
Wanted(q) == Rows(q.reports, q.subject, Normalized(q.codes))

-----------------------------------------------------------------------------
(***************************************************************************)
(* A request arrives                                                       *)
(***************************************************************************)

Submit(a, q, rows) ==
    /\ pc[a] = "idle"
    /\ pc' = [pc EXCEPT ![a] = "lock"]
    /\ req' = [req EXCEPT ![a] = q]
    /\ found' = [found EXCEPT ![a] = rows]
    /\ UNCHANGED <<tables, locked>>

\* POST /api/reports/{report}/permissions, of a single code.
AskGrant(a) ==
    \E s \in Subjects, r \in reports, c \in Codes :
        Submit(a, [op |-> "grant", subject |-> s, reports |-> {r},
                   codes |-> {c}], {})

\* POST .../permissions/bulk for one report, POST .../bulk-grant for several,
\* and the VIEW_STATS of an author when the report is registered.
AskBulk(a) ==
    \E s \in Subjects, rs \in (SUBSET reports) \ {{}}, cs \in (SUBSET Codes) \ {{}} :
        Submit(a, [op |-> "bulk", subject |-> s, reports |-> rs,
                   codes |-> cs], {})

\* PUT /api/permission-admin/report-permissions/{groups, users}/{s}.
AskSet(a) ==
    \E s \in Owners, rs \in (SUBSET reports) \ {{}}, cs \in (SUBSET Codes) \ {{}} :
        Submit(a, [op |-> "set", subject |-> s, reports |-> rs,
                   codes |-> cs], {})

\* DELETE /api/reports/{report}/permissions/{id}: the id names one row, whose
\* subject is read before its row is locked.
AskRevoke(a) ==
    \E g \in granted :
        Submit(a, [op |-> "revoke", subject |-> g[2], reports |-> {g[1]},
                   codes |-> {g[3]}], {g})

\* Faulty variant: keys outside GRANTABLE_MENU_KEYS are let in.
AskAnyMenus(a) ==
    \E s \in Owners, ks \in SUBSET (MenuKeys \cup Codes) :
        Submit(a, [op |-> "menus", subject |-> s, reports |-> {},
                   codes |-> ks], {})

\* PUT /api/permission-admin/menu-permissions/{user, group}/{s}; any other key
\* is refused with 400.
AskMenus(a) ==
    \E s \in Owners, ks \in SUBSET MenuKeys :
        Submit(a, [op |-> "menus", subject |-> s, reports |-> {},
                   codes |-> ks], {})

\* DELETE /api/groups/{s}, DELETE /api/users/local/{s}.
AskDelete(a) ==
    \E s \in Owners :
        Submit(a, [op |-> "delete", subject |-> s, reports |-> {},
                   codes |-> {}], {})

-----------------------------------------------------------------------------
(***************************************************************************)
(* The row lock and the reads                                              *)
(***************************************************************************)

\* Faulty variant: SELECT without FOR UPDATE.
NeverWaits(s) == TRUE

\* FOR UPDATE waits until the holder commits or rolls back.
RowFree(s) == locked[s] = None

\* What a request does once it holds the row, or needs none.
AfterLock(q) == IF q.op \in {"grant", "bulk", "set"} THEN "read" ELSE "write"

\* The end of a transaction frees its row.
Unlocked(a) == [s \in Owners |-> IF locked[s] = a THEN None ELSE locked[s]]

Finish(a) ==
    /\ locked' = Unlocked(a)
    /\ pc' = [pc EXCEPT ![a] = "idle"]
    /\ req' = [req EXCEPT ![a] = None]

\* The row of a subject that was deleted meanwhile is not found: 404.
LockSubject(a) ==
    LET s == req[a].subject
    IN  /\ pc[a] = "lock" /\ s \in Owners /\ RowFree(s)
        /\ \/ /\ s \in owners
              /\ locked' = [locked EXCEPT ![s] = a]
              /\ pc' = [pc EXCEPT ![a] = AfterLock(req[a])]
              /\ UNCHANGED <<req, found>>
           \/ /\ s \notin owners
              /\ Finish(a)
              /\ found' = [found EXCEPT ![a] = {}]
        /\ UNCHANGED tables

\* Roles and departments are not locked, nor looked up.
SkipLock(a) ==
    /\ pc[a] = "lock" /\ req[a].subject \in Categories
    /\ pc' = [pc EXCEPT ![a] = AfterLock(req[a])]
    /\ UNCHANGED <<tables, locked, req, found>>

\* The reports must exist, or 404; a single grant of a code that is there is
\* refused with 409.  The queries of one handler are one step: what another
\* request inserts between two of them conflicts at the commit.
ReadExisting(a) ==
    LET q == req[a]
        rows == granted \cap Scope(q)
        refused == \/ ~(q.reports \subseteq reports)
                   \/ q.op = "grant" /\ Rows(q.reports, q.subject, q.codes) \subseteq rows
    IN  /\ pc[a] = "read"
        /\ \/ /\ ~refused
              /\ found' = [found EXCEPT ![a] = rows]
              /\ pc' = [pc EXCEPT ![a] = "write"]
              /\ UNCHANGED <<locked, req>>
           \/ /\ refused
              /\ Finish(a)
              /\ UNCHANGED found
        /\ UNCHANGED tables

-----------------------------------------------------------------------------
(***************************************************************************)
(* Writes and the commit                                                   *)
(***************************************************************************)

\* A row id that was deleted does not come back with its columns: whoever
\* wants to revoke it finds nothing.
Forget(a, removed) ==
    found' = [b \in Admins |->
                IF b = a THEN {}
                ELSE IF pc[b] # "idle" /\ req[b].op = "revoke"
                     THEN found[b] \ removed
                     ELSE found[b]]

\* UNIQUE and the foreign key let the inserts through.
Insertable(removed, added) ==
    /\ added \cap (granted \ removed) = {}
    /\ \A g \in added : g[1] \in reports

Commit(a, removed, added) ==
    /\ \/ /\ Insertable(removed, added)
          /\ granted' = (granted \ removed) \cup added
          /\ Forget(a, removed)
       \/ /\ ~Insertable(removed, added)
          /\ UNCHANGED granted
          /\ Forget(a, {})
    /\ Finish(a)
    /\ UNCHANGED reports

Writes(a, ops) == pc[a] = "write" /\ req[a].op \in ops

\* What was not found is inserted.
GrantPermissions(a) ==
    /\ Writes(a, {"grant", "bulk"})
    /\ Commit(a, {}, Wanted(req[a]) \ found[a])
    /\ UNCHANGED <<menus, owners>>

\* The codes that are not wanted are deleted, the missing ones inserted.
SetPermissions(a) ==
    /\ Writes(a, {"set"})
    /\ Commit(a, (granted \cap Scope(req[a])) \ Wanted(req[a]),
              Wanted(req[a]) \ found[a])
    /\ UNCHANGED <<menus, owners>>

RevokePermission(a) ==
    /\ Writes(a, {"revoke"})
    /\ Commit(a, found[a], {})
    /\ UNCHANGED <<menus, owners>>

SetMenuPermissions(a) ==
    /\ Writes(a, {"menus"})
    /\ menus' = [menus EXCEPT ![req[a].subject] = req[a].codes]
    /\ Commit(a, {}, {})
    /\ UNCHANGED owners

\* Faulty variant: the rows of the subject are left behind.
DeleteRowOnly(a) ==
    /\ Writes(a, {"delete"})
    /\ owners' = owners \ {req[a].subject}
    /\ Commit(a, {}, {})
    /\ UNCHANGED menus

\* No foreign key leads from a permission to its subject, so that the handler
\* deletes the rows itself.
DeleteSubject(a) ==
    /\ Writes(a, {"delete"})
    /\ owners' = owners \ {req[a].subject}
    /\ menus' = [menus EXCEPT ![req[a].subject] = {}]
    /\ Commit(a, {g \in granted : g[2] = req[a].subject}, {})

\* DELETE /api/reports/{r}: locks no subject, the foreign key cascades.  A
\* mail schedule that uses the report keeps it, which is a choice here.
DeleteReport(r) ==
    /\ r \in reports
    /\ reports' = reports \ {r}
    /\ granted' = {g \in granted : g[1] # r}
    /\ found' = [b \in Admins |->
                    IF pc[b] # "idle" /\ req[b].op = "revoke"
                    THEN {g \in found[b] : g[1] # r} ELSE found[b]]
    /\ UNCHANGED <<menus, owners, locked, pc, req>>

\* The handler raises or its process dies: the transaction rolls back.
RollBack(a) ==
    /\ pc[a] # "idle"
    /\ Finish(a)
    /\ found' = [found EXCEPT ![a] = {}]
    /\ UNCHANGED tables

-----------------------------------------------------------------------------
Ask(a) ==
    \/ AskGrant(a) \/ AskBulk(a) \/ AskSet(a) \/ AskRevoke(a) \/ AskMenus(a)
    \/ AskDelete(a)

Handle(a) ==
    \/ LockSubject(a) \/ SkipLock(a) \/ ReadExisting(a)
    \/ GrantPermissions(a) \/ SetPermissions(a) \/ RevokePermission(a)
    \/ SetMenuPermissions(a) \/ DeleteSubject(a) \/ RollBack(a)

Next ==
    \/ \E a \in Admins : Ask(a) \/ Handle(a)
    \/ \E r \in Reports : DeleteReport(r)

Spec == Init /\ [][Next]_vars

-----------------------------------------------------------------------------
(***************************************************************************)
(* Safety                                                                  *)
(***************************************************************************)

\* No permission survives its subject or its report, although the tables have
\* no foreign key to users and groups and a grant may be under way when the
\* subject is deleted.
NoOrphans ==
    /\ \A g \in granted : g[1] \in reports /\ g[2] \in owners \cup Categories
    /\ \A s \in Owners \ owners : menus[s] = {}

\* No grant to a user or a group ends with a code whose VIEW is missing,
\* whatever others revoke or replace while it runs (permission_service.py,
\* normalize_grant_codes).
GrantKeepsView ==
    [][\A g \in granted' \ granted :
          g[2] \in Owners /\ g[3] \in Implying =>
              <<g[1], g[2], View>> \in granted']_vars

\* The same for roles and departments, whose grants and revocations are not
\* serialised; roles.py promises it of every subject.
EveryGrantKeepsView ==
    [][\A g \in granted' \ granted :
          g[3] \in Implying => <<g[1], g[2], View>> \in granted']_vars

\* Every request takes effect at once, as if it had run alone.
Ledger == INSTANCE PermissionLedger

LedgerSpec == Ledger!Spec

=============================================================================
