---------------------------- MODULE MCPermissions ----------------------------
(***************************************************************************)
(* The administration of permissions: the server under several             *)
(* administrators, and the two parts of the page from which one of them    *)
(* changes a subject.  What the page needs of the server is in its own     *)
(* modules: one of the three runs at a time, and their runs are added up.  *)
(***************************************************************************)
EXTENDS TLC, ReportPermissions, GrantPages

CONSTANTS a1, a2, g1, d1, p1, p2, view, download, stats, kpi, m, n
VARIABLE part

permissionVars == <<part, vars, menuVars, grantVars>>

\* Administrators, reports and menus are interchangeable.
PermissionsSymmetry == Permutations(Admins) \cup Permutations(Reports) \cup Permutations(Menus)

\* A part that does not run has one state.
PermissionsInit ==
  /\ part \in {"server", "menus", "reports"}
  /\ Init /\ MenusInit /\ GrantsInit
  /\ part # "reports" => kind = "user" /\ held = {}

PermissionsNext ==
  /\ UNCHANGED part
  /\ \/ part = "server" /\ Next /\ UNCHANGED <<menuVars, grantVars>>
     \/ part = "menus" /\ MenusNext /\ UNCHANGED <<vars, grantVars>>
     \/ part = "reports" /\ GrantsNext /\ UNCHANGED <<vars, menuVars>>

PermissionsSpec == PermissionsInit /\ [][PermissionsNext]_permissionVars
=============================================================================
