-------------------------- MODULE PermissionLedger --------------------------
(***************************************************************************)
(* What the administration of permissions promises, seen from its tables   *)
(* alone: every request takes effect at once, as if it had run alone.      *)
(* A grant to a user or a group adds all of its codes together with the    *)
(* VIEW they imply, a replacement leaves exactly what was asked for, and   *)
(* nothing stays behind of a subject or a report that is gone.             *)
(***************************************************************************)
CONSTANTS Owners, Categories, Reports, View, Implying, Plain, MenuKeys

VARIABLES
    granted,    \* rows of report_permissions: <<report, subject, code>>
    menus,      \* menus[s]: menu keys granted to s
    owners,     \* the users and groups that exist
    reports     \* the reports that exist

ledger == <<granted, menus, owners, reports>>

Codes == {View} \cup Implying \cup Plain
Complete(cs) == cs \cup {c \in {View} : cs \cap Implying # {}}
Rows(rs, s, cs) == rs \X {s} \X cs

Init ==
    /\ granted = {}
    /\ menus = [s \in Owners |-> {}]
    /\ owners = Owners
    /\ reports = Reports

Grant(s, rs, cs) ==
    /\ granted' = granted \cup Rows(rs, s, Complete(cs))
    /\ UNCHANGED <<menus, owners, reports>>

\* Roles and departments have no such promise: a part of a grant may arrive.
GrantPartly(s, rs, cs) ==
    /\ granted' \subseteq granted \cup Rows(rs, s, Complete(cs))
    /\ granted \subseteq granted'
    /\ UNCHANGED <<menus, owners, reports>>

Replace(s, rs, cs) ==
    /\ granted' = (granted \ Rows(rs, s, Codes)) \cup Rows(rs, s, Complete(cs))
    /\ UNCHANGED <<menus, owners, reports>>

Revoke(g) ==
    /\ granted' = granted \ {g}
    /\ UNCHANGED <<menus, owners, reports>>

SetMenus(s, ks) ==
    /\ menus' = [menus EXCEPT ![s] = ks]
    /\ UNCHANGED <<granted, owners, reports>>

RemoveOwner(s) ==
    /\ owners' = owners \ {s}
    /\ granted' = granted \ Rows(Reports, s, Codes)
    /\ menus' = [menus EXCEPT ![s] = {}]
    /\ UNCHANGED reports

RemoveReport(r) ==
    /\ reports' = reports \ {r}
    /\ granted' = {g \in granted : g[1] # r}
    /\ UNCHANGED <<menus, owners>>

Next ==
    \/ \E s \in owners, rs \in SUBSET reports, cs \in SUBSET Codes :
          Grant(s, rs, cs) \/ Replace(s, rs, cs)
    \/ \E s \in Categories, rs \in SUBSET reports, cs \in SUBSET Codes :
          GrantPartly(s, rs, cs)
    \/ \E g \in granted : Revoke(g)
    \/ \E s \in owners, ks \in SUBSET MenuKeys : SetMenus(s, ks)
    \/ \E s \in owners : RemoveOwner(s)
    \/ \E r \in reports : RemoveReport(r)

Spec == Init /\ [][Next]_ledger

=============================================================================
