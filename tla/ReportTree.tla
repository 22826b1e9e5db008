----------------------------- MODULE ReportTree -----------------------------
(***************************************************************************)
(* The trees of folders in the page of the permissions: the one in which   *)
(* several reports are selected, and the one of the permissions a user has *)
(* through groups, roles and departments.  A search and, in the second,    *)
(* the source of the permissions leave a part of the tree.                 *)
(***************************************************************************)
EXTENDS FiniteSets

CONSTANTS
  Folders, Parent,   \* the folders, and [Folders -> Folders \cup {None}]
  Reports, Place,    \* the reports, and [Reports -> Folders \cup {None}]
  Sources,           \* "group", "role", "dept"
  All, None

VARIABLES
  use,          \* the tree is there to "select" reports or to show "inherited" rights
  inherited,    \* [Sources -> reports with a permission from there]
  unlisted,     \* reports with permissions that are not in the list of reports
  filter,       \* the source that is shown, or All
  hits,         \* the reports the search finds, None without one
  collapsed,
  chosen        \* the selected reports

treeVars == <<use, inherited, unlisted, filter, hits, collapsed, chosen>>

TreeTypeOK ==
  /\ use \in {"select", "inherited"} /\ inherited \in [Sources -> SUBSET Reports]
  /\ filter \in Sources \cup {All} /\ unlisted \subseteq Reports
  /\ hits = None \/ hits \subseteq Reports
  /\ collapsed \subseteq Folders /\ chosen \subseteq Reports

\* At first the folders below the roots are closed.
TreeInit ==
  /\ use \in {"select", "inherited"}
  /\ inherited \in IF use = "select" THEN {[s \in Sources |-> {}]} ELSE [Sources -> SUBSET Reports]
  /\ unlisted \in IF use = "select" THEN {{}} ELSE {{}} \cup {{r} : r \in Reports}
  /\ filter = All /\ hits = None
  /\ collapsed = {f \in Folders : Parent[f] # None}
  /\ chosen = {}

-----------------------------------------------------------------------------
(* What is left of the tree.                                               *)

Listed == Reports \ unlisted
Own(f) == {r \in Listed : Place[r] = f}

\* visibleInheritedItems
HasItems(r) == \E s \in Sources : (filter = All \/ filter = s) /\ r \in inherited[s]

Matches(r) ==
  /\ hits = None \/ r \in hits
  /\ use = "inherited" => HasItems(r)

HasMatch[f \in Folders] ==
  (\E r \in Own(f) : Matches(r)) \/ \E c \in Folders : Parent[c] = f /\ HasMatch[c]

\* Mutant: only the reports of the folder itself count.
OwnDrawn(f) == use = "inherited" \/ hits # None => \E r \in Own(f) : Matches(r)

\* Rights are shown where there are any, reports where they are searched for.
Drawn(f)  == use = "inherited" \/ hits # None => HasMatch[f]
IsOpen(f) == hits # None \/ f \notin collapsed

Above[f \in Folders] == {f} \cup (IF Parent[f] = None THEN {} ELSE Above[Parent[f]])
Path(f) == IF f = None THEN {} ELSE Above[f]

ShownFolders == {f \in Folders : /\ \A g \in Above[f] : Drawn(g)
                                 /\ \A g \in Above[f] \ {f} : IsOpen(g)}

\* Rights on reports that are not in the list come last, outside of the folders.
ShownReports ==
  {r \in Listed : /\ Matches(r) /\ Path(Place[r]) \subseteq ShownFolders
                  /\ \A g \in Path(Place[r]) : IsOpen(g)}
    \cup {r \in unlisted : use = "inherited" /\ Matches(r)}

-----------------------------------------------------------------------------
(* Actions.                                                                *)

Type(found) ==
  /\ found # hits /\ hits' = found
  /\ UNCHANGED <<use, inherited, unlisted, filter, collapsed, chosen>>

Filter(s) ==
  /\ use = "inherited" /\ s # filter /\ filter' = s
  /\ UNCHANGED <<use, inherited, unlisted, hits, collapsed, chosen>>

\* The arrow can be used during a search, although all folders are open then.
ToggleFolder(f) ==
  /\ f \in ShownFolders
  /\ collapsed' = IF f \in collapsed THEN collapsed \ {f} ELSE collapsed \cup {f}
  /\ UNCHANGED <<use, inherited, unlisted, filter, hits, chosen>>

Choose(set) ==
  /\ use = "select" /\ chosen' = set
  /\ UNCHANGED <<use, inherited, unlisted, filter, hits, collapsed>>

ToggleReport(r) ==
  /\ r \in ShownReports
  /\ Choose(IF r \in chosen THEN chosen \ {r} ELSE chosen \cup {r})

\* All of the folder itself that match are selected, or none if they all are.
SelectAll(f) ==
  LET own == {r \in Own(f) : Matches(r)} IN
  /\ f \in ShownFolders /\ own # {}
  /\ Choose(IF own \subseteq chosen THEN chosen \ own ELSE chosen \cup own)

TreeNext ==
  \/ \E found \in {None} \cup SUBSET Reports : Type(found)
  \/ \E s \in Sources \cup {All} : Filter(s)
  \/ \E f \in Folders : ToggleFolder(f) \/ SelectAll(f)
  \/ \E r \in Reports : ToggleReport(r)

TreeSpec == TreeInit /\ [][TreeNext]_treeVars

-----------------------------------------------------------------------------
(* Properties.                                                             *)

\* A search shows every report that matches, and with it, of the rights, every
\* report with a right from the source, in or out of the list; no folder is drawn
\* that leads to none; and what closes a folder hides nothing outside of it.
TreeShowsMatches ==
  LET wanted == {r \in Reports : /\ hits = None \/ r \in hits
                                 /\ IF use = "select" THEN r \in Listed
                                    ELSE \E s \in Sources : filter \in {All, s} /\ r \in inherited[s]}
  IN /\ hits # None => ShownReports = wanted
     /\ use = "inherited" => \A f \in ShownFolders : \E r \in wanted \cap Listed : f \in Path(Place[r])
     /\ \A r \in wanted \ ShownReports : Path(Place[r]) \cap collapsed # {}
=============================================================================
