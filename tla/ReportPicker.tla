---------------------------- MODULE ReportPicker ----------------------------
(***************************************************************************)
(* The tree from which a report is chosen: which folders are open, and     *)
(* what a search leaves of the tree.                                       *)
(***************************************************************************)
EXTENDS FiniteSets, FiniteSetsExt

CONSTANTS
  Folders, Parent,   \* the folders, and [Folders -> Folders \cup {None}]
  Reports, Place,    \* the reports, and [Reports -> Folders \cup {None}]
  None

VARIABLES
  value,    \* the report that is chosen
  hits,     \* the names the search finds, None without one
  tree      \* openState: for which report, the folders opened and closed

pickerVars == <<value, hits, tree>>

PickerTypeOK ==
  /\ value \in Reports \cup {None}
  /\ hits = None \/ hits \subseteq Folders \cup Reports
  /\ tree \in [for : Reports \cup {None}, open : SUBSET Folders, closed : SUBSET Folders]

\* The picker appears in a form, with the report of the form.
PickerInit ==
  /\ value \in Reports \cup {None}
  /\ hits = None
  /\ tree = [for |-> value, open |-> {}, closed |-> {}]

-----------------------------------------------------------------------------
(* The tree.                                                               *)

Above[f \in Folders] == {f} \cup (IF Parent[f] = None THEN {} ELSE Above[Parent[f]])
Path(f) == IF f = None THEN {} ELSE Above[f]

SelectedFolderPath == IF value = None THEN {} ELSE Path(Place[value])

\* What was closed on the path counts only for the report it was closed for.
Closed == IF tree.for = value THEN tree.closed ELSE {}
IsOpen(f) == hits # None \/ f \in tree.open \/ f \in SelectedFolderPath \ Closed

-----------------------------------------------------------------------------
(* The search.                                                             *)

\* A matching folder is found with all that is in it.
InsideMatchedFolder == {f \in Folders : Above[f] \cap hits # {}}
VisibleReports == {r \in Reports : r \in hits \/ Path(Place[r]) \cap InsideMatchedFolder # {}}

\* addSelfAndAncestors goes up until it meets a folder that is visible.
Climb(f, seen) == seen \cup {g \in Path(f) : \A x \in Path(f) : g \in Above[x] => x \notin seen}

\* Mutant: only the reports show the way to them.
FromReports == FoldSet(LAMBDA r, seen : Climb(Place[r], seen), InsideMatchedFolder, VisibleReports)

VisibleFolders ==
  LET start == FoldSet(LAMBDA f, seen : Climb(Parent[f], seen), InsideMatchedFolder, InsideMatchedFolder)
  IN FoldSet(LAMBDA r, seen : Climb(Place[r], seen), start, VisibleReports)

\* What is drawn: from the roots down, below open folders.
Drawn(f) == \A g \in Path(f) : hits # None => g \in VisibleFolders
ShownFolders == {f \in Folders : Drawn(f) /\ \A g \in Path(f) \ {f} : IsOpen(g)}
ShownReports == {r \in Reports : /\ Path(Place[r]) \subseteq ShownFolders
                                 /\ \A g \in Path(Place[r]) : IsOpen(g)
                                 /\ hits # None => r \in VisibleReports}

-----------------------------------------------------------------------------
(* Actions.                                                                *)

Toggle(f) ==
  /\ hits = None /\ f \in ShownFolders
  /\ tree' = [for |-> value,
              open |-> IF IsOpen(f) THEN tree.open \ {f} ELSE tree.open \cup {f},
              closed |-> IF IsOpen(f) THEN Closed \cup ({f} \cap SelectedFolderPath) ELSE Closed \ {f}]
  /\ UNCHANGED <<value, hits>>

Type(found) ==
  /\ found # hits /\ hits' = found
  /\ UNCHANGED <<value, tree>>

Choose(r) ==
  /\ r \in ShownReports \ {value} /\ value' = r
  /\ UNCHANGED <<hits, tree>>

PickerNext ==
  \/ \E f \in Folders : Toggle(f)
  \/ \E found \in {None} \cup SUBSET (Folders \cup Reports) : Type(found)
  \/ \E r \in Reports : Choose(r)

PickerSpec == PickerInit /\ [][PickerNext]_pickerVars

-----------------------------------------------------------------------------
(* Properties.                                                             *)

\* A search shows the reports that match or lie in a matching folder, and no
\* other folders than those that match, lie in a matching one, or lead to one or
\* to such a report.  Without a search the chosen report is in sight unless a
\* folder above it was closed since it was chosen.
SearchShowsMatches ==
  IF hits # None
  THEN LET matches(f) == Above[f] \cap hits # {}
           found == {r \in Reports : r \in hits \/ \E f \in Path(Place[r]) : matches(f)} IN
       /\ ShownReports = found
       /\ ShownFolders = {f \in Folders : \/ matches(f)
                                          \/ \E g \in Folders : f \in Above[g] /\ matches(g)
                                          \/ \E r \in found : f \in Path(Place[r])}
  ELSE value # None /\ (tree.for # value \/ tree.closed \cap Path(Place[value]) = {})
         => value \in ShownReports
=============================================================================
