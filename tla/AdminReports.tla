---------------------------- MODULE AdminReports ----------------------------
(***************************************************************************)
(* The administration of the reports: the tree of folders and reports from *)
(* the query cache, the dialog in which a report is edited or moved, and   *)
(* the order among neighbours, which is stored by one request for each of  *)
(* them.  Folders are put in order, and the description is edited, in the  *)
(* same way.  The parts of the page that a behaviour uses do not depend on *)
(* each other, and it uses one of them besides the folders.                *)
(***************************************************************************)
EXTENDS Naturals, FiniteSets, Sequences, Sorting

CONSTANTS
  Reports, Ids,      \* the reports, and [Reports -> Nat]
  Folders, Parent,   \* the folders, and [Folders -> Folders \cup {None}]
  Texts, Named,      \* names and authors; the name of an imported file
  MaxJobs,           \* bounds the requests under way
  None

VARIABLES
  part,      \* what is changed
  stored,    \* at the server: [Reports -> record or None]
  folders,   \* at the server
  listed,    \* reports and folders in the query cache
  form,      \* editReport, editMode and the fields; None without a dialog
  work,      \* requests under way
  asked,     \* the last order that was asked for
  theirs,    \* what others have changed and nobody typed over
  view       \* the search, and the folders that are closed

adminVars == <<part, stored, folders, listed, form, work, asked, theirs, view>>

Report == [name : Texts \cup {Named}, author : Texts \cup {None}, folder : Folders \cup {None}, rank : Nat]
Children(f) == {g \in Folders : Parent[g] = f}

AdminTypeOK ==
  /\ \A r \in Reports : stored[r] \in Report \cup {None} /\ listed.reports[r] \in Report \cup {None}
  /\ folders \subseteq Folders /\ listed.folders \subseteq Folders
  /\ \A f \in folders : Parent[f] \in folders \cup {None}
  /\ \A w \in work : w.kind \in {"order", "save", "import"}
  /\ view.closed \subseteq Folders

\* A report that is imported has the rank 0.
Made(f) == [name |-> Named, author |-> None, folder |-> f, rank |-> 0]

AdminInit ==
  /\ part \in {"order", "fields", "places", "search"}
  /\ folders = Folders
  /\ \E place \in [Reports -> Folders \cup {None}] :
       /\ part \in {"order", "fields"} => \A r \in Reports : place[r] = CHOOSE f \in Folders : Parent[f] = None
       /\ stored = [r \in Reports |->
            IF part \in {"fields", "places"} /\ Ids[r] # 1 THEN None ELSE Made(place[r])]
  /\ listed = [reports |-> stored, folders |-> folders]
  /\ form = None /\ work = {} /\ asked = None /\ theirs = {}
  /\ view = [found |-> None, closed |-> Folders]

Fetched == listed' = [reports |-> stored', folders |-> folders']

Refetch ==
  /\ UNCHANGED <<stored, folders>> /\ Fetched
  /\ UNCHANGED <<part, form, work, asked, theirs, view>>

-----------------------------------------------------------------------------
(* The order.                                                              *)

Before(s, x, y) == s[x].rank < s[y].rank \/ (s[x].rank = s[y].rank /\ Ids[x] < Ids[y])

\* Neighbours come by rank, those of one rank by id.
Neighbours(s, f) == {r \in Reports : s[r] # None /\ s[r].folder = f}
Order(s, f) ==
  InOrder(Neighbours(s, f), {e \in Neighbours(s, f) \X Neighbours(s, f) : Before(s, e[1], e[2])})

\* Mutant: only the two that change places are given each other's rank.
TwoRanks(s, order, i) == {<<order[i], s[order[i + 1]].rank>>, <<order[i + 1], s[order[i]].rank>>}

\* Everybody whose rank is not the position is sent its position.
Ranks(s, order, i) == {<<order[k], k - 1>> : k \in {k \in DOMAIN order : s[order[k]].rank # k - 1}}

Ordering == \E w \in work : w.kind = "order"
NotAlone == asked' = IF asked = None THEN None ELSE [asked EXCEPT !.alone = FALSE]

\* Neighbours i and i + 1 change places; during a search the arrows are locked.
\* Nothing prevents another click before the first one is stored.
Swap(f, i) ==
  LET order == Order(listed.reports, f)
      next  == [order EXCEPT ![i] = order[i + 1], ![i + 1] = order[i]]
  IN /\ view.found = None /\ Cardinality(work) < MaxJobs
     /\ i \in 1..(Len(order) - 1)
     /\ work' = work \cup {[kind |-> "order", todo |-> Ranks(listed.reports, next, i), failed |-> FALSE]}
     /\ asked' = [folder |-> f, order |-> next, alone |-> ~Ordering /\ listed.reports = stored]
     /\ UNCHANGED <<part, stored, folders, listed, form, theirs, view>>

\* One of its requests is carried out.  The list is read again after the last
\* one, if none has failed.
Ranked(w, x) ==
  /\ w.kind = "order" /\ x \in w.todo /\ stored[x[1]] # None
  /\ stored' = [stored EXCEPT ![x[1]].rank = x[2]]
  /\ work' = (work \ {w}) \cup (IF w.todo = {x} THEN {} ELSE {[w EXCEPT !.todo = @ \ {x}]})
  /\ IF w.todo = {x} /\ ~w.failed THEN UNCHANGED folders /\ Fetched ELSE UNCHANGED <<folders, listed>>
  /\ UNCHANGED <<part, form, asked, theirs, view>>

RankFails(w, x) ==
  /\ w.kind = "order" /\ x \in w.todo
  /\ work' = (work \ {w}) \cup
       (IF w.todo = {x} THEN {} ELSE {[w EXCEPT !.todo = @ \ {x}, !.failed = TRUE]})
  /\ NotAlone
  /\ UNCHANGED <<part, stored, folders, listed, form, theirs, view>>

-----------------------------------------------------------------------------
(* The dialog.                                                             *)

Fields(mode) == IF mode = "edit" THEN {"name", "author"} ELSE {"folder"}

OpenEdit(r, mode) ==
  /\ form = None /\ listed.reports[r] # None
  /\ form' = [of |-> r, mode |-> mode, was |-> listed.reports[r], now |-> listed.reports[r], typed |-> {}]
  /\ UNCHANGED <<part, stored, folders, listed, work, asked, theirs, view>>

Cancel ==
  /\ form # None /\ form' = None
  /\ UNCHANGED <<part, stored, folders, listed, work, asked, theirs, view>>

\* A name, an author or none, or a folder of the list.
Type(field, value) ==
  /\ form # None /\ field \in Fields(form.mode) /\ value # form.now[field]
  /\ form' = [form EXCEPT !.now[field] = value, !.typed = @ \cup {field}]
  /\ UNCHANGED <<part, stored, folders, listed, work, asked, theirs, view>>

\* Mutant: the fields are sent as they are in the dialog.
AllFields(d) == Fields(d.mode)

\* The fields that differ from what the dialog was opened with.
Patch(d) == {f \in Fields(d.mode) : d.now[f] # d.was[f]}

Saving == \E w \in work : w.kind = "save"

\* With nothing to send the dialog is closed, and the list read again.
Submit ==
  /\ form # None /\ ~Saving
  /\ form.mode = "edit" => form.now.name # None
  /\ form.mode = "move" => form.now.folder # None
  /\ IF Patch(form) = {}
     THEN form' = None /\ UNCHANGED <<stored, folders, work>> /\ Fetched
     ELSE /\ Cardinality(work) < MaxJobs
          /\ work' = work \cup {[kind |-> "save", id |-> form.of, typed |-> form.typed,
                                 patch |-> [f \in Patch(form) |-> form.now[f]]]}
          /\ UNCHANGED <<stored, folders, listed, form>>
  /\ UNCHANGED <<part, asked, theirs, view>>

\* update_report leaves alone what is null, so an author is never taken away;
\* move_folder needs the folder.
Updated(s, patch) ==
  [f \in DOMAIN s |-> IF f \in DOMAIN patch /\ (f = "author" => patch[f] # None) THEN patch[f] ELSE s[f]]

Accepted(w) ==
  /\ stored[w.id] # None
  /\ "folder" \in DOMAIN w.patch => w.patch["folder"] \in folders

\* The answer closes the dialog that is open by now.
Saved(w) ==
  /\ w.kind = "save" /\ Accepted(w)
  /\ stored' = [stored EXCEPT ![w.id] = Updated(@, w.patch)]
  /\ theirs' = {x \in theirs : x[1] # w.id \/ x[2] \notin w.typed}
  /\ work' = work \ {w} /\ form' = None
  /\ UNCHANGED folders /\ Fetched /\ NotAlone
  /\ UNCHANGED <<part, view>>

SaveFails(w) ==
  /\ w.kind = "save" /\ work' = work \ {w}
  /\ UNCHANGED <<part, stored, folders, listed, form, asked, theirs, view>>

-----------------------------------------------------------------------------
(* Reports and folders that come and go.                                   *)

\* A file and a folder are chosen; the worker makes the report later.
Upload(f) ==
  /\ Cardinality(work) < MaxJobs /\ f \in listed.folders
  /\ work' = work \cup {[kind |-> "import", folder |-> f]}
  /\ UNCHANGED <<part, stored, folders, listed, form, asked, theirs, view>>

Imported(w, r) ==
  /\ w.kind = "import" /\ w.folder \in folders /\ stored[r] = None
  /\ stored' = [stored EXCEPT ![r] = Made(w.folder)]
  /\ work' = work \ {w} /\ NotAlone
  /\ UNCHANGED <<part, folders, listed, form, theirs, view>>

Delete(r) ==
  /\ listed.reports[r] # None /\ stored[r] # None
  /\ stored' = [stored EXCEPT ![r] = None] /\ theirs' = {x \in theirs : x[1] # r}
  /\ UNCHANGED folders /\ Fetched /\ NotAlone
  /\ UNCHANGED <<part, form, work, view>>

CreateFolder(f) ==
  /\ f \notin folders /\ Parent[f] \in folders \cup {None}
  /\ folders' = folders \cup {f} /\ UNCHANGED stored /\ Fetched
  /\ UNCHANGED <<part, form, work, asked, theirs, view>>

\* Refused unless it is empty.
DeleteFolder(f) ==
  /\ f \in folders \cap listed.folders
  /\ Children(f) \cap folders = {} /\ \A r \in Reports : stored[r] # None => stored[r].folder # f
  /\ folders' = folders \ {f} /\ UNCHANGED stored /\ Fetched
  /\ UNCHANGED <<part, form, work, asked, theirs, view>>

\* Another operator edits or moves a report.
Elsewhere(r, field, value) ==
  /\ stored[r] # None /\ stored[r][field] # value /\ value # None
  /\ field = "folder" => value \in folders
  /\ stored' = [stored EXCEPT ![r][field] = value]
  /\ theirs' = {x \in theirs : x[1] # r \/ x[2] # field} \cup {<<r, field, value>>}
  /\ NotAlone
  /\ UNCHANGED <<part, folders, listed, form, work, view>>

-----------------------------------------------------------------------------
(* The tree.                                                               *)

\* folderPathById: what matches in the path of a folder matches below it.
PathMatches[f \in Folders] == f \in view.found \/ (Parent[f] # None /\ PathMatches[Parent[f]])

Above[f \in Folders] == {f} \cup (IF Parent[f] = None THEN {} ELSE Above[Parent[f]])
Path(f) == IF f = None THEN {} ELSE Above[f]

Known == {r \in Reports : listed.reports[r] # None}
PlaceOf(r) == listed.reports[r].folder

Inside == {f \in listed.folders : PathMatches[f]}

VisibleReports ==
  IF view.found = None THEN Known
  ELSE {r \in Known : r \in view.found \/ PlaceOf(r) \in Inside}

\* Mutant: the folders above a match are not filled in.
MatchedFolders == IF view.found = None THEN listed.folders ELSE Inside

VisibleFolders ==
  IF view.found = None THEN listed.folders
  ELSE UNION ({Above[f] : f \in Inside} \cup {Path(PlaceOf(r)) : r \in VisibleReports})

\* Folders are drawn from the roots on; what is closed are the reports of a folder.
ShownFolders == {f \in VisibleFolders : Above[f] \subseteq VisibleFolders}
ShownReports == {r \in VisibleReports : /\ Path(PlaceOf(r)) \subseteq ShownFolders
                                        /\ view.found # None \/ PlaceOf(r) \notin view.closed}

Search(found) ==
  /\ found # view.found /\ view' = [view EXCEPT !.found = found]
  /\ UNCHANGED <<part, stored, folders, listed, form, work, asked, theirs>>

\* Folders without reports have no arrow.
Toggle(f) ==
  /\ f \in ShownFolders /\ \E r \in VisibleReports : PlaceOf(r) = f
  /\ view' = [view EXCEPT !.closed = IF f \in @ THEN @ \ {f} ELSE @ \cup {f}]
  /\ UNCHANGED <<part, stored, folders, listed, form, work, asked, theirs>>

\* What others do is what matters to the part.
AdminNext ==
  \/ Refetch
  \/ /\ part = "search"
     /\ \/ \E found \in {None} \cup SUBSET (Folders \cup Reports) : Search(found)
        \/ \E f \in Folders : Toggle(f)
  \/ /\ part = "order"
     /\ \/ \E f \in Folders, i \in 1..Cardinality(Reports) : Swap(f, i)
        \/ \E w \in work : w.kind = "order" /\ \E x \in w.todo : Ranked(w, x) \/ RankFails(w, x)
  \/ /\ part \in {"fields", "places"}
     /\ \/ Cancel \/ Submit
        \/ \E w \in work : Saved(w) \/ SaveFails(w)
        \/ \E r \in Reports : OpenEdit(r, IF part = "fields" THEN "edit" ELSE "move")
  \/ /\ part = "fields"
     /\ \/ \E t \in Texts \cup {None} : Type("name", t) \/ Type("author", t)
        \/ \E r \in Reports, t \in Texts : Delete(r) \/ Elsewhere(r, "name", t) \/ Elsewhere(r, "author", t)
  \/ /\ part = "places"
     /\ \/ \E f \in listed.folders : Type("folder", f) \/ Upload(f)
        \/ \E w \in work, r \in Reports : Imported(w, r)
        \/ \E f \in Folders : CreateFolder(f) \/ DeleteFolder(f)
        \/ \E r \in Reports, f \in Folders : Elsewhere(r, "folder", f)

AdminSpec == AdminInit /\ [][AdminNext]_adminVars

-----------------------------------------------------------------------------
(* Properties.                                                             *)

\* An order that was made from the list as it was stored, and whose requests met
\* no others, is the one that is stored when they are all done, whatever ranks
\* were equal before; a save changes nothing that another operator has changed
\* in the meantime, except in fields the dialog was typed in.
OrderAndEditsHold ==
  /\ asked # None /\ asked.alone /\ ~Ordering => Order(stored, asked.folder) = asked.order
  /\ \A x \in theirs : stored[x[1]] # None => stored[x[1]][x[2]] = x[3]

\* A search shows the reports that match or lie below a folder that matches, each
\* with all folders above it, and no folder that has nothing to do with a match;
\* without one, nothing but a closed folder hides its own reports.
TreeShowsFound ==
  LET Matched(r) == r \in view.found \/ Path(PlaceOf(r)) \cap view.found # {} IN
  IF view.found = None
  THEN /\ ShownFolders = listed.folders
       /\ ShownReports = {r \in Known : PlaceOf(r) \notin view.closed}
  ELSE /\ ShownReports = {r \in Known : Matched(r)}
       /\ ShownFolders = {f \in listed.folders :
            \/ Above[f] \cap view.found # {}
            \/ \E g \in listed.folders \cap view.found : f \in Above[g]
            \/ \E r \in ShownReports : f \in Path(PlaceOf(r))}
=============================================================================
