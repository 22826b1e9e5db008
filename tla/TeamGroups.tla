---------------------------- MODULE TeamGroups ----------------------------
(***************************************************************************)
(* The administration of groups.  A group is made by hand, or belongs to a *)
(* team of the organisation: the synchronisation of a department makes the *)
(* groups of the teams under it and gives them the people of the teams.    *)
(* It is shown first and done when that is accepted.  A behaviour is about *)
(* the synchronisation, or about the members of groups made by hand.       *)
(***************************************************************************)
EXTENDS Naturals, FiniteSets, SequencesExt

CONSTANTS
  Teams,       \* 1..n, in the order of their names
  Top,         \* the department above all of them
  Candidates,  \* [Teams -> Seq(names)]: the names a group of the team may take
  People,
  Ids,         \* of the groups made by hand, 1..n
  None

VARIABLES
  part,
  roster,      \* the team of each person: [People -> Teams \cup {None}]
  groups,      \* at the server
  listed,      \* the ids in the cached tree
  members,     \* the cached members of each group
  page,        \* the selected group, the picked user, the picker
  dialog,      \* syncPlan, syncDeptId
  work         \* requests under way

groupVars == <<part, roster, groups, listed, members, page, dialog, work>>

Departments == Teams \cup {Top}
Group == [id : Ids \cup {None}, name : Nat, team : Teams \cup {None}, members : SUBSET People]

GroupTypeOK ==
  /\ roster \in [People -> Teams \cup {None}]
  /\ groups \subseteq Group
  /\ listed \subseteq Ids
  /\ members \in [Ids -> (SUBSET People) \cup {None}]
  /\ page.selected \in Ids \cup {None} /\ page.picked \in People \cup {None}
  /\ page.open \in BOOLEAN /\ page.query \in People \cup {None}
  /\ dialog.plan \in Departments \cup {None} /\ dialog.dept \in Departments \cup {None}

Closed == [plan |-> None, dept |-> None, empty |-> FALSE]

GroupInit ==
  /\ part \in {"sync", "members"}
  /\ IF part = "sync" THEN roster \in [People -> Teams \cup {None}]
                      ELSE roster = [e \in People |-> None]
  /\ groups = IF part = "sync" THEN {} ELSE {[id |-> 1, name |-> 0, team |-> None, members |-> {}]}
  /\ listed = {g.id : g \in groups} /\ members = [i \in Ids |-> None]
  /\ page = [selected |-> None, picked |-> None, for |-> None, open |-> FALSE, query |-> None]
  /\ dialog = Closed /\ work = {}

-----------------------------------------------------------------------------
(* The synchronisation of a department.                                    *)

\* The teams under d that have people, in the order of their names.
Below(d) == IF d = Top THEN Teams ELSE {d}
Staffed(d) == {t \in Below(d) : \E e \in People : roster[e] = t}

\* Mutant: whether a name is taken is not asked.
FirstName(t, taken) == Candidates[t][1]

\* _name_candidates: the first that no other group has.
NameFor(t, taken) ==
  LET free == {i \in DOMAIN Candidates[t] : Candidates[t][i] \notin taken} IN
  IF free = {} THEN Last(Candidates[t])
  ELSE Candidates[t][CHOOSE i \in free : \A k \in free : i <= k]

\* The group of a team keeps its place among the names until it has another.
Others(t, taken) == taken \ {g.name : g \in {g \in groups : g.team = t}}

PlanTeam(t, others) ==
  LET own == {g \in groups : g.team = t}
      now == {e \in People : roster[e] = t}
      was == UNION {g.members : g \in own}
  IN [team |-> t, name |-> NameFor(t, others), created |-> own = {},
      add |-> now \ was, keep |-> now \cap was, remove |-> was \ now]

\* Of each number, the names that are taken once the teams before it are planned.
Taken(d) ==
  LET taken[t \in Nat] ==
        IF t = 0 THEN {g.name : g \in groups}
        ELSE IF t - 1 \notin Staffed(d) THEN taken[t - 1]
        ELSE Others(t - 1, taken[t - 1]) \cup {NameFor(t - 1, Others(t - 1, taken[t - 1]))}
  IN taken

Plan(d) == {PlanTeam(t, Others(t, Taken(d)[t])) : t \in Staffed(d)}

\* The groups once a plan is done; those of other teams, and those made by hand, stay.
After(plan) ==
  {g \in groups : \A item \in plan : item.team # g.team} \cup
  {[id |-> None, name |-> item.name, team |-> item.team,
    members |-> item.keep \cup item.add] : item \in plan}

Under(w) == work' = work \cup {w}
Alone(kind) == \A w \in work : w.kind # kind

AskPreview(d) ==
  /\ dialog.plan = None
  /\ Alone("preview") /\ Under([kind |-> "preview", dept |-> d])
  /\ UNCHANGED <<part, roster, groups, listed, members, page, dialog>>

\* Mutant: the department stays that of the plan before.
PlanAlone(d) == [dialog EXCEPT !.plan = d, !.empty = Plan(d) = {}]

\* The teams that are shown are kept with the department they were asked for.
ShownPlan(d) == [plan |-> d, dept |-> d, empty |-> Plan(d) = {}]

PreviewShown(w) ==
  /\ w.kind = "preview"
  /\ dialog' = ShownPlan(w.dept)
  /\ work' = work \ {w}
  /\ UNCHANGED <<part, roster, groups, listed, members, page>>

ClosePlan ==
  /\ dialog.plan # None /\ dialog' = Closed
  /\ UNCHANGED <<part, roster, groups, listed, members, page, work>>

\* The plan may be old; one without teams cannot be accepted.
AskApply ==
  /\ dialog.plan # None /\ ~dialog.empty
  /\ Alone("apply") /\ Under([kind |-> "apply", dept |-> dialog.dept, shown |-> dialog.plan])
  /\ UNCHANGED <<part, roster, groups, listed, members, page, dialog>>

\* The plan is made again from what is stored by then, and done in one transaction.
Applied(w) ==
  /\ w.kind = "apply"
  /\ groups' = After(Plan(w.dept))
  /\ dialog' = Closed /\ work' = work \ {w}
  /\ UNCHANGED <<part, roster, listed, members, page>>

\* Somebody leaves or joins a team; another operator makes or deletes a group by hand,
\* or deletes that of a team.
Moves(e, t) ==
  /\ roster[e] # t /\ roster' = [roster EXCEPT ![e] = t]
  /\ UNCHANGED <<part, groups, listed, members, page, dialog, work>>

MadeElsewhere(name) ==
  LET same == {g \in groups : g.name = name} IN
  /\ groups' = IF same # {} THEN groups \ same
               ELSE groups \cup {[id |-> None, name |-> name, team |-> None, members |-> {}]}
  /\ UNCHANGED <<part, roster, listed, members, page, dialog, work>>

-----------------------------------------------------------------------------
(* The groups made by hand, and their members.                             *)

Known(i) == \E g \in groups : g.id = i
MembersOf(i) == (CHOOSE g \in groups : g.id = i).members
SetMembers(i, new) == {IF g.id = i THEN [g EXCEPT !.members = new] ELSE g : g \in groups}

FetchTree ==
  /\ listed # {g.id : g \in groups} /\ listed' = {g.id : g \in groups}
  /\ UNCHANGED <<part, roster, groups, members, page, dialog, work>>

FetchMembers ==
  LET i == page.selected IN
  /\ i # None /\ Known(i) /\ members[i] # MembersOf(i)
  /\ members' = [members EXCEPT ![i] = MembersOf(i)]
  /\ UNCHANGED <<part, roster, groups, listed, page, dialog, work>>

\* Mutant: the picked user stays.
SelectKeeping(i) == [page EXCEPT !.selected = i]

\* onSelect: the picked user is dropped; the picker's own search is left.
Selecting(i) == [page EXCEPT !.selected = i, !.picked = None, !.for = None]

Select(i) ==
  /\ i \in listed /\ i # page.selected /\ page' = [Selecting(i) EXCEPT !.open = FALSE, !.query = None]
  /\ UNCHANGED <<part, roster, groups, listed, members, dialog, work>>

\* selectableUsers: not those who are known to be members.
Selectable ==
  {e \in People : page.selected # None /\
     (members[page.selected] # None => e \notin members[page.selected])}

Enabled == page.selected # None /\ Alone("add") /\ Selectable # {}

Focus ==
  /\ Enabled /\ ~page.open /\ page' = [page EXCEPT !.open = TRUE, !.query = None]
  /\ UNCHANGED <<part, roster, groups, listed, members, dialog, work>>

\* Mutant: typing leaves the picked user.
TypeOver(q) == [page EXCEPT !.query = q]

\* onChange of the picker: what was picked is dropped.
Typing(q) == [page EXCEPT !.picked = None, !.for = None, !.query = q]

Type(q) ==
  /\ Enabled /\ page.open /\ q # page.query /\ page' = Typing(q)
  /\ UNCHANGED <<part, roster, groups, listed, members, dialog, work>>

\* The cross beside the input.
Unpick ==
  /\ Enabled /\ page.picked # None
  /\ page' = [page EXCEPT !.picked = None, !.for = None, !.query = None, !.open = TRUE]
  /\ UNCHANGED <<part, roster, groups, listed, members, dialog, work>>

\* A user among those who match; the list is closed.
Pick(e) ==
  /\ Enabled /\ page.open /\ e \in Selectable /\ page.query \in {None, e}
  /\ page' = [page EXCEPT !.picked = e, !.for = page.selected, !.open = FALSE, !.query = None]
  /\ UNCHANGED <<part, roster, groups, listed, members, dialog, work>>

\* Escape, or a click elsewhere.
Blur ==
  /\ page.open /\ page' = [page EXCEPT !.open = FALSE, !.query = None]
  /\ UNCHANGED <<part, roster, groups, listed, members, dialog, work>>

AskAdd ==
  /\ page.selected # None /\ page.picked # None /\ Alone("add")
  /\ Under([kind |-> "add", group |-> page.selected, user |-> page.picked, for |-> page.for])
  /\ UNCHANGED <<part, roster, groups, listed, members, page, dialog>>

\* add_member: also when the user is a member already.
Added(w) ==
  /\ w.kind = "add" /\ Known(w.group)
  /\ groups' = SetMembers(w.group, MembersOf(w.group) \cup {w.user})
  /\ page' = [page EXCEPT !.picked = None, !.for = None] /\ work' = work \ {w}
  /\ UNCHANGED <<part, roster, listed, members, dialog>>

AskRemove(e) ==
  LET i == page.selected IN
  /\ i # None /\ members[i] # None /\ e \in members[i]
  /\ Alone("remove") /\ Under([kind |-> "remove", group |-> i, user |-> e])
  /\ UNCHANGED <<part, roster, groups, listed, members, page, dialog>>

\* remove_member: also when there is no such member, or no such group.
Removed(w) ==
  /\ w.kind = "remove"
  /\ groups' = {IF g.id = w.group THEN [g EXCEPT !.members = @ \ {w.user}] ELSE g : g \in groups}
  /\ work' = work \ {w}
  /\ UNCHANGED <<part, roster, listed, members, page, dialog>>

AskDelete ==
  /\ page.selected # None
  /\ Alone("delete") /\ Under([kind |-> "delete", group |-> page.selected])
  /\ UNCHANGED <<part, roster, groups, listed, members, page, dialog>>

\* Whatever is selected by then is left.
Deleted(w) ==
  /\ w.kind = "delete" /\ Known(w.group)
  /\ groups' = {g \in groups : g.id # w.group}
  /\ page' = [page EXCEPT !.selected = None, !.picked = None, !.for = None, !.open = FALSE, !.query = None]
  /\ work' = work \ {w}
  /\ UNCHANGED <<part, roster, listed, members, dialog>>

\* create_group, by this page, which selects it.
Created(i) ==
  /\ \A k \in Ids : (Known(k) \/ k \in listed \/ members[k] # None \/ page.selected = k) => k < i
  /\ \A w \in work : w.group < i
  /\ groups' = groups \cup {[id |-> i, name |-> 0, team |-> None, members |-> {}]}
  /\ page' = Selecting(i)
  /\ UNCHANGED <<part, roster, listed, members, dialog, work>>

\* A request is refused, or does not arrive.
Fails(w) ==
  /\ work' = work \ {w}
  /\ UNCHANGED <<part, roster, groups, listed, members, page, dialog>>

GroupNext ==
  \/ \E w \in work : Fails(w)
  \/ /\ part = "sync"
     /\ \/ ClosePlan \/ AskApply
        \/ \E d \in Departments : AskPreview(d)
        \/ \E w \in work : PreviewShown(w) \/ Applied(w)
        \/ \E e \in People, t \in Teams \cup {None} : Moves(e, t)
        \/ \E t \in Teams : \E name \in {Candidates[t][1], Candidates[t][2]} : MadeElsewhere(name)
  \/ /\ part = "members"
     /\ \/ FetchTree \/ FetchMembers \/ Focus \/ Unpick \/ Blur \/ AskAdd \/ AskDelete
        \/ \E i \in Ids : Select(i) \/ Created(i)
        \/ \E e \in People : Type(e) \/ Pick(e) \/ AskRemove(e)
        \/ \E w \in work : Added(w) \/ Removed(w) \/ Deleted(w)

GroupSpec == GroupInit /\ [][GroupNext]_groupVars

-----------------------------------------------------------------------------
(* Properties.                                                             *)

\* What is done is done for the department, or the group, it was shown or picked for,
\* however the answers come; nobody is picked while somebody is searched; and a
\* synchronisation leaves every team with people under the department one group, of
\* exactly its people, under a name of its own, and every other group as it was.
GroupsAsAsked ==
  /\ \A w \in work : /\ w.kind = "apply" => w.dept = w.shown
                     /\ w.kind = "add" => w.group = w.for
  /\ page.query # None => page.picked = None
  /\ part = "sync" => \A d \in Departments :
       LET after == After(Plan(d))
           Rest(all) == {g \in all : g.team \notin Staffed(d)}
       IN /\ Rest(after) = Rest(groups)
          /\ \A f, g \in after : f.name = g.name => f = g
          /\ \A t \in Staffed(d) : \E g \in after :
               /\ {f \in after : f.team = t} = {g}
               /\ g.members = {e \in People : roster[e] = t}
=============================================================================
