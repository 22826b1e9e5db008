------------------------------ MODULE GrantPages ------------------------------
(***************************************************************************)
(* What the page of the permissions changes of one user or one group: the  *)
(* menus and, further below, the permissions on reports.  They share no    *)
(* state.                                                                  *)
(*                                                                         *)
(* Menus are changed in two ways: the panel of the subject keeps a draft   *)
(* of the whole list and stores it; the view of a menu revokes and grants  *)
(* by reading the list, changing it and storing it.  The server replaces   *)
(* the list in each case.  Another operator may do the same.               *)
(***************************************************************************)
EXTENDS Naturals, FiniteSets

CONSTANTS
  Menus,
  Unset,
  MaxTasks     \* bounds the requests under way

VARIABLES
  assigned,   \* its menus at the server
  seen,       \* its list in the query cache, Unset before it is loaded
  draft,      \* menuDraft, and the list it began with
  tasks,      \* requests under way; here: of the panel, or the view, that is open
  claim       \* of each menu: whether it is granted, going by the last answer

menuVars == <<assigned, seen, draft, tasks, claim>>

Draft == [keys : SUBSET Menus, base : SUBSET Menus]
Task  == [what : {"set", "revoke", "grant"}, menu : Menus \cup {Unset}, here : BOOLEAN,
          keys : (SUBSET Menus) \cup {Unset}, base : (SUBSET Menus) \cup {Unset}]

MenusTypeOK ==
  /\ assigned \subseteq Menus
  /\ seen = Unset \/ seen \subseteq Menus
  /\ draft = Unset \/ draft \in Draft
  /\ tasks \subseteq Task
  /\ claim \in [Menus -> BOOLEAN \cup {Unset}]

MenusInit ==
  /\ assigned = {}
  /\ seen = Unset /\ draft = Unset
  /\ tasks = {}
  /\ claim = [x \in Menus |-> Unset]

-----------------------------------------------------------------------------
(* The panel.                                                              *)

Checked == IF draft = Unset THEN seen ELSE draft.keys

\* The list of the subject is read again.
ReadList ==
  /\ seen' = assigned
  /\ UNCHANGED <<assigned, draft, tasks, claim>>

Flip(keys, x) == IF x \in keys THEN keys \ {x} ELSE keys \cup {x}

ToggleMenu(x) ==
  /\ seen # Unset
  /\ draft' = [keys |-> Flip(Checked, x), base |-> IF draft = Unset THEN seen ELSE draft.base]
  /\ UNCHANGED <<assigned, seen, tasks, claim>>

\* Undone by the operator.
Cancel ==
  /\ draft # Unset /\ draft' = Unset
  /\ UNCHANGED <<assigned, seen, tasks, claim>>

\* Another subject or the view of a menu is opened, and later this subject again:
\* its panel is mounted anew, and knows nothing of what the one before has asked.
Reopen ==
  /\ draft' = Unset
  /\ tasks' = {[t EXCEPT !.here = FALSE] : t \in tasks}
  /\ UNCHANGED <<assigned, seen, claim>>

-----------------------------------------------------------------------------
(* Requests.                                                               *)

AskTask(t) ==
  /\ Cardinality(tasks) < MaxTasks
  /\ tasks' = tasks \cup {t}
  /\ UNCHANGED <<assigned, seen, draft, claim>>

SaveMenu ==
  /\ draft # Unset /\ ~\E t \in tasks : t.what = "set" /\ t.here
  /\ AskTask([what |-> "set", menu |-> Unset, here |-> TRUE, keys |-> draft.keys, base |-> draft.base])

\* The view of a menu is open, and no panel with a draft; its list of those who have
\* the menu, and with it the choice of the others, may be of any age.  Groups are
\* revoked one at a time, which is a special case.  Nothing waits for a revocation.
Revoke(x) ==
  /\ draft = Unset
  /\ AskTask([what |-> "revoke", menu |-> x, here |-> FALSE, keys |-> Unset, base |-> Unset])

Grant(x) ==
  /\ draft = Unset
  /\ ~\E t \in tasks : t.what = "grant" /\ t.here
  /\ AskTask([what |-> "grant", menu |-> x, here |-> TRUE, keys |-> Unset, base |-> Unset])

\* Mutant: a menu is granted in the place of the others.
OnlyMenu(t, current) == IF t.what = "revoke" THEN {} ELSE {t.menu}

Changed(t, current) == IF t.what = "revoke" THEN current \ {t.menu} ELSE current \cup {t.menu}

\* The first of the two requests of a revocation or a grant.
ReadCurrent(t) ==
  /\ t.keys = Unset
  /\ tasks' = (tasks \ {t}) \cup {[t EXCEPT !.keys = Changed(t, assigned), !.base = assigned]}
  /\ UNCHANGED <<assigned, seen, draft, claim>>

\* set_menu_permissions replaces the list.  What it says of the menus it was not
\* about counts only if nobody has changed the list since it was read.
Concerns(t, x) == IF t.what = "set" THEN (x \in t.keys) # (x \in t.base) ELSE t.menu = x
Claims(t, acknowledged) ==
  [x \in Menus |-> IF Concerns(t, x) THEN (IF acknowledged THEN x \in t.keys ELSE Unset)
                   ELSE IF t.base = assigned THEN claim[x] ELSE Unset]

\* Nothing is stored for a user who has the menu already.
Stores(t) == IF t.what = "grant" /\ t.menu \in t.base THEN assigned' = assigned ELSE assigned' = t.keys
Claimed(t) == IF t.what = "grant" /\ t.menu \in t.base THEN UNCHANGED claim ELSE claim' = Claims(t, TRUE)

\* The answer drops the draft of the panel that asked; the lists that are open are
\* read again later.
Written(t) ==
  /\ t.keys # Unset /\ Stores(t) /\ Claimed(t)
  /\ tasks' = tasks \ {t}
  /\ draft' = IF t.what = "set" /\ t.here THEN Unset ELSE draft
  /\ UNCHANGED <<seen>>

\* It is refused, or the answer is lost.
TaskFails(t) ==
  /\ tasks' = tasks \ {t}
  /\ \/ UNCHANGED <<assigned, claim>>
     \/ t.keys # Unset /\ Stores(t) /\ claim' = Claims(t, FALSE)
  /\ UNCHANGED <<seen, draft>>

\* Another operator replaces the list.
Elsewhere(keys) ==
  /\ keys # assigned /\ assigned' = keys
  /\ claim' = [x \in Menus |-> Unset]
  /\ UNCHANGED <<seen, draft, tasks>>

MenusNext ==
  \/ ReadList \/ Cancel \/ Reopen \/ SaveMenu
  \/ \E x \in Menus : ToggleMenu(x) \/ Revoke(x) \/ Grant(x)
  \/ \E t \in tasks : ReadCurrent(t) \/ Written(t) \/ TaskFails(t)
  \/ \E keys \in SUBSET Menus : Elsewhere(keys)

MenusSpec == MenusInit /\ [][MenusNext]_menuVars

-----------------------------------------------------------------------------
(* The permissions on reports: reports are selected, the permissions they  *)
(* are to have are checked, and the server replaces what the subject has   *)
(* on all of them; a user's permissions are also revoked one by one.  What *)
(* is checked at first comes from a list in the query cache, which may be  *)
(* old.  Others change the permissions at any time.                        *)
(*                                                                         *)
(* The panel is mounted anew with every subject (its key), while what the  *)
(* one before has asked goes on: when that is done it writes the list, but *)
(* neither its answer nor its being under way touches the panel now open.  *)

CONSTANTS
  Selectable,
  Idle,
  MaxLeft      \* bounds the requests whose panel is gone

Permissions == {"VIEW", "DOWNLOAD"}

VARIABLES
  kind,      \* the subject is a "user" or a "group"
  held,      \* at the server: the permissions of the subject, <<report, permission>>
  known,     \* those of a user in the query cache; a group's are only shown
  old,       \* what of it was revoked since: the rows it names are gone
  loaded,    \* the permissions of the selected reports are there
  picked,    \* reportIds
  perms,     \* reportPerms
  work,      \* the request of the panel that is under way
  left,      \* requests the server may still do, whose answer no panel takes
  gone       \* revoked by the panel, and not asked for since

grantVars == <<kind, held, known, old, loaded, picked, perms, work, left, gone>>

Pairs == Selectable \X Permissions

\* A revocation names a row; live: the row is still there.
Work == [what : {"apply", "revoke"}, reports : SUBSET Selectable,
            perms : SUBSET Permissions, live : BOOLEAN]

GrantsTypeOK ==
  /\ held \subseteq Pairs /\ known \subseteq Pairs /\ old \subseteq known /\ gone \subseteq Pairs
  /\ picked \subseteq Selectable /\ perms \subseteq Permissions
  /\ work \in Work \cup {Idle} /\ left \subseteq Work

GrantsInit ==
  /\ kind \in {"user", "group"}
  /\ held \in {{}, Selectable \X {"VIEW"}} /\ known = (IF kind = "user" THEN held ELSE {})
  /\ old = {} /\ loaded = FALSE
  /\ picked = {} /\ perms = {"VIEW"}
  /\ work = Idle /\ left = {} /\ gone = {}

\* normalize_grant_codes
Normal(ps) == ps \cup (IF "DOWNLOAD" \in ps THEN {"VIEW"} ELSE {})

-----------------------------------------------------------------------------
(* The selection.                                                          *)

\* What is checked when the selection becomes these reports.
Offer(next) ==
  LET has == {p \in Permissions : \E r \in next : <<r, p>> \in known} IN
  IF next = {} THEN {"VIEW"}
  ELSE IF kind = "group" \/ Cardinality(next) > 1 THEN {}
  ELSE IF has = {} THEN {"VIEW"} ELSE has

Select(next) ==
  /\ next # picked /\ picked' = next
  /\ perms' = Offer(next)
  /\ loaded' \in (IF kind = "group" THEN BOOLEAN ELSE {FALSE})   \* they may be in the cache
  /\ gone' = gone \ (next \X Normal(Offer(next)))
  /\ UNCHANGED <<kind, held, known, old, work, left>>

TogglePerm(p) ==
  /\ perms' = IF p \in perms THEN perms \ {p} ELSE perms \cup {p}
  /\ gone' = IF p \in perms THEN gone ELSE gone \ (picked \X Normal({p}))
  /\ UNCHANGED <<kind, held, known, old, loaded, picked, work, left>>

\* The permissions of the user are read again, or those of the selected reports.
Read ==
  /\ known' = (IF kind = "user" THEN held ELSE {}) /\ old' = {}
  /\ loaded' = (kind = "group" /\ picked # {})
  /\ UNCHANGED <<kind, held, picked, perms, work, left, gone>>

-----------------------------------------------------------------------------
(* Requests.                                                               *)

\* A group's permissions are shown before others take their place.
CanApply ==
  /\ work = Idle /\ picked # {} /\ perms # {}
  /\ kind = "group" => loaded

AskApply ==
  /\ CanApply /\ work' = [what |-> "apply", reports |-> picked, perms |-> perms, live |-> TRUE]
  /\ UNCHANGED <<kind, held, known, old, loaded, picked, perms, left, gone>>

AskRevocation(r, p) ==
  /\ kind = "user" /\ work = Idle /\ <<r, p>> \in known
  /\ work' = [what |-> "revoke", reports |-> {r}, perms |-> {p}, live |-> <<r, p>> \notin old]
  /\ UNCHANGED <<kind, held, known, old, loaded, picked, perms, left, gone>>

\* set_user_report_permissions and set_group_report_permissions replace what the
\* subject has on the reports, and keep the rows that stay; revoke_permission deletes
\* the row that the list named, and no other row of the same permission.
Named(w) == w.reports \X w.perms
Gives(w) == IF w.what = "apply" THEN w.reports \X Normal(w.perms) ELSE {}
After(w) ==
  IF w.what = "apply" THEN (held \ (w.reports \X Permissions)) \cup Gives(w)
  ELSE IF w.live THEN held \ Named(w) ELSE held

\* The rows of what is held no more are gone, for the list and for revocations: one
\* that names such a row will do nothing.
Kept(w, set) ==
  IF w = Idle \/ w.what = "apply" THEN w ELSE [w EXCEPT !.live = @ /\ Named(w) \subseteq set]
Hold(set, others) ==
  /\ held' = set
  /\ old' = old \cup (known \ set)
  /\ left' = {w \in others : Kept(w, set).live}

\* Mutant: the selection outlives a revocation.
KeepDraft ==
  IF work # Idle /\ work.what = "revoke" THEN UNCHANGED <<picked, perms, loaded>>
  ELSE picked' = {} /\ perms' = {"VIEW"} /\ loaded' = FALSE

\* Nothing is selected any more: at the answer, and when the panel is mounted.
Clear == picked' = {} /\ perms' = {"VIEW"} /\ loaded' = FALSE

\* The panel that asked is still there.
Done ==
  /\ work # Idle /\ Hold(After(work), left) /\ Clear
  /\ work' = Idle
  /\ gone' = IF work.what = "revoke" THEN gone \cup (Named(work) \ After(work)) ELSE gone
  /\ UNCHANGED <<kind, known>>

\* Nobody takes the answer, but the server may still do it.
LeftBehind ==
  /\ Cardinality(left) < MaxLeft
  /\ work' = Idle /\ left' = left \cup {w \in {work} : w.live}

\* Refused, or the answer is lost: the selection stays.
WorkFails ==
  /\ work # Idle
  /\ LeftBehind \/ (work' = Idle /\ UNCHANGED left)
  /\ UNCHANGED <<kind, held, known, old, loaded, picked, perms, gone>>

\* Another subject is opened, and later this one again.
Remount ==
  /\ Clear
  /\ IF work = Idle THEN UNCHANGED <<work, left>> ELSE LeftBehind
  /\ UNCHANGED <<kind, held, known, old, gone>>

\* The server does what an earlier panel has asked, or not; the selection that is
\* open stays as it is.
LeftDone(w) ==
  /\ Hold(After(w), left \ {w})
  /\ work' = Kept(work, After(w))
  /\ gone' = gone \ Gives(w)
  /\ UNCHANGED <<kind, known, loaded, picked, perms>>

LeftFails(w) ==
  /\ left' = left \ {w}
  /\ UNCHANGED <<kind, held, known, old, loaded, picked, perms, work, gone>>

-----------------------------------------------------------------------------
(* Others: the panel of a report, where permissions are added and revoked.  *)

GrantBulk(r, ps) ==
  /\ Hold(held \cup ({r} \X Normal(ps)), left)
  /\ work' = Kept(work, held')
  /\ gone' = gone \ ({r} \X Normal(ps))
  /\ UNCHANGED <<kind, known, loaded, picked, perms>>

RevokeElsewhere(r, p) ==
  /\ <<r, p>> \in held /\ Hold(held \ {<<r, p>>}, left)
  /\ work' = Kept(work, held')
  /\ UNCHANGED <<kind, known, loaded, picked, perms, gone>>

GrantsNext ==
  \/ Read \/ AskApply \/ Done \/ WorkFails \/ Remount
  \/ \E w \in left : LeftDone(w) \/ LeftFails(w)
  \/ \E next \in SUBSET Selectable : Select(next)
  \/ \E p \in Permissions : TogglePerm(p)
  \/ \E r \in Selectable, p \in Permissions : AskRevocation(r, p) \/ RevokeElsewhere(r, p)
  \/ \E r \in Selectable, ps \in (SUBSET Permissions) \ {{}} : GrantBulk(r, ps)

GrantsSpec == GrantsInit /\ [][GrantsNext]_grantVars

GrantPagesSpec == MenusSpec /\ GrantsSpec

-----------------------------------------------------------------------------
(* Properties.                                                             *)

\* What the server has answered holds: a menu that was granted is granted and
\* one that was revoked is not, until somebody asks for the opposite, or stores a
\* list that was made before; so no request changes menus it is not about.
MenusAsAsked == \A x \in Menus : claim[x] # Unset => claim[x] = (x \in assigned)

\* A permission that the open panel has revoked does not come back by a selection
\* made before the answer, whatever was checked, selected and read again meanwhile,
\* and however often the panel is left and opened again: only somebody else, or a
\* request of an earlier panel that the server does late, gives it back.  (What an
\* earlier panel has revoked is not gone in this sense: its answer clears no
\* selection of the panel that is open, which may well store it again.)
RevokedStaysRevoked == gone \cap held = {}

\* What the administration of permissions was told has happened has happened, and
\* is not undone by what was prepared before.
GrantsAsAsked == MenusAsAsked /\ RevokedStaysRevoked
=============================================================================
