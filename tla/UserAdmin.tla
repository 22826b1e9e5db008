----------------------------- MODULE UserAdmin -----------------------------
(***************************************************************************)
(* The administration of users.  Those of the organisation are found by    *)
(* their department or by a search; their roles are drafted, for as many   *)
(* of them as one likes, and saved together by one request each.  Accounts *)
(* made here are edited in their row, and given passwords in a dialog.  A  *)
(* behaviour is about the list, the roles, the rows or the passwords.      *)
(***************************************************************************)
EXTENDS Naturals, FiniteSets

CONSTANTS
  Users,
  Departments,
  In,          \* [Departments -> SUBSET Users]
  Text,        \* what is searched for, and found in Users
  Roles,
  Plain,       \* the role of those who were given none
  Emails,
  Blank        \* no department, no text, no user

VARIABLES
  part,
  stored,      \* at the server: the role, or the account, of each user
  listed,      \* [lists -> what the server held when it answered]
  shown,       \* selectedDept, search, appliedSearch, syncPlan
  draft,       \* roleDraft
  save,        \* the save under way, and what became of its requests
  dialog,      \* editingId and editDraft, or passwordFor and newPassword
  form,        \* showCreate and the draft of a new account
  work         \* requests under way

userVars == <<part, stored, listed, shown, draft, save, dialog, form, work>>

Role == Roles \cup {Blank}
Account == [email : Emails \cup {Blank}, active : BOOLEAN]
\* An account that is Blank is gone.
Held == IF part \in {"list", "roles"} THEN Role ELSE Account \cup {Blank}
Lists == Departments \cup {Text}

NoSave == [asked |-> [u \in Users |-> Blank], left |-> {},
           failed |-> {}, since |-> {}, lost |-> {}, on |-> FALSE]
NoForm == [open |-> FALSE, user |-> Blank, password |-> FALSE]
Closed == [user |-> Blank, for |-> Blank, text |-> Blank, password |-> FALSE]

UserTypeOK ==
  /\ stored \in [Users -> Held]
  /\ \A l \in Lists : listed[l] = Blank \/ listed[l] \in [Users -> Held]
  /\ shown.dept \in Departments \cup {Blank} /\ shown.plan \in Departments \cup {Blank}
  /\ draft \in [Users -> Role] /\ save.asked \in [Users -> Role]
  /\ save.left \subseteq Users /\ save.lost \subseteq Users
  /\ dialog.user \in Users \cup {Blank} /\ form.user \in Users \cup {Blank}

UserInit ==
  /\ part \in {"list", "roles", "rows", "passwords"}
  /\ stored = [u \in Users |-> IF part \in {"list", "roles"} THEN Blank
                               ELSE [email |-> CHOOSE e \in Emails : TRUE, active |-> TRUE]]
  /\ listed = [l \in Lists |-> IF part = "list" THEN Blank ELSE stored]
  /\ shown = [dept |-> Blank, text |-> Blank, plan |-> Blank,
              applied |-> IF part = "roles" THEN Text ELSE Blank]
  /\ draft = [u \in Users |-> Blank] /\ save = NoSave /\ dialog = Closed
  /\ form = NoForm /\ work = {}

-----------------------------------------------------------------------------
(* Which users are listed.                                                 *)

Show(new) ==
  /\ shown' = new
  /\ UNCHANGED <<part, stored, listed, draft, save, dialog, work, form>>

\* Mutant: the search that was applied stays.
PickDepartment(d) == [shown EXCEPT !.dept = d, !.text = Blank]

\* A department clears the search.
Choosing(d) == [shown EXCEPT !.dept = d, !.text = Blank, !.applied = Blank]

Choose(d) == shown # Choosing(d) /\ Show(Choosing(d))
TypeSearch(t) == t # shown.text /\ Show([shown EXCEPT !.text = t])

\* applySearch: a search clears the department, an empty one does not.
ApplySearch ==
  LET new == [shown EXCEPT !.applied = shown.text, !.dept = IF shown.text = Blank THEN @ ELSE Blank]
  IN new # shown /\ Show(new)

\* The cross beside the department, or another company.
Leave == shown.dept # Blank /\ Show([shown EXCEPT !.dept = Blank])

\* The key of the list: nothing is asked without a department or a search.
List == IF shown.dept # Blank THEN shown.dept
        ELSE IF shown.applied # Blank THEN Text ELSE Blank

Rows == IF List = Blank \/ listed[List] = Blank THEN {}
        ELSE {u \in Users : List = Text \/ u \in In[List]}

Fetch(l) ==
  /\ listed[l] # stored
  /\ IF part \in {"list", "roles"} THEN l = List ELSE l = Text
  /\ listed' = [listed EXCEPT ![l] = stored]
  /\ UNCHANGED <<part, stored, shown, draft, save, dialog, work, form>>

-----------------------------------------------------------------------------
(* Roles.                                                                  *)

Drafted == {u \in Users : draft[u] # Blank}
Value(u) == IF draft[u] # Blank THEN draft[u]
            ELSE IF listed[List][u] # Blank THEN listed[List][u] ELSE Plain

SetRole(u, r) ==
  /\ u \in Rows /\ r # Value(u)
  /\ draft' = [draft EXCEPT ![u] = r]
  /\ save' = IF save.on THEN [save EXCEPT !.since = @ \cup {u}] ELSE save
  /\ UNCHANGED <<part, stored, listed, shown, dialog, work, form>>

CancelRoles ==
  /\ Drafted # {} /\ draft' = [u \in Users |-> Blank]
  /\ UNCHANGED <<part, stored, listed, shown, save, dialog, work, form>>

\* roleSaveMutation: a request for each draft, all at once; those of an earlier save
\* that failed may be under way still.
SaveRoles ==
  /\ Drafted # {} /\ ~save.on
  /\ save' = [NoSave EXCEPT !.asked = draft, !.left = Drafted, !.on = TRUE]
  /\ work' = work \cup {[kind |-> "role", user |-> u, role |-> draft[u], live |-> TRUE] : u \in Drafted}
  /\ UNCHANGED <<part, stored, listed, shown, draft, dialog, form>>

\* Mutant: Promise.allSettled.
AllSettled(ok, left) == IF left = {} THEN "done" ELSE "waits"

\* Promise.all: done when every request has succeeded, over with the first that fails.
Outcome(ok, left) == IF ~ok THEN "over" ELSE IF left = {} THEN "done" ELSE "waits"

\* An answer to a request of the save; after the first failure they count no more.
Answer(w, ok) ==
  LET left == save.left \ {w.user} IN
  CASE ~w.live -> /\ work' = work \ {w} /\ UNCHANGED <<draft, save>>
    [] w.live /\ Outcome(ok, left) = "done" ->
         /\ draft' = [u \in Users |-> Blank]
         /\ save' = [NoSave EXCEPT !.lost = {u \in Drafted \ save.since :
                       (~ok /\ u = w.user) \/ u \in save.failed \/ save.asked[u] # draft[u]}]
         /\ work' = work \ {w}
    [] w.live /\ Outcome(ok, left) = "waits" ->
         /\ save' = [save EXCEPT !.left = left, !.failed = IF ok THEN @ ELSE @ \cup {w.user}]
         /\ work' = work \ {w} /\ UNCHANGED draft
    [] OTHER ->
         /\ save' = NoSave /\ UNCHANGED draft
         /\ work' = {IF x.kind = "role" THEN [x EXCEPT !.live = FALSE] ELSE x : x \in work \ {w}}

RoleStored(w) ==
  /\ w.kind = "role" /\ stored' = [stored EXCEPT ![w.user] = w.role]
  /\ Answer(w, TRUE)
  /\ UNCHANGED <<part, listed, shown, dialog, form>>

RoleRefused(w) ==
  /\ w.kind = "role" /\ Answer(w, FALSE)
  /\ UNCHANGED <<part, stored, listed, shown, dialog, form>>

-----------------------------------------------------------------------------
(* The groups of the teams of the department that is selected.             *)

Ask(w) ==
  /\ \A x \in work : x.kind # w.kind
  /\ work' = work \cup {w}
  /\ UNCHANGED <<part, stored, listed, shown, draft, save, dialog, form>>

AskPreview ==
  /\ shown.dept # Blank /\ shown.plan = Blank /\ Ask([kind |-> "preview", user |-> shown.dept])

\* Another department may be selected by then.
Previewed(w) ==
  /\ w.kind = "preview"
  /\ shown' = [shown EXCEPT !.plan = w.user] /\ work' = work \ {w}
  /\ UNCHANGED <<part, stored, listed, draft, save, dialog, form>>

ClosePlan == shown.plan # Blank /\ Show([shown EXCEPT !.plan = Blank])

\* It is asked of the department that is selected; there may be none.
AskApply ==
  /\ shown.plan # Blank /\ shown.dept # Blank
  /\ Ask([kind |-> "apply", user |-> shown.dept])

Applied(w) ==
  /\ w.kind = "apply"
  /\ shown' = [shown EXCEPT !.plan = Blank] /\ work' = work \ {w}
  /\ UNCHANGED <<part, stored, listed, draft, save, dialog, form>>

-----------------------------------------------------------------------------
(* Accounts made here.                                                     *)

Listed(u) == listed[Text][u] # Blank
Dialog(new) ==
  /\ dialog' = new /\ UNCHANGED <<part, stored, listed, shown, draft, save, work, form>>

\* Mutant: the row is opened with what was typed in another.
EditOpen(u) == [dialog EXCEPT !.user = u]

\* The row is opened with what the list says.
Editing(u) == [Closed EXCEPT !.user = u, !.for = u, !.text = listed[Text][u].email]

Edit(u) == Listed(u) /\ dialog.user # u /\ Dialog(Editing(u))

TypeEmail(e) ==
  /\ dialog.user # Blank /\ Listed(dialog.user) /\ e # dialog.text
  /\ Dialog([dialog EXCEPT !.text = e, !.for = IF @ = Blank THEN dialog.user ELSE @])

\* The row is left; what was typed is not cleared.
CancelEdit == dialog.user # Blank /\ Dialog([dialog EXCEPT !.user = Blank])

SaveEdit ==
  /\ dialog.user # Blank /\ Listed(dialog.user)
  /\ Ask([kind |-> "update", user |-> dialog.user, email |-> dialog.text, for |-> dialog.for])

\* update_local_user: no e-mail is no change.  Whatever row is open is left.
Updated(w) ==
  /\ w.kind = "update" /\ stored[w.user] # Blank
  /\ stored' = [stored EXCEPT ![w.user].email = IF w.email = Blank THEN @ ELSE w.email]
  /\ dialog' = [dialog EXCEPT !.user = Blank] /\ work' = work \ {w}
  /\ UNCHANGED <<part, listed, shown, draft, save, form>>

AskStatus(u) ==
  Listed(u) /\ dialog.user # u /\ Ask([kind |-> "status", user |-> u, active |-> ~listed[Text][u].active])

StatusStored(w) ==
  /\ w.kind = "status" /\ stored[w.user] # Blank
  /\ stored' = [stored EXCEPT ![w.user].active = w.active] /\ work' = work \ {w}
  /\ UNCHANGED <<part, listed, shown, draft, save, dialog, form>>

AskDelete(u) == Listed(u) /\ dialog.user # u /\ Ask([kind |-> "delete", user |-> u])

\* delete_local_user, by this page or another operator.
Deleted(u) ==
  /\ stored[u] # Blank /\ stored' = [stored EXCEPT ![u] = Blank]
  /\ work' = {w \in work : w.kind # "delete" \/ w.user # u}
  /\ UNCHANGED <<part, listed, shown, draft, save, dialog, form>>

\* The password dialog lies over the page.
OpenPassword(u) ==
  Listed(u) /\ dialog.user = Blank /\ Dialog([dialog EXCEPT !.user = u])

TypePassword ==
  /\ dialog.user # Blank /\ ~dialog.password
  /\ Dialog([dialog EXCEPT !.password = TRUE, !.for = dialog.user])

\* Mutant: the text stays.
ShutDialog == [dialog EXCEPT !.user = Blank]

\* Closed by hand or by an answer.
Shutting == Closed

ClosePassword == dialog.user # Blank /\ Dialog(Shutting)

\* Eight characters, for the user of the dialog.
SavePassword ==
  /\ dialog.user # Blank /\ dialog.password
  /\ Ask([kind |-> "password", user |-> dialog.user, for |-> dialog.for])

\* Whatever dialog is open is closed.
PasswordStored(w) ==
  /\ w.kind = "password" /\ stored[w.user] # Blank
  /\ dialog' = Shutting /\ work' = work \ {w}
  /\ UNCHANGED <<part, stored, listed, shown, draft, save, form>>

-----------------------------------------------------------------------------
(* New accounts.                                                           *)

\* Not under the dialog.
Fill(new) ==
  /\ dialog.user = Blank /\ form' = new /\ UNCHANGED <<part, stored, listed, shown, draft, save, dialog, work>>

\* The button above the form hides it with what was typed, the one in it clears it.
ToggleForm == Fill([form EXCEPT !.open = ~@])
CancelForm == form.open /\ Fill(NoForm)

TypeLogin(u) == form.open /\ form.user # u /\ Fill([form EXCEPT !.user = u])
TypeFirstPassword == form.open /\ ~form.password /\ Fill([form EXCEPT !.password = TRUE])

\* canCreate
AskCreate ==
  /\ dialog.user = Blank /\ form.open /\ form.user # Blank /\ form.password
  /\ Ask([kind |-> "create", user |-> form.user])

\* create_local_user: a login id that is in use is refused.  Whatever was typed
\* since is cleared.
Created(w) ==
  /\ w.kind = "create" /\ stored[w.user] = Blank
  /\ stored' = [stored EXCEPT ![w.user] = [email |-> Blank, active |-> TRUE]]
  /\ form' = NoForm /\ work' = work \ {w}
  /\ UNCHANGED <<part, listed, shown, draft, save, dialog>>

Fails(w) ==
  /\ w.kind # "role" /\ work' = work \ {w}
  /\ UNCHANGED <<part, stored, listed, shown, draft, save, dialog, form>>

UserNext ==
  \/ \E l \in Lists : Fetch(l)
  \/ \E w \in work : Fails(w)
  \/ /\ part = "list"
     /\ \/ ApplySearch \/ Leave \/ CancelRoles
        \/ AskPreview \/ ClosePlan \/ AskApply
        \/ \E d \in Departments : Choose(d)
        \/ \E t \in {Text, Blank} : TypeSearch(t)
        \/ \E u \in Users, r \in Roles : SetRole(u, r)
        \/ \E w \in work : Previewed(w) \/ Applied(w)
  \/ /\ part = "roles"
     /\ \/ CancelRoles \/ SaveRoles
        \/ \E u \in Users, r \in Roles : SetRole(u, r)
        \/ \E w \in work : RoleStored(w) \/ RoleRefused(w)
  \/ /\ part = "rows"
     /\ \/ CancelEdit \/ SaveEdit
        \/ \E e \in Emails \cup {Blank} : TypeEmail(e)
        \/ \E u \in Users : Edit(u) \/ AskStatus(u) \/ AskDelete(u) \/ Deleted(u)
        \/ \E w \in work : Updated(w) \/ StatusStored(w)
  \/ /\ part = "passwords"
     /\ \/ TypePassword \/ ClosePassword \/ SavePassword
        \/ ToggleForm \/ CancelForm \/ TypeFirstPassword \/ AskCreate
        \/ \E u \in Users : OpenPassword(u) \/ Deleted(u) \/ TypeLogin(u)
        \/ \E w \in work : PasswordStored(w) \/ Created(w)

UserSpec == UserInit /\ [][UserNext]_userVars

-----------------------------------------------------------------------------
(* Properties.                                                             *)

\* Roles that were drafted before a save are given up only when all of them are
\* stored; the list is never that of a search within a department nobody sees; and
\* an e-mail or a password is stored for the user in whose row, or dialog, it was
\* filled in, whichever were opened and left before.
UsersAsAsked ==
  /\ save.lost = {}
  /\ shown.dept # Blank => shown.applied = Blank
  /\ \A w \in work : w.kind \in {"update", "password"} => w.for = w.user
  /\ dialog.password => dialog.for = dialog.user
=============================================================================
