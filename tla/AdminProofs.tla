------------------------------ MODULE AdminProofs ------------------------------
(***************************************************************************)
(* Proofs about the administration pages: whatever is typed while an       *)
(* answer is on its way, whoever else stores, and whatever fails, what is  *)
(* stored is what was asked for.  First the numbers and orders that the    *)
(* pages sort by; then the users, the requests of the service centre, the  *)
(* groups, the display boards and the reports, each with the invariant     *)
(* that its page keeps and one lemma per action or group of actions, and   *)
(* of the users and the groups also with their types; and at the end the   *)
(* pages together.                                                         *)
(***************************************************************************)
EXTENDS PortalPages, Sorting, Integers, FiniteSetTheorems, FunctionTheorems, SequenceTheorems,
        WellFoundedInduction, TLAPS

-----------------------------------------------------------------------------
(* Numbers.                                                                *)

\* A set of numbers has a least one.
LEMMA LeastNumber ==
  ASSUME NEW T \in SUBSET Nat, T # {}
  PROVE  \E x \in T : \A y \in T : x <= y
<1> DEFINE R == {ss \in Nat \X Nat : ss[1] < ss[2]}
<1>1. IsWellFoundedOn(R, Nat)
  BY NatLessThanWellFounded DEF OpToRel
<1>2. \A x, y \in Nat : y < x => <<y, x>> \in R
  OBVIOUS
<1> HIDE DEF R
<1>3. PICK x \in T : \A y \in T : ~(<<y, x>> \in R)
  BY <1>1, WFMin
<1>4. \A y \in T : ~ (y < x)
  BY <1>2, <1>3
<1> QED BY <1>4

\* What holds of 0, and of the number after each of which it holds, holds of all.
LEMMA AllNumbers ==
  ASSUME NEW T \in SUBSET Nat, 0 \in T, \A n \in T : n + 1 \in T
  PROVE  T = Nat
<1> DEFINE B == Nat \ T
<1>1. SUFFICES ASSUME B # {} PROVE FALSE
  OBVIOUS
<1>2. PICK x \in B : \A y \in B : x <= y
  BY <1>1, LeastNumber
<1>3. x # 0 /\ x - 1 \in Nat /\ x - 1 \notin B
  BY <1>2
<1>4. (x - 1) + 1 \in T
  BY <1>3
<1> QED BY <1>2, <1>3, <1>4

\* Steps from number to number, on values of a set, and a sequence that follows one.
Steps(S) == [Nat \X S -> S]
Follows(f, b, F) == f[0] = b /\ \A n \in Nat : f[n + 1] = F[<<n, f[n]>>]

\* A step is followed from any beginning.
LEMMA Recursion ==
  ASSUME NEW S, NEW b \in S, NEW F \in Steps(S)
  PROVE  \E f \in [Nat -> S] : Follows(f, b, F)
<1>0. F \in [Nat \X S -> S]
  BY DEF Steps
<1> DEFINE Good(n, f) == f \in [0..n -> S] /\ f[0] = b /\ \A k \in 0..(n - 1) : f[k + 1] = F[<<k, f[k]>>]
<1>1. ASSUME NEW n \in Nat, NEW m \in Nat, NEW f, NEW g, Good(n, f), Good(m, g),
             NEW i \in Nat, i <= n, i <= m
      PROVE  f[i] = g[i]
  <2> DEFINE T == {k \in Nat : k <= n /\ k <= m /\ f[k] # g[k]}
  <2>1. SUFFICES ASSUME T # {} PROVE FALSE
    BY <1>1
  <2>2. PICK x \in T : \A y \in T : x <= y
    <3> HIDE DEF T
    <3>1. T \in SUBSET Nat
      BY DEF T
    <3> QED BY <2>1, <3>1, LeastNumber
  <2>3. CASE x = 0
    BY <1>1, <2>2, <2>3
  <2>4. CASE x # 0
    <3>1. x - 1 \in Nat /\ x - 1 \notin T
      BY <2>2, <2>4
    <3>2. f[x - 1] = g[x - 1] /\ x - 1 \in 0..(n - 1) /\ x - 1 \in 0..(m - 1) /\ (x - 1) + 1 = x
      BY <2>2, <3>1
    <3> QED BY <1>1, <2>2, <3>2
  <2> QED BY <2>3, <2>4
<1>2. \A n \in Nat : \E f : Good(n, f)
  <2> DEFINE T == {n \in Nat : ~ \E f : Good(n, f)}
  <2>1. SUFFICES ASSUME T # {} PROVE FALSE
    OBVIOUS
  <2>2. PICK x \in T : \A y \in T : x <= y
    <3> HIDE DEF T
    <3>1. T \in SUBSET Nat
      BY DEF T
    <3> QED BY <2>1, <3>1, LeastNumber
  <2>3. CASE x = 0
    <3>1. Good(0, [k \in 0..0 |-> b])
      OBVIOUS
    <3> QED BY <2>2, <2>3, <3>1
  <2>4. CASE x # 0
    <3>0. x \in Nat
      BY <2>2
    <3>1. x - 1 \in Nat /\ x - 1 \notin T
      <4> HIDE DEF T
      <4> QED BY <2>2, <2>4, <3>0
    <3>2. PICK g : Good(x - 1, g)
      BY <3>1
    <3> DEFINE v == F[<<x - 1, g[x - 1]>>]
               f == [k \in 0..x |-> IF k = x THEN v ELSE g[k]]
    <3>3. g[x - 1] \in S /\ \A k \in 0..(x - 1) : g[k] \in S
      BY <3>1, <3>2
    <3>4. v \in S
      BY <1>0, <3>1, <3>3
    <3> HIDE DEF v
    <3>5. f \in [0..x -> S] /\ f[0] = b /\ f[x] = v /\ \A k \in 0..(x - 1) : f[k] = g[k]
      BY <2>4, <3>1, <3>2, <3>3, <3>4
    <3> HIDE DEF f
    <3>6. \A k \in 0..(x - 1) : f[k + 1] = F[<<k, f[k]>>]
      <4> SUFFICES ASSUME NEW k \in 0..(x - 1) PROVE f[k + 1] = F[<<k, f[k]>>]
        OBVIOUS
      <4>1. CASE k = x - 1
        <5>1. k + 1 = x /\ f[k] = g[x - 1]
          BY <3>1, <3>5, <4>1
        <5>2. f[k + 1] = v
          BY <3>5, <5>1
        <5> QED BY <4>1, <5>1, <5>2 DEF v
      <4>2. CASE k # x - 1
        <5>1. k \in 0..((x - 1) - 1) /\ k + 1 \in 0..(x - 1)
          BY <3>1, <4>2
        <5> QED BY <3>2, <3>5, <5>1
      <4> QED BY <4>1, <4>2
    <3> QED BY <2>2, <3>5, <3>6
  <2> QED BY <2>3, <2>4
<1> DEFINE At(n) == CHOOSE f : Good(n, f)
           h == [n \in Nat |-> At(n)[n]]
<1> HIDE DEF Good
<1>3. \A n \in Nat : Good(n, At(n))
  BY <1>2
<1> HIDE DEF At
<1>4. h \in [Nat -> S] /\ h[0] = b
  <2>1. \A n \in Nat : At(n)[n] \in S
    BY <1>3 DEF Good
  <2>2. At(0)[0] = b
    BY <1>3 DEF Good
  <2> QED BY <2>1, <2>2
<1>5. \A n \in Nat : h[n + 1] = F[<<n, h[n]>>]
  <2> SUFFICES ASSUME NEW n \in Nat PROVE h[n + 1] = F[<<n, h[n]>>]
    OBVIOUS
  <2>1. At(n + 1)[n] = At(n)[n]
    BY <1>1, <1>3
  <2>2. At(n + 1)[n + 1] = F[<<n, At(n + 1)[n]>>]
    BY <1>3 DEF Good
  <2> QED BY <2>1, <2>2
<1> QED BY <1>4, <1>5 DEF Follows

-----------------------------------------------------------------------------
(* Users.                                                                  *)

RoleRequest == [kind : {"role"}, user : Users, role : Accounts!Role, live : BOOLEAN]

\* A request of the save that goes on asks for what the save began with; those of
\* an earlier one count no more.
SaveKept ==
  /\ draft \in [Users -> Accounts!Role]
  /\ save \in [asked : [Users -> Accounts!Role], left : SUBSET Users, failed : {{}},
               since : SUBSET Users, lost : {{}}, on : BOOLEAN]
  /\ \A w \in jobs : w.kind = "role" => w \in RoleRequest
  /\ \A w \in jobs : w.kind = "role" /\ w.live =>
       save.on /\ w.user \in save.left /\ w.role = save.asked[w.user]
  /\ save.on => \A u \in Users \ save.since : draft[u] \in {save.asked[u], None}

\* What was typed is of the row, or the dialog, it was typed in.
DialogKept ==
  /\ window \in [user : Users \cup {None}, for : Users \cup {None},
                 text : {window.text}, password : BOOLEAN]
  /\ part # "passwords" => ~window.password /\ (window.user # None => window.for = window.user)
  /\ part = "passwords" => (window.password => window.for = window.user /\ window.user # None)
  /\ \A w \in jobs : w.kind \in {"update", "password"} => w.for = w.user

ShownKept ==
  /\ sight \in [dept : {sight.dept}, text : {sight.text}, applied : {sight.applied}, plan : {sight.plan}]
  /\ sight.dept # None => sight.applied = None

UserConstants == None \notin Users

UserIInv == SaveKept /\ DialogKept /\ ShownKept

LEMMA UserInitIInv == Accounts!UserInit => UserIInv
<1> SUFFICES ASSUME Accounts!UserInit PROVE UserIInv
  OBVIOUS
<1>1. SaveKept
  BY DEF Accounts!UserInit, SaveKept, Accounts!NoSave, Accounts!Role
<1>2. DialogKept
  BY DEF Accounts!UserInit, DialogKept, Accounts!Closed
<1>3. ShownKept
  BY DEF Accounts!UserInit, ShownKept
<1> QED BY <1>1, <1>2, <1>3 DEF UserIInv

\* A step that leaves the roles alone takes away requests, or adds one that is not
\* about roles.
LEMMA SaveFrame ==
  ASSUME SaveKept, UNCHANGED <<draft, save>>,
         \A w \in jobs' : w \in jobs \/ w.kind # "role"
  PROVE  SaveKept'
BY DEF SaveKept, RoleRequest, Accounts!Role

LEMMA DialogFrame ==
  ASSUME DialogKept, UNCHANGED <<part, window>>,
         \A w \in jobs' : w \in jobs \/ w.kind \notin {"update", "password"} \/ w.for = w.user
  PROVE  DialogKept'
BY DEF DialogKept

LEMMA ShownFrame == ASSUME ShownKept, UNCHANGED sight PROVE ShownKept'
BY DEF ShownKept

LEMMA SetRoleKeeps ==
  ASSUME UserIInv, NEW u \in Users, NEW r \in Roles, Accounts!SetRole(u, r)
  PROVE  UserIInv'
<1> USE DEF UserIInv
<1>1. /\ draft' = [draft EXCEPT ![u] = r] /\ UNCHANGED <<jobs, part, window, sight>>
      /\ save' = IF save.on THEN [save EXCEPT !.since = @ \cup {u}] ELSE save
  BY DEF Accounts!SetRole
<1>2. draft' \in [Users -> Accounts!Role]
  BY <1>1 DEF SaveKept, Accounts!Role
<1>3. SaveKept'
  <2>1. CASE save.on
    BY <1>1, <1>2, <2>1 DEF SaveKept, RoleRequest
  <2>2. CASE ~save.on
    BY <1>1, <1>2, <2>2 DEF SaveKept, RoleRequest
  <2> QED BY <2>1, <2>2
<1> QED BY <1>1, <1>3, DialogFrame, ShownFrame

LEMMA SaveRolesKeeps == ASSUME UserIInv, Accounts!SaveRoles PROVE UserIInv'
<1> USE DEF UserIInv
<1> DEFINE asks == {[kind |-> "role", user |-> u, role |-> draft[u], live |-> TRUE] : u \in Accounts!Drafted}
<1>1. /\ ~save.on /\ UNCHANGED <<draft, part, window, sight>>
      /\ save' = [Accounts!NoSave EXCEPT !.asked = draft, !.left = Accounts!Drafted, !.on = TRUE]
      /\ jobs' = jobs \cup asks
  BY DEF Accounts!SaveRoles
<1>2. \A w \in asks : /\ w \in RoleRequest /\ w.kind = "role"
                      /\ w.user \in Accounts!Drafted /\ w.role = draft[w.user]
  <2> SUFFICES ASSUME NEW u \in Users, draft[u] # None,
                      NEW w, w = [kind |-> "role", user |-> u, role |-> draft[u], live |-> TRUE]
               PROVE  /\ w \in RoleRequest /\ w.kind = "role"
                      /\ w.user \in Accounts!Drafted /\ w.role = draft[w.user]
    BY DEF Accounts!Drafted
  <2>1. draft[u] \in Accounts!Role
    BY DEF SaveKept
  <2> QED BY <2>1 DEF RoleRequest, Accounts!Drafted
<1>3. save' = [asked |-> draft, left |-> Accounts!Drafted, failed |-> {}, since |-> {}, lost |-> {}, on |-> TRUE]
  BY <1>1 DEF Accounts!NoSave
<1> HIDE DEF asks
<1>4. SaveKept'
  <2>1. draft' \in [Users -> Accounts!Role] /\ draft \in [Users -> Accounts!Role]
        /\ Accounts!Drafted \in SUBSET Users /\ {} \in SUBSET Users
    BY <1>1 DEF SaveKept, Accounts!Drafted
  <2>2. save' \in [asked : [Users -> Accounts!Role], left : SUBSET Users, failed : {{}},
                   since : SUBSET Users, lost : {{}}, on : BOOLEAN]
    <3> HIDE DEF UserIInv
    <3>1. {} \in {{}} /\ TRUE \in BOOLEAN
      OBVIOUS
    <3> QED BY <1>3, <2>1, <3>1
  <2>3. \A w \in jobs' : w.kind = "role" => w \in RoleRequest
    BY <1>1, <1>2 DEF SaveKept
  <2>4. \A w \in jobs' : w.kind = "role" /\ w.live => w \in asks
    BY <1>1 DEF SaveKept
  <2>5. \A w \in jobs' : w.kind = "role" /\ w.live =>
          save'.on /\ w.user \in save'.left /\ w.role = save'.asked[w.user]
    BY <1>2, <1>3, <2>4
  <2>6. \A u \in Users : draft'[u] = save'.asked[u]
    BY <1>1, <1>3
  <2> QED BY <2>1, <2>2, <2>3, <2>5, <2>6 DEF SaveKept, Accounts!Role
<1>5. DialogKept'
  BY <1>1, <1>2, DialogFrame
<1> QED BY <1>1, <1>4, <1>5, ShownFrame

\* An answer to a request of the save takes it from those that are waited for; all
\* that were drafted are dropped only when nobody is waited for.
LEMMA AnswerKeeps ==
  ASSUME UserIInv, NEW w \in jobs, w.kind = "role", NEW ok \in BOOLEAN, Accounts!Answer(w, ok),
         UNCHANGED <<part, window, sight>>
  PROVE  UserIInv'
<1> USE DEF UserIInv
<1> DEFINE left == save.left \ {w.user}
<1>0. w \in RoleRequest /\ w.live \in BOOLEAN
  BY DEF SaveKept, RoleRequest
<1>1. CASE ~w.live
  <2>1. jobs' = jobs \ {w} /\ UNCHANGED <<draft, save>>
    BY <1>1 DEF Accounts!Answer
  <2> QED BY <2>1, SaveFrame, DialogFrame, ShownFrame
<1>2. CASE w.live
  <2>0. save.on /\ w.user \in save.left /\ w.role = save.asked[w.user]
    BY <1>2 DEF SaveKept
  <2>1. CASE ok /\ left = {}
    <3>1. Accounts!Outcome(ok, left) = "done"
      BY <2>1 DEF Accounts!Outcome
    <3>2. /\ draft' = [u \in Users |-> None] /\ jobs' = jobs \ {w}
          /\ save' = [Accounts!NoSave EXCEPT !.lost = {u \in Accounts!Drafted \ save.since :
               (~ok /\ u = w.user) \/ u \in save.failed \/ save.asked[u] # draft[u]}]
      BY <1>2, <3>1 DEF Accounts!Answer
    <3>3. {u \in Accounts!Drafted \ save.since :
             (~ok /\ u = w.user) \/ u \in save.failed \/ save.asked[u] # draft[u]} = {}
      BY <2>0, <2>1 DEF SaveKept, Accounts!Drafted
    <3>4. save' = Accounts!NoSave
      BY <3>2, <3>3 DEF Accounts!NoSave
    <3>5. \A x \in jobs' : x.kind = "role" => ~x.live
      <4> SUFFICES ASSUME NEW x \in jobs', x.kind = "role", x.live PROVE FALSE
        OBVIOUS
      <4>1. x \in RoleRequest /\ x.user \in save.left /\ x.role = save.asked[x.user] /\ x # w
        BY <3>2 DEF SaveKept
      <4>2. x.user = w.user
        BY <2>1, <4>1
      <4>3. x = w
        BY <1>0, <1>2, <2>0, <4>1, <4>2 DEF RoleRequest
      <4> QED BY <4>1, <4>3
    <3>6. SaveKept'
      <4>1. draft' \in [Users -> Accounts!Role]
        BY <3>2 DEF Accounts!Role
      <4>2. save' = [asked |-> [u \in Users |-> None], left |-> {}, failed |-> {}, since |-> {},
                     lost |-> {}, on |-> FALSE]
        BY <3>4 DEF Accounts!NoSave
      <4>3. \A x \in jobs' : x.kind = "role" => x \in RoleRequest
        BY <3>2 DEF SaveKept
      <4> QED BY <3>5, <4>1, <4>2, <4>3 DEF SaveKept, Accounts!Role
    <3> QED BY <3>2, <3>6, DialogFrame, ShownFrame
  <2>2. CASE ok /\ left # {}
    <3>1. Accounts!Outcome(ok, left) = "waits"
      BY <2>2 DEF Accounts!Outcome
    <3>2. /\ save' = [save EXCEPT !.left = left, !.failed = IF ok THEN @ ELSE @ \cup {w.user}]
          /\ jobs' = jobs \ {w} /\ UNCHANGED draft
      BY <1>2, <3>1 DEF Accounts!Answer
    <3>3. save' = [save EXCEPT !.left = left]
      BY <2>2, <3>2 DEF SaveKept
    <3>4. \A x \in jobs' : x.kind = "role" /\ x.live => x.user # w.user
      <4> SUFFICES ASSUME NEW x \in jobs', x.kind = "role", x.live, x.user = w.user PROVE FALSE
        OBVIOUS
      <4>1. x \in RoleRequest /\ x.role = save.asked[x.user] /\ x # w
        BY <3>2 DEF SaveKept
      <4>2. x = w
        BY <1>0, <1>2, <2>0, <4>1 DEF RoleRequest
      <4> QED BY <4>1, <4>2
    <3>5. SaveKept'
      BY <3>2, <3>3, <3>4 DEF SaveKept, RoleRequest, Accounts!Role
    <3> QED BY <3>2, <3>5, DialogFrame, ShownFrame
  <2>3. CASE ~ok
    <3>1. Accounts!Outcome(ok, left) = "over"
      BY <2>3 DEF Accounts!Outcome
    <3>2. /\ save' = Accounts!NoSave /\ UNCHANGED draft
          /\ jobs' = {IF x.kind = "role" THEN [x EXCEPT !.live = FALSE] ELSE x : x \in jobs \ {w}}
      BY <1>2, <3>1 DEF Accounts!Answer
    <3>3. \A y \in jobs' : \/ y \in jobs /\ y.kind # "role"
                           \/ y \in RoleRequest /\ y.kind = "role" /\ ~y.live
      <4> SUFFICES ASSUME NEW x \in jobs, NEW y, y = IF x.kind = "role" THEN [x EXCEPT !.live = FALSE] ELSE x
                   PROVE  \/ y \in jobs /\ y.kind # "role"
                          \/ y \in RoleRequest /\ y.kind = "role" /\ ~y.live
        BY <3>2
      <4>1. x.kind = "role" => x \in RoleRequest
        BY DEF SaveKept
      <4> QED BY <4>1 DEF RoleRequest
    <3>4. SaveKept'
      BY <3>2, <3>3 DEF SaveKept, Accounts!NoSave, Accounts!Role
    <3>5. DialogKept'
      BY <3>3, DialogFrame
    <3> QED BY <3>4, <3>5, ShownFrame
  <2> QED BY <2>1, <2>2, <2>3
<1> QED BY <1>0, <1>1, <1>2

\* What the dialogs, the list and the form do.
LEMMA DialogKeeps ==
  ASSUME UserIInv, UserConstants, NEW u \in Users, part \in {"rows", "passwords"},
         \/ part = "rows" /\ (Accounts!CancelEdit \/ Accounts!SaveEdit \/ Accounts!Edit(u)
                              \/ \E e \in Emails \cup {None} : Accounts!TypeEmail(e))
         \/ part = "passwords" /\ (Accounts!TypePassword \/ Accounts!ClosePassword
                                   \/ Accounts!SavePassword \/ Accounts!OpenPassword(u))
  PROVE  UserIInv'
<1>0. DialogKept /\ SaveKept /\ ShownKept
  BY DEF UserIInv
<1>1. UNCHANGED <<part, sight, draft, save>>
  BY DEF Accounts!CancelEdit, Accounts!SaveEdit, Accounts!Edit, Accounts!TypeEmail, Accounts!TypePassword,
         Accounts!ClosePassword, Accounts!SavePassword, Accounts!OpenPassword, Accounts!Dialog, Accounts!Ask
<1>2. \A w \in jobs' : w \in jobs \/ w.kind \in {"update", "password"}
  <2>1. \/ jobs' = jobs
        \/ jobs' = jobs \cup {[kind |-> "update", user |-> window.user, email |-> window.text, for |-> window.for]}
        \/ jobs' = jobs \cup {[kind |-> "password", user |-> window.user, for |-> window.for]}
    BY DEF Accounts!CancelEdit, Accounts!SaveEdit, Accounts!Edit, Accounts!TypeEmail, Accounts!TypePassword,
         Accounts!ClosePassword, Accounts!SavePassword, Accounts!OpenPassword, Accounts!Dialog, Accounts!Ask
  <2> QED BY <2>1
<1>3. SaveKept' /\ ShownKept'
  <2>1. \A w \in jobs' : w \in jobs \/ w.kind # "role"
    BY <1>2
  <2> QED BY <1>0, <1>1, <2>1, SaveFrame, ShownFrame
<1>4. DialogKept'
  <2>1. CASE part = "rows" /\ Accounts!CancelEdit
    BY <1>0, <2>1 DEF DialogKept, Accounts!CancelEdit, Accounts!Dialog
  <2>2. CASE part = "rows" /\ Accounts!SaveEdit
    <3>1. \A w \in jobs' : w \in jobs \/ w.for = w.user
      BY <1>0, <2>2 DEF DialogKept, Accounts!SaveEdit, Accounts!Ask
    <3> QED BY <1>0, <2>2, <3>1, DialogFrame DEF Accounts!SaveEdit, Accounts!Ask
  <2>3. CASE part = "rows" /\ Accounts!Edit(u)
    BY <1>0, <2>3 DEF DialogKept, Accounts!Edit, Accounts!Dialog, Accounts!Editing, Accounts!Closed
  <2>4. CASE part = "rows" /\ \E e \in Emails \cup {None} : Accounts!TypeEmail(e)
    BY <1>0, <2>4 DEF DialogKept, Accounts!TypeEmail, Accounts!Dialog
  <2>5. CASE part = "passwords" /\ Accounts!TypePassword
    BY <1>0, <2>5 DEF DialogKept, Accounts!TypePassword, Accounts!Dialog
  <2>6. CASE part = "passwords" /\ Accounts!ClosePassword
    BY <1>0, <2>6 DEF DialogKept, Accounts!ClosePassword, Accounts!Shutting, Accounts!Dialog, Accounts!Closed
  <2>7. CASE part = "passwords" /\ Accounts!SavePassword
    <3>1. \A w \in jobs' : w \in jobs \/ w.for = w.user
      BY <1>0, <2>7 DEF DialogKept, Accounts!SavePassword, Accounts!Ask
    <3> QED BY <1>0, <2>7, <3>1, DialogFrame DEF Accounts!SavePassword, Accounts!Ask
  <2>8. CASE part = "passwords" /\ Accounts!OpenPassword(u)
    BY <1>0, <2>8 DEF DialogKept, Accounts!OpenPassword, Accounts!Dialog, UserConstants
  <2> QED BY <2>1, <2>2, <2>3, <2>4, <2>5, <2>6, <2>7, <2>8
<1> QED BY <1>3, <1>4 DEF UserIInv

LEMMA DialogAnswerKeeps ==
  ASSUME UserIInv, NEW w \in jobs,
         \/ part = "rows" /\ Accounts!Updated(w)
         \/ part = "passwords" /\ Accounts!PasswordStored(w)
  PROVE  UserIInv'
<1>0. DialogKept /\ SaveKept /\ ShownKept
  BY DEF UserIInv
<1>1. UNCHANGED <<part, sight, draft, save>> /\ jobs' = jobs \ {w}
  BY DEF Accounts!Updated, Accounts!PasswordStored
<1>2. CASE part = "rows" /\ Accounts!Updated(w)
  <2>1. window' = [window EXCEPT !.user = None]
    BY <1>2 DEF Accounts!Updated
  <2>2. DialogKept'
    BY <1>0, <1>1, <1>2, <2>1 DEF DialogKept
  <2> QED BY <1>0, <1>1, <2>2, SaveFrame, ShownFrame DEF UserIInv
<1>3. CASE part = "passwords" /\ Accounts!PasswordStored(w)
  <2>1. window' = [user |-> None, for |-> None, text |-> None, password |-> FALSE]
    BY <1>3 DEF Accounts!PasswordStored, Accounts!Shutting, Accounts!Closed
  <2>2. DialogKept'
    BY <1>0, <1>1, <1>3, <2>1 DEF DialogKept
  <2> QED BY <1>0, <1>1, <2>2, SaveFrame, ShownFrame DEF UserIInv
<1> QED BY <1>2, <1>3

\* Steps that touch neither the dialogs nor the roles.
LEMMA ListKeeps ==
  ASSUME UserIInv, UNCHANGED <<part, window, draft, save>>,
         \A w \in jobs' : w \in jobs \/ w.kind \notin {"role", "update", "password"},
         \/ UNCHANGED sight
         \/ \E d \in UserDepartments : Accounts!Choose(d)
         \/ \E t \in {Text, None} : Accounts!TypeSearch(t)
         \/ Accounts!ApplySearch \/ Accounts!Leave \/ Accounts!ClosePlan
         \/ \E w \in jobs : Accounts!Previewed(w) \/ Accounts!Applied(w)
  PROVE  UserIInv'
<1>0. DialogKept /\ SaveKept /\ ShownKept
  BY DEF UserIInv
<1>1. ShownKept'
  BY <1>0 DEF ShownKept, Accounts!Choose, Accounts!Choosing, Accounts!TypeSearch, Accounts!ApplySearch,
         Accounts!Leave, Accounts!ClosePlan, Accounts!Previewed, Accounts!Applied, Accounts!Show
<1> QED BY <1>0, <1>1, SaveFrame, DialogFrame DEF UserIInv

LEMMA CancelRolesKeeps == ASSUME UserIInv, Accounts!CancelRoles PROVE UserIInv'
<1>0. DialogKept /\ SaveKept /\ ShownKept
  BY DEF UserIInv
<1>1. draft' = [u \in Users |-> None] /\ UNCHANGED <<part, sight, save, window, jobs>>
  BY DEF Accounts!CancelRoles
<1>2. SaveKept'
  BY <1>0, <1>1 DEF SaveKept, RoleRequest, Accounts!Role
<1> QED BY <1>0, <1>1, <1>2, DialogFrame, ShownFrame DEF UserIInv

LEMMA UserStep == ASSUME UserConstants, UserIInv, [Accounts!UserNext]_(Accounts!userVars) PROVE UserIInv'
<1>0. DialogKept /\ SaveKept /\ ShownKept
  BY DEF UserIInv
<1>1. CASE UNCHANGED Accounts!userVars
  BY <1>0, <1>1, SaveFrame, DialogFrame, ShownFrame DEF Accounts!userVars, UserIInv
<1>2. CASE \E l \in Accounts!Lists : Accounts!Fetch(l)
  BY <1>2, ListKeeps DEF Accounts!Fetch
<1>3. CASE \E w \in jobs : Accounts!Fails(w)
  BY <1>3, ListKeeps DEF Accounts!Fails
<1>4. CASE /\ part = "list"
           /\ \/ Accounts!ApplySearch \/ Accounts!Leave \/ Accounts!ClosePlan
              \/ \E d \in UserDepartments : Accounts!Choose(d)
              \/ \E t \in {Text, None} : Accounts!TypeSearch(t)
              \/ \E w \in jobs : Accounts!Previewed(w) \/ Accounts!Applied(w)
  <2>1. UNCHANGED <<part, window, draft, save>> /\ \A w \in jobs' : w \in jobs
    BY <1>4 DEF Accounts!Choose, Accounts!TypeSearch, Accounts!ApplySearch,
         Accounts!Leave, Accounts!ClosePlan, Accounts!Previewed, Accounts!Applied, Accounts!Show
  <2> QED BY <1>4, <2>1, ListKeeps
<1>5. CASE part = "list" /\ (Accounts!AskPreview \/ Accounts!AskApply)
  <2>1. UNCHANGED <<part, window, draft, save, sight>>
        /\ \A w \in jobs' : w \in jobs \/ w.kind \in {"preview", "apply"}
    BY <1>5 DEF Accounts!AskPreview, Accounts!AskApply, Accounts!Ask
  <2> QED BY <2>1, ListKeeps
<1>6. CASE \E u \in Users, r \in Roles : Accounts!SetRole(u, r)
  BY <1>6, SetRoleKeeps
<1>7. CASE Accounts!CancelRoles
  BY <1>7, CancelRolesKeeps
<1>8. CASE Accounts!SaveRoles
  BY <1>8, SaveRolesKeeps
<1>9. CASE \E w \in jobs : Accounts!RoleStored(w) \/ Accounts!RoleRefused(w)
  BY <1>9, AnswerKeeps DEF Accounts!RoleStored, Accounts!RoleRefused
<1>10. CASE part = "rows" /\ \E u \in Users : Accounts!AskStatus(u) \/ Accounts!AskDelete(u)
  <2>1. UNCHANGED <<part, window, draft, save, sight>>
        /\ \A w \in jobs' : w \in jobs \/ w.kind \in {"status", "delete"}
    BY <1>10 DEF Accounts!AskStatus, Accounts!AskDelete, Accounts!Ask
  <2> QED BY <2>1, ListKeeps
<1>11. CASE \E u \in Users : Accounts!Deleted(u)
  BY <1>11, ListKeeps DEF Accounts!Deleted
<1>12. CASE part = "rows" /\ \E w \in jobs : Accounts!StatusStored(w)
  BY <1>12, ListKeeps DEF Accounts!StatusStored
<1>13. CASE \/ part = "rows" /\ \E w \in jobs : Accounts!Updated(w)
            \/ part = "passwords" /\ \E w \in jobs : Accounts!PasswordStored(w)
  BY <1>13, DialogAnswerKeeps
<1>14. CASE \/ /\ part = "rows"
               /\ \/ Accounts!CancelEdit \/ Accounts!SaveEdit
                  \/ \E e \in Emails \cup {None} : Accounts!TypeEmail(e)
                  \/ \E u \in Users : Accounts!Edit(u)
            \/ /\ part = "passwords"
               /\ \/ Accounts!TypePassword \/ Accounts!ClosePassword \/ Accounts!SavePassword
                  \/ \E u \in Users : Accounts!OpenPassword(u)
  <2>1. \E u \in Users : TRUE
    BY <1>0, <1>14 DEF DialogKept, Accounts!CancelEdit, Accounts!SaveEdit, Accounts!TypeEmail,
         Accounts!TypePassword, Accounts!ClosePassword, Accounts!SavePassword
  <2> QED BY <1>14, <2>1, DialogKeeps
<1>15. CASE part = "passwords" /\ (\/ Accounts!ToggleForm \/ Accounts!CancelForm \/ Accounts!TypeFirstPassword
                                  \/ \E u \in Users : Accounts!TypeLogin(u))
  BY <1>15, ListKeeps DEF Accounts!ToggleForm, Accounts!CancelForm, Accounts!TypeFirstPassword,
       Accounts!TypeLogin, Accounts!Fill
<1>16. CASE Accounts!AskCreate
  <2>1. UNCHANGED <<part, window, draft, save, sight>>
        /\ \A w \in jobs' : w \in jobs \/ w.kind = "create"
    BY <1>16 DEF Accounts!AskCreate, Accounts!Ask
  <2> QED BY <2>1, ListKeeps
<1>17. CASE \E w \in jobs : Accounts!Created(w)
  BY <1>17, ListKeeps DEF Accounts!Created
<1> QED BY <1>1, <1>2, <1>3, <1>4, <1>5, <1>6, <1>7, <1>8, <1>9, <1>10, <1>11, <1>12, <1>13, <1>14,
           <1>15, <1>16, <1>17 DEF Accounts!UserNext

LEMMA UsersFollow == ASSUME UserIInv PROVE Accounts!UsersAsAsked
BY DEF UserIInv, SaveKept, DialogKept, ShownKept, Accounts!UsersAsAsked

\* Of the users, whatever is under way: roles that were drafted are dropped only when
\* all of them are stored, and what was typed is stored where it was typed.
THEOREM UsersHold == ASSUME UserConstants PROVE Accounts!UserSpec => []Accounts!UsersAsAsked
<1>1. UserIInv => Accounts!UsersAsAsked
  BY UsersFollow
<1>2. UserIInv /\ [Accounts!UserNext]_(Accounts!userVars) => UserIInv'
  BY UserStep
<1> QED BY <1>1, <1>2, UserInitIInv, PTL DEF Accounts!UserSpec

-----------------------------------------------------------------------------
(* The types of the users.                                                 *)

\* What is listed is what was stored, of the kind the part is about; what is asked for
\* is of the departments and the e-mails that there are.
UserKept ==
  /\ part \in {"list", "roles", "rows", "passwords"}
  /\ server \in [Users -> Accounts!Held]
  /\ list \in [Accounts!Lists -> [Users -> Accounts!Held] \cup {None}]
  /\ part = "rows" => list[Text] \in [Users -> Accounts!Held] /\ window.text \in Emails \cup {None}
  /\ sight.dept \in UserDepartments \cup {None} /\ sight.plan \in UserDepartments \cup {None}
  /\ fields \in [open : {fields.open}, user : Users \cup {None}, password : {fields.password}]
  /\ \A w \in jobs : /\ w.kind = "preview" => w.user \in UserDepartments
                     /\ w.kind = "update" => w.email \in Emails \cup {None}
                     /\ w.kind = "status" => w.active \in BOOLEAN

LEMMA UserInitKept == ASSUME Emails # {}, Accounts!UserInit PROVE UserKept
<1> DEFINE first == [email |-> CHOOSE e \in Emails : TRUE, active |-> TRUE]
           old == part \in {"list", "roles"}
<1>1. first \in Accounts!Account
  BY DEF Accounts!Account
<1>2. server = [u \in Users |-> IF old THEN None ELSE first] /\ part \in {"list", "roles", "rows", "passwords"}
  BY DEF Accounts!UserInit
<1>3. (old => None \in Accounts!Held) /\ (~old => first \in Accounts!Held)
  BY <1>1 DEF Accounts!Held, Accounts!Role
<1>4. list = [l \in Accounts!Lists |-> IF part = "list" THEN None ELSE server]
      /\ sight.dept = None /\ sight.plan = None /\ window.text = None /\ jobs = {}
      /\ fields = [open |-> FALSE, user |-> None, password |-> FALSE]
  BY DEF Accounts!UserInit, Accounts!Closed, Accounts!NoForm
<1> HIDE DEF first, old
<1>5. server \in [Users -> Accounts!Held]
  BY <1>2, <1>3
<1>6. list \in [Accounts!Lists -> [Users -> Accounts!Held] \cup {None}]
      /\ (part = "rows" => list[Text] \in [Users -> Accounts!Held])
  BY <1>4, <1>5 DEF Accounts!Lists
<1> QED BY <1>2, <1>4, <1>5, <1>6 DEF UserKept

\* Which steps assign to what.
LEMMA UserParts == ASSUME Accounts!UserNext PROVE UNCHANGED part
BY DEF Accounts!UserNext, Accounts!Fetch, Accounts!Fails, Accounts!ApplySearch, Accounts!Leave,
   Accounts!CancelRoles, Accounts!AskPreview, Accounts!ClosePlan, Accounts!AskApply, Accounts!Choose,
   Accounts!TypeSearch, Accounts!SetRole, Accounts!Previewed, Accounts!Applied, Accounts!SaveRoles,
   Accounts!RoleStored, Accounts!RoleRefused, Accounts!CancelEdit, Accounts!SaveEdit, Accounts!TypeEmail,
   Accounts!Edit, Accounts!AskStatus, Accounts!AskDelete, Accounts!Deleted, Accounts!Updated,
   Accounts!StatusStored, Accounts!TypePassword, Accounts!ClosePassword, Accounts!SavePassword,
   Accounts!ToggleForm, Accounts!CancelForm, Accounts!TypeFirstPassword, Accounts!AskCreate,
   Accounts!OpenPassword, Accounts!TypeLogin, Accounts!PasswordStored, Accounts!Created,
   Accounts!Show, Accounts!Ask, Accounts!Dialog, Accounts!Fill

LEMMA UserStores ==
  ASSUME Accounts!UserNext
  PROVE  /\ \/ UNCHANGED server
            \/ part = "roles" /\ \E w \in jobs : Accounts!RoleStored(w)
            \/ part = "rows" /\ \E w \in jobs : Accounts!Updated(w) \/ Accounts!StatusStored(w)
            \/ part \in {"rows", "passwords"} /\ \E u \in Users : Accounts!Deleted(u)
            \/ part = "passwords" /\ \E w \in jobs : Accounts!Created(w)
         /\ \/ UNCHANGED list
            \/ \E l \in Accounts!Lists : list' = [list EXCEPT ![l] = server]
BY DEF Accounts!UserNext, Accounts!Fetch, Accounts!Fails, Accounts!ApplySearch, Accounts!Leave,
   Accounts!CancelRoles, Accounts!AskPreview, Accounts!ClosePlan, Accounts!AskApply, Accounts!Choose,
   Accounts!TypeSearch, Accounts!SetRole, Accounts!Previewed, Accounts!Applied, Accounts!SaveRoles,
   Accounts!RoleStored, Accounts!RoleRefused, Accounts!CancelEdit, Accounts!SaveEdit, Accounts!TypeEmail,
   Accounts!Edit, Accounts!AskStatus, Accounts!AskDelete, Accounts!Deleted, Accounts!Updated,
   Accounts!StatusStored, Accounts!TypePassword, Accounts!ClosePassword, Accounts!SavePassword,
   Accounts!ToggleForm, Accounts!CancelForm, Accounts!TypeFirstPassword, Accounts!AskCreate,
   Accounts!OpenPassword, Accounts!TypeLogin, Accounts!PasswordStored, Accounts!Created,
   Accounts!Show, Accounts!Ask, Accounts!Dialog, Accounts!Fill

LEMMA UserShows ==
  ASSUME Accounts!UserNext
  PROVE  /\ \/ UNCHANGED sight
            \/ Accounts!ApplySearch \/ Accounts!Leave \/ Accounts!ClosePlan
            \/ \E d \in UserDepartments : Accounts!Choose(d)
            \/ \E t \in {Text, None} : Accounts!TypeSearch(t)
            \/ \E w \in jobs : Accounts!Previewed(w) \/ Accounts!Applied(w)
         /\ part = "rows" =>
            \/ UNCHANGED window \/ Accounts!CancelEdit
            \/ \E e \in Emails \cup {None} : Accounts!TypeEmail(e)
            \/ \E u \in Users : Accounts!Edit(u)
            \/ \E w \in jobs : Accounts!Updated(w)
         /\ \/ UNCHANGED fields
            \/ Accounts!ToggleForm \/ Accounts!CancelForm \/ Accounts!TypeFirstPassword
            \/ \E u \in Users : Accounts!TypeLogin(u)
            \/ \E w \in jobs : Accounts!Created(w)
BY DEF Accounts!UserNext, Accounts!Fetch, Accounts!Fails, Accounts!ApplySearch, Accounts!Leave,
   Accounts!CancelRoles, Accounts!AskPreview, Accounts!ClosePlan, Accounts!AskApply, Accounts!Choose,
   Accounts!TypeSearch, Accounts!SetRole, Accounts!Previewed, Accounts!Applied, Accounts!SaveRoles,
   Accounts!RoleStored, Accounts!RoleRefused, Accounts!CancelEdit, Accounts!SaveEdit, Accounts!TypeEmail,
   Accounts!Edit, Accounts!AskStatus, Accounts!AskDelete, Accounts!Deleted, Accounts!Updated,
   Accounts!StatusStored, Accounts!TypePassword, Accounts!ClosePassword, Accounts!SavePassword,
   Accounts!ToggleForm, Accounts!CancelForm, Accounts!TypeFirstPassword, Accounts!AskCreate,
   Accounts!OpenPassword, Accounts!TypeLogin, Accounts!PasswordStored, Accounts!Created,
   Accounts!Show, Accounts!Ask, Accounts!Dialog, Accounts!Fill

\* Which requests are sent.
LEMMA UserAsks ==
  ASSUME SaveKept, Accounts!UserNext
  PROVE  \/ \A w \in jobs' : w \in jobs \/ w.kind \notin {"preview", "update", "status"}
         \/ Accounts!AskPreview
         \/ part = "rows" /\ (Accounts!SaveEdit \/ \E u \in Users : Accounts!AskStatus(u))
<1>1. CASE jobs' \subseteq jobs
  BY <1>1
<1>2. CASE \E w \in jobs : Accounts!RoleStored(w) \/ Accounts!RoleRefused(w)
  <2>1. PICK w \in jobs : w.kind = "role" /\ \E ok \in BOOLEAN : Accounts!Answer(w, ok)
    BY <1>2 DEF Accounts!RoleStored, Accounts!RoleRefused
  <2>2. \A y \in jobs' : y \in jobs \/ \E x \in jobs : x.kind = "role" /\ y = [x EXCEPT !.live = FALSE]
    BY <2>1 DEF Accounts!Answer
  <2>3. ASSUME NEW x \in jobs, x.kind = "role" PROVE [x EXCEPT !.live = FALSE].kind = "role"
    BY <2>3 DEF SaveKept, RoleRequest
  <2> QED BY <2>2, <2>3
<1>3. CASE Accounts!SaveRoles
  <2>1. \A w \in jobs' : w \in jobs \/ w.kind = "role"
    BY <1>3 DEF Accounts!SaveRoles
  <2> QED BY <2>1
<1>4. CASE Accounts!AskApply \/ Accounts!AskCreate \/ Accounts!SavePassword \/ \E u \in Users : Accounts!AskDelete(u)
  <2>1. \A w \in jobs' : w \in jobs \/ w.kind \in {"apply", "create", "password", "delete"}
    BY <1>4 DEF Accounts!AskApply, Accounts!AskCreate, Accounts!SavePassword, Accounts!AskDelete, Accounts!Ask
  <2> QED BY <2>1
<1> QED BY <1>1, <1>2, <1>3, <1>4
     DEF Accounts!UserNext, Accounts!Fetch, Accounts!Fails, Accounts!ApplySearch, Accounts!Leave,
   Accounts!CancelRoles, Accounts!ClosePlan, Accounts!Choose,
   Accounts!TypeSearch, Accounts!SetRole, Accounts!Previewed, Accounts!Applied, Accounts!CancelEdit,
   Accounts!TypeEmail, Accounts!Edit, Accounts!Deleted, Accounts!Updated,
   Accounts!StatusStored, Accounts!TypePassword, Accounts!ClosePassword,
   Accounts!ToggleForm, Accounts!CancelForm, Accounts!TypeFirstPassword,
   Accounts!OpenPassword, Accounts!TypeLogin, Accounts!PasswordStored, Accounts!Created,
   Accounts!Show, Accounts!Dialog, Accounts!Fill

LEMMA UserKeptStep ==
  ASSUME UserConstants, UserIInv, UserKept, [Accounts!UserNext]_(Accounts!userVars) PROVE UserKept'
<1>1. CASE UNCHANGED Accounts!userVars
  BY <1>1 DEF Accounts!userVars, UserKept, Accounts!Held, Accounts!Role, Accounts!Account, Accounts!Lists
<1>2. CASE Accounts!UserNext
  <2> DEFINE Accts == Accounts!Account
             Kept == [Users -> Accounts!Held]
  <2>1. UNCHANGED part /\ Accounts!Held' = Accounts!Held
    BY <1>2, UserParts DEF Accounts!Held, Accounts!Role, Accounts!Account
  <2>2. /\ part = "roles" => Accounts!Held = Accounts!Role
        /\ part \in {"rows", "passwords"} => Accounts!Held = Accts \cup {None}
    BY DEF Accounts!Held
  <2>3. SaveKept /\ DialogKept /\ ShownKept
    BY DEF UserIInv
  <2>4. server' \in Kept
    <3>1. ASSUME NEW u, NEW v, u \in Users => v \in Accounts!Held, server' = [server EXCEPT ![u] = v]
          PROVE  server' \in Kept
      BY <3>1 DEF UserKept
    <3>2. CASE UNCHANGED server
      BY <3>2 DEF UserKept
    <3>3. ASSUME part = "roles", NEW w \in jobs, Accounts!RoleStored(w) PROVE server' \in Kept
      BY <2>2, <2>3, <3>1, <3>3 DEF Accounts!RoleStored, SaveKept, RoleRequest
    <3>4. ASSUME part = "rows", NEW w \in jobs, Accounts!Updated(w) PROVE server' \in Kept
      <4> DEFINE v == [server[w.user] EXCEPT !.email = IF w.email = None THEN @ ELSE w.email]
      <4>1. server' = [server EXCEPT ![w.user] = v] /\ server[w.user] # None /\ w.email \in Emails \cup {None}
        BY <3>4 DEF Accounts!Updated, UserKept
      <4>2. w.user \in Users => v \in Accts
        BY <2>2, <3>4, <4>1 DEF UserKept, Accounts!Account
      <4> HIDE DEF v
      <4> QED BY <2>2, <3>1, <3>4, <4>1, <4>2
    <3>5. ASSUME part = "rows", NEW w \in jobs, Accounts!StatusStored(w) PROVE server' \in Kept
      <4> DEFINE v == [server[w.user] EXCEPT !.active = w.active]
      <4>1. server' = [server EXCEPT ![w.user] = v] /\ server[w.user] # None /\ w.active \in BOOLEAN
        BY <3>5 DEF Accounts!StatusStored, UserKept
      <4>2. w.user \in Users => v \in Accts
        BY <2>2, <3>5, <4>1 DEF UserKept, Accounts!Account
      <4> HIDE DEF v
      <4> QED BY <2>2, <3>1, <3>5, <4>1, <4>2
    <3>6. ASSUME part \in {"rows", "passwords"}, NEW u \in Users, Accounts!Deleted(u) PROVE server' \in Kept
      BY <2>2, <3>1, <3>6 DEF Accounts!Deleted
    <3>7. ASSUME part = "passwords", NEW w \in jobs, Accounts!Created(w) PROVE server' \in Kept
      <4> DEFINE v == [email |-> None, active |-> TRUE]
      <4>1. server' = [server EXCEPT ![w.user] = v] /\ v \in Accts
        BY <3>7 DEF Accounts!Created, Accounts!Account
      <4> HIDE DEF v
      <4> QED BY <2>2, <3>1, <3>7, <4>1
    <3> QED BY <1>2, UserStores, <3>2, <3>3, <3>4, <3>5, <3>6, <3>7
  <2>5. /\ list' \in [Accounts!Lists -> Kept \cup {None}]
        /\ part = "rows" => list'[Text] \in Kept
    <3>1. CASE UNCHANGED list
      BY <3>1 DEF UserKept
    <3>2. ASSUME NEW l \in Accounts!Lists, list' = [list EXCEPT ![l] = server]
          PROVE  /\ list' \in [Accounts!Lists -> Kept \cup {None}]
                 /\ part = "rows" => list'[Text] \in Kept
      BY <3>2 DEF UserKept, Accounts!Lists
    <3> QED BY <1>2, UserStores, <3>1, <3>2
  <2>6. sight'.dept \in UserDepartments \cup {None} /\ sight'.plan \in UserDepartments \cup {None}
    <3>1. sight.dept \in UserDepartments \cup {None} /\ sight.plan \in UserDepartments \cup {None}
      BY DEF UserKept
    <3>2. CASE \/ UNCHANGED sight \/ Accounts!Leave \/ Accounts!ClosePlan
               \/ \E d \in UserDepartments : Accounts!Choose(d)
               \/ \E t \in {Text, None} : Accounts!TypeSearch(t)
               \/ \E w \in jobs : Accounts!Previewed(w) \/ Accounts!Applied(w)
      BY <2>3, <3>1, <3>2 DEF ShownKept, UserKept, Accounts!Leave, Accounts!ClosePlan, Accounts!Choose,
         Accounts!Choosing, Accounts!TypeSearch, Accounts!Previewed, Accounts!Applied, Accounts!Show
    <3>3. CASE Accounts!ApplySearch
      BY <2>3, <3>1, <3>3 DEF ShownKept, Accounts!ApplySearch, Accounts!Show
    <3> QED BY <1>2, UserShows, <3>2, <3>3
  <2>7. part = "rows" => window'.text \in Emails \cup {None}
    <3> SUFFICES ASSUME part = "rows" PROVE window'.text \in Emails \cup {None}
      OBVIOUS
    <3>1. CASE UNCHANGED window \/ Accounts!CancelEdit \/ \E w \in jobs : Accounts!Updated(w)
      BY <2>3, <3>1 DEF DialogKept, UserKept, Accounts!CancelEdit, Accounts!Updated, Accounts!Dialog
    <3>2. CASE \E e \in Emails \cup {None} : Accounts!TypeEmail(e)
      BY <2>3, <3>2 DEF DialogKept, Accounts!TypeEmail, Accounts!Dialog
    <3>3. ASSUME NEW u \in Users, Accounts!Edit(u) PROVE window'.text \in Emails \cup {None}
      <4>1. list[Text][u] \in Accts
        BY <2>2, <3>3 DEF UserKept, Accounts!Edit, Accounts!Listed
      <4>2. window'.text = list[Text][u].email
        BY <3>3 DEF Accounts!Edit, Accounts!Dialog, Accounts!Editing, Accounts!Closed
      <4> QED BY <4>1, <4>2 DEF Accounts!Account
    <3> QED BY <1>2, UserShows, <3>1, <3>2, <3>3
  <2>8. fields' \in [open : {fields'.open}, user : Users \cup {None}, password : {fields'.password}]
    <3>1. CASE UNCHANGED fields
      BY <3>1 DEF UserKept
    <3>2. CASE \/ Accounts!ToggleForm \/ Accounts!CancelForm \/ Accounts!TypeFirstPassword
               \/ \E u \in Users : Accounts!TypeLogin(u)
               \/ \E w \in jobs : Accounts!Created(w)
      BY <3>2 DEF UserKept, Accounts!ToggleForm, Accounts!CancelForm, Accounts!TypeFirstPassword,
         Accounts!TypeLogin, Accounts!Created, Accounts!Fill, Accounts!NoForm
    <3> QED BY <1>2, UserShows, <3>1, <3>2
  <2>9. \A w \in jobs' : /\ w.kind = "preview" => w.user \in UserDepartments
                         /\ w.kind = "update" => w.email \in Emails \cup {None}
                         /\ w.kind = "status" => w.active \in BOOLEAN
    <3>1. CASE \A w \in jobs' : w \in jobs \/ w.kind \notin {"preview", "update", "status"}
      BY <3>1 DEF UserKept
    <3>2. CASE Accounts!AskPreview
      <4> DEFINE w == [kind |-> "preview", user |-> sight.dept]
      <4>1. jobs' = jobs \cup {w} /\ w.kind = "preview" /\ w.user \in UserDepartments
        BY <3>2 DEF Accounts!AskPreview, Accounts!Ask, UserKept
      <4> HIDE DEF w
      <4> QED BY <4>1 DEF UserKept
    <3>3. CASE part = "rows" /\ Accounts!SaveEdit
      <4> DEFINE w == [kind |-> "update", user |-> window.user, email |-> window.text, for |-> window.for]
      <4>1. jobs' = jobs \cup {w} /\ w.kind = "update" /\ w.email \in Emails \cup {None}
        BY <3>3 DEF Accounts!SaveEdit, Accounts!Ask, UserKept
      <4> HIDE DEF w
      <4> QED BY <4>1 DEF UserKept
    <3>4. ASSUME part = "rows", NEW u \in Users, Accounts!AskStatus(u)
          PROVE  \A w \in jobs' : /\ w.kind = "preview" => w.user \in UserDepartments
                                  /\ w.kind = "update" => w.email \in Emails \cup {None}
                                  /\ w.kind = "status" => w.active \in BOOLEAN
      <4> DEFINE w == [kind |-> "status", user |-> u, active |-> ~list[Text][u].active]
      <4>1. jobs' = jobs \cup {w} /\ w.kind = "status" /\ w.active \in BOOLEAN
        BY <3>4 DEF Accounts!AskStatus, Accounts!Ask
      <4> HIDE DEF w
      <4> QED BY <4>1 DEF UserKept
    <3> QED BY <1>2, <2>3, UserAsks, <3>1, <3>2, <3>3, <3>4
  <2>10. Accounts!Lists' = Accounts!Lists
    BY DEF Accounts!Lists
  <2> HIDE DEF Accts
  <2> QED BY <2>1, <2>4, <2>5, <2>6, <2>7, <2>8, <2>9, <2>10 DEF UserKept
<1> QED BY <1>1, <1>2

LEMMA UsersAreTyped == ASSUME UserIInv, UserKept PROVE Accounts!UserTypeOK
<1>1. draft \in [Users -> Accounts!Role] /\ save.asked \in [Users -> Accounts!Role]
      /\ save.left \subseteq Users /\ save.lost \subseteq Users
  BY DEF UserIInv, SaveKept
<1>2. window.user \in Users \cup {None}
  BY DEF UserIInv, DialogKept
<1> QED BY <1>1, <1>2 DEF UserKept, Accounts!UserTypeOK

-----------------------------------------------------------------------------
(* Requests of the service centre.                                         *)

RequestConstants ==
  /\ Requests \in SUBSET Nat /\ 1 \in Requests /\ MaxFiles \in Nat
  /\ None \notin Center!Request /\ None \notin Center!Status /\ None \notin Nat

Submission == [kind : {"create"}, by : {"page", "left"}, files : 0..MaxFiles, id : Requests \cup {None}, done : 0..MaxFiles]
StatusChange == [kind : {"status"}, by : {"page", "left", "other"}, id : Requests, status : Center!Status,
           was : Center!Status \cup {None}]
Comment == [kind : {"comment"}, by : {"page", "left"}, id : Requests]

CenterTyped ==
  /\ server \in [Requests -> Center!Request \cup {None}]
  /\ list \in [Requests -> Center!Status \cup {None}]
  /\ fields \in [open : BOOLEAN, filled : BOOLEAN, files : 0..MaxFiles, creating : BOOLEAN]
  /\ window \in [id : Requests \cup {None}, status : Center!Status \cup {None}, reason : BOOLEAN, text : BOOLEAN]
  /\ save \in [Requests -> 0..MaxFiles \cup {None}]
  /\ jobs \in SUBSET (Submission \cup StatusChange \cup Comment)

\* What is listed, shown, sent and asked for is there.
RequestsKnown ==
  /\ \A i \in Requests : list[i] # None \/ save[i] # None => server[i] # None
  /\ window.id # None => server[window.id] # None
  /\ \A w \in jobs : w.kind # "create" => server[w.id] # None

\* A submission that has made its request knows how many of its files are there; no
\* two have made the same.
FilesCounted ==
  /\ \A w \in jobs : w.kind = "create" /\ w.id # None =>
       server[w.id] # None /\ server[w.id].files = w.done /\ save[w.id] = None
  /\ \A w \in jobs : w.kind = "create" /\ w.id = None => w.done = 0
  /\ \A w, x \in jobs : w.kind = "create" /\ x.kind = "create" /\ w.id = x.id /\ w.id # None => w = x

CenterIInv == CenterTyped /\ RequestsKnown /\ FilesCounted /\ Center!RequestsAsTold

LEMMA CenterInitIInv == ASSUME RequestConstants, Center!ServiceInit PROVE CenterIInv
<1>1. CenterTyped
  BY DEF RequestConstants, Center!ServiceInit, CenterTyped, Center!Fresh, Center!StatusOf, Center!Request,
         Center!Status, Center!NoForm, Center!NoDialog
<1>2. RequestsKnown
  BY DEF RequestConstants, Center!ServiceInit, RequestsKnown, Center!StatusOf, Center!NoDialog
<1>3. FilesCounted
  BY DEF Center!ServiceInit, FilesCounted
<1>4. Center!RequestsAsTold
  BY DEF Center!ServiceInit, Center!RequestsAsTold, Center!Fresh
<1> QED BY <1>1, <1>2, <1>3, <1>4 DEF CenterIInv

FormSet == [open : BOOLEAN, filled : BOOLEAN, files : 0..MaxFiles, creating : BOOLEAN]
DialogSet ==
  [id : Requests \cup {None}, status : Center!Status \cup {None}, reason : BOOLEAN, text : BOOLEAN]
WorkSet == Submission \cup StatusChange \cup Comment

\* What is asked for is a change of a request that is there, or a request to be made.
IsAsked(w) == (w.kind = "create" /\ w.id = None /\ w.done = 0) \/ (w.kind # "create" /\ server[w.id] # None)

\* Whatever leaves the requests, and what was reported of them, alone keeps the
\* invariant, when it asks for what may be asked for.
LEMMA CenterKeeps ==
  ASSUME RequestConstants, CenterIInv, UNCHANGED <<server, save>>,
         list' \in [Requests -> Center!Status \cup {None}],
         \A i \in Requests : list'[i] # None => server[i] # None,
         fields' \in FormSet, window' \in DialogSet,
         window'.id # None => server[window'.id] # None,
         jobs' \in SUBSET WorkSet,
         \A w \in jobs' : w \in jobs \/ IsAsked(w)
  PROVE CenterIInv'
<1>1. CenterTyped'
  BY DEF CenterIInv, CenterTyped, FormSet, DialogSet, WorkSet
<1>2. RequestsKnown'
  BY DEF CenterIInv, RequestsKnown, IsAsked
<1>3. FilesCounted'
  BY DEF CenterIInv, FilesCounted, IsAsked
<1>4. Center!RequestsAsTold'
  BY DEF CenterIInv, Center!RequestsAsTold
<1> QED BY <1>1, <1>2, <1>3, <1>4 DEF CenterIInv

\* The invariant in the words of that lemma.
LEMMA CenterSets ==
  ASSUME CenterIInv
  PROVE /\ server \in [Requests -> Center!Request \cup {None}]
        /\ list \in [Requests -> Center!Status \cup {None}]
        /\ \A i \in Requests : list[i] # None => server[i] # None
        /\ fields \in FormSet /\ window \in DialogSet
        /\ window.id # None => server[window.id] # None
        /\ jobs \in SUBSET WorkSet
        /\ save \in [Requests -> 0..MaxFiles \cup {None}]
BY DEF CenterIInv, CenterTyped, RequestsKnown, FormSet, DialogSet, WorkSet

\* The form and the dialog that are not filled in.
LEMMA Unfilled ==
  ASSUME RequestConstants
  PROVE /\ Center!NoForm \in FormSet /\ [Center!NoForm EXCEPT !.open = TRUE] \in FormSet
        /\ Center!NoDialog \in DialogSet /\ Center!NoDialog.id = None
<1>1. 0 \in 0..MaxFiles
  BY DEF RequestConstants
<1>2. Center!NoForm \in FormSet
  BY <1>1 DEF Center!NoForm, FormSet
<1>3. [Center!NoForm EXCEPT !.open = TRUE] \in FormSet
  BY <1>2 DEF FormSet
<1> QED BY <1>2, <1>3 DEF Center!NoDialog, DialogSet

\* The list is looked at, and the form filled in.
LEMMA CenterLooks ==
  ASSUME RequestConstants, CenterIInv, UNCHANGED <<server, save, window, jobs>>,
         UNCHANGED fields \/ fields' \in FormSet,
         UNCHANGED list \/ list' = [i \in Requests |-> Center!StatusOf(i)]
  PROVE CenterIInv'
<1> USE CenterSets
<1>1. list' \in [Requests -> Center!Status \cup {None}]
  BY DEF Center!StatusOf, Center!Request
<1>2. \A i \in Requests : list'[i] # None => server[i] # None
  BY DEF Center!StatusOf
<1>3. fields' \in FormSet
  OBVIOUS
<1> HIDE CenterSets
<1> QED BY <1>1, <1>2, <1>3, CenterSets, CenterKeeps

\* A component that goes leaves what it has asked for.
LEMMA LeftKept ==
  ASSUME RequestConstants, CenterIInv
  PROVE /\ Center!Left \in SUBSET WorkSet
        /\ \A x \in Center!Left : \E w \in jobs :
             /\ x.kind = w.kind /\ x.id = w.id
             /\ w.kind = "create" => x.done = w.done
             /\ x = [w EXCEPT !.by = IF w.by = "page" THEN "left" ELSE w.by]
<1> SUFFICES ASSUME NEW w \in jobs
             PROVE LET x == [w EXCEPT !.by = IF w.by = "page" THEN "left" ELSE w.by] IN
                   /\ x \in WorkSet
                   /\ x.kind = w.kind /\ x.id = w.id
                   /\ w.kind = "create" => x.done = w.done
  BY DEF Center!Left
<1>1. w \in Submission \/ w \in StatusChange \/ w \in Comment
  BY CenterSets DEF WorkSet
<1>2. CASE w \in Submission
  BY <1>2 DEF Submission, WorkSet
<1>3. CASE w \in StatusChange
  BY <1>3 DEF StatusChange, WorkSet
<1>4. CASE w \in Comment
  BY <1>4 DEF Comment, WorkSet
<1> QED BY <1>1, <1>2, <1>3, <1>4

LEMMA CenterLeaves ==
  ASSUME RequestConstants, CenterIInv, UNCHANGED <<server, list, save>>,
         fields' \in FormSet, window' \in DialogSet, window'.id = None \/ window' = window,
         jobs' = Center!Left
  PROVE CenterIInv'
<1>1. CenterTyped'
  BY LeftKept, CenterSets DEF CenterTyped, FormSet, DialogSet, WorkSet
<1>2. RequestsKnown'
  BY LeftKept DEF CenterIInv, RequestsKnown
<1>3. FilesCounted'
  BY LeftKept DEF CenterIInv, FilesCounted
<1>4. Center!RequestsAsTold'
  BY DEF CenterIInv, Center!RequestsAsTold
<1> QED BY <1>1, <1>2, <1>3, <1>4 DEF CenterIInv

\* The dialog is filled in, or another request asked for.
LEMMA CenterAsks ==
  ASSUME RequestConstants, CenterIInv, UNCHANGED <<server, list, save>>,
         fields' \in FormSet, window' \in DialogSet,
         \/ window'.id \in {None, window.id}
         \/ window'.id \in Requests /\ list[window'.id] # None,
         UNCHANGED jobs \/ (\E w \in WorkSet : IsAsked(w) /\ jobs' = jobs \cup {w})
                        \/ (jobs' \subseteq jobs)
  PROVE CenterIInv'
<1>1. window'.id # None => server[window'.id] # None
  BY CenterSets
<1>2. jobs' \in SUBSET WorkSet
  BY CenterSets
<1>3. \A w \in jobs' : w \in jobs \/ IsAsked(w)
  OBVIOUS
<1> QED BY <1>1, <1>2, <1>3, CenterSets, CenterKeeps

\* What is asked for is one of three.
LEMMA WorkKinds ==
  ASSUME CenterIInv, NEW w \in jobs
  PROVE /\ w.kind = "create" => w \in Submission
        /\ w.kind = "status" => w \in StatusChange
        /\ w.kind = "comment" => w \in Comment
        /\ w.kind \in {"create", "status", "comment"}
BY CenterSets DEF WorkSet, Submission, StatusChange, Comment

\* A new request has the next number, which no request had.
LEMMA CreatedStep ==
  ASSUME RequestConstants, CenterIInv, NEW w \in jobs, Center!Created(w)
  PROVE CenterIInv'
<1> DEFINE free == {i \in Requests : server[i] = None}
           id   == CHOOSE i \in free : \A k \in free : i <= k
           ww   == [w EXCEPT !.id = id]
<1>1. id \in free
  <2>1. \E i \in free : \A k \in free : i <= k
    BY LeastNumber DEF RequestConstants, Center!Created
  <2> QED BY <2>1
<1> HIDE DEF id
<1>2. /\ w \in Submission /\ w.id = None
      /\ server' = [server EXCEPT ![id] = Center!Fresh]
      /\ jobs' = (jobs \ {w}) \cup {ww}
      /\ UNCHANGED <<list, fields, window, save>>
  BY WorkKinds DEF Center!Created, id
<1>3. id \in Requests /\ server[id] = None /\ id # None
  BY <1>1 DEF RequestConstants
<1>4. ww \in Submission /\ ww.id = id /\ ww.done = w.done /\ ww.kind = "create"
  BY <1>2, <1>3 DEF Submission
<1>5. Center!Fresh \in Center!Request /\ Center!Fresh # None
  <2>1. Center!Fresh \in Center!Request
    BY DEF Center!Fresh, Center!Request, Center!Status, RequestConstants
  <2> QED BY <2>1 DEF RequestConstants
<1>6. Center!Fresh.files = 0 /\ Center!Fresh.last = Center!Fresh.status /\ Center!Fresh.status # "rejected"
  BY DEF Center!Fresh
<1> HIDE DEF ww
<1>7. /\ w \in jobs /\ w.kind = "create" /\ w.done = 0 /\ save[id] = None
      /\ \A x \in jobs : x.kind = "create" => x.id # id
  BY <1>2, <1>3 DEF CenterIInv, FilesCounted, RequestsKnown, Submission
<1>8. CenterTyped'
  <2>1. server' \in [Requests -> Center!Request \cup {None}]
    BY <1>2, <1>3, <1>5, CenterSets
  <2>2. jobs' \in SUBSET WorkSet
    BY <1>2, <1>4, CenterSets DEF WorkSet
  <2> QED BY <1>2, <2>1, <2>2, CenterSets DEF CenterTyped, FormSet, DialogSet, WorkSet
<1>9. /\ DOMAIN server = Requests
      /\ server'[id] = Center!Fresh
      /\ \A i \in Requests : i # id => server'[i] = server[i]
  BY <1>2, <1>3, CenterSets
<1>10. RequestsKnown'
  <2>1. \A i \in Requests : server[i] # None => server'[i] # None
    BY <1>3, <1>9
  <2>2. \A x \in jobs : x.kind # "create" => x.id \in Requests
    BY WorkKinds DEF StatusChange, Comment
  <2> QED BY <1>2, <1>4, <2>1, <2>2, CenterSets DEF CenterIInv, RequestsKnown, DialogSet
<1>11. FilesCounted'
  <2>1. \A x \in jobs : x.kind = "create" /\ x.id # None => x.id \in Requests /\ x.id # id
    BY <1>7, WorkKinds DEF Submission
  <2> QED BY <1>2, <1>3, <1>4, <1>5, <1>6, <1>7, <1>9, <2>1 DEF CenterIInv, FilesCounted
<1>12. Center!RequestsAsTold'
  BY <1>2, <1>6, <1>7, <1>9 DEF CenterIInv, Center!RequestsAsTold
<1> QED BY <1>8, <1>10, <1>11, <1>12 DEF CenterIInv

\* A file more is with the request, and counted; a submission that is given up leaves
\* what is there.
LEMMA UploadStep ==
  ASSUME RequestConstants, CenterIInv, NEW w \in jobs, Center!Upload(w)
  PROVE CenterIInv'
<1> DEFINE ww == [w EXCEPT !.done = w.done + 1]
           id == w.id
<1>1. /\ w \in Submission /\ id \in Requests /\ w.done < w.files /\ id # None
      /\ w.kind = "create" /\ UNCHANGED <<list, window, save>>
  BY WorkKinds DEF Center!Upload, Submission
<1>2. /\ server[id] # None /\ server[id].files = w.done /\ save[id] = None
      /\ \A x \in jobs : x.kind = "create" /\ x.id = id => x = w
  BY <1>1 DEF CenterIInv, FilesCounted
<1>3. CASE Center!GiveUp(w) /\ UNCHANGED server
  <2>1. fields' \in FormSet /\ jobs' \subseteq jobs
    BY <1>3, CenterSets DEF Center!GiveUp, FormSet
  <2>2. UNCHANGED <<server, list, save>> /\ window' \in DialogSet /\ window'.id \in {None, window.id}
    BY <1>1, <1>3, CenterSets
  <2> QED BY <2>1, <2>2, CenterAsks
<1>4. CASE /\ server' = [server EXCEPT ![id].files = @ + 1]
           /\ jobs' = (jobs \ {w}) \cup {ww} /\ UNCHANGED fields
  <2>1. server[id] \in Center!Request
    BY <1>1, <1>2, CenterSets
  <2>2. PICK q : q = [server[id] EXCEPT !.files = server[id].files + 1]
    OBVIOUS
  <2>3. server' = [server EXCEPT ![id] = q]
    BY <1>4, <2>2
  <2>4. /\ q \in Center!Request /\ q.files = w.done + 1
        /\ q.status = server[id].status /\ q.last = server[id].last /\ q.reason = server[id].reason
    BY <1>1, <1>2, <2>1, <2>2 DEF Center!Request, Submission, RequestConstants
  <2>5. q # None
    BY <2>4 DEF RequestConstants
  <2>6. /\ DOMAIN server = Requests /\ server'[id] = q
        /\ \A i \in Requests : i # id => server'[i] = server[i]
    BY <1>1, <2>3, CenterSets
  <2>7. ww \in Submission /\ ww.id = id /\ ww.done = w.done + 1 /\ ww.kind = "create"
    BY <1>1 DEF Submission, RequestConstants
  <2> HIDE DEF ww
  <2>8. CenterTyped'
    <3>1. server' \in [Requests -> Center!Request \cup {None}]
      BY <1>1, <2>3, <2>4, CenterSets
    <3>2. jobs' \in SUBSET WorkSet
      BY <1>4, <2>7, CenterSets DEF WorkSet
    <3> QED BY <1>1, <1>4, <3>1, <3>2, CenterSets DEF CenterTyped, FormSet, DialogSet, WorkSet
  <2>9. RequestsKnown'
    <3>1. \A i \in Requests : server[i] # None => server'[i] # None
      BY <2>5, <2>6
    <3>2. \A x \in jobs : x.kind # "create" => x.id \in Requests
      BY WorkKinds DEF StatusChange, Comment
    <3> QED BY <1>1, <1>4, <2>7, <3>1, <3>2, CenterSets DEF CenterIInv, RequestsKnown, DialogSet
  <2>10. FilesCounted'
    <3>1. \A x \in jobs : x.kind = "create" /\ x.id # None => x.id \in Requests
      BY WorkKinds DEF Submission
    <3> QED BY <1>1, <1>2, <1>4, <2>4, <2>5, <2>6, <2>7, <3>1 DEF CenterIInv, FilesCounted
  <2>11. Center!RequestsAsTold'
    BY <1>1, <1>2, <2>4, <2>6 DEF CenterIInv, Center!RequestsAsTold
  <2> QED BY <2>8, <2>9, <2>10, <2>11 DEF CenterIInv
<1> QED BY <1>3, <1>4 DEF Center!Upload

\* A submission that is done has left all its files.
LEMMA DoneStep ==
  ASSUME RequestConstants, CenterIInv, NEW w \in jobs, Center!Done(w)
  PROVE CenterIInv'
<1>1. /\ w \in Submission /\ w.id \in Requests /\ w.done = w.files
      /\ w.kind = "create" /\ w.id # None /\ w.files \in 0..MaxFiles
      /\ UNCHANGED <<server, list, window>> /\ fields' = Center!NoForm /\ jobs' = jobs \ {w}
      /\ save' = [save EXCEPT ![w.id] = w.files]
  BY WorkKinds DEF Center!Done, Submission
<1>2. /\ server[w.id] # None /\ server[w.id].files = w.done
      /\ \A x \in jobs : x.kind = "create" /\ x.id = w.id => x = w
  BY <1>1 DEF CenterIInv, FilesCounted
<1>3. /\ save' \in [Requests -> 0..MaxFiles \cup {None}]
      /\ \A i \in Requests : save'[i] = IF i = w.id THEN w.files ELSE save[i]
  BY <1>1, CenterSets
<1>4. CenterTyped'
  BY <1>1, <1>3, CenterSets DEF CenterTyped, FormSet, DialogSet, WorkSet, Center!NoForm, RequestConstants
<1>5. RequestsKnown'
  BY <1>1, <1>2, <1>3 DEF CenterIInv, RequestsKnown
<1>6. FilesCounted'
  <2>1. \A x \in jobs : x.kind = "create" /\ x.id # None => x.id \in Requests
    BY WorkKinds DEF Submission
  <2> QED BY <1>1, <1>2, <1>3, <2>1 DEF CenterIInv, FilesCounted
<1>7. Center!RequestsAsTold'
  BY <1>1, <1>2, <1>3 DEF CenterIInv, Center!RequestsAsTold
<1> QED BY <1>4, <1>5, <1>6, <1>7 DEF CenterIInv

\* What is written is the status that was asked for, with its row of the history, or
\* neither: whatever was written since the row was read.
LEMMA StatusStep ==
  ASSUME RequestConstants, CenterIInv, NEW w \in jobs, Center!StatusStored(w)
  PROVE CenterIInv'
<1>1. /\ w \in StatusChange /\ w.id \in Requests /\ server[w.id] # None /\ w.kind = "status"
      /\ UNCHANGED <<list, fields, save>> /\ jobs' = jobs \ {w}
      /\ server' = [server EXCEPT ![w.id] = Center!Written(w)]
      /\ w.status \in Center!Status
  BY WorkKinds DEF Center!StatusStored, StatusChange, CenterIInv, RequestsKnown
<1>2. window' \in DialogSet /\ window'.id = window.id
  BY CenterSets DEF Center!StatusStored, DialogSet
<1>3. server[w.id] \in Center!Request
  BY <1>1, CenterSets
<1>4. PICK q : q = Center!Written(w)
  OBVIOUS
<1>5. /\ q \in Center!Request /\ q.files = server[w.id].files
      /\ server[w.id].last = server[w.id].status => q.last = q.status
      /\ (server[w.id].status = "rejected" => server[w.id].reason) => (q.status = "rejected" => q.reason)
  BY <1>1, <1>3, <1>4 DEF Center!Request, Center!Written
<1>6. q # None
  BY <1>5 DEF RequestConstants
<1>7. /\ server' \in [Requests -> Center!Request \cup {None}] /\ server'[w.id] = q
      /\ \A i \in Requests : i # w.id => server'[i] = server[i]
  BY <1>1, <1>4, <1>5, CenterSets
<1>8. CenterTyped'
  BY <1>1, <1>2, <1>7, CenterSets DEF CenterTyped, FormSet, DialogSet, WorkSet
<1>9. \A i \in Requests : server[i] # None => server'[i] # None /\ server'[i].files = server[i].files
  BY <1>5, <1>6, <1>7
<1>10. RequestsKnown'
  <2>1. \A x \in jobs : x.kind # "create" => x.id \in Requests
    BY WorkKinds DEF StatusChange, Comment
  <2> QED BY <1>1, <1>2, <1>9, <2>1, CenterSets DEF CenterIInv, RequestsKnown, DialogSet
<1>11. FilesCounted'
  <2>1. \A x \in jobs : x.kind = "create" /\ x.id # None => x.id \in Requests
    BY WorkKinds DEF Submission
  <2> QED BY <1>1, <1>9, <2>1 DEF CenterIInv, FilesCounted
<1>12. Center!RequestsAsTold'
  BY <1>1, <1>5, <1>7 DEF CenterIInv, Center!RequestsAsTold
<1> QED BY <1>8, <1>10, <1>11, <1>12 DEF CenterIInv

\* One lemma for the steps of each part.
LEMMA ListStep ==
  ASSUME RequestConstants, CenterIInv,
         \/ Center!Fetch
         \/ Center!TypeSearch \/ Center!ApplySearch \/ Center!ResetFilters
         \/ Center!Previous \/ Center!Following
         \/ \E s \in Center!Status \cup {None} : Center!FilterStatus(s)
         \/ Center!OpenForm \/ Center!FillForm \/ Center!RemoveFile
         \/ \E k \in 1..MaxFiles : Center!AddFiles(k)
  PROVE CenterIInv'
<1>1. UNCHANGED <<server, save, window, jobs>>
  BY DEF Center!Fetch, Center!TypeSearch, Center!ApplySearch, Center!ResetFilters, Center!Previous,
         Center!Following, Center!FilterStatus, Center!View, Center!OpenForm, Center!FillForm,
         Center!RemoveFile, Center!AddFiles, Center!Form
<1>2. UNCHANGED list \/ list' = [i \in Requests |-> Center!StatusOf(i)]
  BY DEF Center!Fetch, Center!TypeSearch, Center!ApplySearch, Center!ResetFilters, Center!Previous,
         Center!Following, Center!FilterStatus, Center!View, Center!OpenForm, Center!FillForm,
         Center!RemoveFile, Center!AddFiles, Center!Form
<1>3. UNCHANGED fields \/ fields' \in FormSet
  <2>1. CASE Center!OpenForm
    BY <2>1, Unfilled DEF Center!OpenForm, Center!Form
  <2>2. CASE Center!FillForm
    BY <2>2, CenterSets DEF Center!FillForm, Center!Form, FormSet
  <2>3. fields \in FormSet /\ MaxFiles \in Nat
    BY CenterSets DEF RequestConstants
  <2>4. CASE Center!RemoveFile
    BY <2>3, <2>4 DEF Center!RemoveFile, Center!Form, FormSet
  <2>5. CASE \E k \in 1..MaxFiles : Center!AddFiles(k)
    BY <2>3, <2>5 DEF Center!AddFiles, Center!Form, FormSet
  <2> QED BY <2>1, <2>2, <2>4, <2>5 DEF Center!Fetch, Center!TypeSearch, Center!ApplySearch, Center!ResetFilters,
         Center!Previous, Center!Following, Center!FilterStatus, Center!View
<1> QED BY <1>1, <1>2, <1>3, CenterLooks

LEMMA DialogStep ==
  ASSUME RequestConstants, CenterIInv,
         \/ Center!TypeReason \/ Center!TypeComment
         \/ \E i \in Requests : Center!Open(i)
         \/ \E s \in Center!Status \cup {None} : Center!ChooseStatus(s)
         \/ \E w \in jobs : Center!Commented(w)
  PROVE CenterIInv'
<1>1. UNCHANGED <<server, list, fields, save>> /\ jobs' \subseteq jobs
  BY DEF Center!TypeReason, Center!TypeComment, Center!Open, Center!ChooseStatus, Center!Dialog, Center!Commented
<1>2. /\ window' \in DialogSet
      /\ \/ window'.id \in {None, window.id}
         \/ window'.id \in Requests /\ list[window'.id] # None
  BY CenterSets DEF Center!TypeReason, Center!TypeComment, Center!Open, Center!ChooseStatus, Center!Dialog,
       Center!Commented, Center!NoDialog, DialogSet
<1> QED BY <1>1, <1>2, CenterSets, CenterAsks

LEMMA AskStep ==
  ASSUME RequestConstants, CenterIInv,
         \/ Center!Submit \/ Center!ChangeStatus \/ Center!SendComment
         \/ \E i \in Requests, s \in Center!Status : Center!OtherChanges(i, s)
  PROVE CenterIInv'
<1>1. CASE Center!Submit
  <2> DEFINE w == [kind |-> "create", by |-> "page", files |-> fields.files, id |-> None, done |-> 0]
  <2>1. jobs' = jobs \cup {w} /\ UNCHANGED <<server, list, window, save>> /\ fields' \in FormSet
    BY <1>1, CenterSets DEF Center!Submit, FormSet
  <2>2. fields.files \in 0..MaxFiles /\ 0 \in 0..MaxFiles
    BY CenterSets DEF FormSet, RequestConstants
  <2>3. w \in WorkSet /\ IsAsked(w)
    BY <2>2 DEF WorkSet, Submission, IsAsked
  <2> HIDE DEF w
  <2> QED BY <2>1, <2>3, CenterSets, CenterAsks
<1>2. CASE Center!ChangeStatus
  <2> DEFINE w == [kind |-> "status", by |-> "page", id |-> window.id, status |-> window.status, was |-> None]
  <2>1. /\ jobs' = jobs \cup {w} /\ UNCHANGED <<server, list, fields, window, save>>
        /\ window.id # None /\ window.status # None
    BY <1>2 DEF Center!ChangeStatus, Center!Ask
  <2>2. w \in WorkSet /\ IsAsked(w)
    BY <2>1, CenterSets DEF WorkSet, StatusChange, IsAsked, DialogSet
  <2> HIDE DEF w
  <2> QED BY <2>1, <2>2, CenterSets, CenterAsks
<1>3. CASE Center!SendComment
  <2> DEFINE w == [kind |-> "comment", by |-> "page", id |-> window.id]
  <2>1. /\ jobs' = jobs \cup {w} /\ UNCHANGED <<server, list, fields, window, save>>
        /\ window.id # None
    BY <1>3 DEF Center!SendComment, Center!Ask
  <2>2. w \in WorkSet /\ IsAsked(w)
    BY <2>1, CenterSets DEF WorkSet, Comment, IsAsked, DialogSet
  <2> HIDE DEF w
  <2> QED BY <2>1, <2>2, CenterSets, CenterAsks
<1>4. CASE \E i \in Requests, s \in Center!Status : Center!OtherChanges(i, s)
  <2>1. PICK i \in Requests, s \in Center!Status : Center!OtherChanges(i, s)
    BY <1>4
  <2> DEFINE w == [kind |-> "status", by |-> "other", id |-> i, status |-> s, was |-> None]
  <2>2. /\ jobs' = jobs \cup {w} /\ UNCHANGED <<server, list, fields, window, save>>
        /\ server[i] # None
    BY <2>1 DEF Center!OtherChanges, Center!Ask
  <2>3. w \in WorkSet /\ IsAsked(w)
    BY <2>2 DEF WorkSet, StatusChange, IsAsked
  <2> HIDE DEF w
  <2> QED BY <2>2, <2>3, CenterSets, CenterAsks
<1> QED BY <1>1, <1>2, <1>3, <1>4

LEMMA CloseStep ==
  ASSUME RequestConstants, CenterIInv, Center!CloseForm \/ Center!CloseDialog
  PROVE CenterIInv'
<1>1. UNCHANGED <<server, list, save>> /\ jobs' = Center!Left
  BY DEF Center!CloseForm, Center!CloseDialog
<1>2. fields' \in FormSet
  BY CenterSets, Unfilled DEF Center!CloseForm, Center!CloseDialog
<1>3. window' \in DialogSet /\ (window'.id = None \/ window' = window)
  BY CenterSets, Unfilled DEF Center!CloseForm, Center!CloseDialog
<1> QED BY <1>1, <1>2, <1>3, CenterLeaves

\* The row is read, and a request is refused.
LEMMA ReadStep ==
  ASSUME RequestConstants, CenterIInv, NEW w \in jobs,
         Center!Read(w) \/ Center!Fails(w) \/ Center!Refused(w)
  PROVE CenterIInv'
<1>1. CASE Center!Read(w)
  <2> DEFINE ww == [w EXCEPT !.was = server[w.id].status]
  <2>1. /\ w \in StatusChange /\ server[w.id] # None /\ w.id \in Requests
        /\ jobs' = (jobs \ {w}) \cup {ww} /\ UNCHANGED <<server, list, fields, window, save>>
    BY <1>1, WorkKinds DEF Center!Read, StatusChange, CenterIInv, RequestsKnown
  <2>2. server[w.id].status \in Center!Status
    BY <2>1, CenterSets DEF Center!Request
  <2>3. ww \in WorkSet /\ IsAsked(ww)
    BY <2>1, <2>2 DEF StatusChange, WorkSet, IsAsked
  <2> HIDE DEF ww
  <2> QED BY <2>1, <2>3, CenterSets, CenterKeeps
<1>2. CASE Center!Fails(w) \/ Center!Refused(w)
  <2>1. /\ UNCHANGED <<server, list, window, save>> /\ jobs' \subseteq jobs /\ fields' \in FormSet
    BY <1>2, CenterSets DEF Center!Fails, Center!Refused, Center!GiveUp, FormSet
  <2> QED BY <2>1, CenterSets, CenterAsks
<1> QED BY <1>1, <1>2

LEMMA CenterStep ==
  ASSUME RequestConstants, CenterIInv, [Center!ServiceNext]_(Center!serviceVars)
  PROVE CenterIInv'
<1>1. CASE UNCHANGED Center!serviceVars
  BY <1>1, CenterSets, CenterKeeps DEF Center!serviceVars
<1>2. CASE Center!ServiceNext
  <2>1. /\ {"rejected", "done"} \subseteq Center!Status
        /\ {"received", "rejected", "done", None} \subseteq Center!Status \cup {None}
    BY DEF Center!Status
  <2>2. 1 \in Requests
    BY DEF RequestConstants
  <2> QED BY <1>2, <2>1, <2>2, CreatedStep, UploadStep, DoneStep, StatusStep, ListStep, DialogStep, AskStep,
             CloseStep, ReadStep DEF Center!ServiceNext
<1> QED BY <1>1, <1>2

LEMMA RequestsFollow == ASSUME CenterIInv PROVE Center!RequestsAsTold
BY DEF CenterIInv

\* Of the requests, whatever is under way: what their history tells is what they are,
\* and what was reported sent is there.
THEOREM RequestsHold == ASSUME RequestConstants PROVE Center!ServiceSpec => []Center!RequestsAsTold
<1>1. CenterIInv => Center!RequestsAsTold
  BY RequestsFollow
<1>2. CenterIInv /\ [Center!ServiceNext]_(Center!serviceVars) => CenterIInv'
  BY CenterStep
<1> QED BY <1>1, <1>2, CenterInitIInv, PTL DEF Center!ServiceSpec

-----------------------------------------------------------------------------
(* The synchronisation of groups.                                          *)

\* Teams are numbered.  The last of the names a team may take has the number of the
\* team in it: no other team may take it, and nobody gives it to a group by hand.
GroupConstants ==
  /\ Teams \in SUBSET Nat /\ Top \notin Teams
  /\ None \notin Teams /\ None # Top
  /\ \A t \in Teams :
       /\ Candidates[t] \in Seq(Nat) /\ Len(Candidates[t]) > 2
       /\ \A x \in Teams : \A i \in 1..Len(Candidates[x]) :
            Candidates[x][i] = Candidates[t][Len(Candidates[t])] => x = t /\ i = Len(Candidates[t])

Fallback(t) == Candidates[t][Len(Candidates[t])]
NameSet(t) == {Candidates[t][i] : i \in 1..Len(Candidates[t])}

LEMMA CandidateNames ==
  ASSUME GroupConstants, NEW t \in Teams
  PROVE /\ Fallback(t) \in NameSet(t) /\ NameSet(t) \subseteq Nat
        /\ \A x \in Teams : Fallback(t) \in NameSet(x) => x = t
        /\ \A x \in Teams : Fallback(t) \notin {Candidates[x][1], Candidates[x][2]}
<1>1. Candidates[t] \in Seq(Nat) /\ Len(Candidates[t]) \in Nat /\ Len(Candidates[t]) > 2
  BY DEF GroupConstants
<1>2. \A i \in 1..Len(Candidates[t]) : Candidates[t][i] \in Nat
  BY <1>1
<1>3. ASSUME NEW x \in Teams PROVE Fallback(t) \notin {Candidates[x][1], Candidates[x][2]}
  <2>1. Candidates[x] \in Seq(Nat) /\ Len(Candidates[x]) \in Nat /\ Len(Candidates[x]) > 2
    BY DEF GroupConstants
  <2>2. 1 \in 1..Len(Candidates[x]) /\ 2 \in 1..Len(Candidates[x])
    BY <2>1
  <2> QED BY <1>1, <2>2 DEF Fallback, GroupConstants
<1>4. Fallback(t) \in NameSet(t) /\ NameSet(t) \subseteq Nat
  BY <1>1, <1>2 DEF Fallback, NameSet
<1>5. ASSUME NEW x \in Teams, Fallback(t) \in NameSet(x) PROVE x = t
  <2>1. PICK i \in 1..Len(Candidates[x]) : Fallback(t) = Candidates[x][i]
    BY <1>5 DEF NameSet
  <2> QED BY <2>1 DEF Fallback, GroupConstants
<1> QED BY <1>3, <1>4, <1>5

\* A team has a name that no other group has, when nobody has its last.
LEMMA NameIsFree ==
  ASSUME GroupConstants, NEW t \in Teams, NEW taken
  PROVE /\ TeamRights!NameFor(t, taken) \in NameSet(t)
        /\ Fallback(t) \notin taken => TeamRights!NameFor(t, taken) \notin taken
<1> DEFINE free == {i \in DOMAIN Candidates[t] : Candidates[t][i] \notin taken}
<1>1. /\ Candidates[t] \in Seq(Nat) /\ Len(Candidates[t]) \in Nat /\ Len(Candidates[t]) > 2
      /\ DOMAIN Candidates[t] = 1..Len(Candidates[t])
  BY DEF GroupConstants
<1>2. CASE free = {}
  <2>1. TeamRights!NameFor(t, taken) = Fallback(t)
    BY <1>2 DEF TeamRights!NameFor, Fallback, TeamRights!Last
  <2>2. Fallback(t) \in taken
    BY <1>1, <1>2 DEF Fallback
  <2> QED BY <2>1, <2>2, CandidateNames
<1>3. CASE free # {}
  <2>1. free \in SUBSET Nat
    BY <1>1
  <2>2. \E i \in free : \A k \in free : i <= k
    <3> HIDE DEF free
    <3> QED BY <1>3, <2>1, LeastNumber
  <2>3. PICK i \in free : i = CHOOSE x \in free : \A k \in free : x <= k
    BY <2>2
  <2>4. TeamRights!NameFor(t, taken) = Candidates[t][i]
    BY <1>3, <2>3 DEF TeamRights!NameFor
  <2> QED BY <1>1, <2>3, <2>4 DEF NameSet
<1> QED BY <1>2, <1>3

\* The groups have names of their own, and the last name of a team only the team's.
NamesApart ==
  /\ \A f, g \in server : f.name = g.name => f = g
  /\ \A g \in server, t \in Teams : g.name = Fallback(t) => g.team = t

GroupNames == {g.name : g \in server}
OwnNames(t) == {g.name : g \in {g \in server : g.team = t}}

LEMMA StaffedTeams ==
  ASSUME NEW d \in TeamRights!Departments
  PROVE TeamRights!Staffed(d) \subseteq Teams
BY DEF TeamRights!Departments, TeamRights!Staffed, TeamRights!Below

\* The names that are taken, team by team.
LEMMA TakenSteps ==
  ASSUME GroupConstants, NEW d \in TeamRights!Departments
  PROVE LET T == TeamRights!Taken(d)
            O(t) == TeamRights!Others(t, T[t])
        IN /\ T[0] = GroupNames
           /\ \A t \in Nat : T[t + 1] = IF t \in TeamRights!Staffed(d)
                                       THEN O(t) \cup {TeamRights!NameFor(t, O(t))} ELSE T[t]
<1> DEFINE V == GroupNames \cup UNION {NameSet(t) : t \in Teams}
           Go(t, x) == IF t \in TeamRights!Staffed(d)
                       THEN TeamRights!Others(t, x) \cup {TeamRights!NameFor(t, TeamRights!Others(t, x))} ELSE x
           F == [p \in Nat \X (SUBSET V) |-> Go(p[1], p[2])]
<1>1. \A t \in Nat, x \in SUBSET V : Go(t, x) \in SUBSET V
  <2> SUFFICES ASSUME NEW t \in Nat, NEW x \in SUBSET V, t \in TeamRights!Staffed(d)
               PROVE TeamRights!Others(t, x) \cup {TeamRights!NameFor(t, TeamRights!Others(t, x))} \in SUBSET V
    OBVIOUS
  <2>1. t \in Teams
    BY StaffedTeams
  <2>2. TeamRights!NameFor(t, TeamRights!Others(t, x)) \in NameSet(t)
    BY <2>1, NameIsFree
  <2> QED BY <2>1, <2>2 DEF TeamRights!Others
<1>2. GroupNames \in SUBSET V
  OBVIOUS
<1> HIDE DEF V, Go
<1>3. F \in [Nat \X (SUBSET V) -> SUBSET V]
  BY <1>1
<1> HIDE DEF F
<1>4. PICK f \in [Nat -> SUBSET V] : f[0] = GroupNames /\ \A n \in Nat : f[n + 1] = F[<<n, f[n]>>]
  <2> DEFINE W == SUBSET V
  <2>1. GroupNames \in W /\ F \in Steps(W)
    BY <1>2, <1>3 DEF Steps
  <2> HIDE DEF W
  <2>2. \E f \in [Nat -> W] : Follows(f, GroupNames, F)
    BY <2>1, Recursion
  <2> QED BY <2>2 DEF W, Follows
<1> DEFINE Body(g) == [t \in Nat |-> IF t = 0 THEN GroupNames ELSE Go(t - 1, g[t - 1])]
<1>5. f = Body(f)
  <2>1. \A t \in Nat : f[t] = Body(f)[t]
    <3> SUFFICES ASSUME NEW t \in Nat, t # 0 PROVE f[t] = Go(t - 1, f[t - 1])
      BY <1>4
    <3>1. t - 1 \in Nat /\ (t - 1) + 1 = t
      OBVIOUS
    <3>2. f[t] = F[<<t - 1, f[t - 1]>>] /\ f[t - 1] \in SUBSET V
      BY <1>4, <3>1
    <3> QED BY <3>1, <3>2 DEF F
  <2> QED BY <1>4, <2>1
<1>6. TeamRights!Taken(d) = CHOOSE g : g = Body(g)
  BY DEF TeamRights!Taken, Go, GroupNames
<1>7. TeamRights!Taken(d) = Body(TeamRights!Taken(d))
  BY <1>5, <1>6
<1> DEFINE T == TeamRights!Taken(d)
<1> HIDE DEF T
<1>8. T = Body(T)
  BY <1>7 DEF T
<1>9. T[0] = GroupNames
  BY <1>8
<1>10. \A t \in Nat : T[t + 1] = Go(t, T[t])
  <2> SUFFICES ASSUME NEW t \in Nat PROVE T[t + 1] = Go(t, T[t])
    OBVIOUS
  <2>1. t + 1 \in Nat /\ t + 1 # 0 /\ (t + 1) - 1 = t
    OBVIOUS
  <2> HIDE DEF Go
  <2>2. Body(T)[t + 1] = Go((t + 1) - 1, T[(t + 1) - 1])
    BY <2>1
  <2> QED BY <1>8, <2>1, <2>2
<1> QED BY <1>9, <1>10 DEF Go, T

NamesBefore(d, t) == TeamRights!Taken(d)[t]
Open(d, t) == TeamRights!Others(t, NamesBefore(d, t))
NewName(d, t) == TeamRights!NameFor(t, Open(d, t))

\* The names of groups that are not yet planned are taken.
LEMMA OldNamesTaken ==
  ASSUME GroupConstants, NamesApart, NEW d \in TeamRights!Departments
  PROVE \A t \in Nat : \A g \in server :
          (g.team \in TeamRights!Staffed(d) => ~(g.team < t)) => g.name \in NamesBefore(d, t)
<1> DEFINE S == TeamRights!Staffed(d)
           P(t) == \A g \in server : (g.team \in S => ~(g.team < t)) => g.name \in NamesBefore(d, t)
           K == {t \in Nat : P(t)}
<1>1. /\ NamesBefore(d, 0) = GroupNames
      /\ \A t \in Nat : NamesBefore(d, t + 1) =
           IF t \in S THEN Open(d, t) \cup {NewName(d, t)} ELSE NamesBefore(d, t)
  BY TakenSteps DEF NamesBefore, Open, NewName
<1>2. S \subseteq Nat
  BY StaffedTeams DEF GroupConstants
<1> HIDE DEF S
<1>3. 0 \in K
  BY <1>1 DEF GroupNames
<1>4. ASSUME NEW t \in K PROVE t + 1 \in K
  <2> SUFFICES ASSUME NEW g \in server, g.team \in S => ~(g.team < t + 1)
               PROVE g.name \in NamesBefore(d, t + 1)
    OBVIOUS
  <2>0. g.team \in S => ~(g.team < t)
    <3>1. t \in Nat
      OBVIOUS
    <3>2. \A n \in Nat : ~(n < t + 1) => ~(n < t)
      <4> HIDE DEF K
      <4> QED BY <3>1
    <3> HIDE DEF K
    <3> QED BY <1>2, <3>2
  <2>1. g.name \in NamesBefore(d, t)
    BY <2>0
  <2>2. CASE t \notin S
    BY <1>1, <2>1, <2>2
  <2>3. CASE t \in S
    <3>1. g.team # t
      BY <2>3
    <3>2. g.name \in Open(d, t)
      BY <2>1, <3>1 DEF Open, TeamRights!Others, NamesApart
    <3> QED BY <1>1, <2>3, <3>2
  <2> QED BY <2>2, <2>3
<1> HIDE DEF P
<1>5. K = Nat
  BY <1>3, <1>4, AllNumbers
<1> QED BY <1>5 DEF P, S

\* The last name of a team stays free for it.
LEMMA FallbackStays ==
  ASSUME GroupConstants, NamesApart, NEW d \in TeamRights!Departments, NEW x \in Teams
  PROVE \A t \in Nat : ~(x < t) => Fallback(x) \notin NamesBefore(d, t) \ OwnNames(x)
<1> DEFINE S == TeamRights!Staffed(d)
           P(t) == ~(x < t) => Fallback(x) \notin NamesBefore(d, t) \ OwnNames(x)
           K == {t \in Nat : P(t)}
<1>1. /\ NamesBefore(d, 0) = GroupNames
      /\ \A t \in Nat : NamesBefore(d, t + 1) =
           IF t \in S THEN Open(d, t) \cup {NewName(d, t)} ELSE NamesBefore(d, t)
  BY TakenSteps DEF NamesBefore, Open, NewName
<1>2. S \subseteq Teams /\ x \in Nat
  BY StaffedTeams DEF GroupConstants
<1> HIDE DEF S
<1>3. 0 \in K
  BY <1>1 DEF GroupNames, OwnNames, NamesApart
<1>4. ASSUME NEW t \in K PROVE t + 1 \in K
  <2> SUFFICES ASSUME ~(x < t + 1) PROVE Fallback(x) \notin NamesBefore(d, t + 1) \ OwnNames(x)
    OBVIOUS
  <2>1. Fallback(x) \notin NamesBefore(d, t) \ OwnNames(x) /\ t # x
    BY <1>2
  <2>2. CASE t \notin S
    BY <1>1, <2>1, <2>2
  <2>3. CASE t \in S
    <3>1. NewName(d, t) \in NameSet(t) /\ t \in Teams
      BY <1>2, <2>3, NameIsFree DEF NewName
    <3>2. NewName(d, t) # Fallback(x)
      BY <2>1, <3>1, CandidateNames
    <3>3. Open(d, t) \subseteq NamesBefore(d, t)
      BY DEF Open, TeamRights!Others
    <3> QED BY <1>1, <2>1, <2>3, <3>2, <3>3
  <2> QED BY <2>2, <2>3
<1> HIDE DEF P
<1>5. K = Nat
  BY <1>3, <1>4, AllNumbers
<1> QED BY <1>5 DEF P

\* The name of a team is one of its own, free when it is chosen, and that of no group
\* that is left or planned later.
LEMMA NewNameFree ==
  ASSUME GroupConstants, NamesApart, NEW d \in TeamRights!Departments, NEW x \in TeamRights!Staffed(d)
  PROVE /\ x \in Teams /\ NewName(d, x) \in NameSet(x) /\ NewName(d, x) \notin Open(d, x)
        /\ \A g \in server : (g.team \in TeamRights!Staffed(d) => x < g.team) => g.name # NewName(d, x)
<1>1. x \in Teams /\ x \in Nat
  BY StaffedTeams DEF GroupConstants
<1>2. Fallback(x) \notin Open(d, x)
  BY <1>1, FallbackStays DEF Open, TeamRights!Others, OwnNames
<1>3. NewName(d, x) \in NameSet(x) /\ NewName(d, x) \notin Open(d, x)
  BY <1>1, <1>2, NameIsFree DEF NewName
<1>4. ASSUME NEW g \in server, g.team \in TeamRights!Staffed(d) => x < g.team PROVE g.name # NewName(d, x)
  <2>1. g.team \in TeamRights!Staffed(d) => g.team \in Nat
    BY StaffedTeams DEF GroupConstants
  <2>2. g.name \in NamesBefore(d, x) /\ g.team # x
    BY <1>1, <1>4, <2>1, OldNamesTaken
  <2>3. g.name \in Open(d, x)
    BY <2>2 DEF Open, TeamRights!Others, NamesApart
  <2> QED BY <1>3, <2>3
<1> QED BY <1>1, <1>3, <1>4

\* The names that were chosen are taken.
LEMMA NewNamesTaken ==
  ASSUME GroupConstants, NamesApart, NEW d \in TeamRights!Departments, NEW x \in TeamRights!Staffed(d)
  PROVE \A t \in Nat : x < t => NewName(d, x) \in NamesBefore(d, t)
<1> DEFINE S == TeamRights!Staffed(d)
           P(t) == x < t => NewName(d, x) \in NamesBefore(d, t)
           K == {t \in Nat : P(t)}
<1>1. \A t \in Nat : NamesBefore(d, t + 1) =
           IF t \in S THEN Open(d, t) \cup {NewName(d, t)} ELSE NamesBefore(d, t)
  BY TakenSteps DEF NamesBefore, Open, NewName
<1>2. S \subseteq Nat /\ x \in S
  BY StaffedTeams DEF GroupConstants
<1>0. \A g \in server : (g.team \in S => x < g.team) => g.name # NewName(d, x)
  BY NewNameFree
<1> HIDE DEF S
<1>3. 0 \in K
  BY <1>2
<1>4. ASSUME NEW t \in K PROVE t + 1 \in K
  <2> SUFFICES ASSUME x < t + 1 PROVE NewName(d, x) \in NamesBefore(d, t + 1)
    OBVIOUS
  <2>1. CASE x = t
    BY <1>1, <1>2, <2>1
  <2>2. CASE x # t
    <3>1. x < t /\ NewName(d, x) \in NamesBefore(d, t)
      BY <1>2, <2>2
    <3>2. NewName(d, x) \in Open(d, t)
      BY <1>0, <3>1 DEF Open, TeamRights!Others
    <3> QED BY <1>1, <3>1, <3>2
  <2> QED BY <2>1, <2>2
<1> HIDE DEF P
<1>5. K = Nat
  BY <1>3, <1>4, AllNumbers
<1> QED BY <1>5 DEF P

\* No two teams are given one name.
LEMMA NewNamesApart ==
  ASSUME GroupConstants, NamesApart, NEW d \in TeamRights!Departments,
         NEW x \in TeamRights!Staffed(d), NEW y \in TeamRights!Staffed(d), NewName(d, x) = NewName(d, y)
  PROVE x = y
<1>1. \A u, z \in TeamRights!Staffed(d) : u < z => NewName(d, u) # NewName(d, z)
  <2> SUFFICES ASSUME NEW u \in TeamRights!Staffed(d), NEW z \in TeamRights!Staffed(d), u < z
               PROVE NewName(d, u) # NewName(d, z)
    OBVIOUS
  <2>1. z \in Nat
    BY StaffedTeams DEF GroupConstants
  <2>2. NewName(d, u) \in NamesBefore(d, z)
    BY <2>1, NewNamesTaken
  <2>3. \A g \in server : g.team = z => g.name # NewName(d, u)
    BY NewNameFree
  <2>4. NewName(d, u) \in Open(d, z)
    BY <2>2, <2>3 DEF Open, TeamRights!Others
  <2> QED BY <2>4, NewNameFree
<1>2. x \in Nat /\ y \in Nat
  BY StaffedTeams DEF GroupConstants
<1>3. x < y \/ y < x \/ x = y
  BY <1>2
<1> QED BY <1>1, <1>3

\* A synchronisation leaves every team with people one group, of exactly its people,
\* under a name of its own, and every other group as it was.
LEMMA Synchronised ==
  ASSUME GroupConstants, NamesApart, NEW d \in TeamRights!Departments
  PROVE LET S == TeamRights!Staffed(d)
            after == TeamRights!After(TeamRights!Plan(d))
            Rest(all) == {g \in all : g.team \notin S}
        IN /\ Rest(after) = Rest(server)
           /\ \A f, g \in after : f.name = g.name => f = g
           /\ \A g \in after, t \in Teams : g.name = Fallback(t) => g.team = t
           /\ \A t \in S : \E g \in after :
                /\ {f \in after : f.team = t} = {g}
                /\ g.members = {e \in Members : sight[e] = t}
<1> DEFINE S == TeamRights!Staffed(d)
           after == TeamRights!After(TeamRights!Plan(d))
           Persons(t) == {e \in Members : sight[e] = t}
           Made(t) == [id |-> None, name |-> NewName(d, t), team |-> t, members |-> Persons(t)]
<1>1. after = {g \in server : g.team \notin S} \cup {Made(t) : t \in S}
  <2> DEFINE Item(t) == TeamRights!PlanTeam(t, Open(d, t))
  <2>1. TeamRights!Plan(d) = {Item(t) : t \in S}
    BY DEF TeamRights!Plan, Open, NamesBefore
  <2>2. \A t \in S : Item(t).team = t /\ Item(t).name = NewName(d, t)
                     /\ Item(t).keep \cup Item(t).add = Persons(t)
    BY DEF TeamRights!PlanTeam, NewName
  <2> HIDE DEF Item, S, Persons
  <2>3. \A g \in server : (\A item \in TeamRights!Plan(d) : item.team # g.team) <=> g.team \notin S
    BY <2>1, <2>2
  <2> DEFINE Row(item) == [id |-> None, name |-> item.name, team |-> item.team,
                           members |-> item.keep \cup item.add]
  <2>4. \A t \in S : Row(Item(t)) = Made(t)
    BY <2>2
  <2>5. after = {g \in server : \A item \in TeamRights!Plan(d) : item.team # g.team}
               \cup {Row(item) : item \in TeamRights!Plan(d)}
    BY DEF TeamRights!After
  <2> HIDE DEF Row, Made, after
  <2>6. {Row(item) : item \in TeamRights!Plan(d)} = {Made(t) : t \in S}
    BY <2>1, <2>4
  <2> QED BY <2>3, <2>5, <2>6
<1>2. \A t \in S : Made(t).name = NewName(d, t) /\ Made(t).team = t /\ Made(t).members = Persons(t)
  OBVIOUS
<1>3. \A t \in S : t \in Teams /\ NewName(d, t) \in NameSet(t)
  BY NewNameFree
<1>4. \A t, u \in S : NewName(d, t) = NewName(d, u) => t = u
  BY NewNamesApart
<1>5. \A t \in S, g \in server : g.team \notin S => g.name # NewName(d, t)
  BY NewNameFree
<1> HIDE DEF S, after, Made, Persons
<1>6. {g \in after : g.team \notin S} = {g \in server : g.team \notin S}
  BY <1>1, <1>2
<1>7. \A f, g \in after : f.name = g.name => f = g
  BY <1>1, <1>2, <1>4, <1>5 DEF NamesApart
<1>8. \A g \in after, t \in Teams : g.name = Fallback(t) => g.team = t
  BY <1>1, <1>2, <1>3, CandidateNames DEF NamesApart
<1>9. ASSUME NEW t \in S
      PROVE \E g \in after : {f \in after : f.team = t} = {g} /\ g.members = Persons(t)
  <2>1. Made(t) \in after /\ {f \in after : f.team = t} = {Made(t)}
    BY <1>1, <1>2
  <2> QED BY <1>2, <2>1
<1> QED BY <1>6, <1>7, <1>8, <1>9 DEF S, after, Persons

\* What is asked for is what was shown or picked.
AskedAsShown ==
  \A w \in jobs :
    /\ w.kind = "preview" => w.dept \in TeamRights!Departments
    /\ w.kind = "apply" => w.dept \in TeamRights!Departments /\ w.dept = w.shown
    /\ w.kind = "add" => w.group = w.for

\* A plan that is shown is of the department it was asked for.
PlanKept == window.plan # None => window.dept = window.plan /\ window.plan \in TeamRights!Departments

\* Who is picked is picked for the group that is selected, and nobody is searched.
PickKept ==
  /\ fields \in [selected : {fields.selected}, picked : {fields.picked}, for : {fields.for},
                 open : {fields.open}, query : {fields.query}]
  /\ fields.query # None => fields.picked = None
  /\ fields.picked # None => fields.for = fields.selected

GroupIInv == AskedAsShown /\ PlanKept /\ PickKept /\ (part = "sync" => NamesApart)

LEMMA GroupInitIInv == ASSUME GroupConstants, TeamRights!GroupInit PROVE GroupIInv
<1>1. AskedAsShown /\ PlanKept
  BY DEF TeamRights!GroupInit, AskedAsShown, PlanKept, TeamRights!Closed
<1>2. PickKept
  BY DEF TeamRights!GroupInit, PickKept
<1>3. part = "sync" => NamesApart
  BY DEF TeamRights!GroupInit, NamesApart
<1> QED BY <1>1, <1>2, <1>3 DEF GroupIInv

\* Of the synchronisation.
LEMMA SyncStep ==
  ASSUME GroupConstants, GroupIInv, part = "sync", UNCHANGED part,
         \/ TeamRights!ClosePlan \/ TeamRights!AskApply
         \/ \E d \in TeamRights!Departments : TeamRights!AskPreview(d)
         \/ \E w \in jobs : TeamRights!PreviewShown(w) \/ TeamRights!Applied(w) \/ TeamRights!Fails(w)
         \/ \E e \in Members, t \in Teams \cup {None} : TeamRights!Moves(e, t)
         \/ \E t \in Teams : \E name \in {Candidates[t][1], Candidates[t][2]} : TeamRights!MadeElsewhere(name)
  PROVE GroupIInv'
<1>1. AskedAsShown' /\ PlanKept'
  <2>1. CASE TeamRights!ClosePlan
    BY <2>1 DEF TeamRights!ClosePlan, GroupIInv, AskedAsShown, PlanKept, TeamRights!Closed
  <2>2. CASE TeamRights!AskApply
    <3> DEFINE w == [kind |-> "apply", dept |-> window.dept, shown |-> window.plan]
    <3>1. jobs' = jobs \cup {w} /\ UNCHANGED window /\ window.plan # None
      BY <2>2 DEF TeamRights!AskApply, TeamRights!Under
    <3>2. w.kind = "apply" /\ w.dept \in TeamRights!Departments /\ w.dept = w.shown
      BY <3>1 DEF GroupIInv, PlanKept
    <3> HIDE DEF w
    <3> QED BY <3>1, <3>2 DEF GroupIInv, AskedAsShown, PlanKept
  <2>3. ASSUME NEW d \in TeamRights!Departments, TeamRights!AskPreview(d) PROVE AskedAsShown' /\ PlanKept'
    <3> DEFINE w == [kind |-> "preview", dept |-> d]
    <3>1. jobs' = jobs \cup {w} /\ UNCHANGED window
      BY <2>3 DEF TeamRights!AskPreview, TeamRights!Under
    <3>2. w.kind = "preview" /\ w.dept \in TeamRights!Departments
      OBVIOUS
    <3> HIDE DEF w
    <3> QED BY <3>1, <3>2 DEF GroupIInv, AskedAsShown, PlanKept
  <2>4. ASSUME NEW w \in jobs, TeamRights!PreviewShown(w) \/ TeamRights!Applied(w) \/ TeamRights!Fails(w)
        PROVE AskedAsShown' /\ PlanKept'
    BY <2>4 DEF TeamRights!PreviewShown, TeamRights!Applied, TeamRights!Fails, GroupIInv, AskedAsShown, PlanKept,
         TeamRights!ShownPlan, TeamRights!Closed
  <2>5. CASE \/ \E e \in Members, t \in Teams \cup {None} : TeamRights!Moves(e, t)
             \/ \E t \in Teams : \E name \in {Candidates[t][1], Candidates[t][2]} : TeamRights!MadeElsewhere(name)
    BY <2>5 DEF TeamRights!Moves, TeamRights!MadeElsewhere, GroupIInv, AskedAsShown, PlanKept
  <2> QED BY <2>1, <2>2, <2>3, <2>4, <2>5
<1>2. PickKept'
  BY DEF TeamRights!ClosePlan, TeamRights!AskApply, TeamRights!AskPreview, TeamRights!PreviewShown,
       TeamRights!Applied, TeamRights!Fails, TeamRights!Moves, TeamRights!MadeElsewhere, GroupIInv, PickKept
<1>3. NamesApart'
  <2>1. CASE UNCHANGED server
    BY <2>1 DEF GroupIInv, NamesApart
  <2>2. ASSUME NEW w \in jobs, TeamRights!Applied(w) PROVE NamesApart'
    <3>1. w.dept \in TeamRights!Departments /\ server' = TeamRights!After(TeamRights!Plan(w.dept)) /\ NamesApart
      BY <2>2 DEF TeamRights!Applied, GroupIInv, AskedAsShown
    <3> QED BY <3>1, Synchronised DEF NamesApart
  <2>3. ASSUME NEW t \in Teams, NEW name \in {Candidates[t][1], Candidates[t][2]}, TeamRights!MadeElsewhere(name)
        PROVE NamesApart'
    <3> DEFINE same == {g \in server : g.name = name}
               new == [id |-> None, name |-> name, team |-> None, members |-> {}]
    <3>1. server' = IF same # {} THEN server \ same ELSE server \cup {new}
      BY <2>3 DEF TeamRights!MadeElsewhere
    <3>2. new.name = name /\ \A x \in Teams : Fallback(x) # name
      BY CandidateNames
    <3>3. NamesApart
      BY DEF GroupIInv
    <3> HIDE DEF new
    <3>4. CASE same # {}
      BY <3>1, <3>3, <3>4 DEF NamesApart
    <3>5. CASE same = {}
      BY <3>1, <3>2, <3>3, <3>5 DEF NamesApart
    <3> QED BY <3>4, <3>5
  <2> QED BY <2>1, <2>2, <2>3 DEF TeamRights!ClosePlan, TeamRights!AskApply, TeamRights!AskPreview,
       TeamRights!PreviewShown, TeamRights!Fails, TeamRights!Moves
<1> QED BY <1>1, <1>2, <1>3 DEF GroupIInv

\* Of the members.
LEMMA MembersStep ==
  ASSUME GroupConstants, GroupIInv, part # "sync", UNCHANGED part,
         \/ TeamRights!FetchTree \/ TeamRights!FetchMembers \/ TeamRights!Focus \/ TeamRights!Unpick
         \/ TeamRights!Blur \/ TeamRights!AskAdd \/ TeamRights!AskDelete
         \/ \E i \in GroupIds : TeamRights!Select(i) \/ TeamRights!Created(i)
         \/ \E e \in Members : TeamRights!Type(e) \/ TeamRights!Pick(e) \/ TeamRights!AskRemove(e)
         \/ \E w \in jobs : TeamRights!Added(w) \/ TeamRights!Removed(w) \/ TeamRights!Deleted(w) \/ TeamRights!Fails(w)
  PROVE GroupIInv'
<1>1. UNCHANGED window
  BY DEF TeamRights!FetchTree, TeamRights!FetchMembers, TeamRights!Focus, TeamRights!Unpick, TeamRights!Blur,
       TeamRights!AskAdd, TeamRights!AskDelete, TeamRights!Select, TeamRights!Created, TeamRights!Type,
       TeamRights!Pick, TeamRights!AskRemove, TeamRights!Added, TeamRights!Removed, TeamRights!Deleted,
       TeamRights!Fails
<1>2. PlanKept'
  BY <1>1 DEF GroupIInv, PlanKept
<1>3. AskedAsShown'
  <2>1. CASE TeamRights!AskAdd
    <3> DEFINE w == [kind |-> "add", group |-> fields.selected, user |-> fields.picked, for |-> fields.for]
    <3>1. jobs' = jobs \cup {w} /\ w.kind = "add" /\ w.group = w.for
      BY <2>1 DEF TeamRights!AskAdd, TeamRights!Under, GroupIInv, PickKept
    <3> HIDE DEF w
    <3> QED BY <3>1 DEF GroupIInv, AskedAsShown
  <2>2. CASE TeamRights!AskDelete \/ \E e \in Members : TeamRights!AskRemove(e)
    <3>1. \A w \in jobs' : w \in jobs \/ w.kind \in {"remove", "delete"}
      BY <2>2 DEF TeamRights!AskDelete, TeamRights!AskRemove, TeamRights!Under
    <3> QED BY <3>1 DEF GroupIInv, AskedAsShown
  <2>3. CASE jobs' \subseteq jobs
    BY <2>3 DEF GroupIInv, AskedAsShown
  <2> QED BY <2>1, <2>2, <2>3 DEF TeamRights!FetchTree, TeamRights!FetchMembers, TeamRights!Focus,
       TeamRights!Unpick, TeamRights!Blur, TeamRights!Select, TeamRights!Created, TeamRights!Type,
       TeamRights!Pick, TeamRights!Added, TeamRights!Removed, TeamRights!Deleted, TeamRights!Fails
<1>4. PickKept'
  <2>1. CASE UNCHANGED fields
    BY <2>1 DEF GroupIInv, PickKept
  <2>2. CASE TeamRights!Focus \/ TeamRights!Unpick \/ TeamRights!Blur
    BY <2>2 DEF TeamRights!Focus, TeamRights!Unpick, TeamRights!Blur, GroupIInv, PickKept
  <2>3. CASE \E i \in GroupIds : TeamRights!Select(i) \/ TeamRights!Created(i)
    BY <2>3 DEF TeamRights!Select, TeamRights!Created, TeamRights!Selecting, GroupIInv, PickKept
  <2>4. CASE \E e \in Members : TeamRights!Type(e) \/ TeamRights!Pick(e)
    BY <2>4 DEF TeamRights!Type, TeamRights!Typing, TeamRights!Pick, GroupIInv, PickKept
  <2>5. CASE \E w \in jobs : TeamRights!Added(w) \/ TeamRights!Deleted(w)
    BY <2>5 DEF TeamRights!Added, TeamRights!Deleted, GroupIInv, PickKept
  <2> QED BY <2>1, <2>2, <2>3, <2>4, <2>5 DEF TeamRights!FetchTree, TeamRights!FetchMembers, TeamRights!AskAdd,
       TeamRights!AskDelete, TeamRights!AskRemove, TeamRights!Removed, TeamRights!Fails
<1> QED BY <1>2, <1>3, <1>4 DEF GroupIInv

LEMMA GroupStep ==
  ASSUME GroupConstants, GroupIInv, [TeamRights!GroupNext]_(TeamRights!groupVars) PROVE GroupIInv'
<1>1. CASE UNCHANGED TeamRights!groupVars
  BY <1>1 DEF TeamRights!groupVars, GroupIInv, AskedAsShown, PlanKept, PickKept, NamesApart
<1>2. CASE TeamRights!GroupNext
  <2>1. UNCHANGED part
    BY <1>2 DEF TeamRights!GroupNext, TeamRights!ClosePlan, TeamRights!AskApply, TeamRights!AskPreview,
       TeamRights!PreviewShown, TeamRights!Applied, TeamRights!Fails, TeamRights!Moves, TeamRights!MadeElsewhere,
       TeamRights!FetchTree, TeamRights!FetchMembers, TeamRights!Focus, TeamRights!Unpick, TeamRights!Blur,
       TeamRights!AskAdd, TeamRights!AskDelete, TeamRights!Select, TeamRights!Created, TeamRights!Type,
       TeamRights!Pick, TeamRights!AskRemove, TeamRights!Added, TeamRights!Removed, TeamRights!Deleted
  <2>2. CASE part = "sync"
    BY <1>2, <2>1, <2>2, SyncStep DEF TeamRights!GroupNext
  <2>3. CASE part # "sync"
    BY <1>2, <2>1, <2>3, MembersStep DEF TeamRights!GroupNext
  <2> QED BY <2>2, <2>3
<1> QED BY <1>1, <1>2

LEMMA GroupsFollow == ASSUME GroupConstants, GroupIInv PROVE TeamRights!GroupsAsAsked
BY Synchronised DEF GroupIInv, AskedAsShown, PickKept, TeamRights!GroupsAsAsked

\* Of the groups, for any teams and people, however they change and however old the
\* plan is that was shown.
THEOREM GroupsHold == ASSUME GroupConstants PROVE TeamRights!GroupSpec => []TeamRights!GroupsAsAsked
<1>1. GroupIInv => TeamRights!GroupsAsAsked
  BY GroupsFollow
<1>2. GroupIInv /\ [TeamRights!GroupNext]_(TeamRights!groupVars) => GroupIInv'
  BY GroupStep
<1> QED BY <1>1, <1>2, GroupInitIInv, PTL DEF TeamRights!GroupSpec

-----------------------------------------------------------------------------
(* The types of the groups.                                                *)

\* Every group that is made by hand in the page has an id, which the tree lists.
GroupKept ==
  /\ sight \in [Members -> Teams \cup {None}]
  /\ server \in SUBSET TeamRights!Group
  /\ list \in SUBSET GroupIds
  /\ draft \in [GroupIds -> (SUBSET Members) \cup {None}]
  /\ fields \in [selected : GroupIds \cup {None}, picked : Members \cup {None}, for : {fields.for},
                 open : BOOLEAN, query : Members \cup {None}]
  /\ window \in [plan : TeamRights!Departments \cup {None}, dept : TeamRights!Departments \cup {None}, empty : BOOLEAN]
  /\ part # "sync" => \A g \in server : g.id \in GroupIds
  /\ \A w \in jobs : w.kind = "add" => w.user \in Members

LEMMA GroupInitKept == ASSUME 1 \in GroupIds, TeamRights!GroupInit PROVE GroupKept
<1> DEFINE one == [id |-> 1, name |-> 0, team |-> None, members |-> {}]
<1>1. one \in TeamRights!Group /\ one.id = 1
  BY DEF TeamRights!Group
<1>2. sight \in [Members -> Teams \cup {None}]
  BY DEF TeamRights!GroupInit
<1>3. (server = {} \/ (server = {one} /\ part # "sync")) /\ list = {g.id : g \in server}
  BY DEF TeamRights!GroupInit
<1>4. draft = [i \in GroupIds |-> None] /\ jobs = {}
      /\ fields = [selected |-> None, picked |-> None, for |-> None, open |-> FALSE, query |-> None]
      /\ window = [plan |-> None, dept |-> None, empty |-> FALSE]
  BY DEF TeamRights!GroupInit, TeamRights!Closed
<1> HIDE DEF one
<1>5. server \in SUBSET TeamRights!Group /\ list \in SUBSET GroupIds /\ \A g \in server : g.id \in GroupIds
  BY <1>1, <1>3
<1>6. draft \in [GroupIds -> (SUBSET Members) \cup {None}]
  BY <1>4
<1> QED BY <1>2, <1>4, <1>5, <1>6 DEF GroupKept

\* What a plan makes are groups.
LEMMA AfterTyped ==
  ASSUME GroupConstants, server \in SUBSET TeamRights!Group, NEW d \in TeamRights!Departments
  PROVE  TeamRights!After(TeamRights!Plan(d)) \in SUBSET TeamRights!Group
<1> DEFINE Row(item) == [id |-> None, name |-> item.name, team |-> item.team, members |-> item.keep \cup item.add]
<1>1. ASSUME NEW t \in Teams, NEW o PROVE Row(TeamRights!PlanTeam(t, o)) \in TeamRights!Group
  <2>1. TeamRights!NameFor(t, o) \in Nat
    BY NameIsFree, CandidateNames
  <2> DEFINE item == TeamRights!PlanTeam(t, o)
  <2>2. item.team = t /\ item.name = TeamRights!NameFor(t, o) /\ item.keep \cup item.add \in SUBSET Members
    BY DEF TeamRights!PlanTeam
  <2> HIDE DEF item
  <2> QED BY <2>1, <2>2 DEF TeamRights!Group, item
<1>2. \A item \in TeamRights!Plan(d) : Row(item) \in TeamRights!Group
  <2>1. \A t \in TeamRights!Staffed(d) : t \in Teams
    BY StaffedTeams
  <2> HIDE DEF Row
  <2> QED BY <1>1, <2>1 DEF TeamRights!Plan
<1>3. TeamRights!After(TeamRights!Plan(d)) =
        {g \in server : \A item \in TeamRights!Plan(d) : item.team # g.team} \cup {Row(item) : item \in TeamRights!Plan(d)}
  BY DEF TeamRights!After
<1> HIDE DEF Row
<1> QED BY <1>2, <1>3

\* A step that leaves the groups, and asks for nobody else to be added.
LEMMA GroupFrame ==
  ASSUME GroupKept, UNCHANGED <<part, sight, server, draft>>,
         list' \in SUBSET GroupIds,
         fields' \in [selected : GroupIds \cup {None}, picked : Members \cup {None}, for : {fields'.for},
                      open : BOOLEAN, query : Members \cup {None}],
         window' \in [plan : TeamRights!Departments \cup {None}, dept : TeamRights!Departments \cup {None}, empty : BOOLEAN],
         \A w \in jobs' : w \in jobs \/ (w.kind = "add" => w.user \in Members)
  PROVE  GroupKept'
BY DEF GroupKept, TeamRights!Group, TeamRights!Departments

LEMMA SyncKeeps ==
  ASSUME GroupConstants, GroupIInv, GroupKept, part = "sync", UNCHANGED part,
         \/ TeamRights!ClosePlan \/ TeamRights!AskApply
         \/ \E d \in TeamRights!Departments : TeamRights!AskPreview(d)
         \/ \E w \in jobs : TeamRights!PreviewShown(w) \/ TeamRights!Applied(w) \/ TeamRights!Fails(w)
         \/ \E e \in Members, t \in Teams \cup {None} : TeamRights!Moves(e, t)
         \/ \E t \in Teams : \E name \in {Candidates[t][1], Candidates[t][2]} : TeamRights!MadeElsewhere(name)
  PROVE  GroupKept'
<1> DEFINE Plans == [plan : TeamRights!Departments \cup {None}, dept : TeamRights!Departments \cup {None}, empty : BOOLEAN]
<1>0. /\ TeamRights!Closed \in Plans
      /\ \A d \in TeamRights!Departments : TeamRights!ShownPlan(d) \in Plans
      /\ window \in Plans
  BY DEF TeamRights!Closed, TeamRights!ShownPlan, GroupKept
<1>1. /\ UNCHANGED <<list, draft, fields>>
      /\ \A w \in jobs' : w \in jobs \/ w.kind \in {"preview", "apply"}
  BY DEF TeamRights!ClosePlan, TeamRights!AskApply, TeamRights!AskPreview, TeamRights!PreviewShown,
     TeamRights!Applied, TeamRights!Fails, TeamRights!Moves, TeamRights!MadeElsewhere, TeamRights!Under
<1>2. window' \in Plans
  <2>1. \/ UNCHANGED window \/ window' = TeamRights!Closed
        \/ \E w \in jobs : w.kind = "preview" /\ window' = TeamRights!ShownPlan(w.dept)
    BY DEF TeamRights!ClosePlan, TeamRights!AskApply, TeamRights!AskPreview, TeamRights!PreviewShown,
       TeamRights!Applied, TeamRights!Fails, TeamRights!Moves, TeamRights!MadeElsewhere
  <2> QED BY <1>0, <2>1 DEF GroupIInv, AskedAsShown
<1>3. server' \in SUBSET TeamRights!Group
  <2>1. CASE UNCHANGED server
    BY <2>1 DEF GroupKept
  <2>2. ASSUME NEW w \in jobs, TeamRights!Applied(w) PROVE server' \in SUBSET TeamRights!Group
    <3>1. w.dept \in TeamRights!Departments /\ server' = TeamRights!After(TeamRights!Plan(w.dept))
      BY <2>2 DEF TeamRights!Applied, GroupIInv, AskedAsShown
    <3> QED BY <3>1, AfterTyped DEF GroupKept
  <2>3. ASSUME NEW t \in Teams, NEW name \in {Candidates[t][1], Candidates[t][2]}, TeamRights!MadeElsewhere(name)
        PROVE  server' \in SUBSET TeamRights!Group
    <3> DEFINE new == [id |-> None, name |-> name, team |-> None, members |-> {}]
    <3>1. name \in Nat
      BY DEF GroupConstants
    <3>2. new \in TeamRights!Group
      BY <3>1 DEF TeamRights!Group
    <3>3. \A g \in server' : g \in server \cup {new}
      BY <2>3 DEF TeamRights!MadeElsewhere
    <3> HIDE DEF new
    <3> QED BY <3>2, <3>3 DEF GroupKept
  <2> QED BY <2>1, <2>2, <2>3 DEF TeamRights!ClosePlan, TeamRights!AskApply, TeamRights!AskPreview,
       TeamRights!PreviewShown, TeamRights!Fails, TeamRights!Moves
<1>4. sight' \in [Members -> Teams \cup {None}]
  <2>1. UNCHANGED sight \/ \E e \in Members, t \in Teams \cup {None} : sight' = [sight EXCEPT ![e] = t]
    BY DEF TeamRights!ClosePlan, TeamRights!AskApply, TeamRights!AskPreview, TeamRights!PreviewShown,
       TeamRights!Applied, TeamRights!Fails, TeamRights!Moves, TeamRights!MadeElsewhere
  <2> QED BY <2>1 DEF GroupKept
<1> HIDE DEF Plans
<1> QED BY <1>1, <1>2, <1>3, <1>4 DEF GroupKept, Plans

\* The page: what is selected and picked, when some of it is assigned.
PageFields(f) == [selected : GroupIds \cup {None}, picked : Members \cup {None}, for : {f.for},
                  open : BOOLEAN, query : Members \cup {None}]

LEMMA PickTyped ==
  ASSUME GroupKept, part # "sync",
         \/ TeamRights!Focus \/ TeamRights!Unpick \/ TeamRights!Blur
         \/ \E i \in GroupIds : TeamRights!Select(i) \/ TeamRights!Created(i)
         \/ \E e \in Members : TeamRights!Type(e) \/ TeamRights!Pick(e)
         \/ \E w \in jobs : TeamRights!Added(w) \/ TeamRights!Deleted(w)
  PROVE  fields' \in PageFields(fields')
<1>0. /\ fields = [selected |-> fields.selected, picked |-> fields.picked, for |-> fields.for,
                   open |-> fields.open, query |-> fields.query]
      /\ fields.selected \in GroupIds \cup {None} /\ fields.picked \in Members \cup {None}
      /\ fields.open \in BOOLEAN /\ fields.query \in Members \cup {None}
  BY DEF GroupKept
<1>1. CASE TeamRights!Focus \/ TeamRights!Unpick \/ TeamRights!Blur
  BY <1>0, <1>1 DEF TeamRights!Focus, TeamRights!Unpick, TeamRights!Blur, PageFields
<1>2. CASE \E i \in GroupIds : TeamRights!Select(i) \/ TeamRights!Created(i)
  BY <1>0, <1>2 DEF TeamRights!Select, TeamRights!Created, TeamRights!Selecting, PageFields
<1>3. CASE \E e \in Members : TeamRights!Type(e) \/ TeamRights!Pick(e)
  BY <1>0, <1>3 DEF TeamRights!Type, TeamRights!Typing, TeamRights!Pick, PageFields
<1>4. CASE \E w \in jobs : TeamRights!Added(w) \/ TeamRights!Deleted(w)
  BY <1>0, <1>4 DEF TeamRights!Added, TeamRights!Deleted, PageFields
<1> QED BY <1>1, <1>2, <1>3, <1>4

\* The groups made by hand, when members are added or taken away.
LEMMA MadeTyped ==
  ASSUME GroupKept, part # "sync",
         \/ \E i \in GroupIds : TeamRights!Created(i)
         \/ \E w \in jobs : TeamRights!Added(w) \/ TeamRights!Removed(w) \/ TeamRights!Deleted(w)
  PROVE  server' \in SUBSET {g \in TeamRights!Group : g.id \in GroupIds}
<1> DEFINE Made == {g \in TeamRights!Group : g.id \in GroupIds}
           With(g, m) == [g EXCEPT !.members = m]
<1>0. \A g \in server : g \in Made
  BY DEF GroupKept
<1>1. ASSUME NEW g \in Made, NEW m \in SUBSET Members PROVE With(g, m) \in Made
  BY DEF TeamRights!Group
<1>2. ASSUME NEW i \in GroupIds, TeamRights!Created(i) PROVE server' \in SUBSET Made
  <2> DEFINE new == [id |-> i, name |-> 0, team |-> None, members |-> {}]
  <2>1. new \in Made /\ server' = server \cup {new}
    BY <1>2 DEF TeamRights!Created, TeamRights!Group
  <2> HIDE DEF new, Made
  <2> QED BY <1>0, <2>1
<1>3. ASSUME NEW w \in jobs, TeamRights!Added(w) PROVE server' \in SUBSET Made
  <2> DEFINE all == TeamRights!MembersOf(w.group) \cup {w.user}
  <2>1. w.user \in Members
    BY <1>3 DEF TeamRights!Added, GroupKept
  <2>2. TeamRights!MembersOf(w.group) \in SUBSET Members
    <3>1. PICK g \in server : g.id = w.group
      BY <1>3 DEF TeamRights!Added, TeamRights!Known
    <3>2. (CHOOSE x \in server : x.id = w.group) \in server
      BY <3>1
    <3> QED BY <1>0, <3>2 DEF TeamRights!MembersOf, TeamRights!Group
  <2>3. server' = {IF g.id = w.group THEN With(g, all) ELSE g : g \in server}
    BY <1>3 DEF TeamRights!Added, TeamRights!SetMembers
  <2>4. all \in SUBSET Members
    BY <2>1, <2>2
  <2> HIDE DEF all, With, Made
  <2> QED BY <1>0, <1>1, <2>3, <2>4
<1>4. ASSUME NEW w \in jobs, TeamRights!Removed(w) PROVE server' \in SUBSET Made
  <2>1. server' = {IF g.id = w.group THEN With(g, g.members \ {w.user}) ELSE g : g \in server}
    BY <1>4 DEF TeamRights!Removed
  <2>2. \A g \in server : g.members \ {w.user} \in SUBSET Members
    BY <1>0 DEF TeamRights!Group
  <2> HIDE DEF With, Made
  <2> QED BY <1>0, <1>1, <2>1, <2>2
<1>5. ASSUME NEW w \in jobs, TeamRights!Deleted(w) PROVE server' \in SUBSET Made
  BY <1>0, <1>5 DEF TeamRights!Deleted
<1> QED BY <1>2, <1>3, <1>4, <1>5

LEMMA MembersKeeps ==
  ASSUME GroupKept, part # "sync", UNCHANGED part,
         \/ TeamRights!FetchTree \/ TeamRights!FetchMembers \/ TeamRights!Focus \/ TeamRights!Unpick
         \/ TeamRights!Blur \/ TeamRights!AskAdd \/ TeamRights!AskDelete
         \/ \E i \in GroupIds : TeamRights!Select(i) \/ TeamRights!Created(i)
         \/ \E e \in Members : TeamRights!Type(e) \/ TeamRights!Pick(e) \/ TeamRights!AskRemove(e)
         \/ \E w \in jobs : TeamRights!Added(w) \/ TeamRights!Removed(w) \/ TeamRights!Deleted(w) \/ TeamRights!Fails(w)
  PROVE  GroupKept'
<1>1. UNCHANGED <<sight, window>>
  BY DEF TeamRights!FetchTree, TeamRights!FetchMembers, TeamRights!Focus, TeamRights!Unpick, TeamRights!Blur,
       TeamRights!AskAdd, TeamRights!AskDelete, TeamRights!Select, TeamRights!Created, TeamRights!Type,
       TeamRights!Pick, TeamRights!AskRemove, TeamRights!Added, TeamRights!Removed, TeamRights!Deleted,
       TeamRights!Fails
<1>2. fields' \in PageFields(fields')
  <2>1. CASE UNCHANGED fields
    BY <2>1 DEF GroupKept, PageFields
  <2> QED BY <2>1, PickTyped DEF TeamRights!FetchTree, TeamRights!FetchMembers, TeamRights!AskAdd,
       TeamRights!AskDelete, TeamRights!AskRemove, TeamRights!Removed, TeamRights!Fails
<1>3. server' \in SUBSET TeamRights!Group /\ \A g \in server' : g.id \in GroupIds
  <2>1. CASE UNCHANGED server
    BY <2>1 DEF GroupKept
  <2> QED BY <2>1, MadeTyped DEF TeamRights!FetchTree, TeamRights!FetchMembers, TeamRights!Focus,
       TeamRights!Unpick, TeamRights!Blur, TeamRights!AskAdd, TeamRights!AskDelete, TeamRights!Select,
       TeamRights!Type, TeamRights!Pick, TeamRights!AskRemove, TeamRights!Fails
<1>4. list' \in SUBSET GroupIds
  <2>1. UNCHANGED list \/ list' = {g.id : g \in server}
    BY DEF TeamRights!FetchTree, TeamRights!FetchMembers, TeamRights!Focus, TeamRights!Unpick, TeamRights!Blur,
       TeamRights!AskAdd, TeamRights!AskDelete, TeamRights!Select, TeamRights!Created, TeamRights!Type,
       TeamRights!Pick, TeamRights!AskRemove, TeamRights!Added, TeamRights!Removed, TeamRights!Deleted,
       TeamRights!Fails
  <2> QED BY <2>1 DEF GroupKept
<1>5. draft' \in [GroupIds -> (SUBSET Members) \cup {None}]
  <2>1. CASE TeamRights!FetchMembers
    <3> DEFINE i == fields.selected
    <3>1. TeamRights!MembersOf(i) \in SUBSET Members
      <4>1. PICK g \in server : g.id = i
        BY <2>1 DEF TeamRights!FetchMembers, TeamRights!Known
      <4>2. (CHOOSE x \in server : x.id = i) \in server
        BY <4>1
      <4> QED BY <4>2 DEF GroupKept, TeamRights!MembersOf, TeamRights!Group
    <3>2. draft' = [draft EXCEPT ![i] = TeamRights!MembersOf(i)]
      BY <2>1 DEF TeamRights!FetchMembers
    <3> HIDE DEF i
    <3> QED BY <3>1, <3>2 DEF GroupKept
  <2>2. CASE UNCHANGED draft
    BY <2>2 DEF GroupKept
  <2> QED BY <2>1, <2>2 DEF TeamRights!FetchTree, TeamRights!Focus, TeamRights!Unpick, TeamRights!Blur,
       TeamRights!AskAdd, TeamRights!AskDelete, TeamRights!Select, TeamRights!Created, TeamRights!Type,
       TeamRights!Pick, TeamRights!AskRemove, TeamRights!Added, TeamRights!Removed, TeamRights!Deleted,
       TeamRights!Fails
<1>6. \A w \in jobs' : w.kind = "add" => w.user \in Members
  <2>1. CASE TeamRights!AskAdd
    <3> DEFINE w == [kind |-> "add", group |-> fields.selected, user |-> fields.picked, for |-> fields.for]
    <3>1. jobs' = jobs \cup {w} /\ w.user \in Members
      BY <2>1 DEF TeamRights!AskAdd, TeamRights!Under, GroupKept
    <3> HIDE DEF w
    <3> QED BY <3>1 DEF GroupKept
  <2>2. CASE TeamRights!AskDelete \/ \E e \in Members : TeamRights!AskRemove(e)
    <3>1. \A w \in jobs' : w \in jobs \/ w.kind \in {"remove", "delete"}
      BY <2>2 DEF TeamRights!AskDelete, TeamRights!AskRemove, TeamRights!Under
    <3> QED BY <3>1 DEF GroupKept
  <2>3. CASE jobs' \subseteq jobs
    BY <2>3 DEF GroupKept
  <2> QED BY <2>1, <2>2, <2>3 DEF TeamRights!FetchTree, TeamRights!FetchMembers, TeamRights!Focus,
       TeamRights!Unpick, TeamRights!Blur, TeamRights!Select, TeamRights!Created, TeamRights!Type,
       TeamRights!Pick, TeamRights!Added, TeamRights!Removed, TeamRights!Deleted, TeamRights!Fails
<1> QED BY <1>1, <1>2, <1>3, <1>4, <1>5, <1>6 DEF GroupKept, PageFields

LEMMA GroupKeptStep ==
  ASSUME GroupConstants, GroupIInv, GroupKept, [TeamRights!GroupNext]_(TeamRights!groupVars) PROVE GroupKept'
<1>1. CASE UNCHANGED TeamRights!groupVars
  BY <1>1 DEF TeamRights!groupVars, GroupKept, TeamRights!Group, TeamRights!Departments
<1>2. CASE TeamRights!GroupNext
  <2>1. UNCHANGED part
    BY <1>2 DEF TeamRights!GroupNext, TeamRights!ClosePlan, TeamRights!AskApply, TeamRights!AskPreview,
       TeamRights!PreviewShown, TeamRights!Applied, TeamRights!Fails, TeamRights!Moves, TeamRights!MadeElsewhere,
       TeamRights!FetchTree, TeamRights!FetchMembers, TeamRights!Focus, TeamRights!Unpick, TeamRights!Blur,
       TeamRights!AskAdd, TeamRights!AskDelete, TeamRights!Select, TeamRights!Created, TeamRights!Type,
       TeamRights!Pick, TeamRights!AskRemove, TeamRights!Added, TeamRights!Removed, TeamRights!Deleted
  <2>2. CASE part = "sync"
    BY <1>2, <2>1, <2>2, SyncKeeps DEF TeamRights!GroupNext
  <2>3. CASE part # "sync"
    BY <1>2, <2>1, <2>3, MembersKeeps DEF TeamRights!GroupNext
  <2> QED BY <2>2, <2>3
<1> QED BY <1>1, <1>2

LEMMA GroupsAreTyped == ASSUME GroupKept PROVE TeamRights!GroupTypeOK
BY DEF GroupKept, TeamRights!GroupTypeOK

-----------------------------------------------------------------------------
(* Order.                                                                  *)

\* A relation that puts the members of a set in one order.
Orders(R, S) ==
  /\ \A x \in S : <<x, x>> \notin R
  /\ \A x, y \in S : x # y => <<x, y>> \in R \/ <<y, x>> \in R
  /\ \A x, y, z \in S : <<x, y>> \in R /\ <<y, z>> \in R => <<x, z>> \in R

Final(A, R, m) == m \in A /\ \A x \in A \ {m} : <<x, m>> \in R

\* A finite set that is not empty has a last member.
LEMMA LastMember ==
  ASSUME NEW S, IsFiniteSet(S), S # {}, NEW R, Orders(R, S)
  PROVE  \E m \in S : Final(S, R, m)
<1> DEFINE Good(n) == \A A \in SUBSET S : Cardinality(A) = n + 1 => \E m : Final(A, R, m)
           T == {n \in Nat : Good(n)}
<1>0. \A A \in SUBSET S : IsFiniteSet(A) /\ Cardinality(A) \in Nat
  BY FS_Subset, FS_CardinalityType
<1>1. 0 \in T
  <2> SUFFICES ASSUME NEW A \in SUBSET S, Cardinality(A) = 1 PROVE \E m : Final(A, R, m)
    OBVIOUS
  <2>1. PICK m : A = {m}
    BY <1>0, FS_Singleton
  <2> QED BY <2>1 DEF Final
<1>2. ASSUME NEW n \in T PROVE n + 1 \in T
  <2> n \in Nat /\ Good(n)
    OBVIOUS
  <2> SUFFICES ASSUME NEW A \in SUBSET S, Cardinality(A) = (n + 1) + 1 PROVE \E m : Final(A, R, m)
    OBVIOUS
  <2>1. A # {}
    BY FS_EmptySet
  <2>2. PICK a \in A : TRUE
    BY <2>1
  <2>3. Cardinality(A \ {a}) = n + 1
    BY <1>0, <2>2, FS_RemoveElement
  <2>4. PICK m : Final(A \ {a}, R, m)
    BY <2>3
  <2> HIDE DEF Good
  <2>5. m \in A /\ m # a /\ a \in S /\ m \in S
    BY <2>4 DEF Final
  <2>6. CASE <<m, a>> \in R
    <3>1. Final(A, R, a)
      BY <2>2, <2>4, <2>5, <2>6 DEF Final, Orders
    <3> QED BY <3>1
  <2>7. CASE <<a, m>> \in R
    <3>1. Final(A, R, m)
      BY <2>2, <2>4, <2>5, <2>7 DEF Final
    <3> QED BY <3>1
  <2> QED BY <2>5, <2>6, <2>7 DEF Orders
<1> HIDE DEF Good
<1>3. T = Nat
  <2> HIDE DEF T
  <2>1. T \in SUBSET Nat
    BY DEF T
  <2> QED BY <1>1, <1>2, <2>1, AllNumbers
<1>4. Cardinality(S) \in Nat /\ Cardinality(S) # 0
  BY FS_EmptySet, FS_CardinalityType
<1>5. Good(Cardinality(S) - 1)
  BY <1>3, <1>4
<1> QED BY <1>4, <1>5 DEF Good, Final

Sorted(A, R, s) ==
  /\ s \in [1..Cardinality(A) -> A]
  /\ {s[i] : i \in DOMAIN s} = A
  /\ \A i, j \in DOMAIN s : i < j => <<s[i], s[j]>> \in R

LEMMA SortedExists ==
  ASSUME NEW S, IsFiniteSet(S), NEW R, Orders(R, S)
  PROVE  \E s : Sorted(S, R, s)
<1> DEFINE Good(n) == \A A \in SUBSET S : Cardinality(A) = n => \E s : Sorted(A, R, s)
           T == {n \in Nat : Good(n)}
<1>0. \A A \in SUBSET S : IsFiniteSet(A) /\ Cardinality(A) \in Nat
  BY FS_Subset, FS_CardinalityType
<1>1. 0 \in T
  <2> SUFFICES ASSUME NEW A \in SUBSET S, Cardinality(A) = 0 PROVE \E s : Sorted(A, R, s)
    OBVIOUS
  <2>1. A = {}
    BY <1>0, FS_EmptySet
  <2>2. Sorted(A, R, [i \in 1..0 |-> i])
    BY <2>1 DEF Sorted
  <2> QED BY <2>2
<1>2. ASSUME NEW n \in T PROVE n + 1 \in T
  <2> n \in Nat /\ Good(n)
    OBVIOUS
  <2> SUFFICES ASSUME NEW A \in SUBSET S, Cardinality(A) = n + 1 PROVE \E s : Sorted(A, R, s)
    OBVIOUS
  <2>1. A # {} /\ IsFiniteSet(A)
    BY <1>0, FS_EmptySet
  <2>2. PICK m : Final(A, R, m)
    <3>1. Orders(R, A)
      BY DEF Orders
    <3> QED BY <2>1, <3>1, LastMember
  <2>3. m \in A
    BY <2>2 DEF Final
  <2> DEFINE B == A \ {m}
  <2>4. Cardinality(B) = n
    BY <2>1, <2>3, FS_RemoveElement
  <2>5. PICK s : Sorted(B, R, s)
    BY <2>4
  <2> HIDE DEF Good
  <2> DEFINE t == [i \in 1..(n + 1) |-> IF i = n + 1 THEN m ELSE s[i]]
  <2>6. s \in [1..n -> B] /\ {s[i] : i \in 1..n} = B /\ \A i, j \in 1..n : i < j => <<s[i], s[j]>> \in R
    BY <2>4, <2>5 DEF Sorted
  <2>7. t \in [1..(n + 1) -> A]
    BY <2>3, <2>6
  <2>8. t[n + 1] = m /\ \A i \in 1..n : t[i] = s[i]
    OBVIOUS
  <2>9. \A x \in B : <<x, m>> \in R
    BY <2>2 DEF Final
  <2> HIDE DEF t
  <2>10. {t[i] : i \in 1..(n + 1)} = A
    <3>1. \A x \in A : \E i \in 1..(n + 1) : t[i] = x
      <4> SUFFICES ASSUME NEW x \in A PROVE \E i \in 1..(n + 1) : t[i] = x
        OBVIOUS
      <4>1. CASE x = m
        BY <2>8, <4>1
      <4>2. CASE x # m
        <5>1. PICK i \in 1..n : s[i] = x
          BY <2>6, <4>2
        <5> QED BY <2>8, <5>1
      <4> QED BY <4>1, <4>2
    <3> QED BY <2>7, <3>1
  <2>11. \A i, j \in 1..(n + 1) : i < j => <<t[i], t[j]>> \in R
    <3> SUFFICES ASSUME NEW i \in 1..(n + 1), NEW j \in 1..(n + 1), i < j PROVE <<t[i], t[j]>> \in R
      OBVIOUS
    <3>1. i \in 1..n /\ s[i] \in B
      BY <2>6
    <3>2. CASE j = n + 1
      BY <2>8, <2>9, <3>1, <3>2
    <3>3. CASE j # n + 1
      <4>1. j \in 1..n
        BY <3>3
      <4> QED BY <2>6, <2>8, <3>1, <4>1
    <3> QED BY <3>2, <3>3
  <2>12. Sorted(A, R, t)
    BY <2>7, <2>10, <2>11 DEF Sorted
  <2> QED BY <2>12
<1> HIDE DEF Good
<1>3. T = Nat
  <2> HIDE DEF T
  <2>1. T \in SUBSET Nat
    BY DEF T
  <2> QED BY <1>1, <1>2, <2>1, AllNumbers
<1>4. Cardinality(S) \in Nat
  BY FS_CardinalityType
<1>5. Good(Cardinality(S))
  BY <1>3, <1>4
<1> QED BY <1>5 DEF Good

\* InOrder is the set in that order, each member once.
LEMMA InOrderSorts ==
  ASSUME NEW S, IsFiniteSet(S), NEW R, Orders(R, S)
  PROVE  /\ Sorted(S, R, InOrder(S, R))
         /\ \A i, j \in 1..Cardinality(S) : InOrder(S, R)[i] = InOrder(S, R)[j] => i = j
<1>1. Sorted(S, R, InOrder(S, R))
  <2>1. \E s \in [1..Cardinality(S) -> S] :
          /\ {s[i] : i \in DOMAIN s} = S
          /\ \A i, j \in DOMAIN s : i < j => <<s[i], s[j]>> \in R
    BY SortedExists DEF Sorted
  <2> QED BY <2>1 DEF InOrder, Sorted
<1>2. Cardinality(S) \in Nat
  BY FS_CardinalityType
<1> DEFINE s == InOrder(S, R)
<1> HIDE DEF s
<1>3. \A i, j \in 1..Cardinality(S) : i < j => s[i] # s[j]
  BY <1>1, <1>2 DEF Sorted, Orders, s
<1> QED BY <1>1, <1>2, <1>3 DEF s

\* There is one sequence that is sorted.
LEMMA SortedOnce ==
  ASSUME NEW S, IsFiniteSet(S), NEW R, Orders(R, S), NEW s, Sorted(S, R, s), NEW t, Sorted(S, R, t)
  PROVE  s = t
<1> DEFINE n == Cardinality(S)
           T == {i \in Nat : i \in 1..n /\ s[i] # t[i]}
<1>0. n \in Nat /\ s \in [1..n -> S] /\ t \in [1..n -> S]
  BY FS_CardinalityType DEF Sorted
<1> HIDE DEF n
<1>1. SUFFICES ASSUME T # {} PROVE FALSE
  <2>1. \A i \in 1..n : s[i] = t[i]
    BY <1>0, <1>1
  <2> QED BY <1>0, <2>1
<1>2. PICK k \in T : \A i \in T : k <= i
  <2> HIDE DEF T
  <2>1. T \in SUBSET Nat
    BY DEF T
  <2> QED BY <1>1, <2>1, LeastNumber
<1>3. k \in 1..n /\ s[k] # t[k] /\ \A i \in 1..(k - 1) : s[i] = t[i]
  BY <1>0, <1>2
<1>4. ASSUME NEW a, Sorted(S, R, a), NEW b, Sorted(S, R, b), \A i \in 1..(k - 1) : a[i] = b[i], a[k] # b[k]
      PROVE  <<b[k], a[k]>> \in R
  <2>1. /\ a \in [1..n -> S] /\ b \in [1..n -> S] /\ {b[i] : i \in 1..n} = S
        /\ \A i, j \in 1..n : i < j => <<a[i], a[j]>> \in R /\ <<b[i], b[j]>> \in R
    BY <1>4 DEF Sorted, n
  <2>2. a[k] \in {b[i] : i \in 1..n}
    BY <1>3, <2>1
  <2>3. PICK j \in 1..n : b[j] = a[k]
    BY <2>2
  <2>4. ~(j < k)
    <3> SUFFICES ASSUME j < k PROVE FALSE
      OBVIOUS
    <3>1. j \in 1..(k - 1)
      BY <1>3
    <3>2. <<a[k], a[k]>> \in R
      BY <1>3, <1>4, <2>1, <2>3, <3>1
    <3> QED BY <1>3, <2>1, <3>2 DEF Orders
  <2>5. k < j
    BY <1>3, <1>4, <2>3, <2>4
  <2> QED BY <1>3, <2>1, <2>3, <2>5
<1>5. <<t[k], s[k]>> \in R
  BY <1>3, <1>4
<1>6. <<s[k], t[k]>> \in R
  BY <1>3, <1>4
<1>7. s[k] \in S /\ t[k] \in S
  BY <1>0, <1>3
<1> QED BY <1>5, <1>6, <1>7 DEF Orders

-----------------------------------------------------------------------------
(* Display boards.                                                         *)

BoardConstants ==
  /\ Boards \in SUBSET BoardNames /\ BoardNames \in SUBSET Nat /\ SlideIds \in SUBSET Nat
  /\ 1 \in Boards /\ 1 \in SlideIds /\ \A b \in Boards : 1 <= b
  /\ Items # {}
  /\ None \notin Nat \cup Items \cup BoardAdmin!Board

LEMMA SameWords ==
  /\ \A S : BoardAdmin!Cardinality(S) = Cardinality(S)
  /\ \A S, R : BoardAdmin!InOrder(S, R) = InOrder(S, R)
<1>1. \A S : BoardAdmin!Cardinality(S) = Cardinality(S)
  BY DEF BoardAdmin!Cardinality, Cardinality
<1>2. \A S, R : BoardAdmin!InOrder(S, R) = InOrder(S, R)
  BY <1>1 DEF BoardAdmin!InOrder, InOrder
<1> QED BY <1>1, <1>2

\* Slides with ids of their own.
Named(slides) == slides \in SUBSET BoardAdmin!Slide /\ \A x, y \in slides : x.id = y.id => x = y

\* Slides in an order without gaps.
TidyTo(slides, n) ==
  /\ Named(slides)
  /\ {x.rank : x \in slides} = 0..(n - 1)
  /\ \A x, y \in slides : x.rank = y.rank => x = y

Tidy(slides) == \E n \in Nat : TidyTo(slides, n)

\* Slides that show each item once.
Single(slides) == \A x, y \in slides : x.item = y.item => x = y

\* There are as many slides as ranks.
LEMMA TidyCounted ==
  ASSUME NEW slides, NEW n \in Nat, TidyTo(slides, n)
  PROVE  IsFiniteSet(slides) /\ Cardinality(slides) = n
<1> DEFINE f == [i \in 1..n |-> CHOOSE x \in slides : x.rank = i - 1]
<1>1. \A i \in 1..n : f[i] \in slides /\ f[i].rank = i - 1
  <2> SUFFICES ASSUME NEW i \in 1..n PROVE f[i] \in slides /\ f[i].rank = i - 1
    OBVIOUS
  <2>1. i - 1 \in 0..(n - 1)
    OBVIOUS
  <2>2. i - 1 \in {x.rank : x \in slides}
    BY <2>1 DEF TidyTo
  <2> QED BY <2>2
<1> HIDE DEF f
<1>2. f \in [1..n -> slides]
  BY <1>1 DEF f
<1>3. \A x \in slides : \E i \in 1..n : f[i] = x
  <2> SUFFICES ASSUME NEW x \in slides PROVE \E i \in 1..n : f[i] = x
    OBVIOUS
  <2>1. x.rank \in 0..(n - 1)
    BY DEF TidyTo
  <2>2. x.rank + 1 \in 1..n /\ (x.rank + 1) - 1 = x.rank
    BY <2>1
  <2>3. f[x.rank + 1] \in slides /\ f[x.rank + 1].rank = x.rank
    BY <1>1, <2>2
  <2> QED BY <2>2, <2>3 DEF TidyTo
<1>4. \A i, j \in 1..n : f[i] = f[j] => i = j
  <2> SUFFICES ASSUME NEW i \in 1..n, NEW j \in 1..n, f[i] = f[j] PROVE i = j
    OBVIOUS
  <2>1. i - 1 = j - 1
    BY <1>1
  <2> QED BY <2>1
<1>5. f \in Bijection(1..n, slides)
  BY <1>2, <1>3, <1>4, Fun_IsBij
<1>6. ExistsBijection(1..n, slides)
  BY <1>5 DEF ExistsBijection
<1> QED BY <1>6, FS_NatBijection, FS_CountingElements

\* They are put in order by rank, and by id where ranks are equal.
LEMMA SlidesInOrder ==
  ASSUME BoardConstants, NEW slides, Named(slides), IsFiniteSet(slides)
  PROVE  /\ Sorted(slides, BoardAdmin!Earlier(slides), BoardAdmin!Ranked(slides))
         /\ \A i, j \in 1..Cardinality(slides) : BoardAdmin!Ranked(slides)[i] = BoardAdmin!Ranked(slides)[j] => i = j
<1>1. \A x \in slides : x.id \in Nat /\ x.rank \in Nat
  BY DEF Named, BoardAdmin!Slide, BoardConstants
<1>2. \A x, y \in slides : <<x, y>> \in BoardAdmin!Earlier(slides) <=>
        x.rank < y.rank \/ (x.rank = y.rank /\ x.id < y.id)
  BY DEF BoardAdmin!Earlier
<1>3. Orders(BoardAdmin!Earlier(slides), slides)
  <2>1. \A x, y \in slides : x # y => x.id # y.id
    BY DEF Named
  <2> QED BY <1>1, <1>2, <2>1 DEF Orders
<1> QED BY <1>3, InOrderSorts, SameWords DEF BoardAdmin!Ranked

LEMMA IdsInOrder ==
  ASSUME BoardConstants, NEW slides, Named(slides), IsFiniteSet(slides)
  PROVE  /\ BoardAdmin!IdsOf(slides) \in [1..Cardinality(slides) -> SlideIds]
         /\ \A i, j \in 1..Cardinality(slides) : BoardAdmin!IdsOf(slides)[i] = BoardAdmin!IdsOf(slides)[j] => i = j
         /\ {BoardAdmin!IdsOf(slides)[i] : i \in 1..Cardinality(slides)} = {x.id : x \in slides}
<1> DEFINE s == BoardAdmin!Ranked(slides)
           n == Cardinality(slides)
<1>1. /\ s \in [1..n -> slides] /\ {s[i] : i \in 1..n} = slides
      /\ \A i, j \in 1..n : s[i] = s[j] => i = j
  BY SlidesInOrder DEF Sorted
<1>2. BoardAdmin!IdsOf(slides) = [i \in DOMAIN s |-> s[i].id]
  BY DEF BoardAdmin!IdsOf
<1> HIDE DEF s, n
<1>3. \A x \in slides : x.id \in SlideIds
  BY DEF Named, BoardAdmin!Slide
<1>4. BoardAdmin!IdsOf(slides) \in [1..n -> SlideIds]
  BY <1>1, <1>2, <1>3
<1>5. \A i, j \in 1..n : s[i].id = s[j].id => i = j
  BY <1>1 DEF Named
<1>6. {s[i].id : i \in 1..n} = {x.id : x \in slides}
  BY <1>1
<1> QED BY <1>1, <1>2, <1>4, <1>5, <1>6 DEF n

\* The same slides, but for their ranks and what else is set.
Same(new, slides) ==
  /\ \A y \in new : \E x \in slides : x.id = y.id /\ x.item = y.item
  /\ \A x \in slides : \E y \in new : x.id = y.id /\ x.item = y.item

\* Numbers from 0 on by a sequence of all ids.
LEMMA NumberedTidy ==
  ASSUME NEW slides, Named(slides), NEW n \in Nat, NEW ids \in [1..n -> SlideIds],
         \A i, j \in 1..n : ids[i] = ids[j] => i = j,
         {ids[i] : i \in 1..n} = {x.id : x \in slides}
  PROVE  /\ TidyTo(BoardAdmin!Numbered(slides, ids), n)
         /\ Same(BoardAdmin!Numbered(slides, ids), slides)
<1>1. Len(ids) = n
  OBVIOUS
<1> DEFINE K(x) == CHOOSE k \in 0..(n - 1) : ids[k + 1] = x.id
           P(x) == [x EXCEPT !.rank = K(x)]
<1>2. BoardAdmin!Numbered(slides, ids) = {P(x) : x \in slides}
  BY <1>1 DEF BoardAdmin!Numbered
<1>3. \A x \in slides : K(x) \in 0..(n - 1) /\ ids[K(x) + 1] = x.id
  <2> SUFFICES ASSUME NEW x \in slides PROVE K(x) \in 0..(n - 1) /\ ids[K(x) + 1] = x.id
    OBVIOUS
  <2>0. x.id \in {ids[i] : i \in 1..n}
    OBVIOUS
  <2>1. PICK i \in 1..n : ids[i] = x.id
    BY <2>0
  <2>2. i - 1 \in 0..(n - 1) /\ (i - 1) + 1 = i
    OBVIOUS
  <2>3. \E k \in 0..(n - 1) : ids[k + 1] = x.id
    BY <2>1, <2>2
  <2> QED BY <2>3
<1> HIDE DEF K
<1>4. \A x \in slides : /\ P(x) \in BoardAdmin!Slide /\ P(x).id = x.id /\ P(x).item = x.item
                        /\ P(x).rank = K(x)
  <2>1. \A x \in slides : x \in BoardAdmin!Slide /\ K(x) \in Nat
    BY <1>3 DEF Named
  <2> QED BY <2>1 DEF BoardAdmin!Slide
<1> HIDE DEF P
<1>5. Named({P(x) : x \in slides})
  BY <1>4 DEF Named
<1>6. {y.rank : y \in {P(x) : x \in slides}} = 0..(n - 1)
  <2>1. \A k \in 0..(n - 1) : \E x \in slides : P(x).rank = k
    <3> SUFFICES ASSUME NEW k \in 0..(n - 1) PROVE \E x \in slides : P(x).rank = k
      OBVIOUS
    <3>1. k + 1 \in 1..n
      OBVIOUS
    <3>2. ids[k + 1] \in {x.id : x \in slides}
      BY <3>1
    <3>3. PICK x \in slides : x.id = ids[k + 1]
      BY <3>2
    <3>4. K(x) + 1 = k + 1 /\ K(x) \in Int
      BY <1>3, <3>1, <3>3
    <3> QED BY <1>4, <3>4
  <2> QED BY <1>3, <1>4, <2>1
<1>7. \A x, y \in slides : P(x).rank = P(y).rank => P(x) = P(y)
  <2> SUFFICES ASSUME NEW x \in slides, NEW y \in slides, P(x).rank = P(y).rank
               PROVE  x = y
    OBVIOUS
  <2>1. K(x) = K(y)
    BY <1>4
  <2>2. x.id = y.id
    BY <1>3, <2>1
  <2> QED BY <2>2 DEF Named
<1>8. Same({P(x) : x \in slides}, slides)
  BY <1>4 DEF Same
<1> QED BY <1>2, <1>5, <1>6, <1>7, <1>8 DEF TidyTo

Rest(slides, id) == {x \in slides : x.id # id}

LEMMA WithoutTidy ==
  ASSUME BoardConstants, NEW slides, Named(slides), IsFiniteSet(slides), NEW id
  PROVE  Tidy(BoardAdmin!Without(slides, id)) /\ Same(BoardAdmin!Without(slides, id), Rest(slides, id))
<1> DEFINE rest == Rest(slides, id)
           n == Cardinality(rest)
<1>1. rest \subseteq slides
  BY DEF Rest
<1>2. IsFiniteSet(rest) /\ n \in Nat
  BY <1>1, FS_Subset, FS_CardinalityType
<1>3. Named(rest)
  BY <1>1 DEF Named
<1>4. BoardAdmin!Without(slides, id) = BoardAdmin!Numbered(rest, BoardAdmin!IdsOf(rest))
  BY DEF BoardAdmin!Without, Rest
<1> HIDE DEF rest
<1>5. /\ TidyTo(BoardAdmin!Numbered(rest, BoardAdmin!IdsOf(rest)), n)
      /\ Same(BoardAdmin!Numbered(rest, BoardAdmin!IdsOf(rest)), rest)
  BY <1>2, <1>3, IdsInOrder, NumberedTidy
<1> QED BY <1>2, <1>4, <1>5 DEF Tidy, rest

\* The rank after the last.
LEMMA NextRankTyped ==
  ASSUME BoardConstants, NEW slides, Named(slides), IsFiniteSet(slides)
  PROVE  BoardAdmin!NextRank(slides) \in Nat
<1> DEFINE n == Cardinality(slides)
           s == BoardAdmin!Ranked(slides)
<1>1. CASE slides = {}
  BY <1>1 DEF BoardAdmin!NextRank
<1>2. CASE slides # {}
  <2>1. n \in Nat /\ n # 0
    BY <1>2, FS_EmptySet, FS_CardinalityType
  <2>2. s \in [1..n -> slides]
    BY SlidesInOrder DEF Sorted
  <2>3. BoardAdmin!NextRank(slides) = 1 + s[n].rank
    BY <1>2, SameWords DEF BoardAdmin!NextRank
  <2> HIDE DEF n, s
  <2>4. s[n] \in slides
    BY <2>1, <2>2
  <2>5. s[n].rank \in Nat
    BY <2>4 DEF Named, BoardAdmin!Slide
  <2> QED BY <2>3, <2>5
<1> QED BY <1>1, <1>2

LEMMA NextRankIs ==
  ASSUME BoardConstants, NEW slides, NEW n \in Nat, TidyTo(slides, n)
  PROVE  BoardAdmin!NextRank(slides) = n
<1>2. IsFiniteSet(slides) /\ Cardinality(slides) = n /\ Named(slides)
  BY TidyCounted DEF TidyTo
<1>3. CASE slides = {}
  <2>1. n = 0
    BY <1>2, <1>3, FS_EmptySet
  <2> QED BY <1>3, <2>1 DEF BoardAdmin!NextRank
<1>4. CASE slides # {}
  <3>0. BoardAdmin!NextRank(slides) = 1 + BoardAdmin!Ranked(slides)[n].rank
    BY <1>2, <1>4, SameWords DEF BoardAdmin!NextRank
  <3>1. n # 0
    BY <1>2, <1>4, FS_EmptySet
  <3> DEFINE s == BoardAdmin!Ranked(slides)
  <3>2. /\ s \in [1..n -> slides] /\ {s[i] : i \in 1..n} = slides
        /\ \A i, j \in 1..n : i < j => <<s[i], s[j]>> \in BoardAdmin!Earlier(slides)
    BY <1>2, SlidesInOrder DEF Sorted
  <3> HIDE DEF s
  <3>3. \A x \in slides : x.rank \in 0..(n - 1)
    BY DEF TidyTo
  <3>4. PICK x \in slides : x.rank = n - 1
    <4>1. n - 1 \in {x.rank : x \in slides}
      BY <3>1 DEF TidyTo
    <4> QED BY <4>1
  <3>5. PICK i \in 1..n : s[i] = x
    BY <3>2
  <3>6. s[n] \in slides
    BY <3>1, <3>2
  <3>7. CASE i = n
    BY <3>0, <3>4, <3>5, <3>7 DEF s
  <3>8. CASE i # n
    <4>0. i < n /\ n \in 1..n
      BY <3>1, <3>8
    <4>1. <<x, s[n]>> \in BoardAdmin!Earlier(slides)
      BY <3>2, <3>5, <4>0
    <4>2. x.rank <= s[n].rank
      BY <3>3, <3>6, <4>1 DEF BoardAdmin!Earlier
    <4>3. s[n].rank = n - 1
      BY <3>3, <3>4, <3>6, <4>2
    <4> QED BY <3>0, <4>3 DEF s
  <3> QED BY <3>7, <3>8
<1> QED BY <1>3, <1>4

LEMMA ThereInPlaces ==
  ASSUME NEW S, NEW T, BoardAdmin!Places(S) = BoardAdmin!Places(T)
  PROVE  /\ \A x \in S : \E y \in T : x.id = y.id /\ x.item = y.item /\ x.rank = y.rank
         /\ \A y \in T : \E x \in S : x.id = y.id /\ x.item = y.item /\ x.rank = y.rank
<1>1. ASSUME NEW U, NEW V, BoardAdmin!Places(U) = BoardAdmin!Places(V), NEW x \in U
      PROVE  \E y \in V : x.id = y.id /\ x.item = y.item /\ x.rank = y.rank
  <2>1. <<x.id, x.item, x.rank>> \in BoardAdmin!Places(V)
    BY <1>1 DEF BoardAdmin!Places
  <2>2. PICK y \in V : <<x.id, x.item, x.rank>> = <<y.id, y.item, y.rank>>
    BY <2>1 DEF BoardAdmin!Places
  <2> QED BY <2>2
<1> QED BY <1>1

\* Slides in the same places are without gaps when the others are.
LEMMA PlacesTidy ==
  ASSUME NEW slides, NEW old, NEW n \in Nat, TidyTo(slides, n), Named(old),
         BoardAdmin!Places(old) = BoardAdmin!Places(slides)
  PROVE  TidyTo(old, n)
<1>1. \A x \in old : \E y \in slides : x.id = y.id /\ x.item = y.item /\ x.rank = y.rank
  BY ThereInPlaces
<1>2. \A y \in slides : \E x \in old : x.id = y.id /\ x.item = y.item /\ x.rank = y.rank
  BY ThereInPlaces
<1>3. {x.rank : x \in old} = {x.rank : x \in slides}
  BY <1>1, <1>2
<1>4. \A x, y \in old : x.rank = y.rank => x.id = y.id
  BY <1>1 DEF TidyTo
<1> QED BY <1>3, <1>4 DEF TidyTo, Named

\* A new slide is the last.
LEMMA AddedTidy ==
  ASSUME BoardConstants, NEW slides, NEW n \in Nat, TidyTo(slides, n), NEW item \in Items, NEW id \in SlideIds,
         \A x \in slides : x.id # id
  PROVE  Tidy(BoardAdmin!Added(slides, id, item, n))
<1> DEFINE new == [id |-> id, item |-> item, rank |-> n, on |-> TRUE, seconds |-> None]
<1>4. BoardAdmin!Added(slides, id, item, n) = slides \cup {new}
  BY DEF BoardAdmin!Added
<1>5. new \in BoardAdmin!Slide /\ new.id = id /\ new.rank = n
  BY DEF BoardAdmin!Slide, BoardAdmin!Seconds
<1> HIDE DEF new
<1>6. \A x \in slides : x.rank \in 0..(n - 1)
  BY DEF TidyTo
<1>7. {x.rank : x \in slides \cup {new}} = 0..((n + 1) - 1)
  <2>1. {x.rank : x \in slides \cup {new}} = 0..(n - 1) \cup {n}
    BY <1>5 DEF TidyTo
  <2> QED BY <2>1
<1>8. TidyTo(slides \cup {new}, n + 1)
  <2>1. Named(slides \cup {new})
    BY <1>5 DEF TidyTo, Named
  <2>2. \A x \in slides : x.rank # new.rank
    BY <1>5, <1>6
  <2>3. \A x, y \in slides \cup {new} : x.rank = y.rank => x = y
    BY <2>2 DEF TidyTo
  <2> QED BY <1>7, <2>1, <2>3 DEF TidyTo
<1> QED BY <1>4, <1>8 DEF Tidy

\* The values of a function on a finite set are finitely many.
LEMMA FiniteValues ==
  ASSUME NEW S, IsFiniteSet(S), NEW f, DOMAIN f = S
  PROVE  IsFiniteSet({f[x] : x \in S})
<1> DEFINE T == {f[x] : x \in S}
           g == [x \in S |-> f[x]]
<1>1. g \in Surjection(S, T)
  <2>1. g \in [S -> T] /\ \A y \in T : \E x \in S : g[x] = y
    OBVIOUS
  <2> QED BY <2>1 DEF Surjection
<1> QED BY <1>1, FS_Surjection

\* Rows that get other ranks stay the slides that they are.
LEMMA RenumberedKeeps ==
  ASSUME NEW slides, Named(slides), IsFiniteSet(slides), NEW moved, \A y \in moved : y.rank \in Nat
  PROVE  /\ Named(BoardAdmin!Renumbered(slides, moved)) /\ IsFiniteSet(BoardAdmin!Renumbered(slides, moved))
         /\ Same(BoardAdmin!Renumbered(slides, moved), slides)
         /\ Single(slides) => Single(BoardAdmin!Renumbered(slides, moved))
<1> DEFINE There(x) == \E y \in moved : y.id = x.id
           Y(x) == CHOOSE y \in moved : y.id = x.id
           P(x) == IF There(x) THEN [x EXCEPT !.rank = Y(x).rank] ELSE x
           f == [x \in slides |-> P(x)]
<1>1. BoardAdmin!Renumbered(slides, moved) = {P(x) : x \in slides}
  BY DEF BoardAdmin!Renumbered
<1>2. \A x \in slides : P(x) \in BoardAdmin!Slide /\ P(x).id = x.id /\ P(x).item = x.item
  <2>1. \A x \in slides : x \in BoardAdmin!Slide
    BY DEF Named
  <2>2. \A x \in slides : There(x) => Y(x).rank \in Nat
    OBVIOUS
  <2> HIDE DEF There, Y
  <2> QED BY <2>1, <2>2 DEF BoardAdmin!Slide
<1> HIDE DEF P
<1>4. DOMAIN f = slides /\ {f[x] : x \in slides} = {P(x) : x \in slides}
  BY Zenon
<1> HIDE DEF f
<1>3. IsFiniteSet({f[x] : x \in slides})
  BY <1>4, FiniteValues
<1>5. Named({P(x) : x \in slides})
  BY <1>2 DEF Named
<1>6. Same({P(x) : x \in slides}, slides)
  BY <1>2 DEF Same
<1>7. Single(slides) => Single({P(x) : x \in slides})
  BY <1>2 DEF Single
<1> QED BY <1>1, <1>3, <1>4, <1>5, <1>6, <1>7

\* When the rows are where they were read, all get the ranks that were meant.
LEMMA RenumberedTidy ==
  ASSUME NEW slides, Named(slides), NEW old, Named(old), NEW base \in SUBSET old,
         BoardAdmin!Places(slides) = BoardAdmin!Places(base),
         NEW new, NEW n \in Nat, TidyTo(new, n), Same(new, base),
         NEW moved, moved = {x \in new : \A o \in old : o.id = x.id => o.rank # x.rank}
  PROVE  TidyTo(BoardAdmin!Renumbered(slides, moved), n)
<1> DEFINE There(x) == \E y \in moved : y.id = x.id
           Y(x) == CHOOSE y \in moved : y.id = x.id
           P(x) == IF There(x) THEN [x EXCEPT !.rank = Y(x).rank] ELSE x
<1>1. BoardAdmin!Renumbered(slides, moved) = {P(x) : x \in slides}
  BY DEF BoardAdmin!Renumbered
<1>2. \A x \in slides : x \in BoardAdmin!Slide
  BY DEF Named
<1>3. \A y \in new : y \in BoardAdmin!Slide
  BY DEF TidyTo, Named
<1>4. ASSUME NEW x \in slides, NEW y \in new, x.id = y.id
      PROVE  P(x) \in BoardAdmin!Slide /\ P(x).id = x.id /\ P(x).rank = y.rank
  <2>1. CASE There(x)
    <3>1. Y(x) \in moved /\ Y(x).id = x.id
      BY <2>1
    <3> HIDE DEF Y
    <3>2. Y(x) = y
      BY <1>4, <3>1 DEF TidyTo, Named
    <3> QED BY <1>2, <1>3, <2>1, <3>2 DEF BoardAdmin!Slide
  <2>2. CASE ~There(x)
    <3>1. y \notin moved
      BY <1>4, <2>2
    <3>2. PICK o \in old : o.id = y.id /\ o.rank = y.rank
      BY <3>1
    <3>3. PICK q \in base : q.id = x.id /\ q.rank = x.rank
      BY ThereInPlaces
    <3>4. q = o
      BY <1>4, <3>2, <3>3 DEF Named
    <3> QED BY <1>2, <2>2, <3>2, <3>3, <3>4
  <2> QED BY <2>1, <2>2
<1> HIDE DEF P
<1>5. \A x \in slides : \E y \in new : x.id = y.id
  BY ThereInPlaces DEF Same
<1>6. \A y \in new : \E x \in slides : x.id = y.id
  BY ThereInPlaces DEF Same
<1>7. \A x \in slides : P(x) \in BoardAdmin!Slide /\ P(x).id = x.id
  BY <1>4, <1>5
<1>8. {z.rank : z \in {P(x) : x \in slides}} = {y.rank : y \in new}
  <2>1. \A x \in slides : \E y \in new : P(x).rank = y.rank
    BY <1>4, <1>5
  <2>2. \A y \in new : \E x \in slides : P(x).rank = y.rank
    BY <1>4, <1>6
  <2> QED BY <2>1, <2>2
<1>9. \A x, z \in slides : P(x).rank = P(z).rank => x = z
  <2> SUFFICES ASSUME NEW x \in slides, NEW z \in slides, P(x).rank = P(z).rank PROVE x = z
    OBVIOUS
  <2>1. PICK y \in new : x.id = y.id
    BY <1>5
  <2>2. PICK q \in new : z.id = q.id
    BY <1>5
  <2>3. y = q
    BY <1>4, <2>1, <2>2 DEF TidyTo
  <2> QED BY <2>1, <2>2, <2>3 DEF Named
<1>10. Named({P(x) : x \in slides})
  BY <1>7 DEF Named
<1> DEFINE rows == {P(x) : x \in slides}
<1>11. {z.rank : z \in rows} = 0..(n - 1)
  BY <1>8 DEF TidyTo
<1>12. \A y, z \in rows : y.rank = z.rank => y = z
  BY <1>9
<1> HIDE DEF rows
<1>13. TidyTo(rows, n)
  BY <1>10, <1>11, <1>12 DEF TidyTo, rows
<1> QED BY <1>1, <1>13 DEF rows

LEMMA RestPlaces ==
  ASSUME NEW S, NEW T, BoardAdmin!Places(S) = BoardAdmin!Places(T), NEW id
  PROVE  BoardAdmin!Places(Rest(S, id)) = BoardAdmin!Places(Rest(T, id))
<1>1. ASSUME NEW U, NEW V, BoardAdmin!Places(U) = BoardAdmin!Places(V)
      PROVE  BoardAdmin!Places(Rest(U, id)) \subseteq BoardAdmin!Places(Rest(V, id))
  <2> SUFFICES ASSUME NEW x \in Rest(U, id) PROVE <<x.id, x.item, x.rank>> \in BoardAdmin!Places(Rest(V, id))
    BY DEF BoardAdmin!Places
  <2>1. PICK y \in V : x.id = y.id /\ x.item = y.item /\ x.rank = y.rank
    BY <1>1, ThereInPlaces DEF Rest
  <2>2. y \in Rest(V, id)
    BY <2>1 DEF Rest
  <2> QED BY <2>1, <2>2 DEF BoardAdmin!Places
<1> QED BY <1>1

\* A board whose slides are in order and show each item once, but for what was
\* mixed.
Shaped(board) ==
  /\ Named(board.slides) /\ IsFiniteSet(board.slides)
  /\ \A x \in board.slides : x.id <= board.last
  /\ "ranks" \notin board.mixed => Tidy(board.slides)
  /\ "items" \notin board.mixed => Single(board.slides)

Stock(s) ==
  /\ s \in [Boards -> BoardAdmin!Board \cup {None}]
  /\ \A b \in Boards : s[b] # None => Shaped(s[b])

\* Boards of one version are the same.
Tells(s, l) == \A b \in Boards : s[b] # None /\ l[b] # None /\ s[b].version = l[b].version => s[b] = l[b]

PageTyped ==
  /\ sight \in Boards \cup {None}
  /\ fields \in [name : BoardNames \cup {None}, of : Boards \cup {None}]
  /\ draft \in [text : [SlideIds -> BoardAdmin!Seconds \cup {BoardAdmin!Low}], typed : SUBSET SlideIds]
  /\ window \in Items \cup {None}

BoardAsk ==
  [kind : {"update"}, board : Boards, name : BoardNames \cup {None}, active : BOOLEAN \cup {None}, of : Boards]
  \cup [kind : {"remove"}, board : Boards]
  \cup [kind : {"add"}, board : Boards, item : Items]
  \cup [kind : {"move"}, board : Boards, ids : Seq(SlideIds)]
  \cup [kind : {"delete"}, board : Boards, id : SlideIds]
  \cup [kind : {"slide"}, board : Boards, id : SlideIds, on : BOOLEAN \cup {None}, seconds : BoardAdmin!Seconds]

Slides == SUBSET BoardAdmin!Slide
BoardWork == [ask : BoardAsk, mine : BOOLEAN, seen : Slides \cup {None}, old : Slides \cup {None}]

\* What the server has read for a request allowed it.
Backed(w) ==
  /\ w.old # None => Named(w.old) /\ IsFiniteSet(w.old)
  /\ w.seen # None \/ w.old # None => w.ask.kind \in {"add", "move", "delete"}
  /\ w.ask.kind = "add" /\ (w.seen # None \/ w.old # None) => BoardAdmin!CanAdd(w.seen, w.ask.item)
  /\ w.ask.kind = "move" /\ w.old # None => BoardAdmin!CanRank(w.old, w.ask.ids)

\* Settings are asked for the board they were typed for.
AskFits(w) == w \in BoardWork /\ Backed(w) /\ (w.ask.kind = "update" => w.ask.of = w.ask.board)
WorkFits == \A w \in jobs : AskFits(w)

PageFits ==
  LET on == BoardAdmin!Current IN
  /\ save = BoardAdmin!SyncKey(list, sight)
  /\ on # None => /\ fields.of \in {None, on}
                  /\ fields.of = None => fields.name = list[on].name
  /\ \A x \in BoardAdmin!Shown : x.id \in draft.typed \/ draft.text[x.id] = x.seconds

BoardIInv == Stock(server) /\ Stock(list) /\ Tells(server, list) /\ PageTyped /\ WorkFits /\ PageFits

\* The board that is shown is one of the list, if there is any.
LEMMA ActiveThere ==
  ASSUME BoardConstants, NEW l \in [Boards -> BoardAdmin!Board \cup {None}], NEW c
  PROVE  /\ BoardAdmin!Active(l, c) \in Boards \cup {None}
         /\ BoardAdmin!Active(l, c) # None => l[BoardAdmin!Active(l, c)] \in BoardAdmin!Board
<1> DEFINE there == {b \in Boards : l[b] # None}
           Opening(b) == \A x \in there \ {b} : l[b].name < l[x].name \/ (l[b].name = l[x].name /\ b < x)
<1>1. CASE c \in there \/ there = {}
  BY <1>1 DEF BoardAdmin!Active
<1>2. CASE c \notin there /\ there # {}
  <2>1. \A b \in there : l[b].name \in Nat /\ b \in Nat
    BY DEF BoardAdmin!Board, BoardConstants
  <2> DEFINE nameSet == {l[b].name : b \in there}
  <2>2. PICK n \in nameSet : \A m \in nameSet : n <= m
    <3>1. nameSet \in SUBSET Nat /\ nameSet # {}
      BY <1>2, <2>1
    <3> HIDE DEF nameSet
    <3> QED BY <3>1, LeastNumber
  <2> DEFINE firsts == {b \in there : l[b].name = n}
  <2>3. PICK b \in firsts : \A x \in firsts : b <= x
    <3>1. firsts \in SUBSET Nat /\ firsts # {}
      BY <2>1, <2>2
    <3> HIDE DEF firsts
    <3> QED BY <3>1, LeastNumber
  <2>4. Opening(b)
    <3> SUFFICES ASSUME NEW x \in there \ {b} PROVE l[b].name < l[x].name \/ (l[b].name = l[x].name /\ b < x)
      OBVIOUS
    <3>1. n <= l[x].name /\ l[b].name = n /\ b \in there
      BY <2>2, <2>3
    <3>2. l[x].name = n => b <= x /\ b # x
      BY <2>3
    <3> QED BY <2>1, <3>1, <3>2
  <2>5. \E a \in there : Opening(a)
    BY <2>3, <2>4
  <2>6. BoardAdmin!Active(l, c) = CHOOSE a \in there : Opening(a)
    BY <1>2 DEF BoardAdmin!Active
  <2> HIDE DEF Opening
  <2>7. BoardAdmin!Active(l, c) \in there
    BY <2>5, <2>6
  <2> QED BY <2>7
<1> QED BY <1>1, <1>2

LEMMA OneIsNotTwo == \A x, y, z : <<x>> # <<y, z>>
<1> SUFFICES ASSUME NEW x, NEW y, NEW z, <<x>> = <<y, z>> PROVE FALSE
  OBVIOUS
<1>1. DOMAIN <<x>> = 1..1 /\ DOMAIN <<y, z>> = 1..2
  OBVIOUS
<1> QED BY <1>1

\* The page is filled again when it shows another board, or another version of it.
LEMMA RenderKeeps ==
  ASSUME BoardConstants, Stock(list), Stock(list'), Tells(list', list), PageTyped, PageFits,
         sight' \in Boards \cup {None}, BoardAdmin!Render
  PROVE  PageTyped' /\ PageFits'
<1> DEFINE on == BoardAdmin!Active(list', sight')
           key == BoardAdmin!SyncKey(list', sight')
<1>1. /\ BoardAdmin!Current' = on /\ save' = key
      /\ on \in Boards \cup {None} /\ (on # None => list'[on] \in BoardAdmin!Board)
  BY ActiveThere DEF BoardAdmin!Current, BoardAdmin!Render, Stock
<1>2. CASE key = save
  <2>1. UNCHANGED <<fields, draft, window>>
    BY <1>2 DEF BoardAdmin!Render
  <2>2. PageTyped'
    BY <2>1 DEF PageTyped
  <2>3. on # None => BoardAdmin!Current = on /\ list[on] = list'[on]
    <3> SUFFICES ASSUME on # None PROVE BoardAdmin!Current = on /\ list[on] = list'[on]
      OBVIOUS
    <3> DEFINE c == BoardAdmin!Current
    <3>1. key = <<on, list'[on].version>>
      BY DEF BoardAdmin!SyncKey
    <3>2. save = IF c = None THEN <<None>> ELSE <<c, list[c].version>>
      BY DEF PageFits, BoardAdmin!SyncKey, BoardAdmin!Current
    <3> HIDE DEF on, key, c
    <3>3. c # None /\ c = on /\ list[on].version = list'[on].version
      <4>1. save = <<on, list'[on].version>>
        BY <1>2, <3>1
      <4>2. CASE c = None
        <5>1. <<None>> = <<on, list'[on].version>>
          BY <3>2, <4>1, <4>2
        <5> QED BY <5>1, OneIsNotTwo
      <4>3. CASE c # None
        <5>1. <<c, list[c].version>> = <<on, list'[on].version>>
          BY <3>2, <4>1, <4>3
        <5> QED BY <4>3, <5>1
      <4> QED BY <4>2, <4>3
    <3>4. list[on] # None /\ on \in Boards
      BY <1>1, <3>3, ActiveThere DEF Stock, BoardAdmin!Current, c, BoardConstants
    <3>5. list'[on] # None
      BY <1>1 DEF BoardConstants
    <3> QED BY <3>3, <3>4, <3>5 DEF Tells, c
  <2> HIDE DEF on
  <2>4. \A x \in BoardAdmin!Shown' : x \in BoardAdmin!Shown
    BY <1>1, <2>3 DEF BoardAdmin!Shown
  <2> QED BY <1>1, <2>1, <2>2, <2>3, <2>4 DEF PageFits
<1>3. CASE key # save
  <2>1. /\ fields' = [name |-> IF on = None THEN None ELSE list'[on].name, of |-> None]
        /\ draft' = [text |-> [s \in SlideIds |->
                  IF on # None /\ \E x \in list'[on].slides : x.id = s
                  THEN (CHOOSE x \in list'[on].slides : x.id = s).seconds ELSE None], typed |-> {}]
        /\ window' = None
    BY <1>3 DEF BoardAdmin!Render
  <2> HIDE DEF on, key
  <2>2. \A x \in BoardAdmin!Shown' : on # None /\ x \in list'[on].slides
    BY <1>1 DEF BoardAdmin!Shown
  <2>3. on # None => Named(list'[on].slides)
    BY <1>1 DEF Stock, Shaped, BoardConstants
  <2>4. \A s \in SlideIds : draft'.text[s] \in BoardAdmin!Seconds
    <3> SUFFICES ASSUME NEW s \in SlideIds PROVE draft'.text[s] \in BoardAdmin!Seconds
      OBVIOUS
    <3>1. CASE on # None /\ \E x \in list'[on].slides : x.id = s
      <4> DEFINE y == CHOOSE x \in list'[on].slides : x.id = s
      <4>1. y \in list'[on].slides
        BY <3>1
      <4>2. draft'.text[s] = y.seconds
        BY <2>1, <3>1
      <4> HIDE DEF y
      <4>3. y \in BoardAdmin!Slide
        BY <2>3, <3>1, <4>1 DEF Named
      <4> QED BY <4>2, <4>3 DEF BoardAdmin!Slide
    <3>2. CASE ~(on # None /\ \E x \in list'[on].slides : x.id = s)
      BY <2>1, <3>2 DEF BoardAdmin!Seconds
    <3> QED BY <3>1, <3>2
  <2>5. draft' \in [text : [SlideIds -> BoardAdmin!Seconds \cup {BoardAdmin!Low}], typed : SUBSET SlideIds]
    BY <2>1, <2>4
  <2>6. PageTyped'
    BY <1>1, <2>1, <2>5 DEF PageTyped, BoardAdmin!Board
  <2>7. \A x \in BoardAdmin!Shown' : draft'.text[x.id] = x.seconds
    <3> SUFFICES ASSUME NEW x \in BoardAdmin!Shown' PROVE draft'.text[x.id] = x.seconds
      OBVIOUS
    <3>1. on # None /\ x \in list'[on].slides /\ x.id \in SlideIds
      BY <2>2, <2>3 DEF Named, BoardAdmin!Slide
    <3>2. (CHOOSE y \in list'[on].slides : y.id = x.id) = x
      <4>1. \A y \in list'[on].slides : y.id = x.id => y = x
        BY <2>3, <3>1 DEF Named
      <4> QED BY <3>1, <4>1
    <3> QED BY <2>1, <3>1, <3>2
  <2>8. fields'.of = None /\ (on # None => fields'.name = list'[on].name)
    BY <2>1
  <2>9. save' = BoardAdmin!SyncKey(list', sight')
    BY <1>1 DEF key
  <2> QED BY <1>1, <2>6, <2>7, <2>8, <2>9 DEF PageFits
<1> QED BY <1>2, <1>3

\* Whatever leaves the page alone: its list stays as it is.
LEMMA BoardFrame ==
  ASSUME BoardIInv, UNCHANGED <<list, sight, save, fields, draft>>,
         Stock(server'), Tells(server', list), window' \in Items \cup {None}, WorkFits'
  PROVE  BoardIInv'
<1>1. PageTyped'
  BY DEF BoardIInv, PageTyped
<1>2. PageFits'
  BY DEF BoardIInv, PageFits, BoardAdmin!Current, BoardAdmin!Shown
<1> QED BY <1>1, <1>2 DEF BoardIInv

\* A request more, or some less.
LEMMA MoreWork ==
  ASSUME BoardIInv, NEW w, AskFits(w), jobs' \in SUBSET (jobs \cup {w})
  PROVE  WorkFits'
BY DEF BoardIInv, WorkFits, AskFits

LEMMA LessWork ==
  ASSUME BoardIInv, jobs' \in SUBSET jobs
  PROVE  WorkFits'
BY DEF BoardIInv, WorkFits, AskFits

\* What is on the page.
LEMMA ShownThere ==
  ASSUME BoardConstants, BoardIInv
  PROVE  /\ BoardAdmin!Current \in Boards \cup {None}
         /\ BoardAdmin!Current # None =>
              /\ list[BoardAdmin!Current] \in BoardAdmin!Board
              /\ BoardAdmin!Shown = list[BoardAdmin!Current].slides
         /\ BoardAdmin!Current = None => BoardAdmin!Shown = {}
         /\ Named(BoardAdmin!Shown) /\ IsFiniteSet(BoardAdmin!Shown)
<1> DEFINE on == BoardAdmin!Current
<1>1. on \in Boards \cup {None} /\ (on # None => list[on] \in BoardAdmin!Board)
  BY ActiveThere DEF BoardIInv, Stock, BoardAdmin!Current
<1>2. BoardAdmin!Shown = IF on = None THEN {} ELSE list[on].slides
  BY DEF BoardAdmin!Shown
<1> HIDE DEF on
<1>3. CASE on = None
  BY <1>1, <1>2, <1>3, FS_EmptySet DEF Named, on
<1>4. CASE on # None
  <2>1. list[on] # None
    BY <1>1, <1>4 DEF BoardConstants
  <2>2. Named(list[on].slides) /\ IsFiniteSet(list[on].slides)
    BY <1>1, <1>4, <2>1 DEF BoardIInv, Stock, Shaped
  <2> QED BY <1>1, <1>2, <1>4, <2>2 DEF on
<1> QED BY <1>3, <1>4

\* A board is stored in a version that is not the one of the list.
LEMMA StoreKeeps ==
  ASSUME BoardConstants, BoardIInv, NEW b \in Boards, NEW new \in BoardAdmin!Board, Shaped(new),
         BoardAdmin!Store(b, new)
  PROVE  Stock(server') /\ Tells(server', list)
<1> DEFINE k == BoardAdmin!Version(b)
           made == [new EXCEPT !.version = k]
<1>1. k \in 0..2 /\ (list[b] # None => k # list[b].version)
  <2> DEFINE Fits(j) == (list[b] # None => j # list[b].version) /\ <<b, j>> # save
  <2>1. \E j \in 0..2 : Fits(j)
    <3>1. CASE BoardAdmin!Current = None
      <4>1. save = <<None>>
        BY <3>1 DEF BoardIInv, PageFits, BoardAdmin!SyncKey, BoardAdmin!Current
      <4>2. \A j : <<b, j>> # save
        BY <4>1, OneIsNotTwo
      <4>3. \E j \in 0..2 : j # list[b].version
        <5>1. 0 # list[b].version \/ 1 # list[b].version
          OBVIOUS
        <5> QED BY <5>1
      <4> QED BY <4>2, <4>3
    <3>2. CASE BoardAdmin!Current # None
      <4>1. PICK v : save = <<BoardAdmin!Current, v>>
        BY <3>2 DEF BoardIInv, PageFits, BoardAdmin!SyncKey, BoardAdmin!Current
      <4>2. \E j \in 0..2 : j # list[b].version /\ j # v
        <5>1. (0 # list[b].version /\ 0 # v) \/ (1 # list[b].version /\ 1 # v) \/ (2 # list[b].version /\ 2 # v)
          OBVIOUS
        <5> QED BY <5>1
      <4>3. \A j : j # v => <<b, j>> # save
        BY <4>1
      <4> QED BY <4>2, <4>3
    <3> QED BY <3>1, <3>2
  <2>2. k = CHOOSE j \in 0..2 : Fits(j)
    BY DEF BoardAdmin!Version
  <2> HIDE DEF k
  <2>3. k \in 0..2 /\ Fits(k)
    <3> HIDE DEF Fits
    <3> QED BY <2>1, <2>2
  <2> QED BY <2>3
<1>2. server' = [server EXCEPT ![b] = made]
  BY DEF BoardAdmin!Store
<1> HIDE DEF k
<1>3. made \in BoardAdmin!Board /\ Shaped(made) /\ made.version = k
  <2>1. /\ made \in BoardAdmin!Board /\ made.version = k
        /\ made.slides = new.slides /\ made.last = new.last /\ made.mixed = new.mixed
    BY <1>1 DEF BoardAdmin!Board
  <2> HIDE DEF made
  <2> QED BY <2>1 DEF Shaped
<1> HIDE DEF made
<1>4. server' \in [Boards -> BoardAdmin!Board \cup {None}] /\ server'[b] = made
      /\ \A x \in Boards : x # b => server'[x] = server[x]
  BY <1>2, <1>3 DEF BoardIInv, Stock
<1> QED BY <1>1, <1>3, <1>4 DEF BoardIInv, Stock, Tells

LEMMA LastTyped ==
  ASSUME BoardConstants, NEW board \in BoardAdmin!Board
  PROVE  board.last \in Nat
<1>1. \A n \in SlideIds \cup {0} : n \in Nat
  BY DEF BoardConstants
<1>2. board.last \in SlideIds \cup {0}
  BY DEF BoardAdmin!Board
<1> QED BY <1>1, <1>2

\* What a request makes of the slides of a board, whatever came between.
Rewritten(w, board) ==
  [board EXCEPT !.slides = BoardAdmin!Written(w, board), !.last = BoardAdmin!LastId(w, board),
                !.mixed = BoardAdmin!MixedBy(w, board)]

LEMMA WrittenShaped ==
  ASSUME BoardConstants, NEW w \in BoardWork, Backed(w), w.old # None,
         NEW board \in BoardAdmin!Board, Shaped(board),
         BoardAdmin!LastId(w, board) \in SlideIds \cup {0}
  PROVE  Rewritten(w, board) \in BoardAdmin!Board /\ Shaped(Rewritten(w, board))
<1> DEFINE new == Rewritten(w, board)
           slides == BoardAdmin!Written(w, board)
           last == BoardAdmin!LastId(w, board)
           mixed == BoardAdmin!MixedBy(w, board)
<1>0. /\ Named(w.old) /\ IsFiniteSet(w.old) /\ w.ask.kind \in {"add", "move", "delete"}
      /\ Named(board.slides) /\ IsFiniteSet(board.slides) /\ board.last \in Nat
      /\ \A x \in board.slides : x.id <= board.last
  <2>1. Named(w.old) /\ IsFiniteSet(w.old) /\ w.ask.kind \in {"add", "move", "delete"}
    BY DEF Backed
  <2>2. Named(board.slides) /\ IsFiniteSet(board.slides) /\ \A x \in board.slides : x.id <= board.last
    BY DEF Shaped
  <2>3. board.last \in Nat
    BY LastTyped
  <2> QED BY <2>1, <2>2, <2>3
<1>1. mixed \in SUBSET BoardAdmin!Mixes
  BY DEF BoardAdmin!MixedBy, BoardAdmin!Board, BoardAdmin!Mixes
<1>2. /\ "ranks" \notin mixed => /\ BoardAdmin!Places(w.old) = BoardAdmin!Places(board.slides)
                                 /\ w.ask.kind = "add" => "ranks" \notin board.mixed
      /\ "items" \notin mixed => /\ "items" \notin board.mixed
                                 /\ w.ask.kind = "add" => BoardAdmin!Places(w.seen) = BoardAdmin!Places(board.slides)
  BY DEF BoardAdmin!MixedBy
<1> HIDE DEF mixed
<1>3. SUFFICES /\ Named(slides) /\ IsFiniteSet(slides) /\ \A x \in slides : x.id <= last
               /\ "ranks" \notin mixed => Tidy(slides)
               /\ "items" \notin mixed => Single(slides)
  <2>1. slides \in SUBSET BoardAdmin!Slide
    BY <1>3 DEF Named
  <2> HIDE DEF slides, last
  <2>2. /\ new.slides = slides /\ new.last = last /\ new.mixed = mixed
        /\ new \in BoardAdmin!Board
    BY <1>1, <2>1 DEF Rewritten, BoardAdmin!Board, slides, last, mixed
  <2> QED BY <1>3, <2>2 DEF Shaped
<1>4. CASE w.ask.kind = "add"
  <2> DEFINE id == board.last + 1
             rank == BoardAdmin!NextRank(w.old)
             item == w.ask.item
             row == [id |-> id, item |-> item, rank |-> rank, on |-> TRUE, seconds |-> None]
  <2>1. slides = BoardAdmin!Added(board.slides, id, item, rank) /\ last = id
    BY <1>4 DEF BoardAdmin!Written, BoardAdmin!LastId
  <2>2. slides = board.slides \cup {row}
    BY <2>1 DEF BoardAdmin!Added
  <2>3. id \in SlideIds /\ \A x \in board.slides : x.id < id /\ x.id \in Nat
    <3>1. id \in SlideIds
      BY <1>0, <2>1
    <3>2. \A x \in board.slides : x.id \in Nat
      BY <1>0 DEF Named, BoardAdmin!Slide, BoardConstants
    <3> QED BY <1>0, <3>1, <3>2
  <2>4. item \in Items
    BY <1>4 DEF BoardWork, BoardAsk
  <2>5. rank \in Nat
    BY <1>0, NextRankTyped
  <2> HIDE DEF slides, last, id, rank, item
  <2>6. row \in BoardAdmin!Slide /\ row.id = id /\ row.item = item
    BY <2>3, <2>4, <2>5 DEF BoardAdmin!Slide, BoardAdmin!Seconds
  <2> HIDE DEF row
  <2>7. Named(slides) /\ IsFiniteSet(slides) /\ \A x \in slides : x.id <= last
    <3>1. IsFiniteSet(slides)
      BY <1>0, <2>2, FS_AddElement
    <3>2. Named(slides)
      BY <1>0, <2>2, <2>3, <2>6 DEF Named
    <3>3. id \in Nat
      BY <2>3 DEF BoardConstants
    <3> QED BY <2>1, <2>2, <2>3, <2>6, <3>1, <3>2, <3>3
  <2>8. ASSUME "ranks" \notin mixed PROVE Tidy(slides)
    <3>1. PICK n \in Nat : TidyTo(board.slides, n)
      BY <1>2, <1>4, <2>8 DEF Shaped, Tidy
    <3>2. TidyTo(w.old, n)
      BY <1>0, <1>2, <2>8, <3>1, PlacesTidy
    <3>3. rank = n
      BY <3>2, NextRankIs DEF rank
    <3>4. \A x \in board.slides : x.id # id
      BY <2>3
    <3>5. Tidy(BoardAdmin!Added(board.slides, id, item, n))
      BY <2>3, <2>4, <3>1, <3>4, AddedTidy
    <3> QED BY <2>1, <3>3, <3>5
  <2>9. ASSUME "items" \notin mixed PROVE Single(slides)
    <3>1. \A x \in w.seen : x.item # item
      BY <1>4 DEF Backed, BoardAdmin!CanAdd, item
    <3>4. BoardAdmin!Places(w.seen) = BoardAdmin!Places(board.slides)
      BY <1>2, <1>4, <2>9
    <3>5. \A y \in board.slides : \E x \in w.seen : x.item = y.item
      <4>1. \A y \in board.slides : \E x \in w.seen : x.id = y.id /\ x.item = y.item /\ x.rank = y.rank
        BY <3>4, ThereInPlaces, Zenon
      <4> QED BY <4>1
    <3>2. \A x \in board.slides : x.item # item
      BY <3>1, <3>5
    <3>3. Single(board.slides)
      BY <1>2, <2>9 DEF Shaped
    <3> QED BY <2>2, <2>6, <3>2, <3>3 DEF Single
  <2> QED BY <2>7, <2>8, <2>9
<1>5. ASSUME NEW rest \in SUBSET board.slides, NEW base \in SUBSET w.old, NEW made, Tidy(made), Same(made, base),
             BoardAdmin!Places(w.old) = BoardAdmin!Places(board.slides) =>
               BoardAdmin!Places(base) = BoardAdmin!Places(rest),
             BoardAdmin!Moved(w) = {x \in made : \A o \in w.old : o.id = x.id => o.rank # x.rank},
             slides = BoardAdmin!Renumbered(rest, BoardAdmin!Moved(w)), last = board.last
      PROVE  /\ Named(slides) /\ IsFiniteSet(slides) /\ \A x \in slides : x.id <= last
             /\ "ranks" \notin mixed => Tidy(slides)
             /\ "items" \notin mixed => Single(slides)
  <2>1. PICK n \in Nat : TidyTo(made, n)
    BY <1>5 DEF Tidy
  <2>2. Named(rest) /\ IsFiniteSet(rest) /\ (Single(board.slides) => Single(rest))
    BY <1>0, FS_Subset DEF Named, Single
  <2>3. \A y \in BoardAdmin!Moved(w) : y.rank \in Nat
    BY <1>5, <2>1 DEF TidyTo, Named, BoardAdmin!Slide
  <2> HIDE DEF slides, last
  <2>4. Named(slides) /\ IsFiniteSet(slides) /\ Same(slides, rest) /\ (Single(rest) => Single(slides))
    BY <1>5, <2>2, <2>3, RenumberedKeeps
  <2>5. \A x \in slides : x.id <= last
    BY <1>0, <1>5, <2>4 DEF Same
  <2>6. ASSUME "ranks" \notin mixed PROVE Tidy(slides)
    <3>1. BoardAdmin!Places(rest) = BoardAdmin!Places(base)
      BY <1>2, <1>5, <2>6
    <3>2. TidyTo(slides, n)
      BY <1>0, <1>5, <2>1, <2>2, <3>1, RenumberedTidy
    <3> QED BY <3>2 DEF Tidy
  <2>7. "items" \notin mixed => Single(slides)
    BY <1>2, <2>2, <2>4 DEF Shaped
  <2> QED BY <2>4, <2>5, <2>6, <2>7
<1>6. CASE w.ask.kind = "move"
  <2> DEFINE ids == w.ask.ids
             made == BoardAdmin!Numbered(w.old, ids)
  <2>1. ids \in Seq(SlideIds)
    BY <1>6 DEF BoardWork, BoardAsk
  <2>2. PICK m \in Nat : ids \in [1..m -> SlideIds]
    BY <2>1
  <2>3. /\ \A i, j \in 1..m : ids[i] = ids[j] => i = j
        /\ {ids[i] : i \in 1..m} = {x.id : x \in w.old}
    BY <1>6, <2>2 DEF Backed, BoardAdmin!CanRank, BoardAdmin!IsInjective
  <2> HIDE DEF ids
  <2>4. TidyTo(made, m) /\ Same(made, w.old)
    BY <1>0, <2>2, <2>3, NumberedTidy
  <2>5. BoardAdmin!Moved(w) = {x \in made : \A o \in w.old : o.id = x.id => o.rank # x.rank}
    BY <1>6 DEF BoardAdmin!Moved, ids
  <2>6. slides = BoardAdmin!Renumbered(board.slides, BoardAdmin!Moved(w)) /\ last = board.last
    BY <1>6 DEF BoardAdmin!Written, BoardAdmin!LastId
  <2> HIDE DEF made, slides, last
  <2> QED BY <1>5, <2>4, <2>5, <2>6 DEF Tidy, slides, last
<1>7. CASE w.ask.kind = "delete"
  <2> DEFINE id == w.ask.id
             made == BoardAdmin!Without(w.old, id)
  <2>1. Tidy(made) /\ Same(made, Rest(w.old, id))
    BY <1>0, WithoutTidy
  <2>2. BoardAdmin!Moved(w) = {x \in made : \A o \in w.old : o.id = x.id => o.rank # x.rank}
    BY <1>7 DEF BoardAdmin!Moved
  <2>3. slides = BoardAdmin!Renumbered(Rest(board.slides, id), BoardAdmin!Moved(w)) /\ last = board.last
    BY <1>7 DEF BoardAdmin!Written, BoardAdmin!LastId, Rest
  <2>4. ASSUME BoardAdmin!Places(w.old) = BoardAdmin!Places(board.slides)
        PROVE  BoardAdmin!Places(Rest(w.old, id)) = BoardAdmin!Places(Rest(board.slides, id))
    BY <2>4, RestPlaces
  <2>5. Rest(w.old, id) \in SUBSET w.old /\ Rest(board.slides, id) \in SUBSET board.slides
    BY DEF Rest
  <2> HIDE DEF made, slides, last, id
  <2> QED BY <1>5, <2>1, <2>2, <2>3, <2>4, <2>5 DEF slides, last
<1> QED BY <1>0, <1>4, <1>6, <1>7

LEMMA SwappedIds ==
  ASSUME NEW n \in Nat, NEW ids \in [1..n -> SlideIds], NEW i \in 1..(n - 1)
  PROVE  [ids EXCEPT ![i] = ids[i + 1], ![i + 1] = ids[i]] \in Seq(SlideIds)
<1> DEFINE next == [ids EXCEPT ![i] = ids[i + 1], ![i + 1] = ids[i]]
<1>1. ids[i + 1] \in SlideIds /\ ids[i] \in SlideIds
  OBVIOUS
<1>2. next \in [1..n -> SlideIds]
  BY <1>1
<1> HIDE DEF next
<1>3. next \in Seq(SlideIds)
  BY <1>2
<1> QED BY <1>3 DEF next

\* A request that the server has not read yet.
LEMMA AskedFits ==
  ASSUME NEW r \in BoardAsk, r.kind = "update" => r.of = r.board, NEW mine \in BOOLEAN
  PROVE  AskFits(BoardAdmin!NewWork(r, mine))
<1> DEFINE w == BoardAdmin!NewWork(r, mine)
<1>1. w \in BoardWork /\ w.ask = r /\ w.seen = None /\ w.old = None
  BY DEF BoardAdmin!NewWork, BoardWork
<1> HIDE DEF w
<1> QED BY <1>1 DEF AskFits, Backed, w

\* Requests that the page makes.
LEMMA BoardAsks ==
  ASSUME BoardConstants, BoardIInv,
         \/ BoardAdmin!SaveBoard \/ BoardAdmin!ToggleActive \/ BoardAdmin!AskRemove \/ BoardAdmin!AskAdd
         \/ \E i \in DOMAIN BoardAdmin!IdsOf(BoardAdmin!Shown) : BoardAdmin!AskMove(i)
         \/ \E x \in BoardAdmin!Shown : BoardAdmin!AskDelete(x) \/ BoardAdmin!AskToggle(x)
  PROVE  BoardIInv'
<1> DEFINE on == BoardAdmin!Current
<1>0. /\ on \in Boards \cup {None}
      /\ on # None => list[on] \in BoardAdmin!Board /\ BoardAdmin!Shown = list[on].slides
      /\ \A x \in BoardAdmin!Shown : on # None /\ x \in BoardAdmin!Slide
  BY ShownThere DEF Named
<1> HIDE DEF on
<1>1. ASSUME NEW w \in BoardAsk, w.kind = "update" => w.of = w.board, BoardAdmin!Ask(w) PROVE BoardIInv'
  <2>1. UNCHANGED <<server, list, sight, save, fields, draft, window>> /\ jobs' = jobs \cup {BoardAdmin!NewWork(w, TRUE)}
    BY <1>1 DEF BoardAdmin!Ask, BoardAdmin!Page
  <2>2. WorkFits'
    BY <1>1, <2>1, AskedFits, MoreWork
  <2> QED BY <2>1, <2>2, BoardFrame DEF BoardIInv, PageTyped
<1>2. CASE BoardAdmin!SaveBoard
  <2> DEFINE w == [kind |-> "update", board |-> on, name |-> fields.name, active |-> None, of |-> fields.of]
  <2>1. on # None /\ fields.name # list[on].name /\ BoardAdmin!Ask(w)
    BY <1>2 DEF BoardAdmin!SaveBoard, on
  <2>2. fields.of = on
    BY <2>1 DEF BoardIInv, PageFits, on
  <2>3. w \in BoardAsk /\ w.of = w.board
    BY <1>0, <2>1, <2>2 DEF BoardAsk, BoardIInv, PageTyped
  <2> QED BY <1>1, <2>1, <2>3
<1>3. CASE BoardAdmin!ToggleActive
  <2> DEFINE w == [kind |-> "update", board |-> on, name |-> None, active |-> ~list[on].active, of |-> on]
  <2>1. on # None /\ BoardAdmin!Ask(w)
    BY <1>3 DEF BoardAdmin!ToggleActive, on
  <2>2. w \in BoardAsk /\ w.of = w.board
    BY <1>0, <2>1 DEF BoardAsk
  <2> QED BY <1>1, <2>1, <2>2
<1>4. CASE BoardAdmin!AskRemove
  <2> DEFINE w == [kind |-> "remove", board |-> on]
  <2>1. on # None /\ BoardAdmin!Ask(w)
    BY <1>4 DEF BoardAdmin!AskRemove, on
  <2>2. w \in BoardAsk /\ w.kind = "remove"
    BY <1>0, <2>1 DEF BoardAsk
  <2> QED BY <1>1, <2>1, <2>2
<1>5. CASE BoardAdmin!AskAdd
  <2> DEFINE w == [kind |-> "add", board |-> on, item |-> window]
  <2>1. on # None /\ window # None /\ BoardAdmin!Ask(w)
    BY <1>5 DEF BoardAdmin!AskAdd, on
  <2>2. w \in BoardAsk /\ w.kind = "add"
    BY <1>0, <2>1 DEF BoardAsk, BoardIInv, PageTyped
  <2> QED BY <1>1, <2>1, <2>2
<1>6. CASE \E i \in DOMAIN BoardAdmin!IdsOf(BoardAdmin!Shown) : BoardAdmin!AskMove(i)
  <2> DEFINE ids == BoardAdmin!IdsOf(BoardAdmin!Shown)
             n == Cardinality(BoardAdmin!Shown)
  <2>1. ids \in [1..n -> SlideIds] /\ n \in Nat
    BY ShownThere, IdsInOrder, FS_CardinalityType
  <2> HIDE DEF ids, n
  <2>2. Len(ids) = n
    BY <2>1
  <2>3. PICK i \in 1..(n - 1) :
          BoardAdmin!Ask([kind |-> "move", board |-> on, ids |-> [ids EXCEPT ![i] = ids[i + 1], ![i + 1] = ids[i]]])
    BY <1>6, <2>2 DEF BoardAdmin!AskMove, ids, on
  <2> DEFINE next == [ids EXCEPT ![i] = ids[i + 1], ![i + 1] = ids[i]]
             w == [kind |-> "move", board |-> on, ids |-> next]
  <2>4. next \in Seq(SlideIds)
    BY <2>1, SwappedIds
  <2>5. on # None
    <3>1. n # 0
      BY <2>3
    <3>2. BoardAdmin!Shown # {}
      BY <3>1, FS_EmptySet DEF n
    <3> QED BY <1>0, <3>2
  <2> HIDE DEF next
  <2>6. w \in BoardAsk /\ w.kind = "move"
    BY <1>0, <2>4, <2>5 DEF BoardAsk
  <2>7. BoardAdmin!Ask(w)
    BY <2>3 DEF next
  <2> QED BY <1>1, <2>6, <2>7
<1>7. ASSUME NEW x \in BoardAdmin!Shown, BoardAdmin!AskDelete(x) PROVE BoardIInv'
  <2> DEFINE w == [kind |-> "delete", board |-> on, id |-> x.id]
  <2>1. w \in BoardAsk /\ w.kind = "delete"
    BY <1>0 DEF BoardAsk, BoardAdmin!Slide
  <2>2. BoardAdmin!Ask(w)
    BY <1>7 DEF BoardAdmin!AskDelete, on
  <2> QED BY <1>1, <2>1, <2>2
<1>8. ASSUME NEW x \in BoardAdmin!Shown, BoardAdmin!AskToggle(x) PROVE BoardIInv'
  <2> DEFINE w == [kind |-> "slide", board |-> on, id |-> x.id, on |-> ~x.on, seconds |-> None]
  <2>1. w \in BoardAsk /\ w.kind = "slide"
    BY <1>0 DEF BoardAsk, BoardAdmin!Slide, BoardAdmin!Seconds
  <2>2. BoardAdmin!Ask(w)
    BY <1>8 DEF BoardAdmin!AskToggle, on
  <2> QED BY <1>1, <2>1, <2>2
<1> QED BY <1>2, <1>3, <1>4, <1>5, <1>6, <1>7, <1>8

\* What is typed and chosen.
LEMMA BoardTypes ==
  ASSUME BoardConstants, BoardIInv,
         \/ \E t \in BoardNames : BoardAdmin!TypeName(t)
         \/ \E i \in Items : BoardAdmin!Choose(i)
         \/ \E x \in BoardAdmin!Shown, t \in BoardAdmin!Seconds \cup {BoardAdmin!Low} : BoardAdmin!TypeSeconds(x, t)
         \/ \E x \in BoardAdmin!Shown : BoardAdmin!Blur(x)
  PROVE  BoardIInv'
<1>0. /\ \A x \in BoardAdmin!Shown : x \in BoardAdmin!Slide /\ BoardAdmin!Current \in Boards
      /\ BoardAdmin!Current \in Boards \cup {None}
      /\ \A x, y \in BoardAdmin!Shown : x.id = y.id => x = y
  BY ShownThere DEF Named
<1>1. ASSUME UNCHANGED <<server, list, sight, save, jobs>>, PageTyped', PageFits' PROVE BoardIInv'
  BY <1>1 DEF BoardIInv, WorkFits
<1>2. ASSUME NEW t \in BoardNames, BoardAdmin!TypeName(t) PROVE BoardIInv'
  <2>1. /\ BoardAdmin!Current # None /\ fields' = [name |-> t, of |-> BoardAdmin!Current]
        /\ UNCHANGED <<server, list, sight, save, draft, window, jobs>>
    BY <1>2 DEF BoardAdmin!TypeName
  <2>2. PageTyped'
    BY <1>0, <2>1 DEF BoardIInv, PageTyped
  <2>3. PageFits'
    BY <2>1, <1>0 DEF BoardIInv, PageFits, BoardAdmin!Current, BoardAdmin!Shown, BoardConstants
  <2> QED BY <1>1, <2>1, <2>2, <2>3
<1>3. ASSUME NEW i \in Items, BoardAdmin!Choose(i) PROVE BoardIInv'
  <2>1. window' = i /\ UNCHANGED <<server, list, sight, save, draft, fields, jobs>>
    BY <1>3 DEF BoardAdmin!Choose
  <2> QED BY <2>1, BoardFrame DEF BoardIInv, WorkFits
<1>4. ASSUME NEW x \in BoardAdmin!Shown, NEW t \in BoardAdmin!Seconds \cup {BoardAdmin!Low},
             NEW typed \in SUBSET SlideIds,
             draft' = [text |-> [draft.text EXCEPT ![x.id] = t], typed |-> typed],
             x.id \in typed \/ t = x.seconds, \A i \in draft.typed : i \in typed \/ i = x.id,
             UNCHANGED <<server, list, sight, save, fields, window, jobs>>
      PROVE  BoardIInv'
  <2>1. draft.text \in [SlideIds -> BoardAdmin!Seconds \cup {BoardAdmin!Low}] /\ x.id \in SlideIds
    BY <1>0 DEF BoardIInv, PageTyped, BoardAdmin!Slide
  <2>2. draft'.text \in [SlideIds -> BoardAdmin!Seconds \cup {BoardAdmin!Low}]
        /\ draft'.text[x.id] = t /\ (\A i \in SlideIds : i # x.id => draft'.text[i] = draft.text[i])
        /\ draft'.typed = typed
    BY <1>4, <2>1
  <2>3. draft' \in [text : [SlideIds -> BoardAdmin!Seconds \cup {BoardAdmin!Low}], typed : SUBSET SlideIds]
    BY <1>4, <2>2
  <2>4. PageTyped'
    BY <1>4, <2>3 DEF BoardIInv, PageTyped
  <2>5. \A y \in BoardAdmin!Shown : y.id \in typed \/ draft'.text[y.id] = y.seconds
    <3> SUFFICES ASSUME NEW y \in BoardAdmin!Shown PROVE y.id \in typed \/ draft'.text[y.id] = y.seconds
      OBVIOUS
    <3>1. CASE y.id = x.id
      BY <1>0, <1>4, <2>2, <3>1
    <3>2. CASE y.id # x.id
      <4>1. y.id \in SlideIds /\ (y.id \in draft.typed \/ draft.text[y.id] = y.seconds)
        BY <1>0 DEF BoardAdmin!Slide, BoardIInv, PageFits
      <4> QED BY <1>4, <2>2, <3>2, <4>1
    <3> QED BY <3>1, <3>2
  <2>6. BoardAdmin!Shown' = BoardAdmin!Shown /\ BoardAdmin!Current' = BoardAdmin!Current
    BY <1>4 DEF BoardAdmin!Shown, BoardAdmin!Current
  <2>7. PageFits'
    BY <1>4, <2>2, <2>5, <2>6 DEF BoardIInv, PageFits
  <2> QED BY <1>1, <1>4, <2>4, <2>7
<1>5. ASSUME NEW x \in BoardAdmin!Shown, NEW t \in BoardAdmin!Seconds \cup {BoardAdmin!Low}, BoardAdmin!TypeSeconds(x, t)
      PROVE  BoardIInv'
  <2>1. draft.typed \cup {x.id} \in SUBSET SlideIds
    BY <1>0 DEF BoardIInv, PageTyped, BoardAdmin!Slide
  <2> QED BY <1>4, <1>5, <2>1 DEF BoardAdmin!TypeSeconds
<1>6. ASSUME NEW x \in BoardAdmin!Shown, BoardAdmin!Blur(x) PROVE BoardIInv'
  <2> DEFINE text == draft.text[x.id]
  <2>1. CASE /\ text = BoardAdmin!Low
             /\ draft' = [text |-> [draft.text EXCEPT ![x.id] = x.seconds], typed |-> draft.typed \ {x.id}]
             /\ UNCHANGED <<part, server, list, sight, save, fields, window, jobs>>
    <3>1. draft.typed \ {x.id} \in SUBSET SlideIds /\ x.seconds \in BoardAdmin!Seconds
      BY <1>0 DEF BoardIInv, PageTyped, BoardAdmin!Slide
    <3> QED BY <1>4, <2>1, <3>1
  <2>2. CASE /\ text \notin {BoardAdmin!Low, x.seconds}
             /\ jobs' = jobs \cup {BoardAdmin!NewWork([kind |-> "slide", board |-> BoardAdmin!Current, id |-> x.id,
                                                    on |-> None, seconds |-> text], TRUE)}
             /\ UNCHANGED <<part, server, list, BoardAdmin!Page>>
    <3> DEFINE w == [kind |-> "slide", board |-> BoardAdmin!Current, id |-> x.id, on |-> None, seconds |-> text]
    <3>1. text \in BoardAdmin!Seconds /\ x.id \in SlideIds
      BY <1>0, <2>2 DEF BoardIInv, PageTyped, BoardAdmin!Slide
    <3>2. w \in BoardAsk /\ w.kind = "slide"
      BY <1>0, <3>1 DEF BoardAsk
    <3>3. AskFits(BoardAdmin!NewWork(w, TRUE))
      BY <3>2, AskedFits
    <3>5. WorkFits'
      <4>1. jobs' = jobs \cup {BoardAdmin!NewWork(w, TRUE)}
        BY <2>2
      <4> HIDE DEF w
      <4> QED BY <3>3, <4>1, MoreWork
    <3>4. UNCHANGED <<server, list, sight, save, fields, draft, window>>
      BY <2>2 DEF BoardAdmin!Page
    <3> QED BY <3>4, <3>5, BoardFrame DEF BoardIInv, PageTyped
  <2> QED BY <1>6, <2>1, <2>2 DEF BoardAdmin!Blur
<1> QED BY <1>2, <1>3, <1>5, <1>6

\* What the server reads for a request, and what another operator asks.
LEMMA BoardReads ==
  ASSUME BoardConstants, BoardIInv,
         \/ \E w \in jobs : BoardAdmin!Check(w) \/ BoardAdmin!ReadRanks(w)
         \/ \E b \in Boards : BoardAdmin!AskElsewhere(b)
  PROVE  BoardIInv'
<1>1. ASSUME NEW w, AskFits(w), jobs' \in SUBSET (jobs \cup {w}),
             UNCHANGED <<server, list, sight, save, fields, draft, window>>
      PROVE  BoardIInv'
  <2>1. WorkFits'
    BY <1>1, MoreWork
  <2> QED BY <1>1, <2>1, BoardFrame DEF BoardIInv, PageTyped
<1>2. ASSUME NEW w \in jobs PROVE /\ AskFits(w) /\ w \in BoardWork /\ w.ask.board \in Boards
  BY DEF BoardIInv, WorkFits, AskFits, BoardWork, BoardAsk
<1>3. ASSUME NEW b \in Boards, server[b] # None
      PROVE  Named(server[b].slides) /\ IsFiniteSet(server[b].slides) /\ server[b].slides \in Slides
  BY <1>3 DEF BoardIInv, Stock, Shaped, Named, Slides
<1>4. ASSUME NEW w \in jobs, BoardAdmin!Check(w) PROVE BoardIInv'
  <2> DEFINE slides == server[w.ask.board].slides
             seen == IF w.ask.kind = "add" THEN slides ELSE {}
             old == IF w.ask.kind = "move" THEN slides ELSE None
             new == [w EXCEPT !.seen = seen, !.old = old]
  <2>1. /\ server[w.ask.board] # None /\ BoardAdmin!Accepts(w.ask, slides)
        /\ jobs' = (jobs \ {w}) \cup {new}
        /\ UNCHANGED <<server, list, sight, save, fields, draft, window>>
    BY <1>4, Zenon DEF BoardAdmin!Check, BoardAdmin!Page
  <2>2. Named(slides) /\ IsFiniteSet(slides) /\ slides \in Slides
    BY <1>2, <1>3, <2>1
  <2> HIDE DEF slides
  <2>3. seen \in Slides \cup {None} /\ old \in Slides \cup {None}
    BY <2>2 DEF Slides
  <2>4. new \in BoardWork /\ new.ask = w.ask /\ new.seen = seen /\ new.old = old
    BY <1>2, <2>3 DEF BoardWork
  <2>5. Backed(new)
    <3> HIDE DEF new
    <3> QED BY <2>1, <2>2, <2>4 DEF Backed, BoardAdmin!Accepts
  <2>6. AskFits(new)
    <3> HIDE DEF new
    <3> QED BY <1>2, <2>4, <2>5 DEF AskFits
  <2> HIDE DEF new
  <2> QED BY <1>1, <2>1, <2>6
<1>5. ASSUME NEW w \in jobs, BoardAdmin!ReadRanks(w) PROVE BoardIInv'
  <2> DEFINE slides == server[w.ask.board].slides
             new == [w EXCEPT !.old = slides]
  <2>0. /\ w.seen # None /\ w.ask.kind # "move" /\ server[w.ask.board] # None
        /\ jobs' = (jobs \ {w}) \cup {new}
        /\ UNCHANGED <<server, list, sight, save, fields, draft, window>>
    BY <1>5 DEF BoardAdmin!ReadRanks, BoardAdmin!Page
  <2> HIDE DEF new
  <2>1. w.ask.kind \in {"add", "delete"}
    BY <1>2, <2>0 DEF AskFits, Backed
  <2> USE DEF new
  <2>2. Named(slides) /\ IsFiniteSet(slides) /\ slides \in Slides
    BY <1>2, <1>3, <2>0
  <2> HIDE DEF slides
  <2>4. new \in BoardWork /\ new.ask = w.ask /\ new.seen = w.seen /\ new.old = slides
    BY <1>2, <2>2 DEF BoardWork
  <2> HIDE DEF new
  <2>5. Backed(new)
    BY <1>2, <2>0, <2>1, <2>2, <2>4 DEF AskFits, Backed
  <2>6. AskFits(new)
    BY <1>2, <2>4, <2>5 DEF AskFits
  <2> QED BY <1>1, <2>0, <2>6
<1>6. ASSUME NEW b \in Boards, BoardAdmin!AskElsewhere(b) PROVE BoardIInv'
  <2> DEFINE slides == server[b].slides
             ids == BoardAdmin!IdsOf(slides)
             n == Cardinality(slides)
             next(i) == [ids EXCEPT ![i] = ids[i + 1], ![i + 1] = ids[i]]
  <2>1. PICK r \in {[kind |-> "add", board |-> b, item |-> i] : i \in Items}
                  \cup {[kind |-> "delete", board |-> b, id |-> x.id] : x \in slides}
                  \cup {[kind |-> "move", board |-> b, ids |-> next(i)] : i \in 1..(Len(ids) - 1)} :
          /\ jobs' = jobs \cup {BoardAdmin!NewWork(r, FALSE)}
          /\ UNCHANGED <<server, list, sight, save, fields, draft, window>>
    BY <1>6 DEF BoardAdmin!AskElsewhere, BoardAdmin!Page
  <2>2. server[b] # None
    BY <1>6 DEF BoardAdmin!AskElsewhere
  <2>3. n \in Nat /\ ids \in [1..n -> SlideIds]
    BY <1>3, <2>2, IdsInOrder, FS_CardinalityType
  <2>4. \A x \in slides : x.id \in SlideIds
    BY <1>3, <2>2 DEF Named, BoardAdmin!Slide
  <2> HIDE DEF slides, ids, n
  <2>5. Len(ids) = n
    BY <2>3
  <2>6. \A i \in 1..(n - 1) : next(i) \in Seq(SlideIds)
    BY <2>3, SwappedIds
  <2> HIDE DEF next
  <2>7. r \in BoardAsk /\ r.kind # "update"
    <3>1. CASE r \in {[kind |-> "add", board |-> b, item |-> i] : i \in Items}
      BY <3>1 DEF BoardAsk
    <3>2. CASE r \in {[kind |-> "delete", board |-> b, id |-> x.id] : x \in slides}
      BY <2>4, <3>2 DEF BoardAsk
    <3>3. CASE r \in {[kind |-> "move", board |-> b, ids |-> next(i)] : i \in 1..(Len(ids) - 1)}
      BY <2>5, <2>6, <3>3 DEF BoardAsk
    <3> QED BY <2>1, <3>1, <3>2, <3>3
  <2>8. AskFits(BoardAdmin!NewWork(r, FALSE))
    BY <2>7, AskedFits
  <2> QED BY <1>1, <2>1, <2>8
<1> QED BY <1>4, <1>5, <1>6

\* What a step sets of slides leaves them in their places.
LEMMA ChangedShaped ==
  ASSUME BoardConstants, NEW board \in BoardAdmin!Board, Shaped(board), NEW slides,
         IsFiniteSet(slides), slides \subseteq BoardAdmin!Slide,
         \A x \in board.slides : \E y \in slides : x.id = y.id /\ x.item = y.item /\ x.rank = y.rank,
         \A y \in slides : \E x \in board.slides : x.id = y.id /\ x.item = y.item /\ x.rank = y.rank,
         \A x, y \in slides : x.id = y.id => x = y,
         NEW new, new = [board EXCEPT !.slides = slides]
  PROVE  new \in BoardAdmin!Board /\ Shaped(new)
<1>1. /\ new \in BoardAdmin!Board /\ new.slides = slides /\ new.last = board.last /\ new.mixed = board.mixed
  BY DEF BoardAdmin!Board
<1>2. Named(slides) /\ \A x \in slides : x.id <= board.last
  BY DEF Named, Shaped
<1>3. BoardAdmin!Places(slides) = BoardAdmin!Places(board.slides)
  <2>1. ASSUME NEW y \in slides PROVE <<y.id, y.item, y.rank>> \in BoardAdmin!Places(board.slides)
    <3>1. PICK x \in board.slides : x.id = y.id /\ x.item = y.item /\ x.rank = y.rank
      OBVIOUS
    <3> QED BY <3>1 DEF BoardAdmin!Places
  <2>2. ASSUME NEW x \in board.slides PROVE <<x.id, x.item, x.rank>> \in BoardAdmin!Places(slides)
    <3>1. PICK y \in slides : x.id = y.id /\ x.item = y.item /\ x.rank = y.rank
      OBVIOUS
    <3> QED BY <3>1 DEF BoardAdmin!Places
  <2> QED BY <2>1, <2>2 DEF BoardAdmin!Places
<1>4. Tidy(board.slides) => Tidy(slides)
  BY <1>2, <1>3, PlacesTidy DEF Tidy
<1>5. Single(board.slides) => Single(slides)
  BY DEF Single
<1> QED BY <1>1, <1>2, <1>4, <1>5 DEF Shaped

LEMMA SetShaped ==
  ASSUME BoardConstants, NEW board \in BoardAdmin!Board, Shaped(board),
         NEW f, DOMAIN f = board.slides,
         \A x \in board.slides : /\ f[x] \in BoardAdmin!Slide /\ f[x].id = x.id
                                 /\ f[x].item = x.item /\ f[x].rank = x.rank,
         NEW new, new = [board EXCEPT !.slides = {f[x] : x \in board.slides}]
  PROVE  new \in BoardAdmin!Board /\ Shaped(new)
<1> DEFINE slides == {f[x] : x \in board.slides}
<1>1. Named(board.slides) /\ IsFiniteSet(board.slides)
  BY DEF Shaped
<1>2. IsFiniteSet(slides)
  BY <1>1, FiniteValues
<1>3. /\ slides \subseteq BoardAdmin!Slide
      /\ \A x \in board.slides : \E y \in slides : x.id = y.id /\ x.item = y.item /\ x.rank = y.rank
      /\ \A y \in slides : \E x \in board.slides : x.id = y.id /\ x.item = y.item /\ x.rank = y.rank
  OBVIOUS
<1>4. \A x, y \in slides : x.id = y.id => x = y
  BY <1>1 DEF Named
<1> HIDE DEF slides
<1>5. new = [board EXCEPT !.slides = slides]
  BY DEF slides
<1> QED BY <1>2, <1>3, <1>4, <1>5, ChangedShaped

\* What the server stores for a request, and what another operator stores.
LEMMA BoardStores ==
  ASSUME BoardConstants, BoardIInv,
         \/ \E w \in jobs : BoardAdmin!Update(w) \/ BoardAdmin!SlidesStored(w) \/ BoardAdmin!SlideSet(w) \/ BoardAdmin!Fails(w)
         \/ \E b \in Boards : BoardAdmin!Elsewhere(b)
  PROVE  BoardIInv'
<1>0. Stock(server) /\ Tells(server, list) /\ window \in Items \cup {None}
  BY DEF BoardIInv, PageTyped
<1>1. ASSUME UNCHANGED <<list, sight, save, fields, draft>>, window' \in Items \cup {None}, jobs' \in SUBSET jobs,
             Stock(server'), Tells(server', list)
      PROVE  BoardIInv'
  BY <1>1, LessWork, BoardFrame
<1>2. ASSUME NEW b \in Boards, server[b] # None
      PROVE  server[b] \in BoardAdmin!Board /\ Shaped(server[b])
  BY <1>0, <1>2 DEF Stock
<1>7. ASSUME NEW w \in jobs PROVE AskFits(w) /\ w.ask \in BoardAsk /\ w.ask.board \in Boards
  BY DEF BoardIInv, WorkFits, AskFits, BoardWork, BoardAsk
<1>8. ASSUME NEW b \in Boards, NEW new \in BoardAdmin!Board, Shaped(new), BoardAdmin!Store(b, new),
             UNCHANGED <<list, sight, save, fields, draft>>, window' \in Items \cup {None}, jobs' \in SUBSET jobs
      PROVE  BoardIInv'
  <2>1. Stock(server') /\ Tells(server', list)
    BY <1>8, StoreKeeps
  <2> QED BY <1>1, <1>8, <2>1
<1>3. ASSUME NEW w \in jobs, BoardAdmin!Update(w) PROVE BoardIInv'
  <2> DEFINE q == w.ask
             b == q.board
             new == [server[b] EXCEPT !.name = IF q.name = None THEN @ ELSE q.name,
                                      !.active = IF q.active = None THEN @ ELSE q.active]
  <2>1. /\ q.kind = "update" /\ server[b] # None /\ BoardAdmin!Store(b, new)
        /\ jobs' = jobs \ {w} /\ UNCHANGED <<list, sight, save, fields, draft, window>>
    BY <1>3, Zenon DEF BoardAdmin!Update, BoardAdmin!Page
  <2>2. b \in Boards /\ q.name \in BoardNames \cup {None} /\ q.active \in BOOLEAN \cup {None}
    BY <1>7, <2>1 DEF BoardAsk
  <2>3. /\ new \in BoardAdmin!Board /\ new.slides = server[b].slides
        /\ new.last = server[b].last /\ new.mixed = server[b].mixed
    BY <1>2, <2>1, <2>2 DEF BoardAdmin!Board
  <2> HIDE DEF new
  <2>4. Shaped(new)
    BY <1>2, <2>1, <2>2, <2>3 DEF Shaped
  <2> QED BY <1>0, <1>8, <2>1, <2>2, <2>3, <2>4
<1>4. ASSUME NEW w \in jobs, BoardAdmin!SlidesStored(w) PROVE BoardIInv'
  <2> DEFINE b == w.ask.board
             new == Rewritten(w, server[b])
  <2>1. /\ w.old # None /\ server[b] # None /\ BoardAdmin!Store(b, new)
        /\ BoardAdmin!LastId(w, server[b]) \in SlideIds \cup {0}
        /\ window' = IF w.mine /\ w.ask.kind = "add" THEN None ELSE window
        /\ jobs' = jobs \ {w} /\ UNCHANGED <<list, sight, save, fields, draft>>
    BY <1>4, Zenon DEF BoardAdmin!SlidesStored, Rewritten
  <2>2. b \in Boards /\ w \in BoardWork /\ Backed(w)
    BY <1>7 DEF AskFits
  <2>3. server[b] \in BoardAdmin!Board /\ Shaped(server[b])
    BY <1>2, <2>1, <2>2
  <2>4. new \in BoardAdmin!Board /\ Shaped(new)
    BY <2>1, <2>2, <2>3, WrittenShaped
  <2> HIDE DEF new
  <2>5. window' \in Items \cup {None}
    BY <1>0, <2>1
  <2> QED BY <1>8, <2>1, <2>2, <2>4, <2>5
<1>9. ASSUME NEW w \in jobs, BoardAdmin!SlideSet(w) PROVE BoardIInv'
  <2> DEFINE q == w.ask
             b == q.board
             C(x) == IF x.id # q.id THEN x ELSE IF q.on # None THEN [x EXCEPT !.on = q.on] ELSE [x EXCEPT !.seconds = q.seconds]
             f == [x \in server[b].slides |-> C(x)]
             new == [server[b] EXCEPT !.slides = {f[x] : x \in server[b].slides}]
  <2>1. /\ q.kind = "slide" /\ server[b] # None
        /\ BoardAdmin!Store(b, [server[b] EXCEPT !.slides = {C(x) : x \in @}])
        /\ jobs' = jobs \ {w} /\ UNCHANGED <<list, sight, save, fields, draft, window>>
    BY <1>9 DEF BoardAdmin!SlideSet, BoardAdmin!Page
  <2>2. b \in Boards /\ q.on \in BOOLEAN \cup {None} /\ q.seconds \in BoardAdmin!Seconds
    BY <1>7, <2>1 DEF BoardAsk
  <2>3. server[b] \in BoardAdmin!Board /\ Shaped(server[b])
    BY <1>2, <2>1, <2>2
  <2>4. \A x \in server[b].slides : C(x) \in BoardAdmin!Slide /\ C(x).id = x.id /\ C(x).item = x.item /\ C(x).rank = x.rank
    <3>1. \A x \in server[b].slides : x \in BoardAdmin!Slide
      BY <2>3 DEF Shaped, Named
    <3> HIDE DEF q
    <3> QED BY <2>2, <3>1 DEF BoardAdmin!Slide
  <2>5. BoardAdmin!Store(b, new)
    <3>1. [server[b] EXCEPT !.slides = {C(x) : x \in @}] = [server[b] EXCEPT !.slides = {C(x) : x \in server[b].slides}]
      BY <2>3 DEF BoardAdmin!Board
    <3>2. {C(x) : x \in server[b].slides} = {f[x] : x \in server[b].slides}
      BY Zenon
    <3> HIDE DEF C, f
    <3> QED BY <2>1, <3>1, <3>2
  <2>6. DOMAIN f = server[b].slides /\ \A x \in server[b].slides : f[x] = C(x)
    OBVIOUS
  <2> HIDE DEF f, C
  <2>7. new \in BoardAdmin!Board /\ Shaped(new)
    BY <2>3, <2>4, <2>6, SetShaped
  <2> HIDE DEF new
  <2> QED BY <1>0, <1>8, <2>1, <2>2, <2>5, <2>7
<1>5. ASSUME NEW w \in jobs, BoardAdmin!Fails(w) PROVE BoardIInv'
  BY <1>0, <1>1, <1>5 DEF BoardAdmin!Fails, BoardAdmin!Page
<1>6. ASSUME NEW b \in Boards, BoardAdmin!Elsewhere(b) PROVE BoardIInv'
  <2>0. server[b] # None /\ UNCHANGED <<list, sight, save, fields, draft, window, jobs>>
    BY <1>6 DEF BoardAdmin!Elsewhere, BoardAdmin!Page
  <2>1. ASSUME NEW new \in BoardAdmin!Board, Shaped(new), BoardAdmin!Store(b, new) PROVE BoardIInv'
    BY <1>0, <1>8, <2>0, <2>1
  <2>2. ASSUME NEW t \in BoardNames, BoardAdmin!Store(b, [server[b] EXCEPT !.name = t]) PROVE BoardIInv'
    <3> DEFINE new == [server[b] EXCEPT !.name = t]
    <3>1. /\ new \in BoardAdmin!Board /\ new.slides = server[b].slides
          /\ new.last = server[b].last /\ new.mixed = server[b].mixed
      BY <1>2, <2>0 DEF BoardAdmin!Board
    <3> HIDE DEF new
    <3>2. Shaped(new)
      BY <1>2, <2>0, <3>1 DEF Shaped
    <3>3. BoardAdmin!Store(b, new)
      BY <2>2 DEF new
    <3> QED BY <2>1, <3>1, <3>2, <3>3
  <2>3. ASSUME server' = [server EXCEPT ![b] = None] PROVE BoardIInv'
    <3>1. Stock(server') /\ Tells(server', list)
      BY <1>0, <2>3 DEF Stock, Tells
    <3> QED BY <1>0, <1>1, <2>0, <3>1
  <2> DEFINE C(x) == [x EXCEPT !.seconds = IF @ = 60 THEN None ELSE 60]
             f == [x \in server[b].slides |-> C(x)]
             new == [server[b] EXCEPT !.slides = {f[x] : x \in server[b].slides}]
  <2>6. CASE BoardAdmin!Store(b, [server[b] EXCEPT !.slides = {C(x) : x \in @}])
    <3>1. server[b] \in BoardAdmin!Board /\ Shaped(server[b])
      BY <1>2, <2>0
    <3>2. \A x \in server[b].slides : C(x) \in BoardAdmin!Slide /\ C(x).id = x.id /\ C(x).item = x.item /\ C(x).rank = x.rank
      <4>1. \A x \in server[b].slides : x \in BoardAdmin!Slide
        BY <3>1 DEF Shaped, Named
      <4> QED BY <4>1 DEF BoardAdmin!Slide, BoardAdmin!Seconds
    <3>3. BoardAdmin!Store(b, new)
      <4>1. [server[b] EXCEPT !.slides = {C(x) : x \in @}] = [server[b] EXCEPT !.slides = {C(x) : x \in server[b].slides}]
        BY <3>1 DEF BoardAdmin!Board
      <4>2. {C(x) : x \in server[b].slides} = {f[x] : x \in server[b].slides}
        BY Zenon
      <4> HIDE DEF C, f
      <4> QED BY <2>6, <4>1, <4>2
    <3>4. DOMAIN f = server[b].slides /\ \A x \in server[b].slides : f[x] = C(x)
      OBVIOUS
    <3> HIDE DEF f, C
    <3>5. new \in BoardAdmin!Board /\ Shaped(new)
      BY <3>1, <3>2, <3>4, SetShaped
    <3> HIDE DEF new
    <3> QED BY <2>1, <3>3, <3>5
  <2> QED BY <1>6, <2>2, <2>3, <2>6 DEF BoardAdmin!Elsewhere
<1> QED BY <1>3, <1>4, <1>5, <1>6, <1>9

\* What the page is rendered again after.
LEMMA BoardRenders ==
  ASSUME BoardConstants, BoardIInv,
         \/ BoardAdmin!Fetch
         \/ \E w \in jobs : BoardAdmin!RemoveBoard(w)
         \/ \E b \in Boards : BoardAdmin!Select(b) \/ \E t \in BoardNames : BoardAdmin!Create(b, t)
  PROVE  BoardIInv'
<1>0. /\ Stock(server) /\ Stock(list) /\ Tells(server, list) /\ PageTyped /\ PageFits
      /\ Tells(list, list) /\ Tells(server, server) /\ sight \in Boards \cup {None}
  BY DEF BoardIInv, Tells, PageTyped
<1>1. CASE BoardAdmin!Fetch
  <2>1. list' = server /\ UNCHANGED <<server, sight, jobs>> /\ BoardAdmin!Render
    BY <1>1 DEF BoardAdmin!Fetch
  <2>2. PageTyped' /\ PageFits'
    BY <1>0, <2>1, RenderKeeps
  <2> QED BY <1>0, <2>1, <2>2 DEF BoardIInv, WorkFits
<1>2. ASSUME NEW w \in jobs, BoardAdmin!RemoveBoard(w) PROVE BoardIInv'
  <2>1. /\ server' = [server EXCEPT ![w.ask.board] = None] /\ jobs' = jobs \ {w}
        /\ sight' = None /\ UNCHANGED list /\ BoardAdmin!Render
    BY <1>2 DEF BoardAdmin!RemoveBoard
  <2>2. PageTyped' /\ PageFits'
    BY <1>0, <2>1, RenderKeeps
  <2>3. Stock(server') /\ Tells(server', list)
    BY <1>0, <2>1 DEF Stock, Tells
  <2>4. WorkFits'
    BY <2>1, LessWork
  <2> QED BY <1>0, <2>1, <2>2, <2>3, <2>4 DEF BoardIInv
<1>3. ASSUME NEW b \in Boards, BoardAdmin!Select(b) PROVE BoardIInv'
  <2>1. sight' = b /\ UNCHANGED <<server, list, jobs>> /\ BoardAdmin!Render
    BY <1>3 DEF BoardAdmin!Select
  <2>2. PageTyped' /\ PageFits'
    BY <1>0, <2>1, RenderKeeps
  <2> QED BY <1>0, <2>1, <2>2 DEF BoardIInv, WorkFits
<1>4. ASSUME NEW b \in Boards, NEW t \in BoardNames, BoardAdmin!Create(b, t) PROVE BoardIInv'
  <2> DEFINE new == [name |-> t, active |-> TRUE, slides |-> {}, last |-> 0, version |-> 0, mixed |-> {}]
  <2>1. /\ list[b] = None /\ server' = [server EXCEPT ![b] = new]
        /\ sight' = b /\ UNCHANGED <<list, jobs>> /\ BoardAdmin!Render
    BY <1>4 DEF BoardAdmin!Create
  <2>2. PageTyped' /\ PageFits'
    BY <1>0, <2>1, RenderKeeps
  <2>3. Tidy({})
    <3>1. TidyTo({}, 0)
      BY DEF TidyTo, Named
    <3> QED BY <3>1 DEF Tidy
  <2>6. new \in BoardAdmin!Board /\ new.slides = {}
    BY DEF BoardAdmin!Board
  <2> HIDE DEF new
  <2>4. new \in BoardAdmin!Board /\ Shaped(new)
    BY <2>3, <2>6, FS_EmptySet DEF Shaped, Named, Single
  <2>5. Stock(server') /\ Tells(server', list)
    BY <1>0, <2>1, <2>3, <2>4 DEF Stock, Tells
  <2> QED BY <1>0, <2>1, <2>2, <2>5 DEF BoardIInv, WorkFits
<1> QED BY <1>1, <1>2, <1>3, <1>4

LEMMA BoardStep == ASSUME BoardConstants, BoardIInv, [BoardAdmin!BoardNext]_(BoardAdmin!boardVars) PROVE BoardIInv'
<1>1. CASE UNCHANGED BoardAdmin!boardVars
  BY <1>1 DEF BoardAdmin!boardVars, BoardIInv, PageTyped, WorkFits, PageFits, BoardAdmin!Current, BoardAdmin!Shown
<1>2. CASE BoardAdmin!Fetch \/ \E w \in jobs : BoardAdmin!RemoveBoard(w)
  BY <1>2, BoardRenders
<1>3. CASE \/ \E w \in jobs : BoardAdmin!Update(w) \/ BoardAdmin!SlidesStored(w) \/ BoardAdmin!SlideSet(w) \/ BoardAdmin!Fails(w)
           \/ \E b \in Boards : BoardAdmin!Elsewhere(b)
  BY <1>3, BoardStores
<1>10. CASE \/ \E w \in jobs : BoardAdmin!Check(w) \/ BoardAdmin!ReadRanks(w)
            \/ \E b \in Boards : BoardAdmin!AskElsewhere(b)
  BY <1>10, BoardReads
<1>4. CASE BoardAdmin!SaveBoard \/ BoardAdmin!AskRemove
  BY <1>4, BoardAsks
<1>5. CASE \E b \in Boards, t \in BoardNames : BoardAdmin!Select(b) \/ BoardAdmin!TypeName(t) \/ BoardAdmin!Create(b, t)
  <2>1. PICK b \in Boards, t \in BoardNames : BoardAdmin!Select(b) \/ BoardAdmin!TypeName(t) \/ BoardAdmin!Create(b, t)
    BY <1>5
  <2>2. CASE BoardAdmin!TypeName(t)
    BY <2>2, BoardTypes
  <2>3. CASE BoardAdmin!Select(b) \/ BoardAdmin!Create(b, t)
    BY <2>3, BoardRenders
  <2> QED BY <2>1, <2>2, <2>3
<1>6. CASE \/ BoardAdmin!AskAdd
           \/ \E i \in DOMAIN BoardAdmin!IdsOf(BoardAdmin!Shown) : BoardAdmin!AskMove(i)
           \/ \E x \in BoardAdmin!Shown : BoardAdmin!AskDelete(x)
  BY <1>6, BoardAsks
<1>7. CASE \E i \in Items : BoardAdmin!Choose(i)
  BY <1>7, BoardTypes
<1>8. CASE BoardAdmin!ToggleActive \/ \E x \in BoardAdmin!Shown : BoardAdmin!AskToggle(x)
  BY <1>8, BoardAsks
<1>9. CASE \E x \in BoardAdmin!Shown : BoardAdmin!Blur(x)
             \/ \E t \in BoardAdmin!Seconds \cup {BoardAdmin!Low} : BoardAdmin!TypeSeconds(x, t)
  BY <1>9, BoardTypes
<1> QED BY <1>1, <1>2, <1>3, <1>4, <1>5, <1>6, <1>7, <1>8, <1>9, <1>10 DEF BoardAdmin!BoardNext

LEMMA BoardInitIInv == ASSUME BoardConstants, BoardAdmin!BoardInit PROVE BoardIInv
<1>0. PICK item \in Items : server = [b \in Boards |->
        IF part = "settings" \/ b = 1
        THEN [name |-> b, active |-> TRUE, version |-> 0, mixed |-> {},
              last |-> IF part = "seconds" THEN 1 ELSE 0, slides |->
              IF part # "seconds" THEN {}
              ELSE {[id |-> 1, item |-> item, rank |-> 0, on |-> TRUE, seconds |-> None]}]
        ELSE None]
  BY DEF BoardAdmin!BoardInit
<1> DEFINE slide == [id |-> 1, item |-> item, rank |-> 0, on |-> TRUE, seconds |-> None]
           slides == IF part # "seconds" THEN {} ELSE {slide}
           last == IF part = "seconds" THEN 1 ELSE 0
           board(b) == [name |-> b, active |-> TRUE, version |-> 0, mixed |-> {}, last |-> last, slides |-> slides]
<1>1. /\ server = [b \in Boards |-> IF part = "settings" \/ b = 1 THEN board(b) ELSE None]
      /\ list = server /\ sight = None /\ save = <<1, 0>>
      /\ fields = [name |-> 1, of |-> None]
      /\ draft = [text |-> [s \in SlideIds |-> None], typed |-> {}]
      /\ window = None /\ jobs = {}
  BY <1>0 DEF BoardAdmin!BoardInit
<1>2. Tidy(slides) /\ slides \in SUBSET BoardAdmin!Slide
  <2>1. slide \in BoardAdmin!Slide /\ slide.rank = 0
    BY DEF BoardConstants, BoardAdmin!Slide, BoardAdmin!Seconds
  <2> HIDE DEF slide
  <2>2. TidyTo({slide}, 1)
    BY <2>1 DEF TidyTo, Named
  <2>3. TidyTo({}, 0)
    BY DEF TidyTo, Named
  <2> QED BY <2>1, <2>2, <2>3 DEF Tidy
<1>12. /\ \A x \in slides : x.seconds = None /\ x.id <= last
       /\ Single(slides) /\ last \in SlideIds \cup {0}
  <2>1. slide.seconds = None /\ slide.id = 1
    OBVIOUS
  <2> HIDE DEF slide
  <2>2. CASE part = "seconds"
    BY <2>1, <2>2 DEF Single, BoardConstants
  <2>3. CASE part # "seconds"
    BY <2>3 DEF Single
  <2> QED BY <2>2, <2>3
<1>13. IsFiniteSet(slides)
  <2> HIDE DEF slide
  <2>1. IsFiniteSet({slide}) /\ IsFiniteSet({})
    BY FS_EmptySet, FS_Singleton
  <2> QED BY <2>1
<1>3. /\ \A x \in slides : x.seconds = None /\ x.id <= last
      /\ IsFiniteSet(slides) /\ Single(slides) /\ last \in SlideIds \cup {0}
  BY <1>12, <1>13
<1>11. Named(slides)
  BY <1>2 DEF Tidy, TidyTo
<1> HIDE DEF slides, last
<1>4. \A b \in Boards : /\ board(b) \in BoardAdmin!Board /\ board(b).slides = slides /\ board(b).last = last
                         /\ board(b).name = b /\ board(b).version = 0
  BY <1>2, <1>3 DEF BoardConstants, BoardAdmin!Board
<1> HIDE DEF board
<1>5. Stock(server)
  <2>1. \A b \in Boards : Shaped(board(b))
    BY <1>2, <1>3, <1>4, <1>11 DEF Shaped
  <2> QED BY <1>1, <1>4, <2>1 DEF Stock
<1>6. BoardAdmin!Current = 1
  <2>0. 1 \in Boards /\ list[1] = board(1) /\ list[1] # None
        /\ \A b \in Boards : list[b] # None => list[b] = board(b)
    BY <1>1, <1>4 DEF BoardConstants
  <2> DEFINE there == {b \in Boards : list[b] # None}
             Opening(b) == \A x \in there \ {b} : list[b].name < list[x].name \/ (list[b].name = list[x].name /\ b < x)
  <2>1. sight \notin there /\ there # {}
    BY <1>1, <2>0 DEF BoardConstants
  <2>2. BoardAdmin!Current = CHOOSE b \in there : Opening(b)
    BY <2>1 DEF BoardAdmin!Current, BoardAdmin!Active
  <2>3. \A b \in there : list[b].name = b /\ b \in Nat /\ 1 <= b
    BY <1>4, <2>0 DEF BoardConstants
  <2>4. 1 \in there
    BY <2>0
  <2>5. Opening(1)
    BY <2>3, <2>4
  <2>6. \A b \in there : Opening(b) => b = 1
    <3> SUFFICES ASSUME NEW b \in there, Opening(b), b # 1 PROVE FALSE
      OBVIOUS
    <3>1. list[b].name < list[1].name \/ (list[b].name = list[1].name /\ b < 1)
      BY <2>4
    <3> QED BY <2>3, <2>4, <3>1
  <2> HIDE DEF Opening, there
  <2> QED BY <2>2, <2>4, <2>5, <2>6
<1>7. list[1] = board(1) /\ 1 \in Boards /\ 1 \in Nat
  BY <1>1 DEF BoardConstants
<1>8. PageFits
  <2>1. save = BoardAdmin!SyncKey(list, sight)
    BY <1>1, <1>4, <1>6, <1>7 DEF BoardAdmin!SyncKey, BoardAdmin!Current, BoardConstants
  <2>2. BoardAdmin!Shown = slides
    BY <1>4, <1>6, <1>7 DEF BoardAdmin!Shown, BoardConstants
  <2>3. \A x \in slides : x.id \in SlideIds
    BY <1>2 DEF BoardAdmin!Slide
  <2> QED BY <1>1, <1>3, <1>4, <1>6, <1>7, <2>1, <2>2, <2>3 DEF PageFits
<1>9. PageTyped /\ WorkFits
  <2>1. [s \in SlideIds |-> None] \in [SlideIds -> BoardAdmin!Seconds \cup {BoardAdmin!Low}]
    BY DEF BoardAdmin!Seconds
  <2>2. 1 \in BoardNames
    BY <1>7 DEF BoardConstants
  <2> QED BY <1>1, <2>1, <2>2, FS_EmptySet DEF PageTyped, WorkFits
<1>10. Tells(server, list)
  BY <1>1 DEF Tells
<1> QED BY <1>1, <1>5, <1>8, <1>9, <1>10 DEF BoardIInv

LEMMA BoardsFollow == ASSUME BoardConstants, BoardIInv PROVE BoardAdmin!BoardsAsEdited
<1>1. ASSUME NEW b \in Boards, server[b] # None
      PROVE  LET slides == server[b].slides IN
             /\ "ranks" \notin server[b].mixed => {x.rank : x \in slides} = 0..(BoardAdmin!Cardinality(slides) - 1)
             /\ "items" \notin server[b].mixed => \A x, y \in slides : x.item = y.item => x = y
  <2>1. Shaped(server[b])
    BY <1>1 DEF BoardIInv, Stock
  <2>2. ASSUME "ranks" \notin server[b].mixed
        PROVE  {x.rank : x \in server[b].slides} = 0..(BoardAdmin!Cardinality(server[b].slides) - 1)
    <3>1. PICK n \in Nat : TidyTo(server[b].slides, n)
      BY <2>1, <2>2 DEF Shaped, Tidy
    <3>2. BoardAdmin!Cardinality(server[b].slides) = n
      BY <3>1, TidyCounted, SameWords
    <3> QED BY <3>1, <3>2 DEF TidyTo
  <2> QED BY <2>1, <2>2 DEF Shaped, Single
<1> QED BY <1>1 DEF BoardIInv, WorkFits, AskFits, PageFits, BoardAdmin!BoardsAsEdited

\* Of the display boards, whoever edits them: slides without gaps and without a page
\* twice as long as no write overtakes what another was decided on, and without gaps
\* again once a reorder or a deletion is alone; settings for the board they were typed
\* for, and fields that follow the list.
THEOREM BoardsHold == ASSUME BoardConstants PROVE BoardAdmin!BoardSpec => []BoardAdmin!BoardsAsEdited
<1>1. BoardIInv => BoardAdmin!BoardsAsEdited
  BY BoardsFollow
<1>2. BoardIInv /\ [BoardAdmin!BoardNext]_(BoardAdmin!boardVars) => BoardIInv'
  BY BoardStep
<1> QED BY <1>1, <1>2, BoardInitIInv, PTL DEF BoardAdmin!BoardSpec

-----------------------------------------------------------------------------
(* Reports.                                                                *)

ReportConstants ==
  /\ IsFiniteSet(Published) /\ ReportIds \in [Published -> Nat]
  /\ \A r, q \in Published : ReportIds[r] = ReportIds[q] => r = q
  /\ ParentOf \in [Shelves -> Shelves \cup {None}] /\ \E f \in Shelves : ParentOf[f] = None
  /\ None \notin ReportAdmin!Report \cup Shelves \cup Texts \cup {FileName}

Edited == {"name", "author", "folder"}
ValuesOf(f) == IF f = "name" THEN Texts \cup {FileName} ELSE IF f = "author" THEN Texts \cup {None} ELSE Shelves

Draft == [name : Texts \cup {FileName, None}, author : Texts \cup {None}, folder : Shelves \cup {None}, rank : Nat]
ReportDialog ==
  [of : Published, mode : {"edit", "move"}, was : ReportAdmin!Report, now : Draft, typed : SUBSET Edited]
OrderWork == [kind : {"order"}, todo : SUBSET (Published \X Nat), failed : BOOLEAN]

\* A save asks for nothing that was not typed.
ReportWork(w) ==
  \/ w \in OrderWork
  \/ /\ w.kind = "save" /\ w.id \in Published /\ w.typed \in SUBSET Edited
     /\ DOMAIN w.patch \in SUBSET w.typed
     /\ \A f \in DOMAIN w.patch : w.patch[f] \in ValuesOf(f)
  \/ w.kind = "import" /\ w.folder \in Shelves

ReportTable == [Published -> ReportAdmin!Report \cup {None}]

ReportsTyped ==
  /\ server \in ReportTable /\ sight \in SUBSET Shelves
  /\ list \in [reports : ReportTable, folders : SUBSET Shelves]
  /\ \A w \in jobs : ReportWork(w)
  /\ save \in {None} \cup [folder : Shelves, order : {save.order}, alone : BOOLEAN]
  /\ part = "order" => draft = {}
  /\ part # "order" => save = None

\* What differs from what the dialog was opened with was typed.
FormTyped ==
  fields # None => /\ fields \in ReportDialog
                   /\ \A f \in ReportAdmin!Fields(fields.mode) : fields.now[f] # fields.was[f] => f \in fields.typed

\* What others changed is there.
TheirsKept ==
  \A x \in draft : /\ x[1] \in Published /\ x[2] \in Edited
                   /\ server[x[1]] # None /\ server[x[1]][x[2]] = x[3]

\* Who has not got the place in the order that was asked for is still to get it,
\* and nobody is to get another one.
PlacesAsked(o, n) ==
  /\ \A k \in 1..n : \/ server[o[k]].rank = k - 1
                     \/ \E w \in jobs : w.kind = "order" /\ <<o[k], k - 1>> \in w.todo
  /\ \A w \in jobs : w.kind = "order" => \A x \in w.todo : \E k \in 1..n : x = <<o[k], k - 1>>

OrderKept ==
  save # None /\ save.alone =>
    LET there == ReportAdmin!Neighbours(server, save.folder)
        n == Cardinality(there)
    IN /\ save.order \in [1..n -> there] /\ {save.order[i] : i \in 1..n} = there
       /\ \A i, j \in 1..n : save.order[i] = save.order[j] => i = j
       /\ PlacesAsked(save.order, n)

ReportIInv == ReportsTyped /\ FormTyped /\ TheirsKept /\ OrderKept

\* Neighbours are put in order by rank, those of one rank by id.
LEMMA NeighboursInOrder ==
  ASSUME ReportConstants, NEW s \in ReportTable, NEW f
  PROVE  LET there == ReportAdmin!Neighbours(s, f)
             before == {e \in there \X there : ReportAdmin!Before(s, e[1], e[2])}
             order == ReportAdmin!Order(s, f)
             n == Cardinality(there)
         IN /\ there \in SUBSET Published /\ IsFiniteSet(there) /\ n \in Nat
            /\ Orders(before, there) /\ Sorted(there, before, order)
            /\ \A i, j \in 1..n : order[i] = order[j] => i = j
<1> DEFINE there == ReportAdmin!Neighbours(s, f)
           before == {e \in there \X there : ReportAdmin!Before(s, e[1], e[2])}
           order == ReportAdmin!Order(s, f)
<1>1. there \in SUBSET Published /\ \A r \in there : s[r] \in ReportAdmin!Report
  BY DEF ReportAdmin!Neighbours, ReportTable
<1>2. IsFiniteSet(there) /\ Cardinality(there) \in Nat
  BY <1>1, FS_Subset, FS_CardinalityType DEF ReportConstants
<1> HIDE DEF there
<1>3. \A x, y \in there : <<x, y>> \in before <=>
        s[x].rank < s[y].rank \/ (s[x].rank = s[y].rank /\ ReportIds[x] < ReportIds[y])
  BY DEF ReportAdmin!Before
<1>4. \A x \in there : s[x].rank \in Nat /\ ReportIds[x] \in Nat
  BY <1>1 DEF ReportConstants, ReportAdmin!Report
<1>5. \A x, y \in there : x # y => ReportIds[x] # ReportIds[y]
  BY <1>1 DEF ReportConstants
<1> HIDE DEF before
<1>6. Orders(before, there)
  BY <1>3, <1>4, <1>5 DEF Orders
<1>7. order = InOrder(there, before)
  <2>1. order = ReportAdmin!InOrder(there, before)
    BY DEF ReportAdmin!Order, there, before
  <2>2. \A S : ReportAdmin!Cardinality(S) = Cardinality(S)
    BY DEF ReportAdmin!Cardinality, Cardinality
  <2> QED BY <2>1, <2>2 DEF ReportAdmin!InOrder, InOrder
<1> QED BY <1>1, <1>2, <1>6, <1>7, InOrderSorts DEF there, before

LEMMA ReportInitIInv == ASSUME ReportConstants, ReportAdmin!AdminInit PROVE ReportIInv
<1>1. PICK place \in [Published -> Shelves \cup {None}] :
        server = [r \in Published |->
            IF part \in {"fields", "places"} /\ ReportIds[r] # 1 THEN None ELSE ReportAdmin!Made(place[r])]
  BY DEF ReportAdmin!AdminInit
<1>2. \A r \in Published : ReportAdmin!Made(place[r]) \in ReportAdmin!Report
  BY DEF ReportAdmin!Made, ReportAdmin!Report
<1>3. server \in ReportTable
  BY <1>1, <1>2 DEF ReportTable
<1>4. list = [reports |-> server, folders |-> sight] /\ sight = Shelves
      /\ fields = None /\ jobs = {} /\ save = None /\ draft = {}
  BY DEF ReportAdmin!AdminInit
<1> QED BY <1>3, <1>4 DEF ReportIInv, ReportsTyped, FormTyped, TheirsKept, OrderKept

\* The order that is stored when everybody has the place that was asked for.
LEMMA OrderIsStored ==
  ASSUME ReportConstants, ReportIInv, save # None, save.alone, ~ReportAdmin!Ordering
  PROVE  ReportAdmin!Order(server, save.folder) = save.order
<1> DEFINE there == ReportAdmin!Neighbours(server, save.folder)
           before == {e \in there \X there : ReportAdmin!Before(server, e[1], e[2])}
           order == ReportAdmin!Order(server, save.folder)
           n == Cardinality(there)
           o == save.order
<1>0. server \in ReportTable
  BY DEF ReportIInv, ReportsTyped
<1>1. /\ there \in SUBSET Published /\ IsFiniteSet(there) /\ n \in Nat
      /\ Orders(before, there) /\ Sorted(there, before, order)
  BY <1>0, NeighboursInOrder
<1>2. /\ o \in [1..n -> there] /\ {o[i] : i \in 1..n} = there
      /\ \A k \in 1..n : server[o[k]].rank = k - 1
  BY DEF ReportIInv, OrderKept, PlacesAsked, ReportAdmin!Ordering
<1> HIDE DEF there, order, n, o
<1>3. \A i, j \in 1..n : i < j => <<o[i], o[j]>> \in before
  BY <1>2 DEF ReportAdmin!Before
<1>4. Sorted(there, before, o)
  BY <1>2, <1>3 DEF Sorted, n
<1> HIDE DEF before
<1>5. order = o
  BY <1>1, <1>4, SortedOnce
<1> QED BY <1>5 DEF order, o

-----------------------------------------------------------------------------
\* Whatever leaves the reports at the server alone, adds no order and takes no
\* request of one away.
LEMMA ReportFrame ==
  ASSUME ReportIInv, UNCHANGED <<part, server, save, draft>>,
         sight' \in SUBSET Shelves, list' \in [reports : ReportTable, folders : SUBSET Shelves],
         FormTyped', \A w \in jobs' : w \in jobs \/ (ReportWork(w) /\ w.kind # "order"),
         \A w \in jobs : w.kind = "order" => w \in jobs'
  PROVE  ReportIInv'
<1>1. ReportsTyped'
  BY DEF ReportIInv, ReportsTyped
<1>2. TheirsKept'
  BY DEF ReportIInv, TheirsKept
<1>3. OrderKept'
  <2> SUFFICES ASSUME save # None, save.alone, NEW n, n = Cardinality(ReportAdmin!Neighbours(server, save.folder)),
                      PlacesAsked(save.order, n)
               PROVE  PlacesAsked(save.order, n)'
    BY DEF ReportIInv, OrderKept, ReportAdmin!Neighbours
  <2> QED BY DEF PlacesAsked
<1> QED BY <1>1, <1>2, <1>3 DEF ReportIInv

\* An order is asked for.
LEMMA SwapKeeps ==
  ASSUME ReportConstants, ReportIInv, part = "order", NEW f \in Shelves, NEW i \in Nat, ReportAdmin!Swap(f, i)
  PROVE  ReportIInv'
<1> DEFINE order == ReportAdmin!Order(list.reports, f)
           next == [order EXCEPT ![i] = order[i + 1], ![i + 1] = order[i]]
           there == ReportAdmin!Neighbours(list.reports, f)
           n == Cardinality(there)
           w == [kind |-> "order", todo |-> ReportAdmin!Ranks(list.reports, next, i), failed |-> FALSE]
<1>0. list.reports \in ReportTable
  BY DEF ReportIInv, ReportsTyped
<1>1. /\ there \in SUBSET Published /\ n \in Nat /\ order \in [1..n -> there] /\ {order[k] : k \in 1..n} = there
      /\ \A k, j \in 1..n : order[k] = order[j] => k = j
  BY <1>0, NeighboursInOrder DEF Sorted
<1>2. /\ i \in 1..(Len(order) - 1) /\ jobs' = jobs \cup {w}
      /\ save' = [folder |-> f, order |-> next, alone |-> ~ReportAdmin!Ordering /\ list.reports = server]
      /\ UNCHANGED <<part, server, sight, list, fields, draft, window>>
  BY DEF ReportAdmin!Swap
<1>3. \A r \in there : list.reports[r] \in ReportAdmin!Report
  BY <1>0 DEF ReportAdmin!Neighbours, ReportTable
<1> HIDE DEF order, there, n
<1>4. i \in 1..n /\ i + 1 \in 1..n
  <2>1. Len(order) = n
    BY <1>1
  <2> QED BY <1>1, <1>2, <2>1
<1>5. /\ next \in [1..n -> there] /\ {next[k] : k \in 1..n} = there
      /\ \A k, j \in 1..n : next[k] = next[j] => k = j
  <2>1. next \in [1..n -> there]
    BY <1>1, <1>4
  <2>2. /\ next[i] = order[i + 1] /\ next[i + 1] = order[i]
        /\ \A k \in 1..n : k # i /\ k # i + 1 => next[k] = order[k]
    BY <1>1, <1>4
  <2> HIDE DEF next
  <2>3. \A r \in there : \E k \in 1..n : next[k] = r
    <3> SUFFICES ASSUME NEW r \in there PROVE \E k \in 1..n : next[k] = r
      OBVIOUS
    <3>1. r \in {order[k] : k \in 1..n}
      BY <1>1
    <3>2. PICK k \in 1..n : order[k] = r
      BY <3>1
    <3> QED BY <1>4, <2>2, <3>2
  <2>4. \A k, j \in 1..n : next[k] = next[j] => k = j
    BY <1>1, <1>4, <2>2
  <2> QED BY <2>1, <2>3, <2>4
<1> HIDE DEF next
<1>6. ReportAdmin!Ranks(list.reports, next, i) =
        {<<next[k], k - 1>> : k \in {k \in 1..n : list.reports[next[k]].rank # k - 1}}
  BY <1>5 DEF ReportAdmin!Ranks
<1>7. \A k \in 1..n : k - 1 \in Nat /\ next[k] \in Published
  BY <1>1, <1>5
<1>8. w \in OrderWork /\ w.kind = "order" /\ w.todo = ReportAdmin!Ranks(list.reports, next, i)
  BY <1>6, <1>7 DEF OrderWork
<1> HIDE DEF w
<1>9. ReportsTyped'
  BY <1>2, <1>8 DEF ReportIInv, ReportsTyped, ReportWork
<1>10. OrderKept'
  <2> SUFFICES ASSUME ~ReportAdmin!Ordering, list.reports = server PROVE OrderKept'
    BY <1>2 DEF OrderKept
  <2>1. save'.order = next /\ ReportAdmin!Neighbours(server', save'.folder) = there
    BY <1>2 DEF there
  <2>2. /\ \A k \in 1..n : \/ server'[next[k]].rank = k - 1
                           \/ \E x \in jobs' : x.kind = "order" /\ <<next[k], k - 1>> \in x.todo
        /\ \A x \in jobs' : x.kind = "order" => \A y \in x.todo : \E k \in 1..n : y = <<next[k], k - 1>>
    <3>1. \A k \in 1..n : server'[next[k]].rank = k - 1 \/ <<next[k], k - 1>> \in w.todo
      BY <1>2, <1>6, <1>8
    <3>2. \A x \in jobs' : x.kind = "order" => x = w
      BY <1>2 DEF ReportAdmin!Ordering
    <3>3. \A x \in w.todo : \E k \in 1..n : x = <<next[k], k - 1>>
      BY <1>6, <1>8
    <3> QED BY <1>2, <1>8, <3>1, <3>2, <3>3
  <2>3. Cardinality(ReportAdmin!Neighbours(server', save'.folder)) = n
    BY <2>1 DEF n
  <2> QED BY <1>5, <2>1, <2>2, <2>3 DEF OrderKept, PlacesAsked
<1> QED BY <1>2, <1>9, <1>10 DEF ReportIInv, FormTyped, TheirsKept

\* One of its requests is carried out.
LEMMA RankedKeeps ==
  ASSUME ReportConstants, ReportIInv, part = "order",
         NEW w \in jobs, w.kind = "order", NEW x \in w.todo, ReportAdmin!Ranked(w, x)
  PROVE  ReportIInv'
<1> DEFINE ww == [w EXCEPT !.todo = @ \ {x}]
           r == x[1]
<1>1. w \in OrderWork
  BY DEF ReportIInv, ReportsTyped, ReportWork
<1>2. x = <<r, x[2]>> /\ r \in Published /\ x[2] \in Nat
  BY <1>1 DEF OrderWork
<1>3. /\ server[r] # None /\ server' = [server EXCEPT ![r].rank = x[2]]
      /\ jobs' = (jobs \ {w}) \cup (IF w.todo = {x} THEN {} ELSE {ww})
      /\ sight' = sight /\ (list' = list \/ list' = [reports |-> server', folders |-> sight'])
      /\ UNCHANGED <<part, fields, save, draft, window>>
  BY DEF ReportAdmin!Ranked, ReportAdmin!Fetched
<1>4. ww \in OrderWork /\ ww.kind = "order" /\ ww.todo = w.todo \ {x}
  BY <1>1 DEF OrderWork
<1> HIDE DEF ww, r
<1>5. server \in ReportTable
  BY DEF ReportIInv, ReportsTyped
<1>6. server[r] \in ReportAdmin!Report
  BY <1>2, <1>3, <1>5 DEF ReportTable
<1>7. /\ server' \in ReportTable /\ server'[r] \in ReportAdmin!Report /\ server'[r].rank = x[2]
      /\ server'[r].folder = server[r].folder
      /\ \A q \in Published : q # r => server'[q] = server[q]
  BY <1>2, <1>3, <1>5, <1>6 DEF ReportTable, ReportAdmin!Report
<1>8. ReportsTyped'
  <2>1. sight \in SUBSET Shelves /\ list \in [reports : ReportTable, folders : SUBSET Shelves]
    BY DEF ReportIInv, ReportsTyped
  <2>2. list' \in [reports : ReportTable, folders : SUBSET Shelves]
    <3>1. CASE list' = list
      BY <2>1, <3>1
    <3>2. CASE list' = [reports |-> server', folders |-> sight']
      <4>1. sight' \in SUBSET Shelves /\ server' \in ReportTable
        BY <1>3, <1>7, <2>1
      <4> QED BY <3>2, <4>1
    <3> QED BY <1>3, <3>1, <3>2
  <2>3. \A u \in jobs' : ReportWork(u)
    <3> SUFFICES ASSUME NEW u \in jobs' PROVE u \in jobs \/ u = ww
      BY <1>4 DEF ReportIInv, ReportsTyped, ReportWork
    <3> QED BY <1>3
  <2> QED BY <1>3, <1>7, <2>1, <2>2, <2>3 DEF ReportIInv, ReportsTyped
<1>9. FormTyped' /\ TheirsKept'
  BY <1>3 DEF ReportIInv, ReportsTyped, FormTyped, TheirsKept
<1>10. OrderKept'
  <2> SUFFICES ASSUME save # None, save.alone PROVE OrderKept'
    BY <1>3 DEF OrderKept
  <2> DEFINE there == ReportAdmin!Neighbours(server, save.folder)
             n == Cardinality(there)
             o == save.order
  <2>1. ReportAdmin!Neighbours(server', save'.folder) = there
    BY <1>2, <1>3, <1>6, <1>7 DEF ReportAdmin!Neighbours, ReportConstants
  <2>2. there \in SUBSET Published
    BY DEF ReportAdmin!Neighbours
  <2> HIDE DEF there
  <2>3. /\ o \in [1..n -> there] /\ {o[i] : i \in 1..n} = there
        /\ \A i, j \in 1..n : o[i] = o[j] => i = j
        /\ PlacesAsked(o, n)
    BY DEF ReportIInv, OrderKept, there
  <2> HIDE DEF n, o
  <2>4. PICK j \in 1..n : x = <<o[j], j - 1>>
    BY <2>3 DEF PlacesAsked
  <2>5. o[j] = r /\ x[2] = j - 1
    BY <2>4 DEF r
  <2>6. \A k \in 1..n : \/ server'[o[k]].rank = k - 1
                        \/ \E u \in jobs' : u.kind = "order" /\ <<o[k], k - 1>> \in u.todo
    <3> SUFFICES ASSUME NEW k \in 1..n
                 PROVE  \/ server'[o[k]].rank = k - 1
                        \/ \E u \in jobs' : u.kind = "order" /\ <<o[k], k - 1>> \in u.todo
      OBVIOUS
    <3>1. CASE k = j
      BY <1>7, <2>5, <3>1
    <3>2. CASE k # j
      <4>1. o[k] # r /\ o[k] \in Published
        BY <2>2, <2>3, <2>5, <3>2
      <4>2. CASE server[o[k]].rank = k - 1
        BY <1>7, <4>1, <4>2
      <4>3. CASE \E u \in jobs : u.kind = "order" /\ <<o[k], k - 1>> \in u.todo
        <5>1. PICK u \in jobs : u.kind = "order" /\ <<o[k], k - 1>> \in u.todo
          BY <4>3
        <5>2. CASE u # w
          BY <1>3, <5>1, <5>2
        <5>3. CASE u = w
          <6>1. <<o[k], k - 1>> # x
            BY <2>4, <2>5, <4>1
          <6> QED BY <1>3, <1>4, <5>1, <5>3, <6>1
        <5> QED BY <5>2, <5>3
      <4> QED BY <2>3, <4>2, <4>3 DEF PlacesAsked
    <3> QED BY <3>1, <3>2
  <2>7. \A u \in jobs' : u.kind = "order" => \A y \in u.todo : \E k \in 1..n : y = <<o[k], k - 1>>
    BY <1>3, <1>4, <2>3 DEF PlacesAsked
  <2>8. Cardinality(ReportAdmin!Neighbours(server', save'.folder)) = n /\ save'.order = o
    BY <1>3, <2>1 DEF n, o
  <2> QED BY <2>1, <2>3, <2>6, <2>7, <2>8 DEF OrderKept, PlacesAsked
<1> QED BY <1>8, <1>9, <1>10 DEF ReportIInv

\* An order that met others is not spoken of.
LEMMA NotAloneKeeps ==
  ASSUME ReportIInv, ReportAdmin!NotAlone
  PROVE  OrderKept' /\ save' \in {None} \cup [folder : Shelves, order : {save'.order}, alone : BOOLEAN]
         /\ (save = None => save' = None)
<1>1. save \in {None} \cup [folder : Shelves, order : {save.order}, alone : BOOLEAN]
  BY DEF ReportIInv, ReportsTyped
<1>2. CASE save = None
  BY <1>2 DEF ReportAdmin!NotAlone, OrderKept
<1>3. CASE save # None
  <2>1. save' = [save EXCEPT !.alone = FALSE]
    BY <1>3 DEF ReportAdmin!NotAlone
  <2>2. save'.alone = FALSE /\ save' \in [folder : Shelves, order : {save'.order}, alone : BOOLEAN]
    BY <1>1, <1>3, <2>1
  <2> QED BY <1>3, <2>2 DEF OrderKept
<1> QED BY <1>2, <1>3

LEMMA RankFailsKeeps ==
  ASSUME ReportConstants, ReportIInv, part = "order",
         NEW w \in jobs, w.kind = "order", NEW x \in w.todo, ReportAdmin!RankFails(w, x)
  PROVE  ReportIInv'
<1> DEFINE ww == [w EXCEPT !.todo = @ \ {x}, !.failed = TRUE]
<1>1. w \in OrderWork
  BY DEF ReportIInv, ReportsTyped, ReportWork
<1>2. ww \in OrderWork
  BY <1>1 DEF OrderWork
<1>3. /\ jobs' = (jobs \ {w}) \cup (IF w.todo = {x} THEN {} ELSE {ww})
      /\ UNCHANGED <<part, server, sight, list, fields, draft, window>> /\ ReportAdmin!NotAlone
  BY DEF ReportAdmin!RankFails
<1> HIDE DEF ww
<1>4. ReportsTyped'
  BY <1>2, <1>3, NotAloneKeeps DEF ReportIInv, ReportsTyped, ReportWork
<1> QED BY <1>3, <1>4, NotAloneKeeps DEF ReportIInv, FormTyped, TheirsKept

-----------------------------------------------------------------------------
\* Steps on one report by somebody else than who asks for an order.
LEMMA ReportChanges ==
  ASSUME ReportConstants, ReportIInv, part # "order", part' = part, ReportAdmin!NotAlone,
         sight' \in SUBSET Shelves, list' \in [reports : ReportTable, folders : SUBSET Shelves],
         server' \in ReportTable, FormTyped', TheirsKept', jobs' \in SUBSET jobs
  PROVE  ReportIInv'
<1>1. save' = None
  BY NotAloneKeeps DEF ReportIInv, ReportsTyped
<1> QED BY <1>1 DEF ReportIInv, ReportsTyped, OrderKept

\* What the server makes of a patch.
LEMMA PatchTyped ==
  ASSUME ReportConstants, NEW s \in ReportAdmin!Report, NEW patch, DOMAIN patch \in SUBSET Edited,
         \A f \in DOMAIN patch : patch[f] \in ValuesOf(f)
  PROVE  /\ ReportAdmin!Updated(s, patch) \in ReportAdmin!Report
         /\ \A f \in Edited \ DOMAIN patch : ReportAdmin!Updated(s, patch)[f] = s[f]
<1> DEFINE t == ReportAdmin!Updated(s, patch)
           V(f) == IF f \in DOMAIN patch /\ (f = "author" => patch[f] # None) THEN patch[f] ELSE s[f]
<1>1. DOMAIN s = {"name", "author", "folder", "rank"}
  BY DEF ReportAdmin!Report
<1>2. t = [f \in DOMAIN s |-> V(f)]
  BY DEF ReportAdmin!Updated
<1>3. /\ V("name") \in Texts \cup {FileName} /\ V("author") \in Texts \cup {None}
      /\ V("folder") \in Shelves \cup {None} /\ V("rank") \in Nat
  BY DEF ReportAdmin!Report, ValuesOf, Edited
<1>4. t = [name |-> V("name"), author |-> V("author"), folder |-> V("folder"), rank |-> V("rank")]
  <2> HIDE DEF V
  <2> QED BY <1>1, <1>2
<1>5. t \in ReportAdmin!Report
  <2> HIDE DEF t, V
  <2> QED BY <1>3, <1>4 DEF ReportAdmin!Report
<1>6. \A f \in Edited \ DOMAIN patch : t[f] = s[f]
  BY <1>1, <1>2 DEF Edited
<1> QED BY <1>5, <1>6

LEMMA SavedKeeps ==
  ASSUME ReportConstants, ReportIInv, part # "order", NEW w \in jobs, ReportAdmin!Saved(w)
  PROVE  ReportIInv'
<1>1. /\ w.kind = "save" /\ server[w.id] # None
      /\ server' = [server EXCEPT ![w.id] = ReportAdmin!Updated(server[w.id], w.patch)]
      /\ draft' = {x \in draft : x[1] # w.id \/ x[2] \notin w.typed}
      /\ jobs' = jobs \ {w} /\ fields' = None /\ sight' = sight
      /\ list' = [reports |-> server', folders |-> sight'] /\ ReportAdmin!NotAlone /\ part' = part
  BY DEF ReportAdmin!Saved, ReportAdmin!Accepted, ReportAdmin!Fetched
<1>2. /\ w.id \in Published /\ w.typed \in SUBSET Edited /\ DOMAIN w.patch \in SUBSET w.typed
      /\ \A f \in DOMAIN w.patch : w.patch[f] \in ValuesOf(f)
  BY <1>1 DEF ReportIInv, ReportsTyped, ReportWork, OrderWork
<1>3. server \in ReportTable /\ sight \in SUBSET Shelves
  BY DEF ReportIInv, ReportsTyped
<1>4. server[w.id] \in ReportAdmin!Report
  BY <1>1, <1>2, <1>3 DEF ReportTable
<1> DEFINE new == ReportAdmin!Updated(server[w.id], w.patch)
<1>5. new \in ReportAdmin!Report /\ \A f \in Edited \ w.typed : new[f] = server[w.id][f]
  BY <1>2, <1>4, PatchTyped
<1> HIDE DEF new
<1>6. server' \in ReportTable /\ server'[w.id] = new /\ \A q \in Published : q # w.id => server'[q] = server[q]
  BY <1>1, <1>2, <1>3, <1>5 DEF ReportTable, new
<1>7. TheirsKept'
  BY <1>1, <1>2, <1>5, <1>6 DEF ReportIInv, TheirsKept, ReportConstants
<1>8. list' \in [reports : ReportTable, folders : SUBSET Shelves]
  BY <1>1, <1>3, <1>6
<1> QED BY <1>1, <1>3, <1>6, <1>7, <1>8, ReportChanges DEF FormTyped

\* Reports that come and go, or are changed by others.
LEMMA ReportsChange ==
  ASSUME ReportConstants, ReportIInv, part # "order", NEW r \in Published,
         \/ \E w \in jobs : ReportAdmin!Imported(w, r)
         \/ ReportAdmin!Delete(r)
         \/ \E t \in Texts : ReportAdmin!Elsewhere(r, "name", t) \/ ReportAdmin!Elsewhere(r, "author", t)
         \/ \E f \in Shelves : ReportAdmin!Elsewhere(r, "folder", f)
  PROVE  ReportIInv'
<1>0. /\ server \in ReportTable /\ sight \in SUBSET Shelves
      /\ list \in [reports : ReportTable, folders : SUBSET Shelves]
  BY DEF ReportIInv, ReportsTyped
<1>1. ASSUME NEW w \in jobs, ReportAdmin!Imported(w, r) PROVE ReportIInv'
  <2>1. /\ server[r] = None /\ w.folder \in sight
        /\ server' = [server EXCEPT ![r] = ReportAdmin!Made(w.folder)]
        /\ jobs' = jobs \ {w} /\ ReportAdmin!NotAlone /\ UNCHANGED <<part, sight, list, fields, draft>>
    BY <1>1 DEF ReportAdmin!Imported
  <2>2. ReportAdmin!Made(w.folder) \in ReportAdmin!Report
    BY <1>0, <2>1 DEF ReportAdmin!Made, ReportAdmin!Report
  <2>3. server' \in ReportTable /\ \A q \in Published : q # r => server'[q] = server[q]
    BY <1>0, <2>1, <2>2 DEF ReportTable
  <2>4. TheirsKept'
    BY <2>1, <2>3 DEF ReportIInv, TheirsKept
  <2> QED BY <1>0, <2>1, <2>3, <2>4, ReportChanges DEF ReportIInv, FormTyped
<1>2. CASE ReportAdmin!Delete(r)
  <2>1. /\ server' = [server EXCEPT ![r] = None] /\ draft' = {x \in draft : x[1] # r}
        /\ sight' = sight /\ list' = [reports |-> server', folders |-> sight'] /\ ReportAdmin!NotAlone
        /\ UNCHANGED <<part, fields, jobs>>
    BY <1>2 DEF ReportAdmin!Delete, ReportAdmin!Fetched
  <2>2. server' \in ReportTable /\ \A q \in Published : q # r => server'[q] = server[q]
    BY <1>0, <2>1 DEF ReportTable
  <2>3. TheirsKept'
    BY <2>1, <2>2 DEF ReportIInv, TheirsKept
  <2>4. list' \in [reports : ReportTable, folders : SUBSET Shelves]
    BY <1>0, <2>1, <2>2
  <2> QED BY <1>0, <2>1, <2>2, <2>3, <2>4, ReportChanges DEF ReportIInv, FormTyped
<1>3. ASSUME NEW field \in Edited, NEW value \in ValuesOf(field), ReportAdmin!Elsewhere(r, field, value)
      PROVE  ReportIInv'
  <2>1. /\ server[r] # None /\ server' = [server EXCEPT ![r][field] = value]
        /\ draft' = {x \in draft : x[1] # r \/ x[2] # field} \cup {<<r, field, value>>}
        /\ ReportAdmin!NotAlone /\ UNCHANGED <<part, sight, list, fields, jobs>>
    BY <1>3 DEF ReportAdmin!Elsewhere
  <2>2. server[r] \in ReportAdmin!Report
    BY <1>0, <2>1 DEF ReportTable
  <2> DEFINE new == [server[r] EXCEPT ![field] = value]
  <2>3. /\ new \in ReportAdmin!Report /\ new[field] = value
        /\ \A f \in Edited : f # field => new[f] = server[r][f]
    <3>1. CASE field = "name"
      BY <1>3, <2>2, <3>1 DEF ReportAdmin!Report, ValuesOf, Edited
    <3>2. CASE field = "author"
      BY <1>3, <2>2, <3>2 DEF ReportAdmin!Report, ValuesOf, Edited
    <3>3. CASE field = "folder"
      BY <1>3, <2>2, <3>3 DEF ReportAdmin!Report, ValuesOf, Edited
    <3> QED BY <3>1, <3>2, <3>3 DEF Edited
  <2> HIDE DEF new
  <2>4. server' = [server EXCEPT ![r] = new]
    BY <1>0, <2>1 DEF new, ReportTable
  <2>5. server' \in ReportTable /\ server'[r] = new /\ \A q \in Published : q # r => server'[q] = server[q]
    BY <1>0, <2>3, <2>4 DEF ReportTable
  <2>6. TheirsKept'
    <3> SUFFICES ASSUME NEW x \in draft'
                 PROVE  /\ x[1] \in Published /\ x[2] \in Edited
                        /\ server'[x[1]] # None /\ server'[x[1]][x[2]] = x[3]
      BY DEF TheirsKept
    <3>1. CASE x = <<r, field, value>>
      BY <1>3, <2>3, <2>5, <3>1 DEF ReportConstants
    <3>2. CASE x \in draft /\ (x[1] # r \/ x[2] # field)
      BY <2>3, <2>5, <3>2 DEF ReportIInv, TheirsKept, ReportConstants
    <3> QED BY <2>1, <3>1, <3>2
  <2> QED BY <1>0, <2>1, <2>5, <2>6, ReportChanges DEF ReportIInv, FormTyped
<1>4. \A t \in Texts : t \in ValuesOf("name") /\ t \in ValuesOf("author")
  BY DEF ValuesOf
<1>5. \A f \in Shelves : f \in ValuesOf("folder")
  BY DEF ValuesOf
<1> QED BY <1>1, <1>2, <1>3, <1>4, <1>5 DEF Edited

\* What the dialog sends: what differs, with a name or a folder.
LEMMA SubmitKeeps == ASSUME ReportConstants, ReportIInv, part # "order", ReportAdmin!Submit PROVE ReportIInv'
<1>0. /\ server \in ReportTable /\ sight \in SUBSET Shelves
      /\ list \in [reports : ReportTable, folders : SUBSET Shelves]
  BY DEF ReportIInv, ReportsTyped
<1>1. fields # None /\ fields \in ReportDialog
  BY DEF ReportAdmin!Submit, ReportIInv, FormTyped
<1>2. CASE ReportAdmin!Patch(fields) = {}
  <2>1. /\ fields' = None /\ UNCHANGED <<part, server, sight, jobs, save, draft>>
        /\ list' = [reports |-> server', folders |-> sight']
    BY <1>2 DEF ReportAdmin!Submit, ReportAdmin!Fetched
  <2>2. list' \in [reports : ReportTable, folders : SUBSET Shelves]
    BY <1>0, <2>1
  <2> QED BY <1>0, <2>1, <2>2, ReportFrame DEF FormTyped
<1>3. CASE ReportAdmin!Patch(fields) # {}
  <2> DEFINE patch == [f \in ReportAdmin!Patch(fields) |-> fields.now[f]]
             w == [kind |-> "save", id |-> fields.of, typed |-> fields.typed, patch |-> patch]
  <2>1. /\ fields.mode = "edit" => fields.now.name # None
        /\ fields.mode = "move" => fields.now.folder # None
        /\ jobs' = jobs \cup {w} /\ UNCHANGED <<part, server, sight, list, fields, save, draft, window>>
    BY <1>3 DEF ReportAdmin!Submit
  <2>2. \A f \in ReportAdmin!Patch(fields) : f \in fields.typed
    BY <1>1 DEF ReportIInv, FormTyped, ReportAdmin!Patch
  <2>3. \A f \in ReportAdmin!Patch(fields) : fields.now[f] \in ValuesOf(f)
    <3> SUFFICES ASSUME NEW f \in ReportAdmin!Fields(fields.mode) PROVE fields.now[f] \in ValuesOf(f)
      BY DEF ReportAdmin!Patch
    <3>1. fields.now \in Draft /\ fields.mode \in {"edit", "move"}
      BY <1>1 DEF ReportDialog
    <3>2. CASE fields.mode = "edit"
      BY <2>1, <3>1, <3>2 DEF ReportAdmin!Fields, ValuesOf, Draft
    <3>3. CASE fields.mode = "move"
      BY <2>1, <3>1, <3>3 DEF ReportAdmin!Fields, ValuesOf, Draft
    <3> QED BY <3>1, <3>2, <3>3
  <2>4. DOMAIN patch = ReportAdmin!Patch(fields) /\ \A f \in ReportAdmin!Patch(fields) : patch[f] = fields.now[f]
    OBVIOUS
  <2> HIDE DEF patch
  <2>5. ReportWork(w) /\ w.kind # "order"
    <3>1. fields.of \in Published /\ fields.typed \in SUBSET Edited
      BY <1>1 DEF ReportDialog
    <3>2. /\ w.kind = "save" /\ w.id = fields.of /\ w.typed = fields.typed /\ w.patch = patch
      OBVIOUS
    <3> HIDE DEF w
    <3> QED BY <2>2, <2>3, <2>4, <3>1, <3>2 DEF ReportWork
  <2> HIDE DEF w
  <2>6. FormTyped'
    BY <2>1 DEF ReportIInv, FormTyped
  <2> QED BY <1>0, <2>1, <2>5, <2>6, ReportFrame
<1> QED BY <1>2, <1>3

\* The dialog, the list and the folders.
LEMMA ReportPageKeeps ==
  ASSUME ReportConstants, ReportIInv,
         \/ ReportAdmin!Refetch
         \/ \E found \in {None} \cup SUBSET (Shelves \cup Published) : ReportAdmin!Search(found)
         \/ \E f \in Shelves : ReportAdmin!Toggle(f) \/ ReportAdmin!CreateFolder(f) \/ ReportAdmin!DeleteFolder(f)
         \/ ReportAdmin!Cancel
         \/ \E w \in jobs : ReportAdmin!SaveFails(w)
         \/ \E f \in list.folders : ReportAdmin!Type("folder", f) \/ ReportAdmin!Upload(f)
         \/ \E t \in Texts \cup {None} : ReportAdmin!Type("name", t) \/ ReportAdmin!Type("author", t)
         \/ \E r \in Published : ReportAdmin!OpenEdit(r, IF part = "fields" THEN "edit" ELSE "move")
  PROVE  ReportIInv'
<1>0. /\ server \in ReportTable /\ sight \in SUBSET Shelves
      /\ list \in [reports : ReportTable, folders : SUBSET Shelves] /\ FormTyped
  BY DEF ReportIInv, ReportsTyped
<1>1. CASE \/ ReportAdmin!Refetch
           \/ \E f \in Shelves : ReportAdmin!CreateFolder(f) \/ ReportAdmin!DeleteFolder(f)
  <2>1. /\ UNCHANGED <<part, server, fields, jobs, save, draft>> /\ sight' \in SUBSET Shelves
        /\ list' = [reports |-> server', folders |-> sight']
    BY <1>0, <1>1 DEF ReportAdmin!Refetch, ReportAdmin!CreateFolder, ReportAdmin!DeleteFolder, ReportAdmin!Fetched
  <2>2. list' \in [reports : ReportTable, folders : SUBSET Shelves]
    BY <1>0, <2>1
  <2> QED BY <1>0, <2>1, <2>2, ReportFrame DEF FormTyped
<1>2. CASE \/ \E found \in {None} \cup SUBSET (Shelves \cup Published) : ReportAdmin!Search(found)
           \/ \E f \in Shelves : ReportAdmin!Toggle(f)
           \/ ReportAdmin!Cancel
           \/ \E w \in jobs : ReportAdmin!SaveFails(w)
  <2>1. UNCHANGED <<part, server, save, draft, sight, list>> /\ (fields' = fields \/ fields' = None)
    BY <1>2 DEF ReportAdmin!Search, ReportAdmin!Toggle, ReportAdmin!Cancel, ReportAdmin!SaveFails
  <2>2. \A w \in jobs' : w \in jobs
    BY <1>2 DEF ReportAdmin!Search, ReportAdmin!Toggle, ReportAdmin!Cancel, ReportAdmin!SaveFails
  <2>3. \A w \in jobs : w.kind = "order" => w \in jobs'
    BY <1>2 DEF ReportAdmin!Search, ReportAdmin!Toggle, ReportAdmin!Cancel, ReportAdmin!SaveFails
  <2>4. FormTyped'
    BY <1>0, <2>1 DEF FormTyped
  <2> QED BY <1>0, <2>1, <2>2, <2>3, <2>4, ReportFrame
<1>3. ASSUME NEW f \in list.folders, ReportAdmin!Upload(f) PROVE ReportIInv'
  <2> DEFINE w == [kind |-> "import", folder |-> f]
  <2>1. UNCHANGED <<part, server, save, draft, sight, list, fields>> /\ jobs' = jobs \cup {w}
    BY <1>3 DEF ReportAdmin!Upload
  <2>2. ReportWork(w) /\ w.kind # "order"
    BY <1>0 DEF ReportWork
  <2>3. FormTyped'
    BY <1>0, <2>1 DEF FormTyped
  <2> HIDE DEF w
  <2> QED BY <1>0, <2>1, <2>2, <2>3, ReportFrame
<1>4. ASSUME NEW r \in Published, NEW mode \in {"edit", "move"}, ReportAdmin!OpenEdit(r, mode) PROVE ReportIInv'
  <2> DEFINE s == list.reports[r]
  <2>1. /\ s # None /\ fields' = [of |-> r, mode |-> mode, was |-> s, now |-> s, typed |-> {}]
        /\ UNCHANGED <<part, server, save, draft, sight, list, jobs>>
    BY <1>4 DEF ReportAdmin!OpenEdit
  <2>2. s \in ReportAdmin!Report
    BY <1>0, <2>1 DEF ReportTable
  <2> HIDE DEF s
  <2>3. s \in Draft
    BY <2>2 DEF Draft, ReportAdmin!Report
  <2>4. {} \in SUBSET Edited
    OBVIOUS
  <2>5. fields' \in ReportDialog /\ fields'.now = s /\ fields'.was = s
    BY <2>1, <2>2, <2>3, <2>4 DEF ReportDialog
  <2>6. FormTyped'
    BY <2>5 DEF FormTyped
  <2> QED BY <1>0, <2>1, <2>6, ReportFrame
<1>5. ASSUME NEW field \in Edited, NEW value \in ValuesOf(field) \cup {None}, ReportAdmin!Type(field, value)
      PROVE  ReportIInv'
  <2>1. /\ fields # None /\ field \in ReportAdmin!Fields(fields.mode)
        /\ fields' = [fields EXCEPT !.now[field] = value, !.typed = @ \cup {field}]
        /\ UNCHANGED <<part, server, save, draft, sight, list, jobs>>
    BY <1>5 DEF ReportAdmin!Type
  <2>2. fields \in ReportDialog /\ \A f \in ReportAdmin!Fields(fields.mode) : fields.now[f] # fields.was[f] => f \in fields.typed
    BY <1>0, <2>1 DEF FormTyped
  <2> DEFINE now == [fields.now EXCEPT ![field] = value]
  <2>3. fields.now \in Draft
    BY <2>2 DEF ReportDialog
  <2>4. now \in Draft /\ \A f \in Edited : f # field => now[f] = fields.now[f]
    <3>1. CASE field = "name"
      BY <1>5, <2>3, <3>1 DEF Draft, ValuesOf, Edited
    <3>2. CASE field = "author"
      BY <1>5, <2>3, <3>2 DEF Draft, ValuesOf, Edited
    <3>3. CASE field = "folder"
      BY <1>5, <2>3, <3>3 DEF Draft, ValuesOf, Edited
    <3> QED BY <3>1, <3>2, <3>3 DEF Edited
  <2>5. fields' = [fields EXCEPT !.now = now, !.typed = @ \cup {field}]
    BY <2>1, <2>2 DEF ReportDialog
  <2> HIDE DEF now
  <2>6. fields' \in ReportDialog /\ fields'.now = now /\ fields'.was = fields.was /\ fields'.mode = fields.mode
        /\ fields'.typed = fields.typed \cup {field}
    BY <1>5, <2>2, <2>4, <2>5 DEF ReportDialog
  <2>7. FormTyped'
    BY <2>2, <2>4, <2>6 DEF FormTyped, ReportAdmin!Fields, Edited
  <2> QED BY <1>0, <2>1, <2>7, ReportFrame
<1>6. \A t \in Texts \cup {None} : t \in ValuesOf("name") \cup {None} /\ t \in ValuesOf("author") \cup {None}
  BY DEF ValuesOf
<1>7. \A f \in list.folders : f \in ValuesOf("folder") \cup {None}
  BY <1>0 DEF ValuesOf
<1> QED BY <1>1, <1>2, <1>3, <1>4, <1>5, <1>6, <1>7 DEF Edited

LEMMA ReportStep ==
  ASSUME ReportConstants, ReportIInv, [ReportAdmin!AdminNext]_(ReportAdmin!adminVars) PROVE ReportIInv'
<1>1. CASE UNCHANGED ReportAdmin!adminVars
  <2>1. UNCHANGED <<part, server, sight, list, fields, jobs, save, draft>>
    BY <1>1 DEF ReportAdmin!adminVars
  <2>2. FormTyped'
    BY <2>1 DEF ReportIInv, FormTyped
  <2> QED BY <2>1, <2>2, ReportFrame DEF ReportIInv, ReportsTyped
<1>2. CASE ReportAdmin!Refetch
  BY <1>2, ReportPageKeeps
<1>3. CASE \/ \E found \in {None} \cup SUBSET (Shelves \cup Published) : ReportAdmin!Search(found)
           \/ \E f \in Shelves : ReportAdmin!Toggle(f)
  BY <1>3, ReportPageKeeps
<1>4. CASE part = "order" /\ \E f \in Shelves, i \in 1..ReportAdmin!Cardinality(Published) : ReportAdmin!Swap(f, i)
  BY <1>4, SwapKeeps
<1>5. CASE part = "order" /\ \E w \in jobs : w.kind = "order" /\ \E x \in w.todo : ReportAdmin!Ranked(w, x) \/ ReportAdmin!RankFails(w, x)
  BY <1>5, RankedKeeps, RankFailsKeeps
<1>6. CASE part \in {"fields", "places"} /\ (ReportAdmin!Submit \/ \E w \in jobs : ReportAdmin!Saved(w))
  BY <1>6, SubmitKeeps, SavedKeeps
<1>7. CASE \/ ReportAdmin!Cancel
           \/ \E w \in jobs : ReportAdmin!SaveFails(w)
           \/ \E r \in Published : ReportAdmin!OpenEdit(r, IF part = "fields" THEN "edit" ELSE "move")
  BY <1>7, ReportPageKeeps
<1>8. CASE \E t \in Texts \cup {None} : ReportAdmin!Type("name", t) \/ ReportAdmin!Type("author", t)
  BY <1>8, ReportPageKeeps
<1>9. CASE part = "fields" /\ \E r \in Published, t \in Texts :
              ReportAdmin!Delete(r) \/ ReportAdmin!Elsewhere(r, "name", t) \/ ReportAdmin!Elsewhere(r, "author", t)
  BY <1>9, ReportsChange
<1>10. CASE \E f \in list.folders : ReportAdmin!Type("folder", f) \/ ReportAdmin!Upload(f)
  BY <1>10, ReportPageKeeps
<1>11. CASE part = "places" /\ (\/ \E w \in jobs, r \in Published : ReportAdmin!Imported(w, r)
                                \/ \E r \in Published, f \in Shelves : ReportAdmin!Elsewhere(r, "folder", f))
  BY <1>11, ReportsChange
<1>12. CASE \E f \in Shelves : ReportAdmin!CreateFolder(f) \/ ReportAdmin!DeleteFolder(f)
  BY <1>12, ReportPageKeeps
<1> QED BY <1>1, <1>2, <1>3, <1>4, <1>5, <1>6, <1>7, <1>8, <1>9, <1>10, <1>11, <1>12 DEF ReportAdmin!AdminNext

LEMMA ReportsFollow == ASSUME ReportConstants, ReportIInv PROVE ReportAdmin!OrderAndEditsHold
BY OrderIsStored DEF ReportIInv, TheirsKept, ReportAdmin!OrderAndEditsHold

\* Of the reports, whoever edits them: an order that met no other change is stored as
\* it was asked for, and a save takes nothing back that it was not typed over.
THEOREM ReportsHold == ASSUME ReportConstants PROVE ReportAdmin!AdminSpec => []ReportAdmin!OrderAndEditsHold
<1>1. ReportIInv => ReportAdmin!OrderAndEditsHold
  BY ReportsFollow
<1>2. ReportIInv /\ [ReportAdmin!AdminNext]_(ReportAdmin!adminVars) => ReportIInv'
  BY ReportStep
<1> QED BY <1>1, <1>2, ReportInitIInv, PTL DEF ReportAdmin!AdminSpec
-----------------------------------------------------------------------------
(* The pages together: whichever is open keeps its own invariant, and      *)
(* nothing the other parts of a page do concerns it.                       *)

StoredConstants == UserConstants /\ RequestConstants /\ GroupConstants /\ BoardConstants /\ ReportConstants

StoredIInv ==
  /\ page = "reports" => ReportIInv
  /\ page = "boards"  => BoardIInv
  /\ page = "groups"  => GroupIInv
  /\ page = "users"   => UserIInv
  /\ page = "service" => CenterIInv

LEMMA StoredInit == ASSUME StoredConstants, PagesInit PROVE StoredIInv
<1>1. /\ page = "reports" => ReportAdmin!AdminInit
      /\ page = "boards"  => BoardAdmin!BoardInit
      /\ page = "groups"  => TeamRights!GroupInit
      /\ page = "users"   => Accounts!UserInit
      /\ page = "service" => Center!ServiceInit
  BY DEF PagesInit
<1> QED BY <1>1, ReportInitIInv, BoardInitIInv, GroupInitIInv, UserInitIInv, CenterInitIInv
        DEF StoredConstants, StoredIInv

LEMMA StoredStep == ASSUME StoredConstants, StoredIInv, [PagesNext]_<<page, partVars, slotVars>> PROVE StoredIInv'
<1>1. /\ page' = page
      /\ page = "reports" => [ReportAdmin!AdminNext]_(ReportAdmin!adminVars)
      /\ page = "boards"  => [BoardAdmin!BoardNext]_(BoardAdmin!boardVars)
      /\ page = "groups"  => [TeamRights!GroupNext]_(TeamRights!groupVars)
      /\ page = "users"   => [Accounts!UserNext]_(Accounts!userVars)
      /\ page = "service" => [Center!ServiceNext]_(Center!serviceVars)
  BY DEF PagesNext, slotVars, ReportAdmin!adminVars, BoardAdmin!boardVars, TeamRights!groupVars,
         Accounts!userVars, Center!serviceVars
<1> QED BY <1>1, ReportStep, BoardStep, GroupStep, UserStep, CenterStep DEF StoredConstants, StoredIInv

\* What the page of the reports, the boards, the groups, the users or the requests
\* stores is what was asked for, for any of them, however many, and however many
\* requests are under way at once, but for what their histories name: slides that
\* overlapping requests have mixed, an order that met another change.
THEOREM AdministrationHolds == ASSUME StoredConstants PROVE PagesSpec => []StoredAsAsked
<1>1. StoredIInv => StoredAsAsked
  BY ReportsFollow, BoardsFollow, GroupsFollow, UsersFollow, RequestsFollow
     DEF StoredIInv, StoredAsAsked, StoredConstants
<1>2. StoredIInv /\ [PagesNext]_<<page, partVars, slotVars>> => StoredIInv'
  BY StoredStep
<1> QED BY <1>1, <1>2, StoredInit, PTL DEF PagesSpec
=============================================================================
