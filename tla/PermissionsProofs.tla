-------------------------- MODULE PermissionsProofs --------------------------
(***************************************************************************)
(* The administration of permissions.  The safety of ReportPermissions,    *)
(* from one inductive invariant: a request past its lock owns the row of   *)
(* its subject (Holding), so that what it read of a user or a group still  *)
(* stands when it commits (Reads), and a revocation still aims at its own  *)
(* row (Targets).  And of the page: what a request under way was made from *)
(* a list that may be old, for the menus and the reports of a subject.     *)
(***************************************************************************)
EXTENDS ReportPermissions, GrantPages, FiniteSetTheorems, SequenceTheorems, TLAPS

Granting == {"grant", "bulk", "set"}
Inside(a) == pc[a] \in {"read", "write"}

\* What the handlers accept.
Asked ==
    \A a \in Admins : pc[a] # "idle" =>
        /\ req[a] \in Request
        /\ req[a].op \in {"set", "menus", "delete"} => req[a].subject \in Owners
        /\ req[a].op \in Granting => req[a].codes \subseteq Codes
        /\ req[a].op = "menus" => req[a].codes \subseteq MenuKeys
        /\ pc[a] = "read" => req[a].op \in Granting

\* A request past its lock is the one that holds it, and its subject exists.
Holding ==
    \A a \in Admins : Inside(a) /\ req[a].subject \in Owners =>
        locked[req[a].subject] = a /\ req[a].subject \in owners

\* A lock is held for as long as its holder is past it, and no longer.
LocksAreHeld ==
    \A s \in Owners : locked[s] # None =>
        Inside(locked[s]) /\ req[locked[s]].subject = s

\* What a grant to a user or a group found is what is there.
Reads ==
    \A a \in Admins : pc[a] = "write" /\ req[a].op \in Granting =>
        /\ found[a] \subseteq Scope(req[a])
        /\ req[a].subject \in Owners =>
              \A x \in Scope(req[a]) :
                  x[1] \in reports => (x \in found[a] <=> x \in granted)

\* A revocation aims at one row of its subject, if it is still there.
Targets ==
    \A a \in Admins : pc[a] # "idle" /\ req[a].op = "revoke" =>
        /\ found[a] \subseteq granted
        /\ \A x \in found[a] : x[2] = req[a].subject
        /\ \A x, y \in found[a] : x = y

\* The inductive invariant.
IInv ==
    /\ TypeOK /\ Asked /\ Holding /\ LocksAreHeld /\ Reads /\ Targets
    /\ NoOrphans

-----------------------------------------------------------------------------
(***************************************************************************)
(* What a commit does                                                      *)
(***************************************************************************)

\* Rows are triples of a report, a subject and a code.
LEMMA RowsAre ==
    ASSUME NEW rs, NEW s, NEW cs, NEW x
    PROVE  x \in Rows(rs, s, cs) <=>
              /\ x = <<x[1], x[2], x[3]>>
              /\ x[1] \in rs /\ x[2] = s /\ x[3] \in cs
BY DEF Rows

LEMMA GrantsAre ==
    ASSUME NEW x
    PROVE  x \in Grants <=>
              /\ x = <<x[1], x[2], x[3]>>
              /\ x[1] \in Reports /\ x[2] \in Subjects /\ x[3] \in Codes
BY DEF Grants

LEMMA NormalizedCodes ==
    ASSUME NEW cs, cs \subseteq Codes
    PROVE  Normalized(cs) \subseteq Codes /\ cs \subseteq Normalized(cs)
BY DEF Normalized, Codes

Write(a) ==
    \/ GrantPermissions(a) \/ SetPermissions(a) \/ RevokePermission(a)
    \/ SetMenuPermissions(a) \/ DeleteSubject(a)

\* A committed transaction a took these rows away and added those, all of
\* them rows of its subject; a rolled back one did nothing.
WrittenRows(a, removed, added) ==
    /\ pc[a] = "write"
    /\ removed \subseteq granted /\ added \subseteq Grants
    /\ \A x \in removed \cup added : x[2] = req[a].subject
    /\ \A x \in added : x[1] \in reports
    /\ granted' = (granted \ removed) \cup added
    /\ Forget(a, removed)
    /\ Finish(a)
    /\ UNCHANGED reports

\* The rows that a grant wants are rows of its scope, with codes of the enum.
LEMMA WantedInScope ==
    ASSUME IInv, NEW a \in Admins, pc[a] = "write", req[a].op \in Granting
    PROVE  /\ Wanted(req[a]) \subseteq Scope(req[a])
           /\ Scope(req[a]) \subseteq Grants
           /\ \A x \in Scope(req[a]) : x[2] = req[a].subject
<1>1. req[a] \in Request /\ req[a].codes \subseteq Codes
  BY DEF IInv, Asked
<1>2. Normalized(req[a].codes) \subseteq Codes
  BY <1>1, NormalizedCodes
<1>3. req[a].reports \subseteq Reports /\ req[a].subject \in Subjects
  BY <1>1 DEF Request
<1>4. QED
  BY <1>2, <1>3, RowsAre, GrantsAre DEF Wanted, Scope

\* Either the inserts go through or the transaction leaves no trace.
LEMMA CommitOrNot ==
    ASSUME IInv, NEW a \in Admins, pc[a] = "write",
           NEW removed, NEW added,
           removed \subseteq granted, added \subseteq Grants,
           \A x \in removed \cup added : x[2] = req[a].subject,
           Commit(a, removed, added)
    PROVE  \/ WrittenRows(a, removed, added)
           \/ WrittenRows(a, {}, {}) /\ UNCHANGED granted
<1>1. CASE Insertable(removed, added)
  BY <1>1 DEF Commit, Insertable, WrittenRows
<1>2. CASE ~Insertable(removed, added)
  BY <1>2 DEF Commit, WrittenRows
<1>3. QED
  BY <1>1, <1>2

\* Whatever a request writes, it writes rows of its own subject.
LEMMA WriteIsWritten ==
    ASSUME IInv, NEW a \in Admins, Write(a)
    PROVE  \E removed, added \in SUBSET Grants : WrittenRows(a, removed, added)
<1>1. ASSUME NEW removed, NEW added, pc[a] = "write",
             removed \subseteq granted, added \subseteq Grants,
             \A x \in removed \cup added : x[2] = req[a].subject,
             Commit(a, removed, added)
      PROVE  \E r, d \in SUBSET Grants : WrittenRows(a, r, d)
  <2>1. granted \subseteq Grants
    BY DEF IInv, TypeOK
  <2>2. removed \in SUBSET Grants /\ added \in SUBSET Grants
    BY <1>1, <2>1
  <2>3. QED
    BY <1>1, <2>2, CommitOrNot
<1>2. CASE GrantPermissions(a)
  BY <1>1, <1>2, WantedInScope DEF GrantPermissions, Writes, Granting
<1>3. CASE SetPermissions(a)
  BY <1>1, <1>3, WantedInScope DEF SetPermissions, Writes, Granting
<1>4. CASE RevokePermission(a)
  <2>1. found[a] \subseteq granted /\ \A x \in found[a] : x[2] = req[a].subject
    BY <1>4 DEF RevokePermission, Writes, IInv, Targets
  <2>2. QED
    BY <1>1, <1>4, <2>1 DEF RevokePermission, Writes
<1>5. CASE SetMenuPermissions(a)
  BY <1>1, <1>5 DEF SetMenuPermissions, Writes
<1>6. CASE DeleteSubject(a)
  BY <1>1, <1>6 DEF DeleteSubject, Writes
<1>7. QED
  BY <1>2, <1>3, <1>4, <1>5, <1>6 DEF Write

-----------------------------------------------------------------------------
(***************************************************************************)
(* The invariant holds initially and under every step                      *)
(***************************************************************************)

LEMMA InitInvariant == Init => IInv
BY ConstantsOK DEF Init, IInv, TypeOK, Asked, Holding, LocksAreHeld, Reads, Targets,
   NoOrphans, Inside, Grants, PC

\* A new request is one that the endpoints accept.
Accepted(q, rows) ==
    /\ q \in Request /\ rows \subseteq granted
    /\ q.op \in {"set", "menus", "delete"} => q.subject \in Owners
    /\ q.op \in Granting => q.codes \subseteq Codes
    /\ q.op = "menus" => q.codes \subseteq MenuKeys
    /\ \A x \in rows : x[2] = q.subject
    /\ \A x, y \in rows : x = y

LEMMA AskIsAccepted ==
    ASSUME IInv, NEW a \in Admins, Ask(a)
    PROVE  \E q, rows : Submit(a, q, rows) /\ Accepted(q, rows)
<1> USE DEF Accepted, Request, Op, Granting, Subjects
<1>0. reports \subseteq Reports /\ granted \subseteq Grants
  BY DEF IInv, TypeOK
<1>1. CASE AskGrant(a)
  BY <1>0, <1>1 DEF AskGrant
<1>2. CASE AskBulk(a)
  BY <1>0, <1>2 DEF AskBulk
<1>3. CASE AskSet(a)
  BY <1>0, <1>3 DEF AskSet
<1>4. CASE AskRevoke(a)
  BY <1>0, <1>4, GrantsAre DEF AskRevoke
<1>5. CASE AskMenus(a)
  BY <1>5 DEF AskMenus
<1>6. CASE AskDelete(a)
  BY <1>6 DEF AskDelete
<1>7. QED
  BY <1>1, <1>2, <1>3, <1>4, <1>5, <1>6 DEF Ask

\* Every step, by what it does to the requests under way.
LEMMA StepCases ==
    ASSUME IInv, [Next]_vars
    PROVE  \/ \E a \in Admins :
               \/ \E q, rows : Submit(a, q, rows) /\ Accepted(q, rows)
               \/ LockSubject(a) \/ SkipLock(a) \/ ReadExisting(a)
               \/ Write(a) \/ RollBack(a)
           \/ \E r \in Reports : DeleteReport(r)
           \/ UNCHANGED vars
BY AskIsAccepted DEF Next, Handle, Write

\* The end of a transaction leaves the other requests alone.
LEMMA FinishFrees ==
    ASSUME TypeOK, NEW a \in Admins, Finish(a)
    PROVE  /\ locked' \in [Owners -> Admins \cup {None}]
           /\ pc' \in [Admins -> PC]
           /\ req' \in [Admins -> Request \cup {None}]
           /\ pc'[a] = "idle"
           /\ \A b \in Admins : b # a => pc'[b] = pc[b] /\ req'[b] = req[b]
           /\ \A s \in Owners :
                 locked'[s] = IF locked[s] = a THEN None ELSE locked[s]
BY DEF TypeOK, Finish, Unlocked, PC

LEMMA StepTypes == IInv /\ [Next]_vars => TypeOK'
<1> SUFFICES ASSUME IInv, [Next]_vars PROVE TypeOK'
  OBVIOUS
<1> USE DEF tables
<1>1. TypeOK
  BY DEF IInv
<1>2. ASSUME NEW a \in Admins, NEW q, NEW rows,
             Submit(a, q, rows), Accepted(q, rows)
      PROVE  TypeOK'
  BY <1>1, <1>2 DEF TypeOK, Submit, Accepted, PC
<1>3. ASSUME NEW a \in Admins, LockSubject(a) PROVE TypeOK'
  <2>1. CASE Finish(a) /\ found' = [found EXCEPT ![a] = {}]
    BY <1>1, <1>3, <2>1, FinishFrees DEF TypeOK, LockSubject
  <2>2. CASE /\ locked' = [locked EXCEPT ![req[a].subject] = a]
             /\ pc' = [pc EXCEPT ![a] = AfterLock(req[a])]
             /\ UNCHANGED <<req, found>>
    BY <1>1, <1>3, <2>2 DEF TypeOK, LockSubject, AfterLock, PC
  <2>3. QED
    BY <1>3, <2>1, <2>2 DEF LockSubject
<1>4. ASSUME NEW a \in Admins, SkipLock(a) PROVE TypeOK'
  BY <1>1, <1>4 DEF TypeOK, SkipLock, AfterLock, PC
<1>5. ASSUME NEW a \in Admins, ReadExisting(a) PROVE TypeOK'
  <2>1. CASE Finish(a) /\ UNCHANGED found
    BY <1>1, <1>5, <2>1, FinishFrees DEF TypeOK, ReadExisting
  <2>2. CASE /\ found' = [found EXCEPT ![a] = granted \cap Scope(req[a])]
             /\ pc' = [pc EXCEPT ![a] = "write"]
             /\ UNCHANGED <<locked, req>>
    BY <1>1, <1>5, <2>2 DEF TypeOK, ReadExisting, PC
  <2>3. QED
    BY <1>5, <2>1, <2>2 DEF ReadExisting
<1>6. ASSUME NEW a \in Admins, Write(a) PROVE TypeOK'
  <2>1. PICK removed \in SUBSET Grants, added \in SUBSET Grants :
            WrittenRows(a, removed, added)
    BY <1>6, WriteIsWritten
  <2>2. Finish(a) /\ granted' \subseteq Grants /\ UNCHANGED reports
    BY <1>1, <2>1 DEF WrittenRows, TypeOK
  <2>3. found' \in [Admins -> SUBSET Grants]
    BY <1>1, <2>1 DEF WrittenRows, Forget, TypeOK
  <2>4. menus' \in [Owners -> SUBSET MenuKeys] /\ owners' \subseteq Owners
    BY <1>1, <1>6 DEF Write, Writes, GrantPermissions, SetPermissions,
       RevokePermission, SetMenuPermissions, DeleteSubject, TypeOK, IInv, Asked
  <2>5. QED
    BY <1>1, <2>2, <2>3, <2>4, FinishFrees DEF TypeOK
<1>7. ASSUME NEW a \in Admins, RollBack(a) PROVE TypeOK'
  BY <1>1, <1>7, FinishFrees DEF TypeOK, RollBack
<1>8. ASSUME NEW r \in Reports, DeleteReport(r) PROVE TypeOK'
  BY <1>1, <1>8 DEF TypeOK, DeleteReport
<1>9. CASE UNCHANGED vars
  BY <1>1, <1>9 DEF TypeOK, vars
<1>10. QED
  BY <1>2, <1>3, <1>4, <1>5, <1>6, <1>7, <1>8, <1>9, StepCases

\* Finish keeps what the requests and their locks have to say to each other.
LEMMA FinishKeepsControl ==
    ASSUME IInv, NEW a \in Admins, Finish(a)
    PROVE  /\ Asked' /\ LocksAreHeld'
           /\ owners' = owners => Holding'
<1>1. TypeOK
  BY DEF IInv
<1>2. Asked'
  BY <1>1, FinishFrees DEF IInv, Asked
<1>3. LocksAreHeld'
  BY <1>1, FinishFrees, ConstantsOK DEF IInv, LocksAreHeld, Inside, TypeOK
<1>4. ASSUME owners' = owners PROVE Holding'
  BY <1>1, <1>4, FinishFrees DEF IInv, Holding, Inside, TypeOK, PC
<1>5. QED
  BY <1>2, <1>3, <1>4

\* Every step keeps the requests accepted and the locks where they belong.
LEMMA StepControl == IInv /\ [Next]_vars => Asked' /\ Holding' /\ LocksAreHeld'
<1> SUFFICES ASSUME IInv, [Next]_vars PROVE Asked' /\ Holding' /\ LocksAreHeld'
  OBVIOUS
<1> DEFINE Control == Asked' /\ Holding' /\ LocksAreHeld'
<1> USE DEF tables, Inside
<1>1. TypeOK /\ Asked /\ Holding /\ LocksAreHeld
  BY DEF IInv
<1>2. ASSUME NEW a \in Admins, NEW q, NEW rows,
             Submit(a, q, rows), Accepted(q, rows)
      PROVE  Control
  <2>1. /\ pc' = [pc EXCEPT ![a] = "lock"] /\ pc[a] = "idle"
        /\ req' = [req EXCEPT ![a] = q] /\ UNCHANGED <<locked, owners>>
    BY <1>2 DEF Submit
  <2>2. /\ pc'[a] = "lock" /\ req'[a] = q
        /\ \A b \in Admins : b # a => pc'[b] = pc[b] /\ req'[b] = req[b]
    BY <1>1, <2>1 DEF TypeOK
  <2>3. Asked'
    BY <1>1, <1>2, <2>2 DEF Asked, Accepted
  <2>4. Holding'
    BY <1>1, <2>1, <2>2 DEF Holding
  <2>5. LocksAreHeld'
    BY <1>1, <2>1, <2>2, ConstantsOK DEF LocksAreHeld, TypeOK
  <2>6. QED
    BY <2>3, <2>4, <2>5
<1>3. ASSUME NEW a \in Admins, LockSubject(a) PROVE Control
  <2>1. CASE Finish(a)
    BY <1>3, <2>1, FinishKeepsControl DEF LockSubject
  <2>2. CASE /\ req[a].subject \in owners
             /\ locked' = [locked EXCEPT ![req[a].subject] = a]
             /\ pc' = [pc EXCEPT ![a] = AfterLock(req[a])]
             /\ UNCHANGED <<req, found>>
    <3>1. /\ pc[a] = "lock" /\ req[a].subject \in Owners
          /\ locked[req[a].subject] = None
          /\ pc'[a] = AfterLock(req[a]) /\ UNCHANGED <<req, owners>>
          /\ \A b \in Admins : b # a => pc'[b] = pc[b]
      BY <1>1, <1>3, <2>2 DEF LockSubject, RowFree, TypeOK
    <3>2. \A s \in Owners :
             locked'[s] = IF s = req[a].subject THEN a ELSE locked[s]
      BY <1>1, <2>2 DEF TypeOK
    <3>3. /\ AfterLock(req[a]) \in {"read", "write"}
          /\ AfterLock(req[a]) = "read" => req[a].op \in Granting
      BY DEF AfterLock, Granting
    <3>4. Asked'
      BY <1>1, <3>1, <3>3 DEF Asked
    <3>5. Holding'
      BY <1>1, <2>2, <3>1, <3>2, ConstantsOK DEF Holding
    <3>6. LocksAreHeld'
      BY <1>1, <3>1, <3>2, <3>3, ConstantsOK DEF LocksAreHeld, TypeOK
    <3>7. QED
      BY <3>4, <3>5, <3>6
  <2>3. QED
    BY <1>3, <2>1, <2>2 DEF LockSubject
<1>4. ASSUME NEW a \in Admins, SkipLock(a) PROVE Control
  <2>1. /\ pc[a] = "lock" /\ req[a].subject \in Categories
        /\ pc'[a] = AfterLock(req[a]) /\ UNCHANGED <<req, locked, owners>>
        /\ \A b \in Admins : b # a => pc'[b] = pc[b]
    BY <1>1, <1>4 DEF SkipLock, TypeOK
  <2>2. AfterLock(req[a]) = "read" => req[a].op \in Granting
    BY DEF AfterLock, Granting
  <2>3. Asked'
    BY <1>1, <2>1, <2>2 DEF Asked
  <2>4. Holding'
    BY <1>1, <2>1, ConstantsOK DEF Holding
  <2>5. LocksAreHeld'
    BY <1>1, <2>1, ConstantsOK DEF LocksAreHeld, TypeOK
  <2>6. QED
    BY <2>3, <2>4, <2>5
<1>5. ASSUME NEW a \in Admins, ReadExisting(a) PROVE Control
  <2>1. CASE Finish(a)
    BY <1>5, <2>1, FinishKeepsControl DEF ReadExisting
  <2>2. CASE pc' = [pc EXCEPT ![a] = "write"] /\ UNCHANGED <<locked, req>>
    <3>1. /\ pc[a] = "read" /\ pc'[a] = "write" /\ UNCHANGED owners
          /\ \A b \in Admins : b # a => pc'[b] = pc[b]
      BY <1>1, <1>5, <2>2 DEF ReadExisting, TypeOK
    <3>2. Asked'
      BY <1>1, <2>2, <3>1 DEF Asked
    <3>3. Holding'
      BY <1>1, <2>2, <3>1 DEF Holding
    <3>4. LocksAreHeld'
      BY <1>1, <2>2, <3>1, ConstantsOK DEF LocksAreHeld, TypeOK
    <3>5. QED
      BY <3>2, <3>3, <3>4
  <2>3. QED
    BY <1>5, <2>1, <2>2 DEF ReadExisting
<1>6. ASSUME NEW a \in Admins, Write(a) PROVE Control
  <2>1. Finish(a) /\ pc[a] = "write"
    BY <1>6, WriteIsWritten DEF WrittenRows
  <2>2. CASE UNCHANGED owners
    BY <2>1, <2>2, FinishKeepsControl
  <2>3. CASE DeleteSubject(a)
    <3>1. owners' = owners \ {req[a].subject} /\ req[a].subject \in Owners
      BY <1>1, <2>3 DEF DeleteSubject, Writes, Asked
    <3>2. locked[req[a].subject] = a
      BY <1>1, <2>1, <3>1 DEF Holding
    <3>3. Holding'
      BY <1>1, <2>1, <3>1, <3>2, FinishFrees DEF Holding, TypeOK, PC
    <3>4. QED
      BY <2>1, <3>3, FinishKeepsControl
  <2>4. QED
    BY <1>6, <2>2, <2>3 DEF Write, GrantPermissions, SetPermissions,
       RevokePermission, SetMenuPermissions
<1>7. ASSUME NEW a \in Admins, RollBack(a) PROVE Control
  BY <1>7, FinishKeepsControl DEF RollBack
<1>8. ASSUME NEW r \in Reports, DeleteReport(r) PROVE Control
  BY <1>1, <1>8 DEF DeleteReport, Asked, Holding, LocksAreHeld
<1>9. CASE UNCHANGED vars
  BY <1>1, <1>9 DEF vars, Asked, Holding, LocksAreHeld
<1>10. QED
  BY <1>2, <1>3, <1>4, <1>5, <1>6, <1>7, <1>8, <1>9, StepCases

\* What another request writes is of another subject than the one a user or
\* group is locked for.
LEMMA OtherSubject ==
    ASSUME IInv, NEW a \in Admins, NEW b \in Admins, a # b,
           pc[a] = "write", pc[b] = "write", req[b].subject \in Owners
    PROVE  req[a].subject # req[b].subject
BY DEF IInv, Holding, Inside

\* No step makes stale what a grant to a user or a group has read.
LEMMA StepReads == IInv /\ [Next]_vars => Reads'
<1> SUFFICES ASSUME IInv, [Next]_vars, NEW b \in Admins,
                    pc'[b] = "write", (req[b].op \in Granting)'
             PROVE  /\ (found[b] \subseteq Scope(req[b]))'
                    /\ (req[b].subject \in Owners =>
                          \A x \in Scope(req[b]) :
                            x[1] \in reports => (x \in found[b] <=> x \in granted))'
  BY DEF Reads
<1> DEFINE Fresh ==
             /\ found[b] \subseteq Scope(req[b])
             /\ req[b].subject \in Owners =>
                   \A x \in Scope(req[b]) :
                     x[1] \in reports => (x \in found[b] <=> x \in granted)
<1> SUFFICES Fresh'
  OBVIOUS
<1> USE DEF tables
<1>1. TypeOK /\ (pc[b] = "write" /\ req[b].op \in Granting => Fresh)
  BY DEF IInv, Reads
<1>2. ASSUME pc[b] = "write",
             UNCHANGED <<granted, reports>>, req'[b] = req[b],
             found'[b] = found[b]
      PROVE  Fresh'
  BY <1>1, <1>2 DEF Scope, Rows
<1>3. ASSUME NEW a \in Admins, NEW q, NEW rows,
             Submit(a, q, rows), Accepted(q, rows)
      PROVE  Fresh'
  BY <1>1, <1>2, <1>3 DEF Submit, TypeOK
<1>4. ASSUME NEW a \in Admins, Finish(a), UNCHANGED tables,
             \A c \in Admins : c # a => found'[c] = found[c]
      PROVE  Fresh'
  BY <1>1, <1>2, <1>4, FinishFrees
<1>5. ASSUME NEW a \in Admins, LockSubject(a) PROVE Fresh'
  <2>1. CASE a = b
    BY <1>1, <1>5, <2>1, FinishFrees
       DEF LockSubject, AfterLock, Granting, TypeOK
  <2>2. CASE a # b
    BY <1>1, <1>2, <1>5, <2>2, FinishFrees DEF LockSubject, TypeOK
  <2>3. QED
    BY <2>1, <2>2
<1>6. ASSUME NEW a \in Admins, SkipLock(a) PROVE Fresh'
  <2>1. CASE a = b
    BY <1>1, <1>6, <2>1 DEF SkipLock, AfterLock, Granting, TypeOK
  <2>2. CASE a # b
    BY <1>1, <1>2, <1>6, <2>2 DEF SkipLock, TypeOK
  <2>3. QED
    BY <2>1, <2>2
<1>7. ASSUME NEW a \in Admins, ReadExisting(a) PROVE Fresh'
  <2>1. CASE Finish(a) /\ UNCHANGED found
    BY <1>4, <1>7, <2>1 DEF ReadExisting
  <2>2. CASE /\ found' = [found EXCEPT ![a] = granted \cap Scope(req[a])]
             /\ pc' = [pc EXCEPT ![a] = "write"]
             /\ UNCHANGED <<req, granted, reports>>
    <3>1. CASE a = b
      BY <1>1, <2>2, <3>1 DEF TypeOK
    <3>2. CASE a # b
      BY <1>1, <1>2, <2>2, <3>2 DEF TypeOK
    <3>3. QED
      BY <3>1, <3>2
  <2>3. QED
    BY <1>7, <2>1, <2>2 DEF ReadExisting
<1>8. ASSUME NEW a \in Admins, Write(a) PROVE Fresh'
  <2>1. PICK removed \in SUBSET Grants, added \in SUBSET Grants :
            WrittenRows(a, removed, added)
    BY <1>8, WriteIsWritten
  <2>2. a # b /\ pc[b] = "write" /\ req'[b] = req[b]
    BY <1>1, <2>1, FinishFrees DEF WrittenRows
  <2>3. found'[b] = found[b]
    BY <1>1, <2>1, <2>2 DEF WrittenRows, Forget, Granting
  <2>4. ASSUME req[b].subject \in Owners, NEW x \in Scope(req[b])
        PROVE  x \in granted' <=> x \in granted
    <3>1. x[2] = req[b].subject /\ req[a].subject # req[b].subject
      BY <2>1, <2>2, <2>4, OtherSubject, RowsAre DEF WrittenRows, Scope
    <3>2. QED
      BY <2>1, <3>1 DEF WrittenRows
  <2>5. QED
    BY <1>1, <2>1, <2>2, <2>3, <2>4 DEF WrittenRows, Scope, Rows
<1>9. ASSUME NEW a \in Admins, RollBack(a) PROVE Fresh'
  BY <1>1, <1>4, <1>9 DEF RollBack, TypeOK
<1>10. ASSUME NEW r \in Reports, DeleteReport(r) PROVE Fresh'
  <2>1. /\ pc[b] = "write" /\ req'[b] = req[b] /\ found'[b] = found[b]
        /\ granted' = {g \in granted : g[1] # r} /\ reports' = reports \ {r}
    BY <1>10 DEF DeleteReport, Granting
  <2>2. QED
    BY <1>1, <2>1 DEF Scope, Rows
<1>11. CASE UNCHANGED vars
  BY <1>2, <1>11 DEF vars
<1>12. QED
  BY <1>3, <1>5, <1>6, <1>7, <1>8, <1>9, <1>10, <1>11, StepCases

\* A revocation keeps its target for as long as the target exists.
LEMMA StepTargets == IInv /\ [Next]_vars => Targets'
<1> SUFFICES ASSUME IInv, [Next]_vars, NEW b \in Admins,
                    pc'[b] # "idle", (req[b].op = "revoke")'
             PROVE  /\ (found[b] \subseteq granted)'
                    /\ (\A x \in found[b] : x[2] = req[b].subject)'
                    /\ (\A x, y \in found[b] : x = y)'
  BY DEF Targets
<1> DEFINE Aims == /\ found[b] \subseteq granted
                   /\ \A x \in found[b] : x[2] = req[b].subject
                   /\ \A x, y \in found[b] : x = y
<1> SUFFICES Aims'
  OBVIOUS
<1> USE DEF tables
<1>1. TypeOK /\ (pc[b] # "idle" /\ req[b].op = "revoke" => Aims)
  BY DEF IInv, Targets
<1>2. ASSUME pc[b] # "idle", req'[b] = req[b], UNCHANGED granted,
             found'[b] = found[b]
      PROVE  Aims'
  BY <1>1, <1>2
<1>3. ASSUME NEW a \in Admins, NEW q, NEW rows,
             Submit(a, q, rows), Accepted(q, rows)
      PROVE  Aims'
  <2>1. CASE a = b
    BY <1>1, <1>3, <2>1 DEF Submit, Accepted, TypeOK
  <2>2. CASE a # b
    BY <1>1, <1>2, <1>3, <2>2 DEF Submit, TypeOK
  <2>3. QED
    BY <2>1, <2>2
<1>4. ASSUME NEW a \in Admins, Finish(a), UNCHANGED granted,
             \A c \in Admins : c # a => found'[c] = found[c]
      PROVE  Aims'
  BY <1>1, <1>2, <1>4, FinishFrees
<1>5. ASSUME NEW a \in Admins, LockSubject(a) PROVE Aims'
  <2>1. CASE Finish(a) /\ found' = [found EXCEPT ![a] = {}]
    BY <1>1, <1>4, <1>5, <2>1 DEF LockSubject, TypeOK
  <2>2. CASE /\ pc' = [pc EXCEPT ![a] = AfterLock(req[a])]
             /\ UNCHANGED <<req, found, granted>>
    <3>1. pc[b] # "idle"
      BY <1>1, <1>5, <2>2 DEF LockSubject, TypeOK
    <3>2. QED
      BY <1>2, <2>2, <3>1
  <2>3. QED
    BY <1>5, <2>1, <2>2 DEF LockSubject
<1>6. ASSUME NEW a \in Admins, SkipLock(a) PROVE Aims'
  BY <1>1, <1>2, <1>6 DEF SkipLock, TypeOK
<1>7. ASSUME NEW a \in Admins, ReadExisting(a) PROVE Aims'
  <2>1. CASE Finish(a) /\ UNCHANGED found
    BY <1>4, <1>7, <2>1 DEF ReadExisting
  <2>2. CASE /\ found' = [found EXCEPT ![a] = granted \cap Scope(req[a])]
             /\ pc' = [pc EXCEPT ![a] = "write"]
             /\ UNCHANGED <<req, granted>>
    <3>1. a # b
      BY <1>7, <2>2 DEF ReadExisting, IInv, Asked, Granting
    <3>2. pc[b] # "idle" /\ found'[b] = found[b]
      BY <1>1, <2>2, <3>1 DEF TypeOK
    <3>3. QED
      BY <1>2, <2>2, <3>2
  <2>3. QED
    BY <1>7, <2>1, <2>2 DEF ReadExisting
<1>8. ASSUME NEW a \in Admins, Write(a) PROVE Aims'
  <2>1. PICK removed \in SUBSET Grants, added \in SUBSET Grants :
            WrittenRows(a, removed, added)
    BY <1>8, WriteIsWritten
  <2>2. a # b /\ pc[b] # "idle" /\ req'[b] = req[b]
    BY <1>1, <2>1, FinishFrees DEF WrittenRows
  <2>3. found'[b] = found[b] \ removed
    BY <1>1, <2>1, <2>2 DEF WrittenRows, Forget
  <2>4. QED
    BY <1>1, <2>1, <2>2, <2>3 DEF WrittenRows
<1>9. ASSUME NEW a \in Admins, RollBack(a) PROVE Aims'
  BY <1>1, <1>4, <1>9 DEF RollBack, TypeOK
<1>10. ASSUME NEW r \in Reports, DeleteReport(r) PROVE Aims'
  <2>1. /\ pc[b] # "idle" /\ req'[b] = req[b]
        /\ found'[b] = {g \in found[b] : g[1] # r}
        /\ granted' = {g \in granted : g[1] # r}
    BY <1>10 DEF DeleteReport
  <2>2. QED
    BY <1>1, <2>1
<1>11. CASE UNCHANGED vars
  BY <1>2, <1>11 DEF vars
<1>12. QED
  BY <1>3, <1>5, <1>6, <1>7, <1>8, <1>9, <1>10, <1>11, StepCases

\* A request writes rows of a subject that exists, and of reports that do.
LEMMA StepOrphans == IInv /\ [Next]_vars => NoOrphans'
<1> SUFFICES ASSUME IInv, [Next]_vars PROVE NoOrphans'
  OBVIOUS
<1> USE DEF tables
<1>1. TypeOK /\ NoOrphans
  BY DEF IInv
<1>2. ASSUME UNCHANGED tables PROVE NoOrphans'
  BY <1>1, <1>2 DEF NoOrphans
<1>3. ASSUME NEW a \in Admins, Write(a) PROVE NoOrphans'
  <2>1. PICK removed \in SUBSET Grants, added \in SUBSET Grants :
            WrittenRows(a, removed, added)
    BY <1>3, WriteIsWritten
  <2>2. req[a].subject \in owners \cup Categories
    BY <2>1 DEF WrittenRows, IInv, Asked, Holding, Inside, Request, Subjects
  <2>3. \A g \in granted' : g[1] \in reports' /\ g[2] \in owners \cup Categories
    BY <1>1, <2>1, <2>2 DEF WrittenRows, NoOrphans
  <2>4. CASE UNCHANGED <<owners, menus>>
    BY <1>1, <2>3, <2>4 DEF NoOrphans
  <2>5. CASE SetMenuPermissions(a)
    <3>1. /\ UNCHANGED owners /\ req[a].subject \in Owners
          /\ menus' = [menus EXCEPT ![req[a].subject] = req[a].codes]
      BY <2>5 DEF SetMenuPermissions, Writes, IInv, Asked
    <3>2. req[a].subject \in owners
      BY <2>2, <3>1, ConstantsOK
    <3>3. QED
      BY <1>1, <2>3, <3>1, <3>2 DEF NoOrphans, TypeOK
  <2>6. CASE DeleteSubject(a)
    <3>1. /\ owners' = owners \ {req[a].subject} /\ req[a].subject \in Owners
          /\ menus' = [menus EXCEPT ![req[a].subject] = {}]
      BY <2>6 DEF DeleteSubject, Writes, IInv, Asked
    <3>2. granted' = {g \in granted : g[2] # req[a].subject}
      BY <2>6 DEF DeleteSubject, Commit, Insertable
    <3>3. \A g \in granted' : g[2] \in owners' \cup Categories
      BY <1>1, <3>1, <3>2 DEF NoOrphans
    <3>4. \A s \in Owners \ owners' : menus'[s] = {}
      BY <1>1, <3>1 DEF NoOrphans, TypeOK
    <3>5. QED
      BY <2>3, <3>3, <3>4 DEF NoOrphans
  <2>7. QED
    BY <1>3, <2>4, <2>5, <2>6 DEF Write, GrantPermissions, SetPermissions,
       RevokePermission
<1>4. ASSUME NEW r \in Reports, DeleteReport(r) PROVE NoOrphans'
  BY <1>1, <1>4 DEF DeleteReport, NoOrphans
<1>5. QED
  BY <1>2, <1>3, <1>4, StepCases DEF Submit, LockSubject, SkipLock,
     ReadExisting, RollBack, vars

\* The invariant: every reachable state satisfies it, for any sets of
\* subjects, reports, codes and requests.
THEOREM Invariance == Spec => []IInv
<1>1. IInv /\ [Next]_vars => IInv'
  BY StepTypes, StepControl, StepReads, StepTargets, StepOrphans DEF IInv
<1>2. QED
  BY <1>1, InitInvariant, PTL DEF Spec

-----------------------------------------------------------------------------
(***************************************************************************)
(* What follows from it                                                    *)
(***************************************************************************)

\* Every reachable state is well-typed.
THEOREM TypeCorrect == Spec => []TypeOK
BY Invariance, PTL DEF IInv

\* A grant under way never leaves rows of a subject or report deleted
\* meanwhile, although no foreign key leads to the subject.
THEOREM NothingIsOrphaned == Spec => []NoOrphans
BY Invariance, PTL DEF IInv

\* A code that implies VIEW is wanted together with VIEW.
LEMMA WantedWithView ==
    ASSUME NEW q, NEW x \in Wanted(q), x[3] \in Implying
    PROVE  <<x[1], x[2], View>> \in Wanted(q)
<1>1. x[1] \in q.reports /\ x[2] = q.subject /\ x[3] \in Normalized(q.codes)
  BY RowsAre DEF Wanted
<1>2. View \in Normalized(q.codes)
  BY <1>1, ConstantsOK DEF Normalized
<1>3. QED
  BY <1>1, <1>2 DEF Wanted, Rows

\* A grant that arrives in a user's or a group's rows brings its VIEW.
LEMMA StepKeepsView ==
    ASSUME IInv, [Next]_vars, NEW g \in granted' \ granted,
           g[2] \in Owners, g[3] \in Implying
    PROVE  <<g[1], g[2], View>> \in granted'
<1>1. PICK a \in Admins : Write(a)
  BY StepCases DEF Submit, LockSubject, SkipLock, ReadExisting, RollBack,
     DeleteReport, vars, tables
<1>2. ASSUME NEW removed, Writes(a, Granting),
             removed \cap Wanted(req[a]) = {},
             Commit(a, removed, Wanted(req[a]) \ found[a])
      PROVE  <<g[1], g[2], View>> \in granted'
  <2>1. /\ Insertable(removed, Wanted(req[a]) \ found[a])
        /\ granted' = (granted \ removed) \cup (Wanted(req[a]) \ found[a])
    BY <1>2 DEF Commit
  <2>2. g \in Wanted(req[a]) \ found[a]
    BY <2>1
  <2>3. g[1] \in reports /\ g[2] = req[a].subject
    BY <1>2, <2>1, <2>2, WantedInScope DEF Insertable, Writes
  <2>4. <<g[1], g[2], View>> \in Wanted(req[a])
    BY <2>2, WantedWithView
  <2>5. <<g[1], g[2], View>> \in granted \cup (Wanted(req[a]) \ found[a])
    BY <1>2, <2>3, <2>4, WantedInScope DEF IInv, Reads, Writes
  <2>6. QED
    BY <1>2, <2>1, <2>4, <2>5
<1>3. CASE GrantPermissions(a)
  BY <1>2, <1>3 DEF GrantPermissions, Writes, Granting
<1>4. CASE SetPermissions(a)
  BY <1>2, <1>4 DEF SetPermissions, Writes, Granting
<1>5. CASE RevokePermission(a) \/ SetMenuPermissions(a) \/ DeleteSubject(a)
  BY <1>5 DEF RevokePermission, SetMenuPermissions, DeleteSubject, Commit
<1>6. QED
  BY <1>1, <1>3, <1>4, <1>5 DEF Write

\* No grant to a user or a group ends with a code whose VIEW is missing.
THEOREM GrantsKeepView == Spec => GrantKeepsView
<1>1. IInv /\ [Next]_vars =>
        [\A g \in granted' \ granted :
           g[2] \in Owners /\ g[3] \in Implying =>
             <<g[1], g[2], View>> \in granted']_vars
  BY StepKeepsView
<1>2. QED
  BY <1>1, Invariance, PTL DEF Spec, GrantKeepsView

-----------------------------------------------------------------------------
(***************************************************************************)
(* The administration implements the ledger                                *)
(***************************************************************************)

\* The ledger speaks of the same rows and codes.
LEMMA SameRows ==
    /\ Ledger!Codes = Codes
    /\ \A cs : Ledger!Complete(cs) = Normalized(cs)
    /\ \A rs, s, cs : Ledger!Rows(rs, s, cs) = Rows(rs, s, cs)
BY DEF Ledger!Codes, Codes, Ledger!Complete, Normalized, Ledger!Rows, Rows

\* The rows a request wants in the reports that are still there.
Standing(q) == Rows(q.reports \cap reports, q.subject, Normalized(q.codes))

LEMMA StandingRows ==
    ASSUME NEW q, NEW x
    PROVE  x \in Standing(q) <=> x \in Wanted(q) /\ x[1] \in reports
BY RowsAre DEF Standing, Wanted

\* A transaction that commits leaves what was asked for of the reports that
\* are still there.
LEMMA CommittedRows ==
    ASSUME IInv, NEW a \in Admins, Writes(a, Granting),
           NEW removed, Insertable(removed, Wanted(req[a]) \ found[a])
    PROVE  /\ Wanted(req[a]) \ found[a] \subseteq Standing(req[a])
           /\ req[a].subject \in Owners =>
                 Standing(req[a]) \subseteq granted \cup (Wanted(req[a]) \ found[a])
<1>1. pc[a] = "write" /\ req[a].op \in Granting
  BY DEF Writes
<1>2. Wanted(req[a]) \ found[a] \subseteq Standing(req[a])
  BY StandingRows DEF Insertable
<1>3. ASSUME req[a].subject \in Owners, NEW x \in Standing(req[a])
      PROVE  x \in granted \cup (Wanted(req[a]) \ found[a])
  BY <1>1, <1>3, StandingRows, WantedInScope DEF IInv, Reads
<1>4. QED
  BY <1>2, <1>3

LEMMA InitLedger == Init => Ledger!Init
BY DEF Init, Ledger!Init

\* A grant shows as one grant of all its rows, or to a role or a department
\* as some of them.
LEMMA GrantIsLedger ==
    ASSUME IInv, NEW a \in Admins, GrantPermissions(a)
    PROVE  [Ledger!Next]_Ledger!ledger
<1> DEFINE s == req[a].subject
           rs == req[a].reports \cap reports
           cs == req[a].codes
<1>1. /\ Writes(a, Granting) /\ UNCHANGED <<menus, owners, reports>>
      /\ Commit(a, {}, Wanted(req[a]) \ found[a])
  BY DEF GrantPermissions, Writes, Granting, Commit
<1>2. cs \in SUBSET Codes /\ s \in Subjects /\ rs \in SUBSET reports
  BY <1>1 DEF Writes, IInv, Asked, Request
<1>3. CASE granted' = granted
  BY <1>1, <1>3 DEF Ledger!ledger
<1>4. CASE /\ Insertable({}, Wanted(req[a]) \ found[a])
           /\ granted' = granted \cup (Wanted(req[a]) \ found[a])
  <2>1. Wanted(req[a]) \ found[a] \subseteq Ledger!Rows(rs, s, Ledger!Complete(cs))
    BY <1>1, <1>4, CommittedRows, SameRows DEF Standing
  <2>2. CASE s \in Owners
    <3>1. s \in owners
      BY <1>1, <2>2 DEF Writes, IInv, Holding, Inside
    <3>2. granted' = granted \cup Ledger!Rows(rs, s, Ledger!Complete(cs))
      BY <1>1, <1>4, <2>1, <2>2, CommittedRows, SameRows DEF Standing
    <3>3. Ledger!Grant(s, rs, cs)
      BY <1>1, <3>2 DEF Ledger!Grant
    <3>4. QED
      BY <1>2, <3>1, <3>3, SameRows DEF Ledger!Next
  <2>3. CASE s \in Categories
    <3>1. Ledger!GrantPartly(s, rs, cs)
      BY <1>1, <1>4, <2>1 DEF Ledger!GrantPartly
    <3>2. QED
      BY <1>2, <2>3, <3>1, SameRows DEF Ledger!Next
  <2>4. QED
    BY <1>2, <2>2, <2>3 DEF Subjects
<1>5. QED
  BY <1>1, <1>3, <1>4 DEF Commit

\* A replacement leaves exactly the rows it asks for.
LEMMA SetIsLedger ==
    ASSUME IInv, NEW a \in Admins, SetPermissions(a)
    PROVE  [Ledger!Next]_Ledger!ledger
<1> DEFINE s == req[a].subject
           rs == req[a].reports \cap reports
           cs == req[a].codes
           added == Wanted(req[a]) \ found[a]
           removed == (granted \cap Scope(req[a])) \ Wanted(req[a])
<1>1. /\ Writes(a, Granting) /\ UNCHANGED <<menus, owners, reports>>
      /\ Commit(a, removed, added)
  BY DEF SetPermissions, Writes, Granting, Commit
<1>2. cs \in SUBSET Codes /\ s \in Owners /\ rs \in SUBSET reports
  BY DEF SetPermissions, Writes, Granting, IInv, Asked
<1>3. s \in owners
  BY <1>1, <1>2 DEF Writes, IInv, Holding, Inside
<1>4. CASE granted' = granted
  BY <1>1, <1>4 DEF Ledger!ledger
<1>5. CASE /\ Insertable(removed, added)
           /\ granted' = (granted \ removed) \cup added
  <2>1. /\ added \subseteq Standing(req[a])
        /\ Standing(req[a]) \subseteq granted \cup added
        /\ Standing(req[a]) \cap removed = {}
    BY <1>1, <1>2, <1>5, CommittedRows, StandingRows
  <2>2. ASSUME NEW x \in granted
        PROVE  /\ x \in Scope(req[a]) <=> x \in Rows(rs, s, Codes)
               /\ x \in removed <=>
                    x \in Rows(rs, s, Codes) /\ x \notin Standing(req[a])
    <3>1. x[1] \in reports
      BY <2>2 DEF IInv, NoOrphans
    <3>2. QED
      BY <2>2, <3>1, RowsAre, StandingRows DEF Scope
  <2>3. granted' = (granted \ Rows(rs, s, Codes)) \cup Standing(req[a])
    BY <1>5, <2>1, <2>2
  <2>4. Ledger!Replace(s, rs, cs)
    BY <1>1, <2>3, SameRows DEF Ledger!Replace, Standing
  <2>5. QED
    BY <1>2, <1>3, <2>4, SameRows DEF Ledger!Next
<1>6. QED
  BY <1>1, <1>4, <1>5 DEF Commit

\* The other requests show as what they are.
LEMMA StepLedger == IInv /\ [Next]_vars => [Ledger!Next]_Ledger!ledger
<1> SUFFICES ASSUME IInv, [Next]_vars PROVE [Ledger!Next]_Ledger!ledger
  OBVIOUS
<1> USE DEF tables
<1>1. ASSUME UNCHANGED tables PROVE [Ledger!Next]_Ledger!ledger
  BY <1>1 DEF Ledger!ledger
<1>2. ASSUME NEW a \in Admins, RevokePermission(a)
      PROVE  [Ledger!Next]_Ledger!ledger
  <2>1. /\ UNCHANGED <<menus, owners, reports>>
        /\ granted' = granted \/ granted' = granted \ found[a]
    BY <1>2 DEF RevokePermission, Commit
  <2>2. /\ found[a] \subseteq granted
        /\ \A x, y \in found[a] : x = y
    BY <1>2 DEF RevokePermission, Writes, IInv, Targets
  <2>3. CASE granted' = granted
    BY <1>1, <2>1, <2>3
  <2>4. CASE granted' = granted \ found[a] /\ granted' # granted
    <3>1. PICK g \in found[a] : found[a] = {g}
      BY <2>2, <2>4
    <3>2. Ledger!Revoke(g) /\ g \in granted
      BY <2>1, <2>2, <2>4, <3>1 DEF Ledger!Revoke
    <3>3. QED
      BY <3>2 DEF Ledger!Next
  <2>5. QED
    BY <2>1, <2>3, <2>4
<1>3. ASSUME NEW a \in Admins, SetMenuPermissions(a)
      PROVE  [Ledger!Next]_Ledger!ledger
  <2>1. /\ req[a].subject \in owners /\ req[a].codes \in SUBSET MenuKeys
    BY <1>3 DEF SetMenuPermissions, Writes, IInv, Asked, Holding, Inside
  <2>2. Ledger!SetMenus(req[a].subject, req[a].codes)
    BY <1>3 DEF SetMenuPermissions, Commit, Ledger!SetMenus
  <2>3. QED
    BY <2>1, <2>2 DEF Ledger!Next
<1>4. ASSUME NEW a \in Admins, DeleteSubject(a)
      PROVE  [Ledger!Next]_Ledger!ledger
  <2>1. req[a].subject \in owners
    BY <1>4 DEF DeleteSubject, Writes, IInv, Asked, Holding, Inside
  <2>2. granted' = granted \ {g \in granted : g[2] = req[a].subject}
    BY <1>4 DEF DeleteSubject, Commit, Insertable
  <2>3. granted \subseteq Grants
    BY DEF IInv, TypeOK
  <2>4. granted' = granted \ Rows(Reports, req[a].subject, Codes)
    BY <2>2, <2>3, RowsAre, GrantsAre
  <2>5. Ledger!RemoveOwner(req[a].subject)
    BY <1>4, <2>4, SameRows DEF DeleteSubject, Commit, Ledger!RemoveOwner
  <2>6. QED
    BY <2>1, <2>5 DEF Ledger!Next
<1>5. ASSUME NEW r \in Reports, DeleteReport(r)
      PROVE  [Ledger!Next]_Ledger!ledger
  BY <1>5 DEF DeleteReport, Ledger!RemoveReport, Ledger!Next
<1>6. ASSUME NEW a \in Admins, Write(a) PROVE [Ledger!Next]_Ledger!ledger
  BY <1>2, <1>3, <1>4, <1>6, GrantIsLedger, SetIsLedger DEF Write
<1>7. QED
  BY <1>1, <1>5, <1>6, StepCases DEF Submit, LockSubject, SkipLock,
     ReadExisting, RollBack, vars

\* Every behaviour of the administration is one of the ledger: the requests
\* for a user or a group take effect one at a time, whole or not at all.
THEOREM PermissionsImplementLedger == Spec => LedgerSpec
<1>1. Init => Ledger!Init
  BY InitLedger
<1>2. IInv /\ [Next]_vars => [Ledger!Next]_Ledger!ledger
  BY StepLedger
<1>3. QED
  BY <1>1, <1>2, Invariance, PTL DEF Spec, LedgerSpec, Ledger!Spec

-----------------------------------------------------------------------------
(* The menus of a subject.                                                 *)

\* A menu list is told from none.
MenuConstants == Unset \notin SUBSET Menus

\* The list that a request stores differs from the one it was made from in the
\* menus it is about.
TaskMade(t) ==
  \/ t.what = "set" /\ t.keys \in SUBSET Menus /\ t.base \in SUBSET Menus
  \/ /\ t.what \in {"revoke", "grant"} /\ t.menu \in Menus
     /\ t.keys # Unset => t.base \in SUBSET Menus /\ t.keys = Changed(t, t.base)

MenusIInv == MenusTypeOK /\ (\A t \in tasks : TaskMade(t)) /\ MenusAsAsked

\* A request leaves the menus it is not about as it found them.
LEMMA OthersStay ==
  ASSUME NEW t, TaskMade(t), t.keys # Unset, NEW x, ~Concerns(t, x)
  PROVE  x \in t.keys <=> x \in t.base
BY DEF TaskMade, Concerns, Changed

\* A claim that is carried over to a stored list is true of it.
LEMMA ClaimsHold ==
  ASSUME MenusIInv, NEW t \in tasks, t.keys # Unset, NEW acknowledged \in BOOLEAN,
         claim' = Claims(t, acknowledged),
         \/ assigned' = t.keys
         \/ assigned' = assigned /\ ~acknowledged
  PROVE  MenusAsAsked'
<1> SUFFICES ASSUME NEW x \in Menus, claim'[x] # Unset
             PROVE  claim'[x] = (x \in assigned')
  BY DEF MenusAsAsked
<1>1. claim'[x] = IF Concerns(t, x) THEN (IF acknowledged THEN x \in t.keys ELSE Unset)
                  ELSE IF t.base = assigned THEN claim[x] ELSE Unset
  BY DEF Claims
<1>2. CASE Concerns(t, x)
  <2>1. acknowledged /\ claim'[x] = (x \in t.keys)
    BY <1>1, <1>2
  <2>2. QED
    BY <2>1
<1>3. CASE ~Concerns(t, x)
  <2>1. t.base = assigned /\ claim'[x] = claim[x]
    BY <1>1, <1>3
  <2>2. claim[x] = (x \in assigned)
    BY <2>1 DEF MenusIInv, MenusAsAsked
  <2>3. x \in t.keys <=> x \in t.base
    BY <1>3, OthersStay DEF MenusIInv
  <2>4. x \in assigned' <=> x \in assigned
    BY <2>1, <2>3
  <2>5. (x \in assigned') = (x \in assigned)
    BY <2>4
  <2>6. QED
    BY <2>1, <2>2, <2>5, Zenon
<1>4. QED
  BY <1>2, <1>3

\* What a request that is carried out leaves is typed.
LEMMA StoredTyped ==
  ASSUME MenuConstants, MenusIInv, NEW t \in tasks, t.keys # Unset, Stores(t)
  PROVE  /\ assigned' \subseteq Menus
         /\ \A acknowledged \in BOOLEAN : Claims(t, acknowledged) \in [Menus -> BOOLEAN \cup {Unset}]
<1>1. t.keys \in SUBSET Menus
  <2>1. TaskMade(t)
    BY DEF MenusIInv
  <2>2. QED
    BY <2>1 DEF TaskMade, Changed
<1>2. assigned' \subseteq Menus
  BY <1>1 DEF Stores, MenusIInv, MenusTypeOK
<1>3. ASSUME NEW acknowledged \in BOOLEAN
      PROVE  Claims(t, acknowledged) \in [Menus -> BOOLEAN \cup {Unset}]
  <2>1. ASSUME NEW x \in Menus
        PROVE  (IF Concerns(t, x) THEN (IF acknowledged THEN x \in t.keys ELSE Unset)
                ELSE IF t.base = assigned THEN claim[x] ELSE Unset) \in BOOLEAN \cup {Unset}
    <3>1. claim[x] \in BOOLEAN \cup {Unset}
      BY DEF MenusIInv, MenusTypeOK
    <3>2. (x \in t.keys) \in BOOLEAN
      OBVIOUS
    <3>3. QED
      BY <3>1, <3>2, Zenon
  <2>2. QED
    BY <2>1 DEF Claims
<1>4. QED
  BY <1>2, <1>3

\* A request that is asked for is typed, and made from the draft or from nothing.
LEMMA AskKeeps ==
  ASSUME MenuConstants, MenusIInv, NEW t, AskTask(t), t \in Task, TaskMade(t)
  PROVE  MenusIInv'
BY DEF MenusIInv, MenusTypeOK, MenusAsAsked, AskTask, TaskMade, Changed, Draft, Task

\* What an earlier panel has asked stays what it was.
LEMMA ReopenKeeps == ASSUME MenusIInv, Reopen PROVE MenusIInv'
<1>0. /\ MenusTypeOK /\ MenusAsAsked /\ \A t \in tasks : t \in Task /\ TaskMade(t)
      /\ draft' = Unset /\ UNCHANGED <<assigned, seen, claim>>
      /\ tasks' = {[t EXCEPT !.here = FALSE] : t \in tasks}
  BY DEF MenusIInv, MenusTypeOK, Reopen
<1>1. ASSUME NEW t \in tasks
      PROVE  [t EXCEPT !.here = FALSE] \in Task /\ TaskMade([t EXCEPT !.here = FALSE])
  <2> DEFINE u == [t EXCEPT !.here = FALSE]
  <2>1. /\ u \in Task /\ u.what = t.what /\ u.menu = t.menu
        /\ u.keys = t.keys /\ u.base = t.base
    BY <1>0 DEF Task
  <2>2. \A set : Changed(u, set) = Changed(t, set)
    BY <2>1 DEF Changed
  <2> HIDE DEF u
  <2>3. u \in Task /\ TaskMade(u)
    BY <1>0, <2>1, <2>2 DEF TaskMade
  <2>4. QED
    BY <2>3 DEF u
<1>2. \A u \in tasks' : u \in Task /\ TaskMade(u)
  BY <1>0, <1>1
<1>3. MenusTypeOK' /\ MenusAsAsked'
  BY <1>0, <1>2 DEF MenusTypeOK, MenusAsAsked
<1>4. QED
  BY <1>2, <1>3 DEF MenusIInv, TaskMade, Changed

\* A draft is a list of menus.
LEMMA DraftKeeps == ASSUME MenusIInv, NEW x \in Menus, ToggleMenu(x) PROVE MenusIInv'
<1>1. /\ Checked \in SUBSET Menus
      /\ (IF draft = Unset THEN seen ELSE draft.base) \in SUBSET Menus
  BY DEF ToggleMenu, MenusIInv, MenusTypeOK, Checked, Draft
<1>2. Flip(Checked, x) \in SUBSET Menus
  BY <1>1 DEF Flip
<1>3. draft' \in Draft
  BY <1>1, <1>2 DEF ToggleMenu, Draft
<1>4. UNCHANGED <<assigned, seen, tasks, claim>>
  BY DEF ToggleMenu
<1>5. QED
  BY <1>3, <1>4 DEF MenusIInv, MenusTypeOK, MenusAsAsked, TaskMade, Changed

\* One request is taken out, and at most one put in its place.
LEMMA TaskKeeps ==
  ASSUME MenuConstants, MenusIInv, NEW t \in tasks, ReadCurrent(t) \/ Written(t) \/ TaskFails(t)
  PROVE  MenusIInv'
<1>0. /\ MenusTypeOK /\ MenusAsAsked /\ t \in Task /\ TaskMade(t)
      /\ \A u \in tasks : TaskMade(u)
  BY DEF MenusIInv, MenusTypeOK
<1>1. CASE ReadCurrent(t)
  <2> DEFINE u == [t EXCEPT !.keys = Changed(t, assigned), !.base = assigned]
  <2>1. t.what \in {"revoke", "grant"} /\ t.menu \in Menus /\ t.keys = Unset
    BY <1>0, <1>1 DEF ReadCurrent, TaskMade, MenuConstants
  <2>2. assigned \in SUBSET Menus
    BY <1>0 DEF MenusTypeOK
  <2>3. Changed(t, assigned) \in SUBSET Menus
    BY <2>1, <2>2 DEF Changed
  <2>4. /\ u \in Task /\ u.what = t.what /\ u.menu = t.menu
        /\ u.keys = Changed(t, assigned) /\ u.base = assigned
    BY <1>0, <2>2, <2>3 DEF Task
  <2>5. Changed(u, assigned) = Changed(t, assigned)
    BY <2>4 DEF Changed
  <2> HIDE DEF u
  <2>6. TaskMade(u)
    BY <2>1, <2>2, <2>4, <2>5 DEF TaskMade
  <2>7. /\ tasks' = (tasks \ {t}) \cup {u}
        /\ UNCHANGED <<assigned, seen, draft, claim>>
    BY <1>1 DEF ReadCurrent, u
  <2>8. \A w \in tasks' : w \in Task /\ TaskMade(w)
    BY <1>0, <2>4, <2>6, <2>7 DEF MenusTypeOK
  <2>9. MenusTypeOK' /\ MenusAsAsked'
    BY <1>0, <2>7, <2>8 DEF MenusTypeOK, MenusAsAsked
  <2>10. QED
    BY <2>8, <2>9 DEF MenusIInv, TaskMade, Changed
<1>2. ASSUME tasks' = tasks \ {t}, UNCHANGED seen, draft' = Unset \/ draft' = draft,
             assigned' \subseteq Menus, claim' \in [Menus -> BOOLEAN \cup {Unset}],
             MenusAsAsked'
      PROVE  MenusIInv'
  <2>1. MenusTypeOK'
    BY <1>0, <1>2 DEF MenusTypeOK
  <2>2. \A u \in tasks' : TaskMade(u)
    BY <1>0, <1>2
  <2>3. QED
    BY <1>2, <2>1, <2>2 DEF MenusIInv, TaskMade, Changed
<1>3. ASSUME UNCHANGED <<assigned, claim>> PROVE MenusAsAsked' /\ assigned' \subseteq Menus
                                                /\ claim' \in [Menus -> BOOLEAN \cup {Unset}]
  BY <1>0, <1>3 DEF MenusAsAsked, MenusTypeOK
<1>4. CASE Written(t)
  <2>1. /\ t.keys # Unset /\ Stores(t) /\ Claimed(t) /\ tasks' = tasks \ {t} /\ UNCHANGED seen
        /\ draft' = Unset \/ draft' = draft
    BY <1>4 DEF Written
  <2>2. CASE t.what = "grant" /\ t.menu \in t.base
    <3>1. UNCHANGED <<assigned, claim>>
      BY <2>1, <2>2 DEF Stores, Claimed
    <3>2. QED
      BY <1>2, <1>3, <2>1, <3>1
  <2>3. CASE ~(t.what = "grant" /\ t.menu \in t.base)
    <3>1. assigned' = t.keys /\ claim' = Claims(t, TRUE)
      BY <2>1, <2>3 DEF Stores, Claimed
    <3>2. MenusAsAsked'
      BY <2>1, <3>1, ClaimsHold
    <3>3. assigned' \subseteq Menus /\ claim' \in [Menus -> BOOLEAN \cup {Unset}]
      BY <2>1, <3>1, StoredTyped
    <3>4. QED
      BY <1>2, <2>1, <3>2, <3>3
  <2>4. QED
    BY <2>2, <2>3
<1>5. CASE TaskFails(t)
  <2>1. tasks' = tasks \ {t} /\ UNCHANGED <<seen, draft>>
    BY <1>5 DEF TaskFails
  <2>2. CASE UNCHANGED <<assigned, claim>>
    BY <1>2, <1>3, <2>1, <2>2
  <2>3. CASE t.keys # Unset /\ Stores(t) /\ claim' = Claims(t, FALSE)
    <3>1. assigned' = t.keys \/ assigned' = assigned
      BY <2>3 DEF Stores
    <3>2. MenusAsAsked'
      BY <2>3, <3>1, ClaimsHold
    <3>3. assigned' \subseteq Menus /\ claim' \in [Menus -> BOOLEAN \cup {Unset}]
      BY <2>3, StoredTyped
    <3>4. QED
      BY <1>2, <2>1, <3>2, <3>3
  <2>4. QED
    BY <1>5, <2>2, <2>3 DEF TaskFails
<1>6. QED
  BY <1>1, <1>4, <1>5

\* Requests under way were made from what they say, and what was answered holds,
\* for any menus and any number of requests at a time.
THEOREM MenusInvariance == ASSUME MenuConstants PROVE MenusSpec => []MenusIInv
<1>1. MenusInit => MenusIInv
  BY DEF MenusInit, MenusIInv, MenusTypeOK, MenusAsAsked
<1>2. MenusIInv /\ [MenusNext]_menuVars => MenusIInv'
  <2> SUFFICES ASSUME MenusIInv, [MenusNext]_menuVars PROVE MenusIInv'
    OBVIOUS
  <2>0. MenusTypeOK /\ MenusAsAsked /\ \A t \in tasks : TaskMade(t)
    BY DEF MenusIInv
  <2>1. ASSUME UNCHANGED <<assigned, tasks, claim>>, seen' = seen \/ seen' = assigned,
               draft' = draft \/ draft' = Unset
        PROVE  MenusIInv'
    BY <2>0, <2>1 DEF MenusIInv, MenusTypeOK, MenusAsAsked, TaskMade, Changed
  <2>2. CASE ReadList \/ Cancel \/ UNCHANGED menuVars
    BY <2>1, <2>2 DEF ReadList, Cancel, menuVars
  <2>3. CASE SaveMenu
    <3> DEFINE t == [what |-> "set", menu |-> Unset, here |-> TRUE, keys |-> draft.keys, base |-> draft.base]
    <3>1. draft.keys \in SUBSET Menus /\ draft.base \in SUBSET Menus
      BY <2>0, <2>3 DEF SaveMenu, MenusTypeOK, Draft
    <3>2. t \in Task /\ TaskMade(t)
      BY <3>1 DEF Task, TaskMade
    <3>3. AskTask(t)
      BY <2>3 DEF SaveMenu
    <3>4. QED
      BY <3>2, <3>3, AskKeeps
  <2>4. ASSUME NEW x \in Menus, Revoke(x) \/ Grant(x) PROVE MenusIInv'
    <3> DEFINE t(w, h) == [what |-> w, menu |-> x, here |-> h, keys |-> Unset, base |-> Unset]
    <3>1. PICK w \in {"revoke", "grant"}, h \in BOOLEAN : AskTask(t(w, h))
      BY <2>4 DEF Revoke, Grant
    <3>2. t(w, h) \in Task /\ TaskMade(t(w, h))
      BY DEF Task, TaskMade
    <3> HIDE DEF t
    <3>3. QED
      BY <3>1, <3>2, AskKeeps
  <2>5. ASSUME NEW keys \in SUBSET Menus, Elsewhere(keys) PROVE MenusIInv'
    <3>1. /\ assigned' = keys /\ claim' = [x \in Menus |-> Unset]
          /\ UNCHANGED <<seen, draft, tasks>>
      BY <2>5 DEF Elsewhere
    <3>2. MenusTypeOK'
      BY <2>0, <3>1 DEF MenusTypeOK
    <3>3. MenusAsAsked'
      BY <3>1 DEF MenusAsAsked
    <3>4. QED
      BY <2>0, <3>1, <3>2, <3>3 DEF MenusIInv, TaskMade, Changed
  <2>6. QED
    BY <2>2, <2>3, <2>4, <2>5, DraftKeeps, TaskKeeps, ReopenKeeps DEF MenusNext
<1>3. QED
  BY <1>1, <1>2, PTL DEF MenusSpec

\* What the server has answered of a menu holds.
THEOREM MenusHold == ASSUME MenuConstants PROVE MenusSpec => []MenusAsAsked
<1>1. MenusIInv => MenusAsAsked
  BY DEF MenusIInv
<1>2. QED
  BY <1>1, MenusInvariance, PTL

-----------------------------------------------------------------------------
(* The reports of a subject.                                               *)

\* What a selection, or a request made from it, would store of these reports.
Chosen(rs, ps) == rs \X Normal(ps)

GrantsTyped ==
  /\ kind \in {"user", "group"}
  /\ held \subseteq Pairs /\ known \subseteq Pairs /\ old \subseteq known /\ gone \subseteq Pairs
  /\ picked \subseteq Selectable /\ perms \subseteq Permissions
  /\ work \in Work \cup {Idle} /\ left \subseteq Work

\* Nothing that was revoked is selected, or asked for by the request of the panel that
\* is open.
NotSelected  == gone \cap Chosen(picked, perms) = {}
NotRequested ==
  work # Idle /\ work.what = "apply" => gone \cap Chosen(work.reports, work.perms) = {}

GrantsIInv == GrantsTyped /\ RevokedStaysRevoked /\ NotSelected /\ NotRequested

\* normalize_grant_codes adds the VIEW that DOWNLOAD needs, and nothing else.
LEMMA NormalGrows ==
  ASSUME NEW ps \in SUBSET Permissions
  PROVE  /\ Normal(ps) \in SUBSET Permissions
         /\ \A qs \in SUBSET ps : Normal(qs) \subseteq Normal(ps)
         /\ \A p \in Permissions : Normal(ps \cup {p}) = Normal(ps) \cup Normal({p})
BY DEF Normal, Permissions

\* Only what is revoked in place of a selection that is cleared comes to gone.
LEMMA SelectionKeeps ==
  ASSUME GrantsIInv, gone' \subseteq gone, UNCHANGED <<kind, held, known, old, work, left>>,
         picked' \subseteq Selectable, perms' \subseteq Permissions, NotSelected'
  PROVE  GrantsIInv'
BY DEF GrantsIInv, GrantsTyped, RevokedStaysRevoked, NotRequested, Chosen, Normal

\* A selection is made.
LEMMA SelectKeeps == ASSUME GrantsIInv, NEW next \in SUBSET Selectable, Select(next) PROVE GrantsIInv'
<1>1. Offer(next) \subseteq Permissions
  BY DEF Offer, Permissions
<1>2. /\ gone' = gone \ Chosen(next, Offer(next)) /\ picked' = next /\ perms' = Offer(next)
      /\ UNCHANGED <<kind, held, known, old, work, left>>
  BY DEF Select, Chosen
<1>3. NotSelected'
  BY <1>2 DEF NotSelected, Chosen, Normal
<1>4. QED
  BY <1>1, <1>2, <1>3, SelectionKeeps

\* A permission is checked or unchecked.
LEMMA ToggleKeeps == ASSUME GrantsIInv, NEW p \in Permissions, TogglePerm(p) PROVE GrantsIInv'
<1>0. perms \in SUBSET Permissions /\ picked \subseteq Selectable /\ NotSelected
  BY DEF GrantsIInv, GrantsTyped
<1>1. /\ UNCHANGED <<kind, held, known, old, picked, work, left>>
      /\ perms' = IF p \in perms THEN perms \ {p} ELSE perms \cup {p}
      /\ gone' = IF p \in perms THEN gone ELSE gone \ Chosen(picked, {p})
  BY DEF TogglePerm, Chosen
<1>2. perms' \subseteq Permissions /\ gone' \subseteq gone
  BY <1>0, <1>1
<1>3. Chosen(picked, perms)' = picked \X Normal(perms')
  BY <1>1 DEF Chosen, Normal
<1>4. NotSelected'
  <2>1. CASE p \in perms
    <3>1. Normal(perms') \subseteq Normal(perms) /\ gone' = gone
      BY <1>0, <1>1, <2>1, NormalGrows
    <3>2. QED
      BY <1>0, <1>3, <3>1 DEF NotSelected, Chosen
  <2>2. CASE p \notin perms
    <3>1. Normal(perms') = Normal(perms) \cup Normal({p}) /\ gone' = gone \ (picked \X Normal({p}))
      BY <1>0, <1>1, <2>2, NormalGrows DEF Chosen
    <3>2. QED
      BY <1>0, <1>3, <3>1 DEF NotSelected, Chosen
  <2>3. QED
    BY <2>1, <2>2
<1>5. QED
  BY <1>0, <1>1, <1>2, <1>4, SelectionKeeps

\* A request brings back nothing that was revoked but what it asks for.
LEMMA AfterIsClear ==
  ASSUME GrantsIInv, NEW w \in Work
  PROVE  /\ After(w) \subseteq Pairs /\ Named(w) \subseteq Pairs
         /\ gone \cap After(w) \subseteq Gives(w)
<1>0. GrantsTyped /\ RevokedStaysRevoked
  BY DEF GrantsIInv
<1>1. Named(w) \subseteq Pairs
  BY DEF Named, Pairs, Work
<1>2. Gives(w) \subseteq Pairs
  BY NormalGrows DEF Gives, Pairs, Work
<1>3. QED
  BY <1>0, <1>1, <1>2 DEF After, GrantsTyped, RevokedStaysRevoked

\* A request keeps its kind and what it names, whatever rows go.
LEMMA KeptSame ==
  ASSUME NEW w \in Work \cup {Idle}, NEW set
  PROVE  /\ Kept(w, set) \in Work \cup {Idle}
         /\ w = Idle => Kept(w, set) = Idle
         /\ w # Idle /\ w.what = "apply" => Kept(w, set) = w
         /\ w # Idle /\ w.what = "revoke" => Kept(w, set).what = "revoke"
BY DEF Kept, Work

\* The server stores a set that has nothing of what was revoked.
LEMMA HoldKeeps ==
  ASSUME GrantsIInv, NEW set \in SUBSET Pairs, NEW others \in SUBSET left, Hold(set, others),
         gone' \subseteq gone, gone' \cap set = {},
         UNCHANGED <<kind, known, picked, perms>>, work' = Kept(work, set)
  PROVE  GrantsIInv'
<1>1. /\ held' = set /\ old' = old \cup (known \ set) /\ left' \subseteq left
      /\ GrantsTyped
  BY DEF Hold, GrantsIInv
<1>2. work' \in Work \cup {Idle}
  BY <1>1, KeptSame DEF GrantsTyped
<1>3. GrantsTyped'
  BY <1>1, <1>2 DEF GrantsTyped
<1>4. RevokedStaysRevoked'
  BY <1>1 DEF RevokedStaysRevoked
<1>5. NotSelected'
  BY DEF GrantsIInv, NotSelected, Chosen, Normal
<1>6. NotRequested'
  <2>1. work' # Idle /\ work'.what = "apply" => work # Idle /\ work' = work
    BY <1>1, KeptSame DEF GrantsTyped, Work
  <2>2. NotRequested
    BY DEF GrantsIInv
  <2>3. QED
    BY <2>1, <2>2 DEF NotRequested, Chosen, Normal
<1>7. QED
  BY <1>3, <1>4, <1>5, <1>6 DEF GrantsIInv

\* The answer clears the selection; what it revoked is what comes to gone.
LEMMA DoneKeeps == ASSUME GrantsIInv, Done PROVE GrantsIInv'
<1>0. /\ GrantsTyped /\ work \in Work /\ NotRequested /\ work # Idle
  BY DEF GrantsIInv, GrantsTyped, Done
<1>1. /\ held' = After(work) /\ old' = old \cup (known \ After(work)) /\ work' = Idle
      /\ picked' = {} /\ perms' = {"VIEW"} /\ left' \subseteq left
      /\ gone' = IF work.what = "revoke" THEN gone \cup (Named(work) \ After(work)) ELSE gone
      /\ UNCHANGED <<kind, known>>
  BY DEF Done, Hold, Clear
<1>2. gone \cap Gives(work) = {}
  BY <1>0 DEF NotRequested, Chosen, Gives
<1>3. /\ After(work) \subseteq Pairs /\ Named(work) \subseteq Pairs
      /\ gone \cap After(work) = {}
  BY <1>0, <1>2, AfterIsClear
<1>4. gone' \subseteq Pairs /\ gone' \cap held' = {}
  BY <1>0, <1>1, <1>3 DEF GrantsTyped
<1>5. GrantsTyped'
  <2>1. kind' \in {"user", "group"} /\ held' \subseteq Pairs /\ known' \subseteq Pairs
    BY <1>0, <1>1, <1>3 DEF GrantsTyped
  <2>2. old' \subseteq known' /\ perms' \subseteq Permissions
    BY <1>0, <1>1 DEF GrantsTyped, Permissions
  <2>3. QED
    BY <1>0, <1>1, <1>4, <2>1, <2>2 DEF GrantsTyped
<1>6. NotSelected' /\ NotRequested'
  BY <1>1 DEF NotSelected, NotRequested, Chosen
<1>7. QED
  BY <1>4, <1>5, <1>6 DEF GrantsIInv, RevokedStaysRevoked

\* The panel takes no answer any more, and maybe selects nothing.
LEMMA LeftBehindKeeps ==
  ASSUME GrantsIInv, UNCHANGED <<kind, held, known, old, gone>>,
         \/ UNCHANGED <<picked, perms>>
         \/ Clear,
         \/ UNCHANGED <<work, left>>
         \/ work # Idle /\ work' = Idle /\ left' \subseteq left \cup {work}
  PROVE  GrantsIInv'
<1>0. GrantsTyped /\ RevokedStaysRevoked /\ NotSelected /\ NotRequested
  BY DEF GrantsIInv
<1>1. picked' \subseteq Selectable /\ perms' \subseteq Permissions
  BY <1>0 DEF GrantsTyped, Clear, Permissions
<1>2. work' \in Work \cup {Idle} /\ left' \subseteq Work
  BY <1>0 DEF GrantsTyped
<1>3. GrantsTyped'
  BY <1>0, <1>1, <1>2 DEF GrantsTyped
<1>4. RevokedStaysRevoked'
  BY <1>0 DEF RevokedStaysRevoked
<1>5. NotSelected'
  BY <1>0 DEF NotSelected, Chosen, Normal, Clear
<1>6. NotRequested'
  BY <1>0 DEF NotRequested, Chosen, Normal
<1>7. QED
  BY <1>3, <1>4, <1>5, <1>6 DEF GrantsIInv

\* What an earlier panel has asked for is asked for anew when the server does it.
LEMMA LeftDoneKeeps ==
  ASSUME GrantsIInv, NEW w \in left, LeftDone(w) \/ LeftFails(w) PROVE GrantsIInv'
<1>0. w \in Work /\ left \ {w} \in SUBSET left
  BY DEF GrantsIInv, GrantsTyped
<1>1. CASE LeftDone(w)
  <2>1. After(w) \in SUBSET Pairs /\ gone \cap After(w) \subseteq Gives(w)
    BY <1>0, AfterIsClear
  <2>2. /\ Hold(After(w), left \ {w}) /\ work' = Kept(work, After(w))
        /\ gone' = gone \ Gives(w) /\ UNCHANGED <<kind, known, picked, perms>>
    BY <1>1 DEF LeftDone
  <2>3. gone' \subseteq gone /\ gone' \cap After(w) = {}
    BY <2>1, <2>2
  <2>4. QED
    BY <1>0, <2>1, <2>2, <2>3, HoldKeeps
<1>2. CASE LeftFails(w)
  <2>1. /\ UNCHANGED <<kind, held, known, old, picked, perms, work, gone>>
        /\ left' \subseteq left
    BY <1>2 DEF LeftFails
  <2>2. GrantsTyped'
    BY <2>1 DEF GrantsIInv, GrantsTyped
  <2>3. RevokedStaysRevoked' /\ NotSelected' /\ NotRequested'
    BY <2>1 DEF GrantsIInv, RevokedStaysRevoked, NotSelected, NotRequested, Chosen, Normal
  <2>4. QED
    BY <2>2, <2>3 DEF GrantsIInv
<1>3. QED
  BY <1>1, <1>2

\* What others grant is asked for anew.
LEMMA GrantBulkKeeps ==
  ASSUME GrantsIInv, NEW r \in Selectable, NEW ps \in SUBSET Permissions, GrantBulk(r, ps)
  PROVE  GrantsIInv'
<1> DEFINE new == {r} \X Normal(ps)
<1>1. new \subseteq Pairs
  BY NormalGrows DEF Pairs
<1>2. /\ gone' = gone \ new /\ Hold(held \cup new, left) /\ UNCHANGED <<kind, known, picked, perms>>
      /\ work' = Kept(work, held \cup new)
  BY DEF GrantBulk, Hold
<1> HIDE DEF new
<1>3. held \cup new \in SUBSET Pairs /\ gone \cap held = {}
  BY <1>1 DEF GrantsIInv, GrantsTyped, RevokedStaysRevoked
<1>4. QED
  BY <1>2, <1>3, HoldKeeps

\* A request is asked for: it is made from the selection, or it revokes.
LEMMA RequestKeeps ==
  ASSUME GrantsIInv, NEW w \in Work, work' = w,
         w.what = "apply" => w.reports = picked /\ w.perms = perms,
         UNCHANGED <<kind, held, known, old, picked, perms, left, gone>>
  PROVE  GrantsIInv'
<1>1. GrantsTyped'
  BY DEF GrantsIInv, GrantsTyped
<1>2. NotSelected' /\ RevokedStaysRevoked'
  BY DEF GrantsIInv, NotSelected, RevokedStaysRevoked, Chosen, Normal
<1>3. NotRequested'
  BY DEF GrantsIInv, NotSelected, NotRequested, Chosen, Normal
<1>4. QED
  BY <1>1, <1>2, <1>3 DEF GrantsIInv

\* The invariant, for any reports, whatever Idle is.
THEOREM GrantsInvariance == GrantsSpec => []GrantsIInv
<1>1. GrantsInit => GrantsIInv
  BY DEF GrantsInit, GrantsIInv, GrantsTyped, RevokedStaysRevoked, NotSelected, NotRequested, Pairs,
         Permissions
<1>2. GrantsIInv /\ [GrantsNext]_grantVars => GrantsIInv'
  <2> SUFFICES ASSUME GrantsIInv, [GrantsNext]_grantVars PROVE GrantsIInv'
    OBVIOUS
  <2>0. GrantsTyped /\ RevokedStaysRevoked /\ NotSelected /\ NotRequested
    BY DEF GrantsIInv
  <2>1. ASSUME UNCHANGED <<kind, held, picked, perms, work, left, gone>>,
               known' \subseteq Pairs, old' \subseteq known'
        PROVE  GrantsIInv'
    <3>1. GrantsTyped'
      BY <2>0, <2>1 DEF GrantsTyped
    <3>2. NotSelected' /\ NotRequested' /\ RevokedStaysRevoked'
      BY <2>0, <2>1 DEF NotSelected, NotRequested, RevokedStaysRevoked, Chosen, Normal
    <3>3. QED
      BY <3>1, <3>2 DEF GrantsIInv
  <2>2. CASE UNCHANGED grantVars \/ Read
    BY <2>0, <2>1, <2>2 DEF grantVars, Read, GrantsTyped
  <2>3. CASE AskApply
    <3> DEFINE w == [what |-> "apply", reports |-> picked, perms |-> perms, live |-> TRUE]
    <3>1. w \in Work
      BY <2>0 DEF GrantsTyped, Work
    <3>2. work' = w /\ UNCHANGED <<kind, held, known, old, picked, perms, left, gone>>
      BY <2>3 DEF AskApply
    <3>3. QED
      BY <3>1, <3>2, RequestKeeps
  <2>4. CASE Done
    BY <2>4, DoneKeeps
  <2>5. CASE WorkFails \/ Remount
    BY <2>5, LeftBehindKeeps DEF WorkFails, Remount, LeftBehind
  <2>6. ASSUME NEW r \in Selectable, NEW p \in Permissions, AskRevocation(r, p) PROVE GrantsIInv'
    <3> DEFINE w == [what |-> "revoke", reports |-> {r}, perms |-> {p}, live |-> <<r, p>> \notin old]
    <3>1. w \in Work /\ w.what # "apply"
      <4>1. (<<r, p>> \notin old) \in BOOLEAN
        OBVIOUS
      <4>2. QED
        BY <4>1 DEF Work
    <3>2. work' = w /\ UNCHANGED <<kind, held, known, old, picked, perms, left, gone>>
      BY <2>6 DEF AskRevocation
    <3>3. QED
      BY <3>1, <3>2, RequestKeeps
  <2>7. ASSUME NEW r \in Selectable, NEW p \in Permissions, RevokeElsewhere(r, p) PROVE GrantsIInv'
    <3>1. held \ {<<r, p>>} \in SUBSET Pairs /\ gone \cap (held \ {<<r, p>>}) = {}
      BY <2>0 DEF GrantsTyped, RevokedStaysRevoked
    <3>2. /\ Hold(held \ {<<r, p>>}, left) /\ UNCHANGED <<kind, known, picked, perms, gone>>
          /\ work' = Kept(work, held \ {<<r, p>>})
      BY <2>7 DEF RevokeElsewhere, Hold
    <3>3. QED
      BY <3>1, <3>2, HoldKeeps
  <2>8. QED
    BY <2>2, <2>3, <2>4, <2>5, <2>6, <2>7, SelectKeeps, ToggleKeeps, GrantBulkKeeps, LeftDoneKeeps
       DEF GrantsNext
<1>3. QED
  BY <1>1, <1>2, PTL DEF GrantsSpec

\* What was answered of a menu holds, and what the open panel has revoked of a report
\* stays revoked, for any menus and reports, whatever earlier panels have left to be
\* done.
THEOREM GrantsHold == ASSUME MenuConstants PROVE GrantPagesSpec => []GrantsAsAsked
<1>1. GrantsIInv => RevokedStaysRevoked
  BY DEF GrantsIInv
<1>2. MenusAsAsked /\ RevokedStaysRevoked => GrantsAsAsked
  BY DEF GrantsAsAsked
<1>3. QED
  BY <1>1, <1>2, MenusHold, GrantsInvariance, PTL DEF GrantPagesSpec
=============================================================================
