-------------------------- MODULE MailPipelineProofs --------------------------
(***************************************************************************)
(* The safety of MailPipeline, for any sets of schedules, fires, retries,  *)
(* pages and workers and any bounds, from three inductive invariants, and  *)
(* its refinement of MailLedger.                                           *)
(* Typed is TypeOK with what each label of a task promises about its       *)
(* locals, without which TypeOK is not inductive.  IInv ties a task to its *)
(* lock (LeaseHeld), to its row (RowsHaveSchedule, RunOwnsRow,             *)
(* OneRunPerRound) and to its messages (SendsCounted); without these ties  *)
(* the safety properties hold but are not inductive: whether a second run  *)
(* may write a verdict depends on who owns the row.  ExportInv, relative   *)
(* to IInv, ties the export rows of a job to the run that writes them.     *)
(* The refinement follows from IInv: every behaviour of the pipeline is a  *)
(* behaviour of the ledger, and a verdict is final.                        *)
(***************************************************************************)
EXTENDS MailPipeline, TLAPS

\* What a worker knows at each label of its task: the task, the untouched
\* locals before the insert, the page it exports, an SMTP attempt to spare.
TaskLocals ==
    \A w \in Workers :
        /\ pc[w] # "idle" => task[w] \in Round
        /\ pc[w] \in {"idle", "check", "create"} => run[w] = NoRun
        /\ pc[w] \in {"start", "poll", "mark"} => run[w].page \in Pages
        /\ pc[w] \in Pipeline \ {"final"} => run[w].tries < MailRetryMax

Typed == TypeOK /\ TaskLocals

-----------------------------------------------------------------------------
\* A jump changes the label of one worker.
LEMMA GotoFrame ==
    ASSUME TypeOK, NEW w \in Workers, NEW l \in PC, Goto(w, l)
    PROVE  /\ pc' \in [Workers -> PC]
           /\ pc'[w] = l
           /\ \A v \in Workers \ {w} : pc'[v] = pc[v]
BY DEF Goto, TypeOK

\* An assignment changes the local variables of one worker.
LEMMA AssignFrame ==
    ASSUME TypeOK, NEW w \in Workers, NEW r \in Run, Assign(w, r)
    PROVE  /\ run' \in [Workers -> Run]
           /\ run'[w] = r
           /\ \A v \in Workers \ {w} : run'[v] = run[v]
BY DEF Assign, TypeOK

\* Marking an export keeps the export rows well-typed.
LEMMA ExportMarkedTyped ==
    ASSUME TypeOK, NEW j \in Round, NEW p \in Pages, NEW st \in ExportStatus,
           exports' = ExportMarked(j, p, st)
    PROVE  exports' \in [Round -> [Pages -> ExportStatus]]
BY DEF ExportMarked, TypeOK

\* An idle worker's locals are well-typed.
LEMMA NoRunTyped == NoRun \in Run
BY ConstantsOK DEF NoRun, Run

\* Recording the failure of a page, by any of the stages that can fail.
LEMMA PageFailsTyped ==
    ASSUME TypeOK, NEW w \in Workers, task[w] \in Round, run[w].page \in Pages,
           PageFails(w)
    PROVE  /\ exports' \in [Round -> [Pages -> ExportStatus]]
           /\ run' \in [Workers -> Run]
           /\ run'[w].tries = run[w].tries
           /\ \A v \in Workers \ {w} : run'[v] = run[v]
           /\ pc' \in [Workers -> PC]
           /\ pc'[w] = "export"
           /\ \A v \in Workers \ {w} : pc'[v] = pc[v]
<1> DEFINE r == [run[w] EXCEPT !.bad = @ \cup {run[w].page}, !.page = None]
<1>1. r \in Run /\ r.tries = run[w].tries
  <2>1. run[w] \in Run
    BY DEF TypeOK
  <2>2. QED
    BY <2>1 DEF Run
<1>2. Assign(w, r) /\ Goto(w, "export") /\ "export" \in PC
  BY DEF PageFails, PC, Pipeline
<1>3. exports' \in [Round -> [Pages -> ExportStatus]]
  BY ExportMarkedTyped DEF PageFails, ExportStatus
<1> HIDE DEF r
<1>4. QED
  BY <1>1, <1>2, <1>3, AssignFrame, GotoFrame

\* The empty pipeline is well-typed.
LEMMA InitTyped == Init => Typed
BY ConstantsOK DEF Init, Typed, TypeOK, TaskLocals, NoExports, NoRun, Run, PC,
   Beginning, Pipeline, Phase, Status, ExportStatus, Round, RunKeys, Config

\* Typed is inductive.
LEMMA StepTyped == Typed /\ [Next]_vars => Typed'
<1> SUFFICES ASSUME TypeOK, TaskLocals, [Next]_vars PROVE Typed'
  BY DEF Typed
<1> USE DEF cronVars, scheduleVars, jobVars, smtpVars, workerVars, boundVars
<1>1. ASSUME NEW s \in Schedules, CreateSchedule(s) PROVE Typed'
  BY <1>1, ConstantsOK DEF CreateSchedule, Phase, Typed, TypeOK, TaskLocals
<1>2. ASSUME NEW s \in Schedules, UpdateSchedule(s) PROVE Typed'
  BY <1>2, ConstantsOK DEF UpdateSchedule, Typed, TypeOK, TaskLocals
<1>3. ASSUME NEW s \in Schedules, DeleteSchedule(s) PROVE Typed'
  BY <1>3 DEF DeleteSchedule, Phase, Status, ExportStatus,
     NoExports, Typed, TypeOK, TaskLocals
<1>4. ASSUME NEW s \in Schedules, CronFires(s) PROVE Typed'
  BY <1>4 DEF CronFires, Typed, TypeOK, TaskLocals
<1>5. ASSUME NEW s \in Schedules, CatchUpCloses(s) PROVE Typed'
  BY <1>5 DEF CatchUpCloses, Typed, TypeOK, TaskLocals
<1>6. ASSUME NEW s \in Schedules, Dispatch(s) PROVE Typed'
  BY <1>6, ConstantsOK DEF Dispatch, Round, RunKeys, Typed, TypeOK, TaskLocals
<1>7. ASSUME NEW s \in Schedules, LockExpires(s) PROVE Typed'
  BY <1>7 DEF LockExpires, Expired, Typed, TypeOK, TaskLocals
<1>8. ASSUME NEW j \in Round, NEW k \in Retries, RetryMailJob(j, k) PROVE Typed'
  BY <1>8, ConstantsOK DEF RetryMailJob, Round, RunKeys, Typed, TypeOK, TaskLocals
<1>9. ASSUME NEW j \in Round, Redeliver(j) PROVE Typed'
  BY <1>9, ConstantsOK DEF Redeliver, Typed, TypeOK, TaskLocals
<1>10. ASSUME NEW w \in Workers, NEW j \in Round, SkipLocked(w, j) PROVE Typed'
  BY <1>10, ConstantsOK DEF SkipLocked, Typed, TypeOK, TaskLocals
<1>11. ASSUME NEW w \in Workers, NEW j \in Round, AcquireLock(w, j) PROVE Typed'
  <2>1. queue' \in [Round -> 0 .. MaxCopies]
    BY <1>11, ConstantsOK DEF AcquireLock, TypeOK
  <2>2. locks' \in [Schedules -> Workers \cup {Free}]
    BY <1>11 DEF AcquireLock, Acquired, TypeOK
  <2>3. /\ pc' \in [Workers -> PC] /\ pc'[w] = "check"
        /\ task' \in [Workers -> Round \cup {None}] /\ task'[w] = j
        /\ \A v \in Workers \ {w} : pc'[v] = pc[v] /\ task'[v] = task[v]
    BY <1>11 DEF AcquireLock, TypeOK, PC, Beginning
  <2>4. TypeOK'
    BY <1>11, <2>1, <2>2, <2>3 DEF AcquireLock, TypeOK
  <2>5. TaskLocals'
    BY <1>11, <2>3 DEF AcquireLock, TaskLocals, Pipeline
  <2>6. QED
    BY <2>4, <2>5 DEF Typed
<1>12. ASSUME NEW w \in Workers, CheckDuplicate(w) PROVE Typed'
  BY <1>12 DEF CheckDuplicate, Goto, PC, Beginning, Pipeline, Typed, TypeOK, TaskLocals
<1>13. ASSUME NEW w \in Workers, CreateMailJob(w) PROVE Typed'
  <2> DEFINE selected == config[task[w][1]].pages
             r == [run[w] EXCEPT !.selected = selected, !.todo = selected]
  <2>1. task[w] \in Round /\ run[w] = NoRun /\ pc[w] = "create"
    BY <1>13 DEF TaskLocals, CreateMailJob
  <2>2. r \in Run /\ r.tries = 0
    <3>1. selected \in SUBSET Pages
      BY <2>1 DEF TypeOK, Config, Round
    <3>2. run[w] \in Run /\ run[w].tries = 0
      BY <2>1, NoRunTyped DEF NoRun
    <3>3. QED
      BY <3>1, <3>2 DEF Run
  <2>3. status' \in [Round -> Status]
    BY <1>13 DEF CreateMailJob, TypeOK, Status
  <2>4. \/ Assign(w, r) /\ (Goto(w, "export") \/ Goto(w, "final"))
        \/ run' = run /\ Goto(w, "release")
    BY <1>13 DEF CreateMailJob
  <2> HIDE DEF r
  <2>5. /\ run' \in [Workers -> Run]
        /\ run'[w].tries = 0
        /\ \A v \in Workers \ {w} : run'[v] = run[v]
    BY <2>1, <2>2, <2>4, AssignFrame DEF TypeOK, NoRun
  <2>6. /\ pc' \in [Workers -> PC]
        /\ pc'[w] \in {"export", "final", "release"}
        /\ \A v \in Workers \ {w} : pc'[v] = pc[v]
    BY <2>4, GotoFrame DEF PC, Pipeline
  <2>7. TypeOK'
    BY <1>13, <2>3, <2>5, <2>6 DEF CreateMailJob, TypeOK
  <2>8. TaskLocals'
    BY <1>13, <2>5, <2>6, ConstantsOK DEF CreateMailJob, TaskLocals
  <2>9. QED
    BY <2>7, <2>8 DEF Typed
<1>14. ASSUME NEW w \in Workers, CreateExport(w) PROVE Typed'
  <2>1. task[w] \in Round /\ run[w].tries < MailRetryMax
    BY <1>14 DEF TaskLocals, CreateExport, Pipeline
  <2>2. /\ run' \in [Workers -> Run]
        /\ run'[w].tries < MailRetryMax
        /\ pc'[w] = "start" => run'[w].page \in Pages
        /\ \A v \in Workers \ {w} : run'[v] = run[v]
        /\ pc' \in [Workers -> PC]
        /\ pc'[w] \in {"start", "release"}
        /\ \A v \in Workers \ {w} : pc'[v] = pc[v]
        /\ exports' \in [Round -> [Pages -> ExportStatus]]
    <3>1. CASE RowExists(task[w])
      <4>1. PICK p \in run[w].todo :
              /\ exports' = ExportMarked(task[w], p, "NotStarted")
              /\ Assign(w, [run[w] EXCEPT !.todo = @ \ {p}, !.page = p])
              /\ Goto(w, "start")
        BY <1>14, <3>1 DEF CreateExport
      <4> DEFINE r == [run[w] EXCEPT !.todo = @ \ {p}, !.page = p]
      <4>2. run[w] \in Run
        BY DEF TypeOK
      <4>3. p \in Pages /\ r \in Run /\ r.tries = run[w].tries /\ r.page = p
        BY <4>2 DEF Run
      <4>4. exports' \in [Round -> [Pages -> ExportStatus]]
        BY <2>1, <4>1, <4>3, ExportMarkedTyped DEF ExportStatus
      <4>5. Assign(w, r) /\ Goto(w, "start")
        BY <4>1
      <4> HIDE DEF r
      <4>6. QED
        BY <2>1, <4>3, <4>4, <4>5, AssignFrame, GotoFrame DEF PC, Pipeline
    <3>2. CASE ~RowExists(task[w])
      BY <1>14, <2>1, <3>2, GotoFrame DEF CreateExport, TypeOK, PC
    <3>3. QED
      BY <3>1, <3>2
  <2>3. TypeOK'
    BY <1>14, <2>2 DEF CreateExport, TypeOK
  <2>4. TaskLocals'
    BY <1>14, <2>2 DEF CreateExport, TaskLocals, Pipeline
  <2>5. QED
    BY <2>3, <2>4 DEF Typed
<1>15. ASSUME NEW w \in Workers, StartExport(w) PROVE Typed'
  <2>1. /\ task[w] \in Round /\ run[w] \in Run
        /\ run[w].page \in Pages /\ run[w].tries < MailRetryMax
    BY <1>15 DEF TaskLocals, TypeOK, StartExport, Pipeline
  <2>2. /\ exports' \in [Round -> [Pages -> ExportStatus]]
        /\ run' \in [Workers -> Run]
        /\ run'[w].tries < MailRetryMax
        /\ pc'[w] = "poll" => run'[w].page \in Pages
        /\ \A v \in Workers \ {w} : run'[v] = run[v]
        /\ pc' \in [Workers -> PC]
        /\ pc'[w] \in {"export", "poll"}
        /\ \A v \in Workers \ {w} : pc'[v] = pc[v]
    <3>1. CASE PageFails(w)
      BY <2>1, <3>1, PageFailsTyped
    <3>2. CASE /\ exports' = ExportMarked(task[w], run[w].page, "Running")
               /\ Goto(w, "poll")
               /\ UNCHANGED run
      BY <2>1, <3>2, GotoFrame, ExportMarkedTyped
         DEF TypeOK, PC, Pipeline, ExportStatus
    <3>3. QED
      BY <1>15, <3>1, <3>2 DEF StartExport
  <2>3. TypeOK'
    BY <1>15, <2>2 DEF StartExport, TypeOK
  <2>4. TaskLocals'
    BY <1>15, <2>2 DEF StartExport, TaskLocals, Pipeline
  <2>5. QED
    BY <2>3, <2>4 DEF Typed
<1>16. ASSUME NEW w \in Workers, FinishExport(w) PROVE Typed'
  <2>1. /\ task[w] \in Round /\ run[w] \in Run
        /\ run[w].page \in Pages /\ run[w].tries < MailRetryMax
    BY <1>16 DEF TaskLocals, TypeOK, FinishExport, Pipeline
  <2>2. /\ exports' \in [Round -> [Pages -> ExportStatus]]
        /\ images' \in [Round -> SUBSET Pages]
        /\ run' \in [Workers -> Run]
        /\ run'[w].tries < MailRetryMax
        /\ pc'[w] = "mark" => run'[w].page \in Pages
        /\ \A v \in Workers \ {w} : run'[v] = run[v]
        /\ pc' \in [Workers -> PC]
        /\ pc'[w] \in {"export", "mark"}
        /\ \A v \in Workers \ {w} : pc'[v] = pc[v]
    <3>1. CASE PageFails(w) /\ UNCHANGED images
      BY <2>1, <3>1, PageFailsTyped DEF TypeOK
    <3>2. CASE /\ images' = [images EXCEPT ![task[w]] = @ \cup {run[w].page}]
               /\ Goto(w, "mark")
               /\ UNCHANGED <<exports, run>>
      <4>1. images' \in [Round -> SUBSET Pages]
        BY <2>1, <3>2 DEF TypeOK
      <4>2. QED
        BY <2>1, <3>2, <4>1, GotoFrame DEF TypeOK, PC, Pipeline
    <3>3. QED
      BY <1>16, <3>1, <3>2 DEF FinishExport
  <2>3. TypeOK'
    BY <1>16, <2>2 DEF FinishExport, TypeOK
  <2>4. TaskLocals'
    BY <1>16, <2>2 DEF FinishExport, TaskLocals, Pipeline
  <2>5. QED
    BY <2>3, <2>4 DEF Typed
<1>17. ASSUME NEW w \in Workers, MarkExported(w) PROVE Typed'
  <2>1. /\ task[w] \in Round /\ run[w] \in Run
        /\ run[w].page \in Pages /\ run[w].tries < MailRetryMax
    BY <1>17 DEF TaskLocals, TypeOK, MarkExported, Pipeline
  <2> DEFINE r == [run[w] EXCEPT !.page = None]
  <2>2. r \in Run /\ r.tries = run[w].tries
    BY <2>1 DEF Run
  <2>3. Assign(w, r) /\ Goto(w, "export")
    BY <1>17 DEF MarkExported
  <2>4. exports' \in [Round -> [Pages -> ExportStatus]]
    BY <1>17, <2>1, ExportMarkedTyped DEF MarkExported, ExportStatus
  <2> HIDE DEF r
  <2>5. /\ run' \in [Workers -> Run]
        /\ run'[w].tries < MailRetryMax
        /\ \A v \in Workers \ {w} : run'[v] = run[v]
    BY <2>1, <2>2, <2>3, AssignFrame
  <2>6. /\ pc' \in [Workers -> PC]
        /\ pc'[w] = "export"
        /\ \A v \in Workers \ {w} : pc'[v] = pc[v]
    BY <2>3, GotoFrame DEF PC, Pipeline
  <2>7. TypeOK'
    BY <1>17, <2>4, <2>5, <2>6 DEF MarkExported, TypeOK
  <2>8. TaskLocals'
    BY <1>17, <2>5, <2>6 DEF MarkExported, TaskLocals, Pipeline
  <2>9. QED
    BY <2>7, <2>8 DEF Typed
<1>18. ASSUME NEW w \in Workers, PrepareMail(w) PROVE Typed'
  <2>1. task[w] \in Round /\ run[w] \in Run /\ run[w].tries < MailRetryMax
    BY <1>18 DEF TaskLocals, TypeOK, PrepareMail, Pipeline
  <2>2. /\ run' \in [Workers -> Run]
        /\ run'[w].tries < MailRetryMax
        /\ \A v \in Workers \ {w} : run'[v] = run[v]
        /\ pc' \in [Workers -> PC]
        /\ pc'[w] \in {"send", "final"}
        /\ \A v \in Workers \ {w} : pc'[v] = pc[v]
    <3>1. CASE UNCHANGED run /\ Goto(w, "final")
      BY <2>1, <3>1, GotoFrame DEF TypeOK, PC, Pipeline
    <3>2. CASE /\ \E readable \in SUBSET images[task[w]] :
                     Assign(w, [run[w] EXCEPT !.attached = readable])
               /\ Goto(w, "send")
      <4>1. PICK readable \in SUBSET images[task[w]] :
                Assign(w, [run[w] EXCEPT !.attached = readable])
        BY <3>2
      <4> DEFINE r == [run[w] EXCEPT !.attached = readable]
      <4>2. readable \in SUBSET Pages
        BY <2>1 DEF TypeOK
      <4>3. r \in Run /\ r.tries = run[w].tries /\ Assign(w, r)
        BY <2>1, <4>1, <4>2 DEF Run
      <4> HIDE DEF r
      <4>4. QED
        BY <2>1, <3>2, <4>3, AssignFrame, GotoFrame DEF PC, Pipeline
    <3>3. QED
      BY <1>18, <3>1, <3>2 DEF PrepareMail
  <2>3. TypeOK'
    BY <1>18, <2>2 DEF PrepareMail, TypeOK
  <2>4. TaskLocals'
    BY <1>18, <2>2 DEF PrepareMail, TaskLocals, Pipeline
  <2>5. QED
    BY <2>3, <2>4 DEF Typed
<1>19. ASSUME NEW w \in Workers, SendAccepted(w) PROVE Typed'
  <2> DEFINE r == [run[w] EXCEPT !.ok = TRUE]
  <2>1. task[w] \in Round /\ run[w] \in Run
    BY <1>19 DEF TaskLocals, TypeOK, SendAccepted, Pipeline
  <2>2. r \in Run /\ run[w].attached \in SUBSET Pages
    BY <2>1 DEF Run
  <2>3. Assign(w, r) /\ Goto(w, "final") /\ Delivered(w)
    BY <1>19 DEF SendAccepted
  <2>4. inbox' \in [Round -> Nat] /\ carried' \in [Round -> SUBSET Pages]
    BY <2>1, <2>2, <2>3 DEF Delivered, TypeOK
  <2> HIDE DEF r
  <2>5. /\ run' \in [Workers -> Run]
        /\ \A v \in Workers \ {w} : run'[v] = run[v]
    BY <2>2, <2>3, AssignFrame
  <2>6. /\ pc' \in [Workers -> PC]
        /\ pc'[w] = "final"
        /\ \A v \in Workers \ {w} : pc'[v] = pc[v]
    BY <2>3, GotoFrame DEF PC, Pipeline
  <2>7. TypeOK'
    BY <1>19, <2>4, <2>5, <2>6 DEF SendAccepted, TypeOK
  <2>8. TaskLocals'
    BY <1>19, <2>5, <2>6 DEF SendAccepted, TaskLocals, Pipeline
  <2>9. QED
    BY <2>7, <2>8 DEF Typed
<1>20. ASSUME NEW w \in Workers, SendRaised(w) PROVE Typed'
  <2> DEFINE r == [run[w] EXCEPT !.tries = @ + 1]
  <2>1. task[w] \in Round /\ run[w].tries < MailRetryMax /\ run[w] \in Run
    BY <1>20 DEF TaskLocals, TypeOK, SendRaised, Pipeline
  <2>2. r \in Run /\ (~LastAttempt(w) => r.tries < MailRetryMax)
    BY <2>1, ConstantsOK DEF Run, LastAttempt
  <2>3. /\ Assign(w, r)
        /\ IF LastAttempt(w) THEN Goto(w, "final") ELSE Goto(w, "send")
    BY <1>20 DEF SendRaised
  <2> HIDE DEF r
  <2>4. /\ run' \in [Workers -> Run]
        /\ ~LastAttempt(w) => run'[w].tries < MailRetryMax
        /\ \A v \in Workers \ {w} : run'[v] = run[v]
    BY <2>2, <2>3, AssignFrame
  <2>5. /\ pc' \in [Workers -> PC]
        /\ pc'[w] = IF LastAttempt(w) THEN "final" ELSE "send"
        /\ \A v \in Workers \ {w} : pc'[v] = pc[v]
    BY <2>3, GotoFrame DEF PC, Pipeline
  <2>6. inbox' \in [Round -> Nat] /\ carried' \in [Round -> SUBSET Pages]
    <3>1. run[w].attached \in SUBSET Pages
      BY <2>1 DEF Run
    <3>2. CASE Delivered(w)
      BY <2>1, <3>1, <3>2 DEF Delivered, TypeOK
    <3>3. CASE UNCHANGED smtpVars
      BY <3>3 DEF TypeOK
    <3>4. QED
      BY <1>20, <3>2, <3>3 DEF SendRaised
  <2>7. TypeOK'
    BY <1>20, <2>4, <2>5, <2>6 DEF SendRaised, TypeOK
  <2>8. TaskLocals'
    BY <1>20, <2>4, <2>5 DEF SendRaised, TaskLocals, Pipeline
  <2>9. QED
    BY <2>7, <2>8 DEF Typed
<1>21. ASSUME NEW w \in Workers, Finalize(w) PROVE Typed'
  BY <1>21 DEF Finalize, Goto, PC, Beginning, Pipeline, Status, Typed, TypeOK,
     TaskLocals
<1>22. ASSUME NEW w \in Workers, ReleaseLock(w) PROVE Typed'
  <2>1. /\ task' \in [Workers -> Round \cup {None}]
        /\ stale' \in SUBSET Workers
        /\ locks' \in [Schedules -> Workers \cup {Free}]
    BY <1>22 DEF ReleaseLock, EndTask, Released, TypeOK
  <2>2. /\ \A v \in Workers \ {w} : task'[v] = task[v]
        /\ run' \in [Workers -> Run]
        /\ run'[w] = NoRun
        /\ \A v \in Workers \ {w} : run'[v] = run[v]
        /\ pc' \in [Workers -> PC]
        /\ pc'[w] = "idle"
        /\ \A v \in Workers \ {w} : pc'[v] = pc[v]
    BY <1>22, AssignFrame, GotoFrame, NoRunTyped
       DEF ReleaseLock, EndTask, TypeOK, PC
  <2>3. TypeOK'
    BY <1>22, <2>1, <2>2 DEF ReleaseLock, TypeOK
  <2>4. TaskLocals'
    BY <2>2 DEF TaskLocals, Pipeline
  <2>5. QED
    BY <2>3, <2>4 DEF Typed
<1>23. ASSUME NEW w \in Workers, Raise(w) PROVE Typed'
  BY <1>23, ConstantsOK DEF Raise, Goto, PC, Beginning, Pipeline, Typed, TypeOK,
     TaskLocals
<1>24. ASSUME NEW w \in Workers, Crash(w) PROVE Typed'
  <2>1. /\ task' \in [Workers -> Round \cup {None}]
        /\ stale' \in SUBSET Workers
        /\ faults' \in 0 .. MaxFaults
    BY <1>24, ConstantsOK DEF Crash, EndTask, TypeOK
  <2>2. /\ \A v \in Workers \ {w} : task'[v] = task[v]
        /\ run' \in [Workers -> Run]
        /\ run'[w] = NoRun
        /\ \A v \in Workers \ {w} : run'[v] = run[v]
        /\ pc' \in [Workers -> PC]
        /\ pc'[w] = "idle"
        /\ \A v \in Workers \ {w} : pc'[v] = pc[v]
    BY <1>24, AssignFrame, GotoFrame, NoRunTyped DEF Crash, EndTask, TypeOK, PC
  <2>3. TypeOK'
    BY <1>24, <2>1, <2>2 DEF Crash, TypeOK
  <2>4. TaskLocals'
    BY <2>2 DEF TaskLocals, Pipeline
  <2>5. QED
    BY <2>3, <2>4 DEF Typed
<1>25. CASE UNCHANGED vars
  BY <1>25 DEF vars, Typed, TypeOK, TaskLocals
<1>26. QED
  BY <1>1, <1>2, <1>3, <1>4, <1>5, <1>6, <1>7, <1>8, <1>9, <1>10, <1>11,
     <1>12, <1>13, <1>14, <1>15, <1>16, <1>17, <1>18, <1>19, <1>20, <1>21,
     <1>22, <1>23, <1>24, <1>25 DEF Next, Step

-----------------------------------------------------------------------------
(* The safety of the rounds.                                               *)

\* A worker inside a task whose lock did not expire still holds that lock.
LeaseHeld ==
    \A w \in Workers :
        pc[w] # "idle" /\ w \notin stale => locks[task[w][1]] = w

\* Rows exist only while their schedule does.
RowsHaveSchedule ==
    \A j \in Round : status[j] # "absent" => phase[j[1]] = "live"

\* A worker past the insert works on a row that is still open, unless the row
\* was deleted under it.
RunOwnsRow ==
    \A w \in Workers : pc[w] \in Pipeline =>
        status[task[w]] = "running" \/ phase[task[w][1]] = "deleted"

\* A round without a row was sent nothing, and the attempts of the one run
\* that a round has bound the messages it was sent.
SendsCounted ==
    /\ \A j \in Round :
          status[j] = "absent" /\ phase[j[1]] # "deleted" => inbox[j] = 0
    /\ \A w \in Workers :
          /\ pc[w] \in Pipeline \ {"final"} => inbox[task[w]] <= run[w].tries
          /\ run[w].ok /\ pc[w] # "release" =>
                pc[w] = "final" /\ inbox[task[w]] > 0

\* The inductive invariant.
IInv ==
    /\ TypeOK
    /\ TaskLocals
    /\ LeaseHeld
    /\ RowsHaveSchedule
    /\ RunOwnsRow
    /\ OneRunPerRound
    /\ SendsCounted
    /\ BoundedResend
    /\ RetryOnlyOfFailed

\* What IInv speaks about besides types.
core == <<phase, locks, status, retryOf, inbox, pc, task, run, stale>>

\* The steps of a run between its row and its first SMTP attempt.
Exporting(w) ==
    \/ CreateExport(w) \/ StartExport(w) \/ FinishExport(w) \/ MarkExported(w)
    \/ PrepareMail(w)

-----------------------------------------------------------------------------
\* The steps of the page loop touch nothing that IInv ties to a task but the
\* label, and neither the attempts nor the verdict of the run.
LEMMA ExportingFrame ==
    ASSUME TypeOK, TaskLocals, NEW w \in Workers, Exporting(w)
    PROVE  /\ UNCHANGED <<phase, locks, status, retryOf, inbox, task, stale>>
           /\ pc[w] \in {"export", "start", "poll", "mark"}
           /\ pc'[w] \in Pipeline \cup {"release"}
           /\ \A v \in Workers \ {w} : pc'[v] = pc[v] /\ run'[v] = run[v]
           /\ run'[w].tries = run[w].tries /\ run'[w].ok = run[w].ok
<1> DEFINE Quiet == UNCHANGED <<phase, locks, status, retryOf, inbox, task, stale>>
           Local == \A v \in Workers \ {w} : pc'[v] = pc[v] /\ run'[v] = run[v]
           Kept == run'[w].tries = run[w].tries /\ run'[w].ok = run[w].ok
<1> USE DEF cronVars, scheduleVars, jobVars, smtpVars, workerVars, boundVars
<1>0. run[w] \in Run
  BY DEF TypeOK
<1>1. ASSUME NEW r \in Run, r.tries = run[w].tries, r.ok = run[w].ok,
             Assign(w, r), NEW l \in PC, Goto(w, l)
      PROVE  Local /\ Kept /\ pc'[w] = l
  BY <1>1, AssignFrame, GotoFrame
<1>2. ASSUME UNCHANGED run, NEW l \in PC, Goto(w, l)
      PROVE  Local /\ Kept /\ pc'[w] = l
  BY <1>2, GotoFrame
<1>3. ASSUME run[w].page \in Pages, PageFails(w)
      PROVE  Local /\ Kept /\ pc'[w] = "export"
  <2> DEFINE r == [run[w] EXCEPT !.bad = @ \cup {run[w].page}, !.page = None]
  <2>1. r \in Run /\ r.tries = run[w].tries /\ r.ok = run[w].ok
    BY <1>0, <1>3 DEF Run
  <2>2. Assign(w, r) /\ Goto(w, "export") /\ "export" \in PC
    BY <1>3 DEF PageFails, PC, Pipeline
  <2> HIDE DEF r
  <2>3. QED
    BY <1>1, <2>1, <2>2
<1>4. CASE CreateExport(w)
  <2>1. Quiet /\ pc[w] = "export"
    BY <1>4 DEF CreateExport
  <2>2. CASE Goto(w, "release") /\ UNCHANGED run
    BY <1>2, <2>1, <2>2 DEF PC
  <2>3. CASE /\ \E p \in run[w].todo :
                    Assign(w, [run[w] EXCEPT !.todo = @ \ {p}, !.page = p])
             /\ Goto(w, "start")
    <3>1. PICK p \in run[w].todo :
              Assign(w, [run[w] EXCEPT !.todo = @ \ {p}, !.page = p])
      BY <2>3
    <3> DEFINE r == [run[w] EXCEPT !.todo = @ \ {p}, !.page = p]
    <3>2. /\ r \in Run /\ r.tries = run[w].tries /\ r.ok = run[w].ok
          /\ Assign(w, r)
      BY <1>0, <3>1 DEF Run
    <3> HIDE DEF r
    <3>3. QED
      BY <1>1, <2>1, <2>3, <3>2 DEF PC, Pipeline
  <2>4. QED
    BY <1>4, <2>2, <2>3 DEF CreateExport
<1>5. CASE StartExport(w)
  <2>1. Quiet /\ pc[w] = "start" /\ run[w].page \in Pages
    BY <1>5 DEF StartExport, TaskLocals
  <2>2. PageFails(w) \/ (Goto(w, "poll") /\ UNCHANGED run)
    BY <1>5 DEF StartExport
  <2>3. QED
    BY <1>2, <1>3, <2>1, <2>2 DEF PC, Pipeline
<1>6. CASE FinishExport(w)
  <2>1. Quiet /\ pc[w] = "poll" /\ run[w].page \in Pages
    BY <1>6 DEF FinishExport, TaskLocals
  <2>2. PageFails(w) \/ (Goto(w, "mark") /\ UNCHANGED run)
    BY <1>6 DEF FinishExport
  <2>3. QED
    BY <1>2, <1>3, <2>1, <2>2 DEF PC, Pipeline
<1>7. CASE MarkExported(w)
  <2> DEFINE r == [run[w] EXCEPT !.page = None]
  <2>1. Quiet /\ pc[w] = "mark" /\ Assign(w, r) /\ Goto(w, "export")
    BY <1>7 DEF MarkExported
  <2>2. r \in Run /\ r.tries = run[w].tries /\ r.ok = run[w].ok
    BY <1>0 DEF Run
  <2> HIDE DEF r
  <2>3. QED
    BY <1>1, <2>1, <2>2 DEF PC, Pipeline
<1>8. CASE PrepareMail(w)
  <2>1. Quiet /\ pc[w] = "export" /\ task[w] \in Round
    BY <1>8 DEF PrepareMail, TaskLocals
  <2>2. CASE Goto(w, "final") /\ UNCHANGED run
    BY <1>2, <2>1, <2>2 DEF PC, Pipeline
  <2>3. CASE /\ \E readable \in SUBSET images[task[w]] :
                    Assign(w, [run[w] EXCEPT !.attached = readable])
             /\ Goto(w, "send")
    <3>1. PICK readable \in SUBSET images[task[w]] :
              Assign(w, [run[w] EXCEPT !.attached = readable])
      BY <2>3
    <3> DEFINE r == [run[w] EXCEPT !.attached = readable]
    <3>2. readable \in SUBSET Pages
      BY <2>1 DEF TypeOK
    <3>3. /\ r \in Run /\ r.tries = run[w].tries /\ r.ok = run[w].ok
          /\ Assign(w, r)
      BY <1>0, <3>1, <3>2 DEF Run
    <3> HIDE DEF r
    <3>4. QED
      BY <1>1, <2>1, <2>3, <3>3 DEF PC, Pipeline
  <2>4. QED
    BY <1>8, <2>2, <2>3 DEF PrepareMail
<1>9. QED
  BY <1>4, <1>5, <1>6, <1>7, <1>8 DEF Exporting

\* Every conjunct of IInv but the types.
Ties ==
    /\ LeaseHeld /\ RowsHaveSchedule /\ RunOwnsRow /\ OneRunPerRound
    /\ SendsCounted /\ BoundedResend /\ RetryOnlyOfFailed

\* Every step preserves the ties, one action at a time.
LEMMA StepTies == IInv /\ TypeOK' /\ TaskLocals' /\ [Next]_vars => Ties'
<1> SUFFICES ASSUME IInv, TypeOK', TaskLocals', [Next]_vars PROVE Ties'
  OBVIOUS
<1> USE DEF cronVars, scheduleVars, jobVars, smtpVars, workerVars, boundVars
<1>0. CASE UNCHANGED core
  BY <1>0 DEF core, IInv, Ties, LeaseHeld, RowsHaveSchedule, RunOwnsRow,
     OneRunPerRound, SendsCounted, BoundedResend, RetryOnlyOfFailed
<1>1. ASSUME NEW s \in Schedules, CreateSchedule(s) PROVE Ties'
  <2>1. UNCHANGED <<locks, status, retryOf, inbox, pc, task, run, stale>>
    BY <1>1 DEF CreateSchedule
  <2>2. \A t \in Schedules : /\ phase'[t] # "deleted" <=> phase[t] # "deleted"
                             /\ phase[t] = "live" => phase'[t] = "live"
    BY <1>1 DEF CreateSchedule, IInv, TypeOK
  <2>3. QED
    BY <2>1, <2>2 DEF IInv, Ties, TypeOK, TaskLocals, LeaseHeld, Round,
       RowsHaveSchedule, RunOwnsRow, OneRunPerRound, SendsCounted,
       BoundedResend, RetryOnlyOfFailed, Pipeline
<1>2. ASSUME NEW s \in Schedules, DeleteSchedule(s) PROVE Ties'
  <2>1. UNCHANGED <<locks, retryOf, inbox, pc, task, run, stale>>
    BY <1>2 DEF DeleteSchedule
  <2>2. /\ phase'[s] = "deleted"
        /\ \A t \in Schedules \ {s} : phase'[t] = phase[t]
        /\ \A j \in Round : status'[j] = IF j[1] = s THEN "absent" ELSE status[j]
    BY <1>2 DEF DeleteSchedule, IInv, TypeOK
  <2>3. LeaseHeld' /\ OneRunPerRound' /\ BoundedResend'
    BY <2>1 DEF IInv, LeaseHeld, OneRunPerRound, BoundedResend
  <2>4. RowsHaveSchedule' /\ RunOwnsRow'
    BY <2>1, <2>2 DEF IInv, TaskLocals, RowsHaveSchedule, RunOwnsRow, Round,
       Pipeline
  <2>5. SendsCounted'
    BY <2>1, <2>2 DEF IInv, SendsCounted, Round
  <2>6. RetryOnlyOfFailed'
    BY <2>1, <2>2 DEF IInv, TypeOK, RetryOnlyOfFailed, Round
  <2>7. QED
    BY <2>3, <2>4, <2>5, <2>6 DEF Ties
<1>3. ASSUME NEW j \in Round, NEW k \in Retries, RetryMailJob(j, k)
      PROVE  Ties'
  <2>1. UNCHANGED <<phase, locks, status, inbox, pc, task, run, stale>>
    BY <1>3 DEF RetryMailJob
  <2>2. RetryOnlyOfFailed'
    BY <1>3 DEF RetryMailJob, Retryable, IInv, TypeOK, RetryOnlyOfFailed
  <2>3. QED
    BY <2>1, <2>2 DEF IInv, Ties, LeaseHeld, RowsHaveSchedule, RunOwnsRow,
       OneRunPerRound, SendsCounted, BoundedResend
<1>4. ASSUME NEW w \in Workers, NEW j \in Round, AcquireLock(w, j) PROVE Ties'
  <2>1. UNCHANGED <<phase, status, retryOf, inbox, run, stale>>
    BY <1>4 DEF AcquireLock
  <2>2. /\ pc[w] = "idle" /\ pc'[w] = "check" /\ task'[w] = j
        /\ \A v \in Workers \ {w} : pc'[v] = pc[v] /\ task'[v] = task[v]
    BY <1>4 DEF AcquireLock, IInv, TypeOK
  <2>3. /\ locks[j[1]] = Free /\ locks'[j[1]] = w
        /\ \A s \in Schedules \ {j[1]} : locks'[s] = locks[s]
    BY <1>4 DEF AcquireLock, Acquirable, Acquired, IInv, TypeOK, Round
  <2>4. LeaseHeld'
    BY <2>1, <2>2, <2>3, ConstantsOK DEF IInv, LeaseHeld, TaskLocals, Round
  <2>5. RunOwnsRow' /\ OneRunPerRound' /\ SendsCounted'
    BY <2>1, <2>2 DEF IInv, RunOwnsRow, OneRunPerRound, SendsCounted, Pipeline,
       TaskLocals, NoRun
  <2>6. QED
    BY <2>1, <2>4, <2>5 DEF IInv, Ties, RowsHaveSchedule, BoundedResend,
       RetryOnlyOfFailed
<1>5. ASSUME NEW s \in Schedules, LockExpires(s) PROVE Ties'
  <2>1. UNCHANGED <<phase, status, retryOf, inbox, pc, task, run>>
    BY <1>5 DEF LockExpires
  <2>2. LeaseHeld'
    BY <1>5 DEF LockExpires, Expired, Holds, IInv, LeaseHeld, TypeOK,
       TaskLocals, Round
  <2>3. QED
    BY <2>1, <2>2 DEF IInv, Ties, RowsHaveSchedule, RunOwnsRow, OneRunPerRound,
       SendsCounted, BoundedResend, RetryOnlyOfFailed
<1>6. ASSUME NEW w \in Workers, CheckDuplicate(w) \/ Raise(w) PROVE Ties'
  <2>1. UNCHANGED <<phase, locks, status, retryOf, inbox, task, run, stale>>
    BY <1>6 DEF CheckDuplicate, Raise
  <2>2. /\ pc[w] \in Beginning \cup Pipeline /\ pc'[w] \in {"release", "create"}
        /\ pc'[w] = "create" => pc[w] = "check"
        /\ \A v \in Workers \ {w} : pc'[v] = pc[v]
    BY <1>6 DEF CheckDuplicate, Raise, Goto, IInv, TypeOK, Beginning, Pipeline
  <2>3. LeaseHeld' /\ RunOwnsRow' /\ OneRunPerRound' /\ SendsCounted'
    BY <2>1, <2>2 DEF IInv, LeaseHeld, RunOwnsRow, OneRunPerRound, SendsCounted,
       TaskLocals, NoRun, Beginning, Pipeline
  <2>4. QED
    BY <2>1, <2>3 DEF IInv, Ties, RowsHaveSchedule, BoundedResend,
       RetryOnlyOfFailed
<1>7. ASSUME NEW w \in Workers, CreateMailJob(w) PROVE Ties'
  <2>1. /\ UNCHANGED <<phase, locks, retryOf, inbox, task, stale>>
        /\ pc[w] = "create" /\ task[w] \in Round /\ run[w] = NoRun
    BY <1>7 DEF CreateMailJob, IInv, TaskLocals
  <2>2. CASE UNCHANGED <<status, run>> /\ Goto(w, "release")
    BY <2>1, <2>2 DEF Goto, IInv, TypeOK, Ties, LeaseHeld, RowsHaveSchedule,
       RunOwnsRow, OneRunPerRound, SendsCounted, BoundedResend,
       RetryOnlyOfFailed, Pipeline
  <2>3. CASE /\ phase[task[w][1]] = "live" /\ UniqueRunKey(task[w])
             /\ status' = [status EXCEPT ![task[w]] = "running"]
             /\ \E l \in {"export", "final"} : Goto(w, l)
             /\ Assign(w, [run[w] EXCEPT !.selected = config[task[w][1]].pages,
                                         !.todo = config[task[w][1]].pages])
    <3>1. /\ pc'[w] \in {"export", "final"}
          /\ \A v \in Workers \ {w} : pc'[v] = pc[v]
      BY <2>3 DEF Goto, IInv, TypeOK
    <3>2. /\ run'[w].tries = 0 /\ run'[w].ok = FALSE
          /\ \A v \in Workers \ {w} : run'[v] = run[v]
      BY <2>1, <2>3 DEF Assign, IInv, TypeOK, Run, NoRun
    <3>3. /\ status[task[w]] = "absent" /\ status'[task[w]] = "running"
          /\ \A j \in Round \ {task[w]} : status'[j] = status[j]
      BY <2>1, <2>3 DEF UniqueRunKey, IInv, TypeOK
    <3>4. inbox[task[w]] = 0
      BY <2>1, <2>3, <3>3 DEF IInv, SendsCounted
    <3>5. \A v \in Workers \ {w} : pc[v] \in Pipeline => task[v] # task[w]
      BY <2>3, <3>3 DEF IInv, RunOwnsRow
    <3>6. LeaseHeld' /\ RowsHaveSchedule'
      BY <2>1, <2>3, <3>1, <3>3 DEF IInv, LeaseHeld, RowsHaveSchedule
    <3>7. RunOwnsRow' /\ OneRunPerRound'
      BY <2>1, <3>1, <3>3, <3>5
         DEF IInv, RunOwnsRow, OneRunPerRound, TaskLocals, Pipeline
    <3>8. SendsCounted'
      BY <2>1, <3>1, <3>2, <3>3, <3>4 DEF IInv, SendsCounted
    <3>9. BoundedResend' /\ RetryOnlyOfFailed'
      BY <2>1, <3>3 DEF IInv, TypeOK, BoundedResend, RetryOnlyOfFailed
    <3>10. QED
      BY <3>6, <3>7, <3>8, <3>9 DEF Ties
  <2>4. QED
    BY <1>7, <2>2, <2>3 DEF CreateMailJob
<1>8. ASSUME NEW w \in Workers, Exporting(w) PROVE Ties'
  <2>1. /\ UNCHANGED <<phase, locks, status, retryOf, inbox, task, stale>>
        /\ pc[w] \in {"export", "start", "poll", "mark"}
        /\ pc'[w] \in Pipeline \cup {"release"}
        /\ \A v \in Workers \ {w} : pc'[v] = pc[v] /\ run'[v] = run[v]
        /\ run'[w].tries = run[w].tries /\ run'[w].ok = run[w].ok
    BY <1>8, ExportingFrame DEF IInv
  <2>2. LeaseHeld' /\ RunOwnsRow' /\ OneRunPerRound'
    BY <2>1 DEF IInv, LeaseHeld, RunOwnsRow, OneRunPerRound, Pipeline
  <2>3. SendsCounted'
    BY <2>1 DEF IInv, SendsCounted, Pipeline
  <2>4. QED
    BY <2>1, <2>2, <2>3 DEF IInv, Ties, RowsHaveSchedule, BoundedResend,
       RetryOnlyOfFailed
<1>9. ASSUME NEW w \in Workers, SendAccepted(w) \/ SendRaised(w) PROVE Ties'
  <2>1. /\ UNCHANGED <<phase, locks, status, retryOf, task, stale>>
        /\ pc[w] = "send" /\ task[w] \in Round /\ run[w] \in Run
        /\ run[w].tries < MailRetryMax
    BY <1>9 DEF SendAccepted, SendRaised, IInv, TaskLocals, TypeOK, Pipeline
  <2>2. /\ pc'[w] \in {"send", "final"}
        /\ \A v \in Workers \ {w} : pc'[v] = pc[v]
        /\ SendAccepted(w) => pc'[w] = "final"
    BY <1>9 DEF SendAccepted, SendRaised, Goto, IInv, TypeOK
  <2>3. /\ inbox'[task[w]] \in {inbox[task[w]], inbox[task[w]] + 1}
        /\ \A j \in Round \ {task[w]} : inbox'[j] = inbox[j]
        /\ SendAccepted(w) => inbox'[task[w]] = inbox[task[w]] + 1
    BY <1>9, <2>1 DEF SendAccepted, SendRaised, Delivered, IInv, TypeOK
  <2>4. /\ \A v \in Workers \ {w} : run'[v] = run[v]
        /\ SendRaised(w) => /\ run'[w].tries = run[w].tries + 1
                            /\ run'[w].ok = run[w].ok
    BY <1>9, <2>1 DEF SendAccepted, SendRaised, Assign, IInv, TypeOK, Run
  <2>5. inbox[task[w]] <= run[w].tries /\ ~run[w].ok
    BY <2>1 DEF IInv, SendsCounted, Pipeline, TypeOK, Run
  <2>6. \A v \in Workers \ {w} : pc[v] \in Pipeline => task[v] # task[w]
    BY <2>1 DEF IInv, OneRunPerRound, Pipeline
  <2>7. LeaseHeld' /\ RunOwnsRow' /\ OneRunPerRound'
    BY <2>1, <2>2 DEF IInv, LeaseHeld, RunOwnsRow, OneRunPerRound, Pipeline
  <2>8. SendsCounted'
    <3>1. ASSUME NEW j \in Round, status'[j] = "absent",
                 phase'[j[1]] # "deleted"
          PROVE  inbox'[j] = 0
      <4>1. j # task[w]
        BY <2>1, <3>1 DEF IInv, RunOwnsRow, Pipeline
      <4>2. QED
        BY <2>1, <2>3, <3>1, <4>1 DEF IInv, SendsCounted
    <3>2. ASSUME NEW v \in Workers, pc'[v] \in Pipeline \ {"final"}
          PROVE  inbox'[task'[v]] <= run'[v].tries
      <4>1. CASE v = w
        <5>1. SendRaised(w)
          BY <1>9, <2>2, <3>2, <4>1
        <5>2. inbox[task[w]] \in Nat /\ run[w].tries \in Nat
          BY <2>1, ConstantsOK DEF IInv, TypeOK, Run
        <5>3. QED
          BY <2>1, <2>3, <2>4, <2>5, <4>1, <5>1, <5>2
      <4>2. CASE v # w
        BY <2>1, <2>2, <2>3, <2>4, <2>6, <3>2, <4>2
           DEF IInv, SendsCounted, TaskLocals, Pipeline
      <4>3. QED
        BY <4>1, <4>2
    <3>3. ASSUME NEW v \in Workers, run'[v].ok, pc'[v] # "release"
          PROVE  pc'[v] = "final" /\ inbox'[task'[v]] > 0
      <4>1. CASE v = w
        <5>1. SendAccepted(w)
          BY <1>9, <2>4, <2>5, <3>3, <4>1
        <5>2. inbox[task[w]] \in Nat
          BY <2>1 DEF IInv, TypeOK
        <5>3. QED
          BY <2>1, <2>2, <2>3, <4>1, <5>1, <5>2
      <4>2. CASE v # w
        BY <2>1, <2>2, <2>3, <2>4, <2>6, <3>3, <4>2
           DEF IInv, SendsCounted, TaskLocals, Pipeline
      <4>3. QED
        BY <4>1, <4>2
    <3>4. QED
      BY <3>1, <3>2, <3>3 DEF SendsCounted
  <2>9. BoundedResend'
    <3>1. inbox[task[w]] + 1 <= MailRetryMax
      BY <2>1, <2>5, ConstantsOK DEF IInv, TypeOK, Run
    <3>2. QED
      BY <2>1, <2>3, <3>1 DEF IInv, BoundedResend
  <2>10. QED
    BY <2>1, <2>7, <2>8, <2>9 DEF IInv, Ties, RowsHaveSchedule,
       RetryOnlyOfFailed
<1>10. ASSUME NEW w \in Workers, Finalize(w) PROVE Ties'
  <2>1. /\ UNCHANGED <<phase, locks, retryOf, inbox, task, run, stale>>
        /\ pc[w] = "final" /\ pc'[w] = "release" /\ task[w] \in Round
        /\ \A v \in Workers \ {w} : pc'[v] = pc[v]
    BY <1>10 DEF Finalize, Goto, IInv, TypeOK, TaskLocals
  <2>2. /\ \A j \in Round \ {task[w]} : status'[j] = status[j]
        /\ status[task[w]] = "absent" <=> status'[task[w]] = "absent"
    BY <1>10, <2>1 DEF Finalize, RowExists, IInv, TypeOK
  <2>3. \A v \in Workers \ {w} : pc[v] \in Pipeline => task[v] # task[w]
    BY <2>1 DEF IInv, OneRunPerRound, Pipeline
  <2>4. LeaseHeld' /\ RowsHaveSchedule' /\ OneRunPerRound' /\ BoundedResend'
    BY <2>1, <2>2 DEF IInv, LeaseHeld, RowsHaveSchedule, OneRunPerRound,
       BoundedResend, Pipeline
  <2>5. RunOwnsRow' /\ SendsCounted'
    BY <2>1, <2>2, <2>3 DEF IInv, RunOwnsRow, SendsCounted, TaskLocals,
       Pipeline
  <2>6. RetryOnlyOfFailed'
    <3>1. status[task[w]] = "running" \/ status[task[w]] = "absent"
      BY <2>1 DEF IInv, RunOwnsRow, RowsHaveSchedule, Pipeline
    <3>2. QED
      BY <2>1, <2>2, <3>1 DEF IInv, TypeOK, RetryOnlyOfFailed
  <2>7. QED
    BY <2>4, <2>5, <2>6 DEF Ties
<1>11. ASSUME NEW w \in Workers, ReleaseLock(w) \/ Crash(w) PROVE Ties'
  <2>1. /\ UNCHANGED <<phase, status, retryOf, inbox>>
        /\ pc[w] # "idle" /\ pc'[w] = "idle" /\ run'[w] = NoRun
        /\ stale' = stale \ {w}
        /\ \A v \in Workers \ {w} :
              pc'[v] = pc[v] /\ task'[v] = task[v] /\ run'[v] = run[v]
    BY <1>11 DEF ReleaseLock, Crash, EndTask, Goto, Assign, IInv, TypeOK
  <2>2. \A s \in Schedules : locks[s] # w => locks'[s] = locks[s]
    BY <1>11 DEF ReleaseLock, Crash, Released, IInv, TypeOK
  <2>3. LeaseHeld'
    BY <2>1, <2>2 DEF IInv, LeaseHeld, TaskLocals, Round
  <2>4. RunOwnsRow' /\ OneRunPerRound' /\ SendsCounted'
    BY <2>1 DEF IInv, RunOwnsRow, OneRunPerRound, SendsCounted, NoRun, Pipeline
  <2>5. QED
    BY <2>1, <2>3, <2>4 DEF IInv, Ties, RowsHaveSchedule, BoundedResend,
       RetryOnlyOfFailed
<1>12. ASSUME NEW s \in Schedules,
              \/ UpdateSchedule(s) \/ CronFires(s) \/ CatchUpCloses(s)
              \/ Dispatch(s)
       PROVE  UNCHANGED core
  BY <1>12 DEF UpdateSchedule, CronFires, CatchUpCloses, Dispatch, core
<1>13. ASSUME NEW j \in Round, Redeliver(j) PROVE UNCHANGED core
  BY <1>13 DEF Redeliver, core
<1>14. ASSUME NEW w \in Workers, NEW j \in Round, SkipLocked(w, j)
       PROVE  UNCHANGED core
  BY <1>14 DEF SkipLocked, core
<1>15. ASSUME UNCHANGED vars PROVE UNCHANGED core
  BY <1>15 DEF vars, core
<1>16. QED
  BY <1>0, <1>1, <1>2, <1>3, <1>4, <1>5, <1>6, <1>7, <1>8, <1>9, <1>10, <1>11,
     <1>12, <1>13, <1>14, <1>15 DEF Next, Step, Exporting

-----------------------------------------------------------------------------
\* The empty pipeline satisfies IInv.
LEMMA InitIInv == Init => IInv
<1> SUFFICES ASSUME Init PROVE IInv
  OBVIOUS
<1>1. TypeOK /\ TaskLocals
  BY InitTyped DEF Typed
<1>2. QED
  BY <1>1, ConstantsOK DEF Init, IInv, LeaseHeld, RowsHaveSchedule, RunOwnsRow,
     OneRunPerRound, SendsCounted, BoundedResend, RetryOnlyOfFailed, NoRun,
     Pipeline

\* IInv is inductive.
LEMMA StepIInv == IInv /\ [Next]_vars => IInv'
BY StepTyped, StepTies DEF IInv, Typed, Ties

\* The inductive invariant holds in every reachable state.
THEOREM Invariance == Spec => []IInv
BY InitIInv, StepIInv, PTL DEF Spec

\* Every reachable state is well-typed: no run exceeds its SMTP attempts, no
\* queue its copies, and a worker's page is one of the report's.
THEOREM TypeCorrect == Spec => []TypeOK
<1>1. IInv => TypeOK
  BY DEF IInv
<1>2. QED
  BY <1>1, Invariance, PTL

\* Two workers are inside tasks of one schedule only after a lock expired
\* under one of them: acquire_lock and release_lock never break a lease.
THEOREM LeasesExclude == Spec => []LeaseExclusion
<1>1. IInv => LeaseExclusion
  BY DEF IInv, LeaseHeld, LeaseExclusion, Holds
<1>2. QED
  BY <1>1, Invariance, PTL

\* Whatever happens to queue and lock, no two workers are past the row insert
\* of the same round.
THEOREM RunsAreUnique == Spec => []OneRunPerRound
<1>1. IInv => OneRunPerRound
  BY DEF IInv
<1>2. QED
  BY <1>1, Invariance, PTL

\* A round puts at most MAIL_RETRY_MAX messages into the mailboxes.
THEOREM ResendsAreBounded == Spec => []BoundedResend
<1>1. IInv => BoundedResend
  BY DEF IInv
<1>2. QED
  BY <1>1, Invariance, PTL

\* Only a job that failed, and still says so, was ever retried.
THEOREM RetriesAreOfFailures == Spec => []RetryOnlyOfFailed
<1>1. IInv => RetryOnlyOfFailed
  BY DEF IInv
<1>2. QED
  BY <1>1, Invariance, PTL

-----------------------------------------------------------------------------
(***************************************************************************)
(* The export rows.  SuccessIsComplete and VerdictSettlesExports speak of  *)
(* what a run leaves behind; what makes them true is that its export rows  *)
(* keep up with its local variables at every label (RunTracksRows), and    *)
(* that nobody else writes them (OneRunPerRound).                          *)
(***************************************************************************)

\* A run has a page in hand from its export row to the row's last update.
PageInHand == {"start", "poll", "mark"}

\* Where the run of w stands among its pages.
Progress(w) ==
    /\ pc[w] \in PageInHand => run[w].page \notin run[w].todo
    /\ pc[w] \in Pipeline \ {"final"} => run[w].selected # {}
    /\ pc[w] \in {"send", "final"} => run[w].todo = {}
    /\ pc[w] = "send" \/ (pc[w] = "final" /\ run[w].ok) =>
          run[w].bad = {} /\ run[w].selected # {}

\* The export rows of w's round say, page for page, what the run of w
\* remembers: nothing of a page it did not try, "unfinished" of the page in
\* hand only, "failed" of the bad ones only, and a page that is none of these
\* succeeded.
RowsFollowRun(w) ==
    LET rows == exports[task[w]]
        InHand(p) == pc[w] \in PageInHand /\ p = run[w].page
    IN  /\ pc[w] = "mark" => run[w].page \in images[task[w]]
        /\ \A p \in Pages :
              /\ p \in run[w].todo => rows[p] = "absent"
              /\ rows[p] \in {"NotStarted", "Running"} => InHand(p)
              /\ rows[p] = "Failed" => p \in run[w].bad
              /\ p \in run[w].selected =>
                    \/ p \in run[w].todo \cup run[w].bad
                    \/ InHand(p)
                    \/ rows[p] = "Succeeded"

RunTracksRows(w) ==
    pc[w] \in Pipeline =>
        Progress(w) /\ (RowExists(task[w]) => RowsFollowRun(w))

\* What holds of a round whoever works on it: export rows and images go with
\* the job, a page that succeeded has its image, and a verdict is true.
Stored(j) ==
    /\ ~RowExists(j) => exports[j] = NoExports /\ images[j] = {}
    /\ \A p \in Pages : exports[j][p] = "Succeeded" => p \in images[j]

TrueVerdict(j) ==
    /\ status[j] = "succeeded" =>
          /\ inbox[j] > 0
          /\ \E p \in Pages : exports[j][p] = "Succeeded"
          /\ \A p \in Pages : exports[j][p] \in {"absent", "Succeeded"}
    /\ status[j] = "failed" =>
          \A p \in Pages : exports[j][p] \notin {"NotStarted", "Running"}

\* The inductive invariant of the export rows, relative to IInv.
ExportInv ==
    /\ \A w \in Workers : RunTracksRows(w)
    /\ \A j \in Round : Stored(j) /\ TrueVerdict(j)

\* What ExportInv speaks about.
exportVars == <<status, exports, images, inbox, pc, task, run>>

\* A step of w touches no other worker, and no round but its own.
Apart(w) ==
    /\ \A v \in Workers \ {w} :
          pc'[v] = pc[v] /\ task'[v] = task[v] /\ run'[v] = run[v]
    /\ \A j \in Round : j = task[w] \/
          /\ status'[j] = status[j] /\ exports'[j] = exports[j]
          /\ images'[j] = images[j] /\ inbox'[j] = inbox[j]

\* The two properties are the last two conjuncts, spelled out.
LEMMA ExportInvSuffices == ExportInv => SuccessIsComplete /\ VerdictSettlesExports
BY DEF ExportInv, Stored, TrueVerdict, SuccessIsComplete, VerdictSettlesExports

\* A run alone works on its round, and on an open row if on any.
LEMMA RunAlone ==
    ASSUME IInv, NEW w \in Workers, pc[w] \in Pipeline
    PROVE  /\ task[w] \in Round
           /\ RowExists(task[w]) => status[task[w]] = "running"
           /\ \A v \in Workers \ {w} : pc[v] \in Pipeline => task[v] # task[w]
BY DEF IInv, TaskLocals, RunOwnsRow, RowsHaveSchedule, OneRunPerRound,
   RowExists, Pipeline

\* After a step of w only w's run and w's round need a second look.
LEMMA OwnRoundSuffices ==
    ASSUME TaskLocals, ExportInv, NEW w \in Workers, Apart(w), UNCHANGED task,
           \A v \in Workers \ {w} : pc[v] \in Pipeline => task[v] # task[w],
           RunTracksRows(w)',
           task[w] \in Round => Stored(task[w])' /\ TrueVerdict(task[w])'
    PROVE  ExportInv'
<1>1. ASSUME NEW j \in Round, j # task[w] PROVE Stored(j)' /\ TrueVerdict(j)'
  BY <1>1 DEF Apart, ExportInv, Stored, TrueVerdict, RowExists
<1>2. ASSUME NEW v \in Workers, v # w PROVE RunTracksRows(v)'
  <2>1. CASE pc[v] \in Pipeline
    <3>1. task[v] \in Round /\ task[v] # task[w]
      BY <1>2, <2>1 DEF TaskLocals, Pipeline
    <3>2. /\ pc'[v] = pc[v] /\ task'[v] = task[v] /\ run'[v] = run[v]
          /\ status'[task[v]] = status[task[v]]
          /\ exports'[task[v]] = exports[task[v]]
          /\ images'[task[v]] = images[task[v]]
      BY <1>2, <3>1 DEF Apart
    <3>3. QED
      BY <1>2, <3>2 DEF ExportInv, RunTracksRows, Progress, RowsFollowRun,
         RowExists
  <2>2. CASE pc[v] \notin Pipeline
    BY <1>2, <2>2 DEF Apart, RunTracksRows
  <2>3. QED
    BY <2>1, <2>2
<1>3. ASSUME NEW j \in Round, j = task[w] PROVE Stored(j)' /\ TrueVerdict(j)'
  BY <1>3 DEF Stored, TrueVerdict, RowExists
<1>4. QED
  BY <1>1, <1>2, <1>3 DEF ExportInv

\* A step that leaves every record of every round alone and takes w out of
\* the pipeline, or does not let it in, cannot disturb the export rows.
LEMMA OutsidePipeline ==
    ASSUME ExportInv, NEW w \in Workers,
           UNCHANGED <<status, exports, images, inbox>>,
           pc'[w] \notin Pipeline,
           \A v \in Workers \ {w} :
              pc'[v] = pc[v] /\ task'[v] = task[v] /\ run'[v] = run[v]
    PROVE  ExportInv'
<1>1. ASSUME NEW v \in Workers, v # w PROVE RunTracksRows(v)'
  BY <1>1 DEF ExportInv, RunTracksRows, Progress, RowsFollowRun, RowExists
<1>2. QED
  BY <1>1 DEF ExportInv, RunTracksRows, Stored, TrueVerdict, RowExists

\* An open row has no verdict, and keeps none when the row stays open.
LEMMA OpenRowHasNoVerdict ==
    ASSUME IInv, NEW w \in Workers, pc[w] \in Pipeline,
           UNCHANGED <<status, task>>
    PROVE  TrueVerdict(task[w])'
BY RunAlone DEF TrueVerdict, RowExists

-----------------------------------------------------------------------------
\* The page loop: one export row or image of the run's own round at a time.

\* The update of one export row of an existing job.
LEMMA MarkedRow ==
    ASSUME TypeOK, NEW j \in Round, NEW p \in Pages, NEW st \in ExportStatus,
           exports' = ExportMarked(j, p, st)
    PROVE  /\ \A i \in Round \ {j} : exports'[i] = exports[i]
           /\ ~RowExists(j) => exports'[j] = exports[j]
           /\ RowExists(j) => /\ exports'[j][p] = st
                              /\ \A q \in Pages \ {p} : exports'[j][q] = exports[j][q]
BY DEF ExportMarked, TypeOK

\* A page that fails leaves the loop as failed.
LEMMA PageFailsTracks ==
    ASSUME IInv, ExportInv, NEW w \in Workers, pc[w] \in {"start", "poll"},
           PageFails(w), UNCHANGED <<status, images, inbox, task>>
    PROVE  ExportInv'
<1> DEFINE j == task[w]
           p == run[w].page
           r == [run[w] EXCEPT !.bad = @ \cup {run[w].page}, !.page = None]
<1>1. /\ TypeOK /\ TaskLocals /\ pc[w] \in Pipeline /\ pc[w] \in PageInHand
      /\ j \in Round /\ p \in Pages /\ run[w] \in Run
  BY RunAlone DEF IInv, TypeOK, TaskLocals, Pipeline, PageInHand
<1>2. Assign(w, r) /\ Goto(w, "export") /\ exports' = ExportMarked(j, p, "Failed")
  BY DEF PageFails
<1>3. /\ r \in Run /\ r.bad = run[w].bad \cup {p}
      /\ r.todo = run[w].todo /\ r.selected = run[w].selected
  BY <1>1 DEF Run
<1> HIDE DEF r
<1>4. /\ run'[w] = r /\ \A v \in Workers \ {w} : run'[v] = run[v]
      /\ pc'[w] = "export" /\ \A v \in Workers \ {w} : pc'[v] = pc[v]
  BY <1>1, <1>2, <1>3, AssignFrame, GotoFrame DEF PC, Pipeline
<1>5. /\ \A i \in Round \ {j} : exports'[i] = exports[i]
      /\ ~RowExists(j) => exports'[j] = exports[j]
      /\ RowExists(j) => /\ exports'[j][p] = "Failed"
                         /\ \A q \in Pages \ {p} : exports'[j][q] = exports[j][q]
  BY <1>1, <1>2, MarkedRow DEF ExportStatus
<1>6. Apart(w)
  BY <1>4, <1>5 DEF Apart
<1>7. Progress(w) /\ (RowExists(j) => RowsFollowRun(w)) /\ Stored(j)
  BY <1>1 DEF ExportInv, RunTracksRows
<1>8. RunTracksRows(w)'
  <2>1. Progress(w)'
    BY <1>1, <1>3, <1>4, <1>7 DEF Progress, PageInHand, Pipeline
  <2>2. ASSUME RowExists(j) PROVE RowsFollowRun(w)'
    <3>1. p \notin run[w].todo
      BY <1>1, <1>7 DEF Progress
    <3>2. QED
      BY <1>1, <1>3, <1>4, <1>5, <1>7, <2>2, <3>1
         DEF RowsFollowRun, PageInHand
  <2>3. QED
    BY <2>1, <2>2 DEF RunTracksRows, RowExists
<1>9. Stored(j)'
  BY <1>1, <1>5, <1>7 DEF Stored, RowExists
<1>10. QED
  BY <1>1, <1>6, <1>8, <1>9, RunAlone, OwnRoundSuffices, OpenRowHasNoVerdict

\* Every step of the page loop keeps the export rows in line with the run.
LEMMA ExportingTracks ==
    ASSUME IInv, ExportInv, NEW w \in Workers, Exporting(w)
    PROVE  ExportInv'
<1> DEFINE j == task[w]
<1> USE DEF cronVars, scheduleVars, jobVars, smtpVars, workerVars, boundVars
<1>0. /\ TypeOK /\ TaskLocals /\ pc[w] \in Pipeline
      /\ j \in Round /\ run[w] \in Run
      /\ UNCHANGED <<status, inbox, task>>
      /\ \A v \in Workers \ {w} : pc'[v] = pc[v] /\ run'[v] = run[v]
  BY ExportingFrame, RunAlone DEF IInv, TypeOK, Pipeline
<1>1. /\ \A v \in Workers \ {w} : pc[v] \in Pipeline => task[v] # j
      /\ TrueVerdict(j)'
  BY <1>0, RunAlone, OpenRowHasNoVerdict
<1>2. Progress(w) /\ (RowExists(j) => RowsFollowRun(w)) /\ Stored(j)
  BY <1>0 DEF ExportInv, RunTracksRows
<1>3. CASE CreateExport(w)
  <2>1. UNCHANGED images /\ pc[w] = "export"
    BY <1>3 DEF CreateExport
  <2>2. CASE RowExists(j)
    <3>1. PICK p \in run[w].todo :
            /\ exports' = ExportMarked(j, p, "NotStarted")
            /\ Assign(w, [run[w] EXCEPT !.todo = @ \ {p}, !.page = p])
            /\ Goto(w, "start")
      BY <1>3, <2>2 DEF CreateExport
    <3> DEFINE r == [run[w] EXCEPT !.todo = @ \ {p}, !.page = p]
    <3>2. /\ p \in Pages /\ r \in Run /\ r.todo = run[w].todo \ {p} /\ r.page = p
          /\ r.bad = run[w].bad /\ r.selected = run[w].selected
      BY <1>0 DEF Run
    <3>3. Assign(w, r)
      BY <3>1
    <3> HIDE DEF r
    <3>4. run'[w] = r /\ pc'[w] = "start"
      BY <1>0, <3>1, <3>2, <3>3, AssignFrame, GotoFrame DEF PC, Pipeline
    <3>5. /\ \A i \in Round \ {j} : exports'[i] = exports[i]
          /\ exports'[j][p] = "NotStarted"
          /\ \A q \in Pages \ {p} : exports'[j][q] = exports[j][q]
      BY <1>0, <2>2, <3>1, <3>2, MarkedRow DEF ExportStatus
    <3>6. Apart(w)
      BY <1>0, <2>1, <3>5 DEF Apart
    <3>7. Progress(w)'
      BY <1>2, <2>1, <3>2, <3>4 DEF Progress, Pipeline, PageInHand
    <3>8. RowsFollowRun(w)'
      BY <1>0, <1>2, <2>1, <2>2, <3>2, <3>4, <3>5 DEF RowsFollowRun, PageInHand
    <3>9. Stored(j)'
      BY <1>0, <1>2, <2>1, <2>2, <3>5 DEF Stored, RowExists
    <3>10. QED
      BY <1>0, <1>1, <3>6, <3>7, <3>8, <3>9, OwnRoundSuffices DEF RunTracksRows
  <2>3. CASE ~RowExists(j)
    <3>1. UNCHANGED exports /\ pc'[w] = "release"
      BY <1>0, <1>3, <2>3, GotoFrame DEF CreateExport, PC
    <3>2. QED
      BY <1>0, <2>1, <3>1, OutsidePipeline DEF Pipeline
  <2>4. QED
    BY <2>2, <2>3
<1>4. CASE StartExport(w)
  <2>1. /\ UNCHANGED images /\ pc[w] = "start" /\ run[w].page \in Pages
    BY <1>0, <1>4 DEF StartExport, TaskLocals
  <2>2. CASE PageFails(w)
    BY <1>0, <2>1, <2>2, PageFailsTracks
  <2>3. CASE /\ exports' = ExportMarked(j, run[w].page, "Running")
             /\ Goto(w, "poll")
             /\ UNCHANGED run
    <3>1. pc'[w] = "poll"
      BY <1>0, <2>3, GotoFrame DEF PC, Pipeline
    <3>2. /\ \A i \in Round \ {j} : exports'[i] = exports[i]
          /\ ~RowExists(j) => exports'[j] = exports[j]
          /\ RowExists(j) =>
                /\ exports'[j][run[w].page] = "Running"
                /\ \A q \in Pages \ {run[w].page} : exports'[j][q] = exports[j][q]
      BY <1>0, <2>1, <2>3, MarkedRow DEF ExportStatus
    <3>3. Apart(w)
      BY <1>0, <2>1, <3>2 DEF Apart
    <3>4. Progress(w)'
      BY <1>2, <2>1, <2>3, <3>1 DEF Progress, Pipeline, PageInHand
    <3>5. ASSUME RowExists(j) PROVE RowsFollowRun(w)'
      BY <1>0, <1>2, <2>1, <2>3, <3>1, <3>2, <3>5
         DEF RowsFollowRun, Progress, PageInHand
    <3>6. Stored(j)'
      BY <1>0, <1>2, <2>1, <3>2 DEF Stored, RowExists
    <3>7. QED
      BY <1>0, <1>1, <3>3, <3>4, <3>5, <3>6, OwnRoundSuffices
         DEF RunTracksRows, RowExists
  <2>4. QED
    BY <1>4, <2>2, <2>3 DEF StartExport
<1>5. CASE FinishExport(w)
  <2>1. pc[w] = "poll" /\ run[w].page \in Pages
    BY <1>0, <1>5 DEF FinishExport, TaskLocals
  <2>2. CASE PageFails(w) /\ UNCHANGED images
    BY <1>0, <2>1, <2>2, PageFailsTracks
  <2>3. CASE /\ RowExists(j)
             /\ images' = [images EXCEPT ![j] = @ \cup {run[w].page}]
             /\ Goto(w, "mark")
             /\ UNCHANGED <<exports, run>>
    <3>1. pc'[w] = "mark"
      BY <1>0, <2>3, GotoFrame DEF PC, Pipeline
    <3>2. /\ \A i \in Round \ {j} : images'[i] = images[i]
          /\ images'[j] = images[j] \cup {run[w].page}
      BY <1>0, <2>3 DEF TypeOK
    <3>3. Apart(w)
      BY <1>0, <2>3, <3>2 DEF Apart
    <3>4. Progress(w)'
      BY <1>2, <2>1, <2>3, <3>1 DEF Progress, Pipeline, PageInHand
    <3>5. RowsFollowRun(w)'
      BY <1>0, <1>2, <2>1, <2>3, <3>1, <3>2 DEF RowsFollowRun, PageInHand
    <3>6. Stored(j)'
      BY <1>0, <1>2, <2>3, <3>2 DEF Stored, RowExists
    <3>7. QED
      BY <1>0, <1>1, <3>3, <3>4, <3>5, <3>6, OwnRoundSuffices DEF RunTracksRows
  <2>4. QED
    BY <1>5, <2>2, <2>3 DEF FinishExport
<1>6. CASE MarkExported(w)
  <2> DEFINE r == [run[w] EXCEPT !.page = None]
             p == run[w].page
  <2>1. UNCHANGED images /\ pc[w] = "mark" /\ p \in Pages
    BY <1>0, <1>6 DEF MarkExported, TaskLocals
  <2>2. /\ exports' = ExportMarked(j, p, "Succeeded")
        /\ Assign(w, r) /\ Goto(w, "export")
    BY <1>6 DEF MarkExported
  <2>3. /\ r \in Run /\ r.todo = run[w].todo /\ r.bad = run[w].bad
        /\ r.selected = run[w].selected
    BY <1>0 DEF Run
  <2> HIDE DEF r
  <2>4. run'[w] = r /\ pc'[w] = "export"
    BY <1>0, <2>2, <2>3, AssignFrame, GotoFrame DEF PC, Pipeline
  <2>5. /\ \A i \in Round \ {j} : exports'[i] = exports[i]
        /\ ~RowExists(j) => exports'[j] = exports[j]
        /\ RowExists(j) => /\ exports'[j][p] = "Succeeded"
                           /\ \A q \in Pages \ {p} : exports'[j][q] = exports[j][q]
    BY <1>0, <2>1, <2>2, MarkedRow DEF ExportStatus
  <2>6. Apart(w)
    BY <1>0, <2>1, <2>5 DEF Apart
  <2>7. Progress(w)'
    BY <1>2, <2>1, <2>3, <2>4 DEF Progress, Pipeline, PageInHand
  <2>8. ASSUME RowExists(j) PROVE RowsFollowRun(w)'
    BY <1>0, <1>2, <2>1, <2>3, <2>4, <2>5, <2>8
       DEF RowsFollowRun, Progress, PageInHand
  <2>9. Stored(j)'
    BY <1>0, <1>2, <2>1, <2>5 DEF Stored, RowExists, RowsFollowRun
  <2>10. QED
    BY <1>0, <1>1, <2>6, <2>7, <2>8, <2>9, OwnRoundSuffices
       DEF RunTracksRows, RowExists
<1>7. CASE PrepareMail(w)
  <2>1. /\ UNCHANGED <<exports, images>> /\ pc[w] = "export" /\ run[w].todo = {}
    BY <1>7 DEF PrepareMail
  <2>2. Apart(w) /\ Stored(j)'
    BY <1>0, <1>2, <2>1 DEF Apart, Stored, RowExists
  <2>3. CASE Goto(w, "final") /\ UNCHANGED run
    <3>1. pc'[w] = "final" /\ ~run[w].ok
      BY <1>0, <2>1, <2>3, GotoFrame DEF PC, Pipeline, IInv, SendsCounted
    <3>2. Progress(w)' /\ (RowExists(j) => RowsFollowRun(w)')
      BY <1>0, <1>2, <2>1, <2>3, <3>1
         DEF Progress, RowsFollowRun, Pipeline, PageInHand
    <3>3. QED
      BY <1>0, <1>1, <2>2, <3>2, OwnRoundSuffices DEF RunTracksRows, RowExists
  <2>4. CASE /\ EveryPageExported(w)
             /\ \E readable \in SUBSET images[j] :
                    Assign(w, [run[w] EXCEPT !.attached = readable])
             /\ Goto(w, "send")
    <3>1. PICK readable \in SUBSET images[j] :
              Assign(w, [run[w] EXCEPT !.attached = readable])
      BY <2>4
    <3> DEFINE r == [run[w] EXCEPT !.attached = readable]
    <3>2. readable \in SUBSET Pages
      BY <1>0 DEF TypeOK
    <3>3. /\ r \in Run /\ r.todo = run[w].todo /\ r.bad = run[w].bad
          /\ r.selected = run[w].selected /\ Assign(w, r)
      BY <1>0, <3>1, <3>2 DEF Run
    <3> HIDE DEF r
    <3>4. run'[w] = r /\ pc'[w] = "send"
      BY <1>0, <2>4, <3>3, AssignFrame, GotoFrame DEF PC, Pipeline
    <3>5. run[w].bad = {}
      BY <2>4 DEF EveryPageExported
    <3>6. Progress(w)' /\ (RowExists(j) => RowsFollowRun(w)')
      BY <1>0, <1>2, <2>1, <3>3, <3>4, <3>5
         DEF Progress, RowsFollowRun, Pipeline, PageInHand
    <3>7. QED
      BY <1>0, <1>1, <2>2, <3>6, OwnRoundSuffices DEF RunTracksRows, RowExists
  <2>5. QED
    BY <1>7, <2>3, <2>4 DEF PrepareMail
<1>8. QED
  BY <1>3, <1>4, <1>5, <1>6, <1>7 DEF Exporting

-----------------------------------------------------------------------------
\* The insert of the row finds no export rows and no image of the round.
LEMMA CreateMailJobTracks ==
    ASSUME IInv, ExportInv, NEW w \in Workers, CreateMailJob(w)
    PROVE  ExportInv'
<1> DEFINE j == task[w]
           selected == config[j[1]].pages
           r == [run[w] EXCEPT !.selected = selected, !.todo = selected]
<1>1. /\ UNCHANGED <<exports, images, inbox, task>> /\ TypeOK /\ TaskLocals
      /\ pc[w] = "create" /\ j \in Round /\ run[w] = NoRun
  BY DEF CreateMailJob, IInv, TaskLocals, smtpVars
<1>2. CASE UNCHANGED <<status, run>> /\ Goto(w, "release")
  BY <1>1, <1>2, GotoFrame, OutsidePipeline DEF PC, Pipeline
<1>3. CASE /\ phase[j[1]] = "live" /\ UniqueRunKey(j)
           /\ status' = [status EXCEPT ![j] = "running"]
           /\ Assign(w, r)
           /\ Goto(w, IF selected = {} THEN "final" ELSE "export")
  <2>1. selected \in SUBSET Pages /\ run[w] \in Run
    BY <1>1 DEF TypeOK, Config, Round
  <2>2. /\ r \in Run /\ r.selected = selected /\ r.todo = selected
        /\ r.bad = {} /\ r.ok = FALSE
    <3>1. run[w].bad = {} /\ run[w].ok = FALSE
      BY <1>1 DEF NoRun
    <3>2. QED
      BY <2>1, <3>1 DEF Run
  <2> HIDE DEF r
  <2>3. /\ run'[w] = r /\ \A v \in Workers \ {w} : run'[v] = run[v]
    BY <1>1, <1>3, <2>2, AssignFrame
  <2>4. /\ pc'[w] = IF selected = {} THEN "final" ELSE "export"
        /\ \A v \in Workers \ {w} : pc'[v] = pc[v]
    BY <1>1, <1>3, GotoFrame DEF PC, Pipeline
  <2>5. /\ status[j] = "absent" /\ status'[j] = "running"
        /\ \A i \in Round \ {j} : status'[i] = status[i]
    BY <1>1, <1>3 DEF UniqueRunKey, TypeOK
  <2>6. exports[j] = NoExports /\ images[j] = {}
    BY <1>1, <2>5 DEF ExportInv, Stored, RowExists
  <2>7. \A p \in Pages : exports'[j][p] = "absent"
    BY <1>1, <2>6 DEF NoExports
  <2>8. \A v \in Workers \ {w} : pc[v] \in Pipeline => task[v] # j
    BY <1>3, <2>5 DEF IInv, RunOwnsRow
  <2>9. Apart(w)
    BY <1>1, <2>3, <2>4, <2>5 DEF Apart
  <2>10. Progress(w)'
    BY <2>2, <2>3, <2>4 DEF Progress, Pipeline, PageInHand
  <2>11. RowsFollowRun(w)'
    BY <1>1, <2>2, <2>3, <2>4, <2>7 DEF RowsFollowRun, PageInHand
  <2>12. Stored(j)' /\ TrueVerdict(j)'
    BY <1>1, <2>5, <2>7 DEF Stored, TrueVerdict, RowExists
  <2>13. QED
    BY <1>1, <2>8, <2>9, <2>10, <2>11, <2>12, OwnRoundSuffices
       DEF RunTracksRows
<1>4. QED
  BY <1>2, <1>3 DEF CreateMailJob

\* An SMTP attempt changes neither rows nor pages.
LEMMA SendTracks ==
    ASSUME IInv, ExportInv, NEW w \in Workers, SendAccepted(w) \/ SendRaised(w)
    PROVE  ExportInv'
<1> DEFINE j == task[w]
<1>1. /\ UNCHANGED <<status, exports, images, task>> /\ TypeOK /\ TaskLocals
      /\ pc[w] = "send" /\ pc[w] \in Pipeline /\ j \in Round /\ run[w] \in Run
  BY DEF SendAccepted, SendRaised, IInv, TypeOK, TaskLocals, Pipeline, jobVars
<1>2. /\ pc'[w] \in {"send", "final"}
      /\ \A v \in Workers \ {w} : pc'[v] = pc[v] /\ run'[v] = run[v]
  BY <1>1 DEF SendAccepted, SendRaised, Goto, Assign, TypeOK
<1>3. /\ run'[w].todo = run[w].todo /\ run'[w].bad = run[w].bad
      /\ run'[w].selected = run[w].selected
  BY <1>1 DEF SendAccepted, SendRaised, Assign, TypeOK, Run
<1>4. \A i \in Round \ {j} : inbox'[i] = inbox[i]
  BY <1>1 DEF SendAccepted, SendRaised, Delivered, TypeOK, smtpVars
<1>5. Apart(w)
  BY <1>1, <1>2, <1>4 DEF Apart
<1>6. Progress(w) /\ (RowExists(j) => RowsFollowRun(w)) /\ Stored(j)
  BY <1>1 DEF ExportInv, RunTracksRows
<1>7. Progress(w)' /\ (RowExists(j) => RowsFollowRun(w)')
  BY <1>1, <1>2, <1>3, <1>6 DEF Progress, RowsFollowRun, Pipeline, PageInHand
<1>8. Stored(j)'
  BY <1>1, <1>6 DEF Stored, RowExists
<1>9. QED
  BY <1>1, <1>5, <1>7, <1>8, RunAlone, OpenRowHasNoVerdict, OwnRoundSuffices
     DEF RunTracksRows, RowExists

\* The verdict is true when it is written: a run that sent its mail has no
\* bad page and none left to try, so every selected page succeeded.
LEMMA FinalizeTracks ==
    ASSUME IInv, ExportInv, NEW w \in Workers, Finalize(w)
    PROVE  ExportInv'
<1> DEFINE j == task[w]
<1>1. /\ UNCHANGED <<exports, images, inbox, task, run>> /\ TypeOK /\ TaskLocals
      /\ pc[w] = "final" /\ pc[w] \in Pipeline /\ j \in Round /\ run[w] \in Run
  BY DEF Finalize, IInv, TypeOK, TaskLocals, Pipeline, smtpVars
<1>2. /\ pc'[w] = "release"
      /\ \A v \in Workers \ {w} : pc'[v] = pc[v]
  BY <1>1 DEF Finalize, Goto, TypeOK
<1>3. /\ \A i \in Round \ {j} : status'[i] = status[i]
      /\ ~RowExists(j) => status'[j] = status[j]
      /\ RowExists(j) => status'[j] = IF run[w].ok THEN "succeeded" ELSE "failed"
  BY <1>1 DEF Finalize, RowExists, TypeOK
<1>4. Apart(w) /\ RunTracksRows(w)'
  BY <1>1, <1>2, <1>3 DEF Apart, RunTracksRows, Pipeline
<1>5. Progress(w) /\ (RowExists(j) => RowsFollowRun(w)) /\ Stored(j)
  BY <1>1 DEF ExportInv, RunTracksRows
<1>6. Stored(j)'
  BY <1>1, <1>3, <1>5 DEF Stored, RowExists
<1>7. TrueVerdict(j)'
  <2>1. CASE ~RowExists(j)
    BY <1>1, <1>3, <2>1 DEF TrueVerdict, RowExists
  <2>2. CASE RowExists(j)
    <3>1. \A p \in Pages : exports[j][p] \notin {"NotStarted", "Running"}
      BY <1>1, <1>5, <2>2 DEF RowsFollowRun, PageInHand
    <3>2. ASSUME run[w].ok
          PROVE  /\ inbox[j] > 0
                 /\ \E p \in Pages : exports[j][p] = "Succeeded"
                 /\ \A p \in Pages : exports[j][p] \in {"absent", "Succeeded"}
      <4>1. run[w].bad = {} /\ run[w].todo = {} /\ run[w].selected # {}
        BY <1>1, <1>5, <3>2 DEF Progress
      <4>2. PICK p \in Pages : p \in run[w].selected
        BY <1>1, <4>1 DEF Run
      <4>3. exports[j][p] = "Succeeded"
        BY <1>1, <1>5, <2>2, <4>1, <4>2 DEF RowsFollowRun, PageInHand
      <4>4. \A q \in Pages : exports[j][q] \in ExportStatus /\ exports[j][q] # "Failed"
        BY <1>1, <1>5, <2>2, <4>1 DEF RowsFollowRun, TypeOK
      <4>5. inbox[j] > 0
        BY <1>1, <3>2 DEF IInv, SendsCounted
      <4>6. QED
        BY <3>1, <4>3, <4>4, <4>5 DEF ExportStatus
    <3>3. QED
      BY <1>1, <1>3, <2>2, <3>1, <3>2 DEF TrueVerdict
  <2>3. QED
    BY <2>1, <2>2
<1>8. QED
  BY <1>1, <1>4, <1>6, <1>7, RunAlone, OwnRoundSuffices

-----------------------------------------------------------------------------
\* A pipeline without rows satisfies ExportInv.
LEMMA InitExportInv == Init => ExportInv
BY DEF Init, ExportInv, RunTracksRows, Stored, TrueVerdict, RowExists,
   NoExports, Pipeline

\* ExportInv is inductive, relative to IInv.
LEMMA StepExportInv == IInv /\ ExportInv /\ [Next]_vars => ExportInv'
<1> SUFFICES ASSUME IInv, ExportInv, [Next]_vars PROVE ExportInv'
  OBVIOUS
<1> USE DEF cronVars, scheduleVars, jobVars, smtpVars, workerVars, boundVars
<1>0. ASSUME UNCHANGED exportVars PROVE ExportInv'
  BY <1>0 DEF exportVars, ExportInv, RunTracksRows, Progress, RowsFollowRun,
     Stored, TrueVerdict, RowExists
<1>1. ASSUME NEW s \in Schedules, DeleteSchedule(s) PROVE ExportInv'
  <2>1. UNCHANGED <<inbox, pc, task, run>>
    BY <1>1 DEF DeleteSchedule
  <2>2. \A j \in Round : IF j[1] = s
          THEN status'[j] = "absent" /\ exports'[j] = NoExports /\ images'[j] = {}
          ELSE /\ status'[j] = status[j] /\ exports'[j] = exports[j]
               /\ images'[j] = images[j]
    BY <1>1 DEF DeleteSchedule
  <2>3. ASSUME NEW j \in Round PROVE Stored(j)' /\ TrueVerdict(j)'
    BY <2>1, <2>2 DEF ExportInv, Stored, TrueVerdict, RowExists, NoExports
  <2>4. ASSUME NEW w \in Workers PROVE RunTracksRows(w)'
    <3>1. CASE pc[w] \in Pipeline
      <4>1. task[w] \in Round
        BY <3>1, RunAlone
      <4>2. Progress(w)'
        BY <2>1, <3>1 DEF ExportInv, RunTracksRows, Progress
      <4>3. RowExists(task[w])' => RowsFollowRun(w)'
        BY <2>1, <2>2, <3>1, <4>1 DEF ExportInv, RunTracksRows, RowsFollowRun,
           RowExists
      <4>4. QED
        BY <4>2, <4>3 DEF RunTracksRows
    <3>2. CASE pc[w] \notin Pipeline
      BY <2>1, <3>2 DEF RunTracksRows
    <3>3. QED
      BY <3>1, <3>2
  <2>5. QED
    BY <2>3, <2>4 DEF ExportInv
<1>2. ASSUME NEW w \in Workers, NEW j \in Round, AcquireLock(w, j)
      PROVE  ExportInv'
  <2>1. /\ UNCHANGED <<status, exports, images, inbox, run>>
        /\ pc'[w] = "check"
        /\ \A v \in Workers \ {w} : pc'[v] = pc[v] /\ task'[v] = task[v]
    BY <1>2 DEF AcquireLock, IInv, TypeOK
  <2>2. QED
    BY <2>1, OutsidePipeline DEF Pipeline
<1>3. ASSUME NEW w \in Workers, CheckDuplicate(w) \/ Raise(w)
      PROVE  ExportInv'
  <2>1. /\ UNCHANGED <<status, exports, images, inbox, task, run>>
        /\ pc'[w] \in {"release", "create"}
        /\ \A v \in Workers \ {w} : pc'[v] = pc[v]
    BY <1>3 DEF CheckDuplicate, Raise, Goto, IInv, TypeOK
  <2>2. QED
    BY <2>1, OutsidePipeline DEF Pipeline
<1>4. ASSUME NEW w \in Workers, ReleaseLock(w) \/ Crash(w) PROVE ExportInv'
  <2>1. /\ UNCHANGED <<status, exports, images, inbox>> /\ pc'[w] = "idle"
        /\ \A v \in Workers \ {w} :
              pc'[v] = pc[v] /\ task'[v] = task[v] /\ run'[v] = run[v]
    BY <1>4 DEF ReleaseLock, Crash, EndTask, Goto, Assign, IInv, TypeOK
  <2>2. QED
    BY <2>1, OutsidePipeline DEF Pipeline
<1>5. ASSUME NEW s \in Schedules,
             \/ CreateSchedule(s) \/ UpdateSchedule(s) \/ CronFires(s)
             \/ CatchUpCloses(s) \/ Dispatch(s) \/ LockExpires(s)
      PROVE  UNCHANGED exportVars
  BY <1>5 DEF CreateSchedule, UpdateSchedule, CronFires, CatchUpCloses,
     Dispatch, LockExpires, exportVars
<1>6. ASSUME NEW j \in Round,
             \/ \E k \in Retries : RetryMailJob(j, k)
             \/ Redeliver(j)
             \/ \E w \in Workers : SkipLocked(w, j)
      PROVE  UNCHANGED exportVars
  BY <1>6 DEF RetryMailJob, Redeliver, SkipLocked, exportVars
<1>7. CASE UNCHANGED vars
  BY <1>0, <1>7 DEF vars, exportVars
<1>8. QED
  BY <1>0, <1>1, <1>2, <1>3, <1>4, <1>5, <1>6, <1>7, ExportingTracks,
     CreateMailJobTracks, SendTracks, FinalizeTracks DEF Next, Step, Exporting

\* The export rows keep up with the runs in every reachable state.
THEOREM RowsTrackRuns == Spec => [](IInv /\ ExportInv)
BY InitIInv, InitExportInv, StepIInv, StepExportInv, PTL DEF Spec

\* A job that says succeeded has at least one exported page, no page failed or
\* unfinished, every exported page with its image, and an accepted mail.
THEOREM SuccessesAreComplete == Spec => []SuccessIsComplete
BY ExportInvSuffices, RowsTrackRuns, PTL

\* A job with a verdict has no export row left NotStarted or Running, whatever
\* failed on the way there.
THEOREM VerdictsSettleExports == Spec => []VerdictSettlesExports
BY ExportInvSuffices, RowsTrackRuns, PTL

-----------------------------------------------------------------------------
\* The schedules that can still open a round, as Ledger sees them.
existing == {s \in Schedules : phase[s] # "deleted"}

\* The empty pipeline shows an empty ledger.
LEMMA InitLedger == Init => Ledger!Init
BY DEF Init, Ledger!Init, Ledger!Round, Round

\* Every step of the pipeline is a step of the ledger or leaves it alone.
LEMMA StepLedger == IInv /\ [Next]_vars => [Ledger!Next]_Ledger!ledger
<1> SUFFICES ASSUME IInv, [Next]_vars PROVE [Ledger!Next]_Ledger!ledger
  OBVIOUS
<1> DEFINE Same == UNCHANGED <<existing, status, inbox>>
<1> USE DEF cronVars, scheduleVars, jobVars, smtpVars, workerVars, boundVars
<1>0. Same => UNCHANGED Ledger!ledger
  BY DEF Ledger!ledger, existing
<1>1. ASSUME NEW s \in Schedules, CreateSchedule(s) PROVE Same
  BY <1>1 DEF CreateSchedule, existing, IInv, TypeOK
<1>2. ASSUME NEW s \in Schedules, DeleteSchedule(s) PROVE Ledger!Remove(s)
  <2>1. s \in existing /\ existing' = existing \ {s}
    BY <1>2 DEF DeleteSchedule, existing, IInv, TypeOK
  <2>2. QED
    BY <1>2, <2>1 DEF DeleteSchedule, existing, Ledger!Remove, Ledger!Round,
       Round
<1>3. ASSUME NEW w \in Workers, CreateMailJob(w)
      PROVE  Same \/ Ledger!Open(task[w])
  <2>1. UNCHANGED <<existing, inbox>> /\ task[w] \in Round
    BY <1>3 DEF CreateMailJob, existing, IInv, TaskLocals
  <2>2. CASE UNCHANGED status
    BY <2>1, <2>2
  <2>3. CASE /\ phase[task[w][1]] = "live" /\ UniqueRunKey(task[w])
             /\ status' = [status EXCEPT ![task[w]] = "running"]
    <3>1. task[w][1] \in existing /\ inbox[task[w]] = 0
      BY <2>1, <2>3 DEF UniqueRunKey, existing, IInv, SendsCounted, Round
    <3>2. QED
      BY <2>1, <2>3, <3>1 DEF UniqueRunKey, Ledger!Open, existing
  <2>4. QED
    BY <1>3, <2>2, <2>3 DEF CreateMailJob
<1>4. ASSUME NEW w \in Workers, SendAccepted(w) \/ SendRaised(w)
      PROVE  Same \/ Ledger!Accept(task[w])
  <2>1. /\ UNCHANGED <<existing, status>>
        /\ task[w] \in Round /\ pc[w] = "send"
    BY <1>4 DEF SendAccepted, SendRaised, existing, IInv, TaskLocals
  <2>2. CASE UNCHANGED inbox
    BY <2>1, <2>2
  <2>3. CASE inbox' = [inbox EXCEPT ![task[w]] = @ + 1]
    <3>1. status[task[w]] = "running" \/ task[w][1] \notin existing
      BY <2>1 DEF IInv, RunOwnsRow, Pipeline, existing
    <3>2. inbox[task[w]] < MailRetryMax
      <4>1. /\ inbox[task[w]] <= run[w].tries /\ run[w].tries < MailRetryMax
            /\ run[w] \in Run /\ inbox[task[w]] \in Nat
        BY <2>1 DEF IInv, TypeOK, TaskLocals, SendsCounted, Pipeline
      <4>2. QED
        BY <4>1, ConstantsOK DEF Run
    <3>3. QED
      BY <2>1, <2>3, <3>1, <3>2 DEF Ledger!Accept, existing
  <2>4. QED
    BY <1>4, <2>2, <2>3 DEF SendAccepted, SendRaised, Delivered
<1>5. ASSUME NEW w \in Workers, Finalize(w)
      PROVE  Same \/ Ledger!Settle(task[w])
  <2>1. /\ UNCHANGED <<existing, inbox>>
        /\ task[w] \in Round /\ pc[w] = "final"
    BY <1>5 DEF Finalize, existing, IInv, TaskLocals
  <2>2. CASE UNCHANGED status
    BY <2>1, <2>2
  <2>3. CASE /\ RowExists(task[w])
             /\ status' = [status EXCEPT ![task[w]] =
                             IF run[w].ok THEN "succeeded" ELSE "failed"]
    <3>1. status[task[w]] = "running"
      BY <2>1, <2>3 DEF RowExists, IInv, RunOwnsRow, RowsHaveSchedule, Pipeline
    <3>2. run[w].ok => inbox[task[w]] > 0
      BY <2>1 DEF IInv, SendsCounted
    <3>3. QED
      BY <2>1, <2>3, <3>1, <3>2 DEF Ledger!Settle, existing
  <2>4. QED
    BY <1>5, <2>2, <2>3 DEF Finalize
<1>6. ASSUME NEW w \in Workers, Exporting(w) PROVE Same
  BY <1>6, ExportingFrame DEF IInv, existing
<1>7. ASSUME NEW w \in Workers,
             \/ CheckDuplicate(w) \/ ReleaseLock(w) \/ Raise(w) \/ Crash(w)
      PROVE  Same
  BY <1>7 DEF CheckDuplicate, ReleaseLock, Raise, Crash, existing
<1>8. ASSUME NEW w \in Workers, NEW j \in Round,
             SkipLocked(w, j) \/ AcquireLock(w, j)
      PROVE  Same
  BY <1>8 DEF SkipLocked, AcquireLock, existing
<1>9. ASSUME NEW j \in Round, NEW k \in Retries, RetryMailJob(j, k) PROVE Same
  BY <1>9 DEF RetryMailJob, existing
<1>10. ASSUME NEW j \in Round, Redeliver(j) PROVE Same
  BY <1>10 DEF Redeliver, existing
<1>11. ASSUME NEW s \in Schedules,
              \/ UpdateSchedule(s) \/ CronFires(s) \/ CatchUpCloses(s)
              \/ Dispatch(s) \/ LockExpires(s)
       PROVE  Same
  BY <1>11 DEF UpdateSchedule, CronFires, CatchUpCloses, Dispatch, LockExpires,
     existing
<1>12. ASSUME UNCHANGED vars PROVE Same
  BY <1>12 DEF vars, existing
<1>13. \A w \in Workers : pc[w] # "idle" => task[w] \in Round
  BY DEF IInv, TaskLocals
<1>14. ASSUME \/ Same
              \/ \E s \in Schedules : Ledger!Remove(s)
              \/ \E j \in Round : Ledger!Open(j) \/ Ledger!Accept(j)
                                    \/ Ledger!Settle(j)
       PROVE  [Ledger!Next]_Ledger!ledger
  BY <1>0, <1>14 DEF Ledger!Next, Ledger!Round, Round
<1> HIDE DEF Same
<1>15. ASSUME NEW w \in Workers, Step(w) \/ Raise(w) \/ Crash(w)
       PROVE  [Ledger!Next]_Ledger!ledger
  <2>1. task[w] \in Round
    BY <1>13, <1>15 DEF Step, CheckDuplicate, CreateMailJob, CreateExport,
       StartExport, FinishExport, MarkExported, PrepareMail, SendAccepted,
       SendRaised, Finalize, ReleaseLock, Raise, Crash, Beginning, Pipeline
  <2>2. QED
    BY <1>3, <1>4, <1>5, <1>6, <1>7, <1>14, <1>15, <2>1 DEF Step, Exporting
<1>16. QED
  BY <1>1, <1>2, <1>8, <1>9, <1>10, <1>11, <1>12, <1>14, <1>15 DEF Next

\* The pipeline implements the ledger: no interleaving of workers, retries,
\* deletions and faults shows anything but rounds that open once, receive at
\* most MAIL_RETRY_MAX messages and one verdict.
THEOREM PipelineImplementsLedger == Spec => LedgerSpec
<1>1. Init => Ledger!Init
  BY InitLedger
<1>2. IInv /\ [Next]_vars => [Ledger!Next]_Ledger!ledger
  BY StepLedger
<1>3. QED
  BY <1>1, <1>2, Invariance, PTL DEF Spec, LedgerSpec, Ledger!Spec

\* A step of the ledger never changes a verdict except by removing its row.
LEMMA LedgerKeepsVerdicts ==
    ASSUME TypeOK, TypeOK', [Ledger!Next]_Ledger!ledger, NEW j \in Round,
           status[j] \in {"succeeded", "failed"}
    PROVE  status'[j] = status[j] \/ phase'[j[1]] = "deleted"
<1>1. CASE \E i \in Round : Ledger!Open(i) \/ Ledger!Accept(i) \/ Ledger!Settle(i)
  BY <1>1 DEF Ledger!Open, Ledger!Accept, Ledger!Settle, TypeOK
<1>2. CASE \E s \in Schedules : Ledger!Remove(s)
  <2>1. PICK s \in Schedules : Ledger!Remove(s)
    BY <1>2
  <2>2. existing' = existing \ {s}
    BY <2>1 DEF Ledger!Remove, existing
  <2>3. phase'[s] = "deleted"
    BY <2>2 DEF existing
  <2>4. QED
    BY <2>1, <2>3 DEF Ledger!Remove, Ledger!Round, Round
<1>3. CASE UNCHANGED Ledger!ledger
  BY <1>3 DEF Ledger!ledger
<1>4. QED
  BY <1>1, <1>2, <1>3 DEF Ledger!Next, Ledger!Round, Round

\* A recorded verdict is never overwritten by a late run or by anything else;
\* it can only be deleted with its schedule.
THEOREM VerdictsAreFinal == Spec => VerdictIsFinal
<1> DEFINE Final == \A j \in Round :
               status[j] \in {"succeeded", "failed"} =>
                   status'[j] = status[j] \/ phase'[j[1]] = "deleted"
<1>1. IInv /\ IInv' /\ [Next]_vars => [Final]_vars
  BY StepLedger, LedgerKeepsVerdicts DEF IInv
<1>2. QED
  BY <1>1, Invariance, PTL DEF Spec, VerdictIsFinal

=============================================================================
