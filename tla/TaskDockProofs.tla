---------------------------- MODULE TaskDockProofs ----------------------------
(***************************************************************************)
(* The safety of the task dock, for any tasks: what the verdict of a row   *)
(* and the download of a file have to do with the jobs on the server, the  *)
(* status of a dataset being read past a cache.                            *)
(***************************************************************************)
EXTENDS TaskDock, TLAPS

\* A refresh of this tab that the server has accepted.
Asked(t) == Kind[t] = "refresh" /\ job[t] # "none"

\* A file that was downloaded is known to the row that would do it again.
DownloadKnown(t) ==
  /\ downloads[t] \in {0, 1}
  /\ downloads[t] = 1 =>
       /\ Kind[t] = "export" /\ job[t] # "none"
       /\ Listed(t) => tasks[t].downloaded

\* Nothing is known of a refresh before it is accepted.
AskedFirst(t) ==
  /\ request[t] = "start" => Kind[t] = "collect"
  /\ request[t] \in {"cancel-dock", "cancel-page"} => Kind[t] = "refresh"
  /\ request[t] = "refresh" => Asked(t)
  /\ Kind[t] = "refresh" /\ ~Asked(t) =>
       ~Listed(t) /\ reading[t] = Nothing /\ since[t] = {}

\* The runs in progress since t was asked for: one that is in progress is among
\* them, and once there was one, the run that ended last is.
RunsKnown(t) ==
  /\ since[t] \subseteq Runs
  /\ \A u \in Runs : job[u] = "running" => u \in since[t]
  /\ since[t] # {} => InProgress \/ lastRun \in since[t]

\* A row that has seen a run in progress, or is about to, can only be told of
\* such runs from then on: neither the cache, once what it was told is stored,
\* nor what it has read is older.
Seen(t)    == Listed(t) /\ tasks[t].seen
Trusts(t)  == reading[t] = Progress \/ Seen(t)
Told(t)    == (reading[t] = Progress /\ t \notin fresh) \/ Seen(t)
Good(t, a) == a \in {Nothing, Progress} \cup since[t]

StatusKnown(t) ==
  /\ cached = Progress \/ Trusts(t) => since[t] # {}
  /\ Told(t) => Good(t, cached)
  /\ Seen(t) => Good(t, reading[t])

\* VerdictMatchesRun for one task.
VerdictMatches(t) ==
  Listed(t) /\ tasks[t].seen =>
    /\ tasks[t].status = "success"   => \E u \in since[t] : job[u] = "Completed"
    /\ tasks[t].status = "cancelled" => \E u \in since[t] : job[u] = "Cancelled"

TaskInv(t) ==
  /\ DownloadKnown(t) /\ AskedFirst(t)
  /\ Asked(t) => RunsKnown(t)
  /\ Asked(t) /\ t \notin misled => StatusKnown(t) /\ VerdictMatches(t)

IInv ==
  /\ DockTypeOK
  /\ \A t \in Tasks : TaskInv(t)

-----------------------------------------------------------------------------
\* The parts of DockTypeOK one by one.
LEMMA TypeParts ==
  ASSUME DockTypeOK, NEW t \in Tasks
  PROVE  /\ Listed(t) => tasks[t] \in Task
         /\ ~Listed(t) => tasks[t] = NoTask
         /\ job[t] \in Jobs /\ request[t] \in Requests
         /\ downloads[t] \in 0..2 /\ reading[t] \in Answer
         /\ since[t] \in SUBSET Tasks /\ cached \in Answer
BY DEF DockTypeOK, Listed

\* A task that starts.
LEMMA NewTaskTyped ==
  ASSUME NEW t \in Tasks
  PROVE  /\ NewTask(t) \in Task
         /\ NewTask(t).status = "pending" /\ ~NewTask(t).seen
         /\ ~NewTask(t).downloaded
<1>1. (Kind[t] # "collect") \in BOOLEAN
  OBVIOUS
<1>2. QED
  BY <1>1 DEF NewTask, Task, Status

\* A listed task is none of the values that stand for no task.
LEMMA ListedTask ==
  ASSUME NEW task \in Task PROVE task # NoTask
BY DockAssumption

\* A write to one entry of the list.
LEMMA EntryFrame ==
  ASSUME DockTypeOK, NEW t \in Tasks, NEW x \in Task \cup {NoTask},
         tasks' = [tasks EXCEPT ![t] = x]
  PROVE  /\ tasks' \in [Tasks -> Task \cup {NoTask}]
         /\ tasks'[t] = x
         /\ \A u \in Tasks \ {t} : tasks'[u] = tasks[u]
BY DEF DockTypeOK

\* A patch keeps the task listed, or unlisted.
LEMMA PatchedFrame ==
  ASSUME DockTypeOK, NEW t \in Tasks, NEW x, Listed(t) => x \in Task,
         tasks' = Patched(t, x)
  PROVE  /\ tasks' \in [Tasks -> Task \cup {NoTask}]
         /\ Listed(t)' <=> Listed(t)
         /\ Listed(t) => tasks'[t] = x
         /\ ~Listed(t) => tasks' = tasks
         /\ \A u \in Tasks \ {t} : tasks'[u] = tasks[u]
<1>1. CASE Listed(t)
  <2>1. x \in Task /\ x # NoTask /\ tasks' = [tasks EXCEPT ![t] = x]
    BY <1>1, ListedTask DEF Patched
  <2>2. /\ tasks' \in [Tasks -> Task \cup {NoTask}]
        /\ tasks'[t] = x
        /\ \A u \in Tasks \ {t} : tasks'[u] = tasks[u]
    BY <2>1, EntryFrame
  <2>3. QED
    BY <1>1, <2>1, <2>2 DEF Listed
<1>2. CASE ~Listed(t)
  BY <1>2 DEF Patched, DockTypeOK, Listed
<1>3. QED
  BY <1>1, <1>2

\* A new status leaves what the row has seen and downloaded.
LEMMA SetStatusFrame ==
  ASSUME DockTypeOK, NEW t \in Tasks, NEW s \in Status, tasks' = SetStatus(t, s)
  PROVE  /\ tasks' \in [Tasks -> Task \cup {NoTask}]
         /\ Listed(t)' <=> Listed(t)
         /\ Listed(t) => /\ tasks'[t].status = s
                         /\ tasks'[t].seen = tasks[t].seen
                         /\ tasks'[t].downloaded = tasks[t].downloaded
         /\ ~Listed(t) => tasks' = tasks
         /\ \A u \in Tasks \ {t} : tasks'[u] = tasks[u]
<1> DEFINE x == [tasks[t] EXCEPT !.status = s]
<1>1. Listed(t) => /\ x \in Task /\ x.status = s
                   /\ x.seen = tasks[t].seen /\ x.downloaded = tasks[t].downloaded
  BY TypeParts DEF Task
<1>2. tasks' = Patched(t, x)
  BY DEF SetStatus
<1> HIDE DEF x
<1>3. QED
  BY <1>1, <1>2, PatchedFrame

\* A verdict sets a status and maybe a timer.
LEMMA VerdictFrame ==
  ASSUME DockTypeOK, NEW t \in Tasks, NEW s \in Status, Verdict(t, s)
  PROVE  /\ tasks' \in [Tasks -> Task \cup {NoTask}]
         /\ timers' \in SUBSET Tasks
         /\ Listed(t)' <=> Listed(t)
         /\ Listed(t) => /\ tasks'[t].status = s
                         /\ tasks'[t].seen = tasks[t].seen
                         /\ tasks'[t].downloaded = tasks[t].downloaded
         /\ \A u \in Tasks \ {t} : tasks'[u] = tasks[u]
<1>1. tasks' = SetStatus(t, s)
  BY DEF Verdict
<1>2. timers' \in SUBSET Tasks
  BY DEF Verdict, DockTypeOK
<1>3. QED
  BY <1>1, <1>2, SetStatusFrame

-----------------------------------------------------------------------------
(* What keeps the invariant of a task.                                     *)

\* The runs that have ended stay what they are, and the cache is at most
\* emptied.
Onward ==
  /\ \A u \in Runs : job[u] \in Final => job'[u] = job[u]
  /\ cached' \in {cached, Nothing} /\ misled' = misled

\* The row keeps what it has seen and downloaded, and gives no verdict about a
\* run it has seen.
RowKept(t) ==
  Listed(t)' =>
    /\ Listed(t) /\ tasks'[t].seen = tasks[t].seen
    /\ tasks'[t].downloaded = tasks[t].downloaded
    /\ \/ tasks'[t].status = tasks[t].status
       \/ ~Noticed(tasks'[t].status)
       \/ ~tasks[t].seen \/ Kind[t] # "refresh"

\* Nothing else about the task moves but onward.
Steady(t) ==
  /\ RowKept(t) /\ downloads'[t] = downloads[t]
  /\ \/ request'[t] \in {request[t], "none"}
     \/ request'[t] \in {"cancel-dock", "cancel-page"} /\ Kind[t] = "refresh"
  /\ reading'[t] = Nothing \/ (reading'[t] = reading[t] /\ (t \in fresh => t \in fresh'))
  /\ since[t] \subseteq since'[t] /\ (~Asked(t) => since'[t] = since[t])
  /\ job[t] # "none" => job'[t] # "none"
  /\ Kind[t] = "refresh" /\ job[t] = "none" => job'[t] = "none"

LEMMA SteadyTask ==
  ASSUME NEW t \in Tasks, TaskInv(t), Onward, Steady(t), Asked(t) => RunsKnown(t)'
  PROVE  TaskInv(t)'
<1>1. Asked(t)' <=> Asked(t)
  BY DEF Steady, Asked
<1>2. DownloadKnown(t)'
  BY DEF Steady, RowKept, TaskInv, DownloadKnown
<1>3. AskedFirst(t)'
  BY <1>1 DEF Steady, RowKept, TaskInv, AskedFirst, Asked
<1>4. ASSUME Asked(t), t \notin misled PROVE StatusKnown(t)'
  <2>1. StatusKnown(t) /\ since[t] \subseteq since'[t]
    BY <1>4 DEF TaskInv, Steady
  <2>2. /\ Trusts(t)' => Trusts(t)
        /\ Told(t)' => Told(t)
        /\ Seen(t)' => Seen(t)
    BY DockAssumption DEF Steady, RowKept, Trusts, Told, Seen
  <2>3. Good(t, cached) => Good(t, cached)'
    BY <2>1 DEF Onward, Good
  <2>4. Good(t, reading[t]) => Good(t, reading[t])'
    BY <2>1 DEF Steady, Good
  <2>5. cached' = Progress => cached = Progress
    BY DockAssumption DEF Onward
  <2>6. since[t] # {} => since'[t] # {}
    BY <2>1
  <2>7. QED
    BY <2>1, <2>2, <2>3, <2>4, <2>5, <2>6 DEF StatusKnown
<1>5. ASSUME Asked(t), t \notin misled PROVE VerdictMatches(t)'
  <2>1. /\ VerdictMatches(t) /\ since[t] \subseteq since'[t] /\ Kind[t] = "refresh"
        /\ since[t] \subseteq Runs
    BY <1>5 DEF TaskInv, Steady, RunsKnown, Asked
  <2>2. ASSUME NEW st \in Final, \E u \in since[t] : job[u] = st
        PROVE  \E u \in since'[t] : job'[u] = st
    BY <2>1, <2>2 DEF Onward
  <2>3. CASE Listed(t)' /\ tasks'[t].seen
    <3>1. /\ Listed(t) /\ tasks[t].seen
          /\ Noticed(tasks'[t].status) => tasks'[t].status = tasks[t].status
      BY <2>1, <2>3 DEF Steady, RowKept
    <3>2. QED
      BY <2>1, <2>2, <3>1 DEF VerdictMatches, Noticed, Final
  <2>4. QED
    BY <2>3 DEF VerdictMatches
<1>6. t \notin misled' => t \notin misled
  BY DEF Onward
<1>7. QED
  BY <1>1, <1>2, <1>3, <1>4, <1>5, <1>6 DEF TaskInv

\* No run starts or ends.
SameRuns ==
  /\ \A u \in Runs : job'[u] = "running" <=> job[u] = "running"
  /\ UNCHANGED <<lastRun, since>>

LEMMA RunsSame ==
  ASSUME NEW t \in Tasks, RunsKnown(t), SameRuns
  PROVE  RunsKnown(t)'
<1>1. InProgress' <=> InProgress
  BY DEF SameRuns, InProgress, Runs
<1>2. QED
  BY <1>1 DEF SameRuns, RunsKnown, Runs

\* A step that is about task t touches no other task.
Apart(t) ==
  \A u \in Tasks \ {t} :
    /\ tasks'[u] = tasks[u] /\ job'[u] = job[u] /\ request'[u] = request[u]
    /\ downloads'[u] = downloads[u] /\ reading'[u] = reading[u] /\ (u \in fresh => u \in fresh')

\* Nobody else needs a second look then.
LEMMA RowSuffices ==
  ASSUME IInv, NEW t \in Tasks, Onward, SameRuns, Apart(t), DockTypeOK', TaskInv(t)'
  PROVE  IInv'
<1>1. ASSUME NEW u \in Tasks, u # t PROVE TaskInv(u)'
  <2>1. TaskInv(u)
    BY DEF IInv
  <2>2. Steady(u)
    BY <1>1 DEF Apart, SameRuns, Steady, RowKept, Listed
  <2>3. Asked(u) => RunsKnown(u)'
    BY <2>1, RunsSame DEF TaskInv
  <2>4. QED
    BY <2>1, <2>2, <2>3, SteadyTask
<1>2. QED
  BY <1>1 DEF IInv

\* And if t is steady too, not even t.
LEMMA SteadySuffices ==
  ASSUME IInv, NEW t \in Tasks, Onward, SameRuns, Apart(t), DockTypeOK', Steady(t)
  PROVE  IInv'
<1>1. TaskInv(t)
  BY DEF IInv
<1>2. Asked(t) => RunsKnown(t)'
  BY <1>1, RunsSame DEF TaskInv
<1>3. TaskInv(t)'
  BY <1>1, <1>2, SteadyTask
<1>4. QED
  BY <1>3, RowSuffices

\* What a row does by itself: the server and the answers are left alone.
LEMMA RowStep ==
  ASSUME IInv, NEW t \in Tasks,
         UNCHANGED <<server, answers, request, downloads, reloads>>,
         tasks' \in [Tasks -> Task \cup {NoTask}], timers' \in SUBSET Tasks,
         \A u \in Tasks \ {t} : tasks'[u] = tasks[u], RowKept(t)
  PROVE  IInv'
<1>1. DockTypeOK' /\ Apart(t)
  BY DEF IInv, DockTypeOK, Apart, server, answers
<1>2. Onward /\ SameRuns
  BY DEF Onward, SameRuns, server, answers
<1>3. Steady(t)
  BY DEF Steady, server, answers
<1>4. QED
  BY <1>1, <1>2, <1>3, SteadySuffices

-----------------------------------------------------------------------------
\* Tasks start: a refresh is accepted, and listed when the page is told.
LEMMA StartRefreshIInv ==
  ASSUME IInv, NEW t \in Tasks, StartRefresh(t)
  PROVE  IInv'
<1>0. DockTypeOK /\ TaskInv(t)
  BY DEF IInv
<1>1. /\ UNCHANGED <<tasks, timers, lastRun, since, reading, fresh, misled, downloads, reloads>>
      /\ t \in Runs /\ job[t] = "none" /\ ~InProgress
      /\ job' = [job EXCEPT ![t] = "queued"] /\ cached' = Nothing
      /\ \/ Kind[t] = "elsewhere" /\ UNCHANGED request
         \/ Kind[t] # "elsewhere" /\ request' = [request EXCEPT ![t] = "refresh"]
  BY DEF StartRefresh
<1>2. /\ job'[t] = "queued" /\ \A u \in Tasks \ {t} : job'[u] = job[u]
      /\ job' \in [Tasks -> Jobs]
  BY <1>0, <1>1 DEF DockTypeOK, Jobs
<1>3. /\ request' \in [Tasks -> Requests] /\ \A u \in Tasks \ {t} : request'[u] = request[u]
      /\ Kind[t] = "refresh" => request'[t] = "refresh"
      /\ Kind[t] # "refresh" => request'[t] = request[t]
  BY <1>0, <1>1 DEF DockTypeOK, Requests, Runs
<1>4. DockTypeOK'
  BY <1>0, <1>1, <1>2, <1>3 DEF DockTypeOK, Answer
<1>5. Onward /\ Apart(t)
  BY <1>1, <1>2, <1>3 DEF Onward, Apart, Final
<1>6. SameRuns
  BY <1>1, <1>2 DEF SameRuns
<1>7. DownloadKnown(t)'
  BY <1>0, <1>1 DEF TaskInv, DownloadKnown, Runs
<1>8. AskedFirst(t)'
  BY <1>0, <1>1, <1>2, <1>3 DEF TaskInv, AskedFirst, Asked
<1>9. ASSUME Kind[t] = "refresh"
      PROVE  RunsKnown(t)' /\ StatusKnown(t)' /\ VerdictMatches(t)'
  <2>1. ~Listed(t)' /\ reading'[t] = Nothing /\ since'[t] = {}
    BY <1>0, <1>1, <1>9 DEF TaskInv, AskedFirst, Asked, Listed
  <2>2. \A u \in Runs : job'[u] # "running"
    BY <1>1, <1>2 DEF InProgress
  <2>3. QED
    BY <1>1, <2>1, <2>2, DockAssumption
       DEF RunsKnown, StatusKnown, VerdictMatches, Trusts, Told, Seen, Runs
<1>10. TaskInv(t)'
  BY <1>7, <1>8, <1>9 DEF TaskInv, Asked
<1>11. QED
  BY <1>4, <1>5, <1>6, <1>10, RowSuffices

\* A row that is new has seen nothing; only its download needs a look.
LEMMA NewRow ==
  ASSUME IInv, NEW t \in Tasks, tasks' = [tasks EXCEPT ![t] = NewTask(t)],
         UNCHANGED <<timers, lastRun, since, answers, downloads, reloads>>,
         job' \in [Tasks -> Jobs], \A u \in Tasks \ {t} : job'[u] = job[u],
         t \in Runs => Asked(t) /\ job'[t] = job[t],
         request' \in [Tasks -> Requests],
         \A u \in Tasks \ {t} : request'[u] = request[u],
         Kind[t] = "export" => job[t] = "none", AskedFirst(t)'
  PROVE  IInv'
<1>0. /\ DockTypeOK /\ TaskInv(t)
      /\ NewTask(t) \in Task /\ NewTask(t).status = "pending" /\ ~NewTask(t).seen
  BY NewTaskTyped DEF IInv
<1>1. /\ tasks' \in [Tasks -> Task \cup {NoTask}]
      /\ tasks'[t] = NewTask(t)
      /\ \A u \in Tasks \ {t} : tasks'[u] = tasks[u]
  BY <1>0, EntryFrame
<1>2. DockTypeOK' /\ Apart(t)
  BY <1>0, <1>1 DEF DockTypeOK, Apart, answers
<1>3. Onward /\ SameRuns
  BY DEF Onward, SameRuns, answers, Runs
<1>4. DownloadKnown(t)'
  BY <1>0 DEF TaskInv, DownloadKnown
<1>5. ASSUME Kind[t] = "refresh"
      PROVE  /\ RunsKnown(t)'
             /\ t \notin misled => StatusKnown(t)' /\ VerdictMatches(t)'
  <2>1. job'[t] = job[t] /\ Asked(t)
    BY <1>5 DEF Runs, Asked
  <2>2. RunsKnown(t)'
    BY <1>0, <1>3, <2>1, RunsSame DEF TaskInv
  <2>3. ASSUME t \notin misled PROVE StatusKnown(t)'
    BY <1>0, <1>1, <2>1, <2>3 DEF TaskInv, StatusKnown, Trusts, Told, Seen, Good, answers
  <2>4. VerdictMatches(t)'
    BY <1>0, <1>1 DEF VerdictMatches
  <2>5. QED
    BY <2>2, <2>3, <2>4
<1>6. TaskInv(t)'
  BY <1>4, <1>5 DEF TaskInv, Asked, answers
<1>7. QED
  BY <1>2, <1>3, <1>6, RowSuffices

LEMMA StartIInv ==
  ASSUME IInv, NEW t \in Tasks,
         \/ StartJob(t) \/ StartCollect(t)
         \/ \E told \in BOOLEAN : RefreshListed(t, told)
  PROVE  IInv'
<1> USE DEF server
<1>0. DockTypeOK /\ TaskInv(t)
  BY DEF IInv
<1>1. CASE StartJob(t)
  <2>1. /\ UNCHANGED <<timers, lastRun, since, answers, request, downloads, reloads>>
        /\ Kind[t] \in {"export", "import"} /\ job[t] = "none"
        /\ job' = [job EXCEPT ![t] = "running"]
        /\ tasks' = [tasks EXCEPT ![t] = NewTask(t)]
    BY <1>1 DEF StartJob
  <2>2. /\ \A u \in Tasks \ {t} : job'[u] = job[u]
        /\ job' \in [Tasks -> Jobs] /\ t \notin Runs
        /\ request' \in [Tasks -> Requests]
    BY <1>0, <2>1 DEF DockTypeOK, Jobs, Runs
  <2>3. AskedFirst(t)'
    BY <1>0, <2>1 DEF TaskInv, AskedFirst, Asked
  <2>4. QED
    BY <2>1, <2>2, <2>3, NewRow
<1>2. CASE StartCollect(t)
  <2>1. /\ UNCHANGED <<timers, server, answers, downloads, reloads>>
        /\ Kind[t] = "collect"
        /\ tasks' = [tasks EXCEPT ![t] = NewTask(t)]
        /\ request' = [request EXCEPT ![t] = "start"]
    BY <1>2 DEF StartCollect
  <2>2. /\ request'[t] = "start" /\ \A u \in Tasks \ {t} : request'[u] = request[u]
        /\ request' \in [Tasks -> Requests] /\ job' \in [Tasks -> Jobs]
        /\ t \notin Runs
    BY <1>0, <2>1 DEF DockTypeOK, Requests, Runs
  <2>3. AskedFirst(t)'
    BY <2>1, <2>2 DEF AskedFirst
  <2>4. QED
    BY <2>1, <2>2, <2>3, NewRow
<1>3. ASSUME NEW told \in BOOLEAN, RefreshListed(t, told) PROVE IInv'
  <2>1. /\ UNCHANGED <<timers, server, answers, downloads, reloads>>
        /\ request[t] = "refresh" /\ request' = [request EXCEPT ![t] = "none"]
        /\ \/ tasks' = [tasks EXCEPT ![t] = NewTask(t)]
           \/ tasks' = tasks
    BY <1>3 DEF RefreshListed
  <2>2. /\ request'[t] = "none" /\ \A u \in Tasks \ {t} : request'[u] = request[u]
        /\ request' \in [Tasks -> Requests] /\ job' \in [Tasks -> Jobs]
        /\ Asked(t)
    BY <1>0, <2>1 DEF DockTypeOK, Requests, TaskInv, AskedFirst
  <2>3. AskedFirst(t)'
    BY <2>1, <2>2 DEF AskedFirst, Asked
  <2>4. CASE tasks' = [tasks EXCEPT ![t] = NewTask(t)]
    BY <2>1, <2>2, <2>3, <2>4, NewRow DEF Asked
  <2>5. CASE tasks' = tasks
    <3>1. DockTypeOK' /\ Apart(t) /\ Onward /\ SameRuns
      BY <1>0, <2>1, <2>2, <2>5 DEF DockTypeOK, Apart, Onward, SameRuns, answers
    <3>2. Steady(t)
      BY <2>1, <2>2, <2>5 DEF Steady, RowKept, Listed, answers
    <3>3. QED
      BY <3>1, <3>2, SteadySuffices
  <2>6. QED
    BY <2>1, <2>4, <2>5
<1>4. QED
  BY <1>1, <1>2, <1>3

-----------------------------------------------------------------------------
\* The answer to collect-now: its row is no refresh, and its job no run.
LEMMA CollectAnsweredIInv ==
  ASSUME IInv, NEW t \in Tasks, NEW here \in BOOLEAN, CollectAnswered(t, here)
  PROVE  IInv'
<1>0. /\ DockTypeOK /\ TaskInv(t)
      /\ UNCHANGED <<timers, lastRun, since, answers, downloads, reloads>>
      /\ request[t] = "start" /\ request' = [request EXCEPT ![t] = "none"]
  BY DEF IInv, CollectAnswered
<1>1. Kind[t] = "collect" /\ t \notin Runs
  BY <1>0 DEF TaskInv, AskedFirst, Runs
<1>2. /\ request'[t] = "none" /\ \A u \in Tasks \ {t} : request'[u] = request[u]
      /\ request' \in [Tasks -> Requests]
  BY <1>0 DEF DockTypeOK, Requests
<1>3. /\ job' \in [Tasks -> Jobs] /\ \A u \in Tasks \ {t} : job'[u] = job[u]
  BY <1>0 DEF CollectAnswered, DockTypeOK, Jobs
<1>4. /\ tasks' \in [Tasks -> Task \cup {NoTask}]
      /\ \A u \in Tasks \ {t} : tasks'[u] = tasks[u]
  <2> DEFINE x == [tasks[t] EXCEPT !.known = TRUE]
  <2>1. CASE tasks' = Patched(t, x)
    <3>1. Listed(t) => x \in Task
      BY <1>0, TypeParts DEF Task
    <3> HIDE DEF x
    <3>2. QED
      BY <1>0, <2>1, <3>1, PatchedFrame
  <2>2. CASE \E s \in {"success", "error"} : tasks' = SetStatus(t, s)
    BY <1>0, <2>2, SetStatusFrame DEF Status
  <2>3. CASE UNCHANGED tasks
    BY <1>0, <2>3 DEF DockTypeOK
  <2>4. QED
    BY <2>1, <2>2, <2>3 DEF CollectAnswered
<1>5. DockTypeOK' /\ Apart(t)
  BY <1>0, <1>2, <1>3, <1>4 DEF DockTypeOK, Apart, answers
<1>6. Onward /\ SameRuns
  BY <1>0, <1>1, <1>3 DEF Onward, SameRuns, Runs, answers
<1>7. TaskInv(t)'
  BY <1>0, <1>1, <1>2 DEF TaskInv, DownloadKnown, AskedFirst, Asked
<1>8. QED
  BY <1>5, <1>6, <1>7, RowSuffices

-----------------------------------------------------------------------------
\* The user asks to cancel.
LEMMA AskCancelIInv ==
  ASSUME IInv, NEW t \in Tasks, NEW from \in {"cancel-dock", "cancel-page"},
         AskCancel(t, from)
  PROVE  IInv'
<1> USE DEF server
<1>0. /\ DockTypeOK /\ UNCHANGED <<timers, server, answers, downloads, reloads>>
      /\ request' = [request EXCEPT ![t] = from]
      /\ Kind[t] = "refresh" /\ Listed(t) /\ tasks' = MarkCancelling(t)
  BY DEF IInv, AskCancel, CanCancel
<1> DEFINE x == [tasks[t] EXCEPT !.status = "cancelling", !.overdue = FALSE]
<1>1. /\ x \in Task /\ x.status = "cancelling" /\ x.seen = tasks[t].seen
      /\ x.downloaded = tasks[t].downloaded
  BY <1>0, TypeParts DEF Task, Status
<1>2. tasks' = Patched(t, x)
  BY <1>0 DEF MarkCancelling
<1> HIDE DEF x
<1>3. /\ tasks' \in [Tasks -> Task \cup {NoTask}] /\ tasks'[t] = x
      /\ \A u \in Tasks \ {t} : tasks'[u] = tasks[u]
  BY <1>0, <1>1, <1>2, PatchedFrame
<1>4. /\ request'[t] = from /\ \A u \in Tasks \ {t} : request'[u] = request[u]
      /\ request' \in [Tasks -> Requests]
  BY <1>0 DEF DockTypeOK, Requests
<1>5. DockTypeOK' /\ Apart(t) /\ Onward /\ SameRuns
  BY <1>0, <1>3, <1>4 DEF DockTypeOK, Apart, Onward, SameRuns, answers
<1>6. RowKept(t)
  BY <1>0, <1>1, <1>3 DEF RowKept, Noticed
<1>7. Steady(t)
  BY <1>0, <1>4, <1>6 DEF Steady, answers
<1>8. QED
  BY <1>5, <1>7, SteadySuffices

-----------------------------------------------------------------------------
\* A run that ends is one of those in progress since each refresh was asked for.
LEMMA RunFinishes ==
  ASSUME IInv, NEW w \in Runs, NEW st \in Final, job[w] = "running", Finish(w, st),
         cached' \in {cached, Nothing}, misled' = misled, DockTypeOK',
         UNCHANGED <<reading, fresh, downloads>>,
         \A t \in Tasks : RowKept(t) /\ request'[t] \in {request[t], "none"}
  PROVE  IInv'
<1>0. /\ w \in Tasks /\ job' = [job EXCEPT ![w] = st] /\ lastRun' = w /\ since' = since
      /\ job \in [Tasks -> Jobs]
  BY DEF IInv, DockTypeOK, Finish, Runs
<1>1. job'[w] = st /\ \A u \in Tasks \ {w} : job'[u] = job[u]
  BY <1>0
<1>2. Onward
  BY <1>0, <1>1 DEF Onward, Final, Runs
<1>3. ASSUME NEW t \in Tasks PROVE TaskInv(t)'
  <2>1. TaskInv(t)
    BY DEF IInv
  <2>2. Steady(t)
    BY <1>0, <1>1 DEF Steady, Final
  <2>3. Asked(t) => RunsKnown(t)'
    BY <1>0, <1>1, <2>1 DEF TaskInv, RunsKnown, Final, Runs
  <2>4. QED
    BY <1>2, <2>1, <2>2, <2>3, SteadyTask
<1>4. QED
  BY <1>3 DEF IInv

\* The answer to a cancel: a run may end by it, and no row gives a notice.
LEMMA CancelAnsweredIInv ==
  ASSUME IInv, NEW t \in Tasks, NEW ok \in BOOLEAN, CancelAnswered(t, ok)
  PROVE  IInv'
<1> USE DEF server
<1>0. /\ DockTypeOK
      /\ request' = [request EXCEPT ![t] = "none"]
      /\ UNCHANGED <<timers, reading, fresh, misled, downloads, reloads>>
      /\ \/ tasks' = SetStatus(t, "cancelling")
         \/ tasks' = SetStatus(t, "pending")
         \/ tasks' = tasks
      /\ IF ok THEN Cancels ELSE UNCHANGED <<server, cached>>
  BY DEF IInv, CancelAnswered
<1>1. /\ request'[t] = "none" /\ \A u \in Tasks \ {t} : request'[u] = request[u]
      /\ request' \in [Tasks -> Requests]
  BY <1>0 DEF DockTypeOK, Requests
<1>2. /\ tasks' \in [Tasks -> Task \cup {NoTask}] /\ RowKept(t)
      /\ \A u \in Tasks \ {t} : tasks'[u] = tasks[u]
  <2>1. ASSUME NEW s \in {"cancelling", "pending"}, tasks' = SetStatus(t, s)
        PROVE  /\ tasks' \in [Tasks -> Task \cup {NoTask}] /\ RowKept(t)
               /\ \A u \in Tasks \ {t} : tasks'[u] = tasks[u]
    BY <1>0, <2>1, SetStatusFrame DEF Status, RowKept, Noticed
  <2>2. CASE tasks' = tasks
    BY <1>0, <2>2 DEF DockTypeOK, RowKept, Listed
  <2>3. QED
    BY <1>0, <2>1, <2>2
<1>3. cached' \in {cached, Nothing} /\ cached' \in Answer
  BY <1>0 DEF Cancels, DockTypeOK, Answer
<1>4. CASE UNCHANGED server
  <2>1. DockTypeOK' /\ Apart(t) /\ Onward /\ SameRuns
    BY <1>0, <1>1, <1>2, <1>3, <1>4 DEF DockTypeOK, Apart, Onward, SameRuns
  <2>2. Steady(t)
    BY <1>0, <1>1, <1>2, <1>4 DEF Steady
  <2>3. QED
    BY <2>1, <2>2, SteadySuffices
<1>5. CASE ok /\ \E w \in Runs : job[w] = "running" /\ Finish(w, "Cancelled")
  <2>1. PICK w \in Runs : job[w] = "running" /\ Finish(w, "Cancelled")
    BY <1>5
  <2>2. job' \in [Tasks -> Jobs] /\ lastRun' \in Tasks \cup {NoTask} /\ since' = since
    BY <1>0, <2>1 DEF DockTypeOK, Finish, Jobs, Final, Runs
  <2>3. DockTypeOK'
    BY <1>0, <1>1, <1>2, <1>3, <2>2 DEF DockTypeOK
  <2>4. ASSUME NEW u \in Tasks PROVE RowKept(u) /\ request'[u] \in {request[u], "none"}
    <3>1. CASE u = t
      BY <1>1, <1>2, <3>1
    <3>2. CASE u # t
      BY <1>1, <1>2, <3>2 DEF RowKept, Listed
    <3>3. QED
      BY <3>1, <3>2
  <2>5. QED
    BY <1>0, <1>3, <2>1, <2>3, <2>4, RunFinishes DEF Final
<1>6. QED
  BY <1>0, <1>4, <1>5 DEF Cancels

\* A run starts, and counts from then on for every refresh that was asked for;
\* or it is refused, or a job ends.
LEMMA BeginsIInv ==
  ASSUME IInv, NEW t \in Tasks, RunStarts(t) \/ StartsItself(t)
  PROVE  IInv'
<1>0. /\ DockTypeOK /\ ~InProgress /\ t \in Runs
      /\ job' = [job EXCEPT ![t] = "running"] /\ job[t] \in {"queued", "none"}
      /\ job[t] = "none" => Kind[t] = "elsewhere"
      /\ since' = [u \in Tasks |-> IF Kind[u] = "refresh" /\ job[u] # "none"
                                  THEN since[u] \cup {t} ELSE since[u]]
      /\ UNCHANGED <<tasks, timers, lastRun, answers, request, downloads, reloads>>
  BY DEF IInv, RunStarts, StartsItself, Begins
<1>1. /\ job' \in [Tasks -> Jobs] /\ job'[t] = "running"
      /\ \A u \in Tasks \ {t} : job'[u] = job[u]
  BY <1>0 DEF DockTypeOK, Jobs
<1>2. /\ since' \in [Tasks -> SUBSET Tasks]
      /\ \A u \in Tasks : since'[u] = IF Asked(u) THEN since[u] \cup {t} ELSE since[u]
  BY <1>0 DEF DockTypeOK, Asked
<1>3. DockTypeOK' /\ Onward
  BY <1>0, <1>1, <1>2 DEF DockTypeOK, Onward, Final, Runs, answers
<1>4. ASSUME NEW u \in Tasks PROVE TaskInv(u)'
  <2>1. TaskInv(u)
    BY DEF IInv
  <2>2. Steady(u)
    <3>1. /\ job[u] # "none" => job'[u] # "none"
          /\ Kind[u] = "refresh" /\ job[u] = "none" => job'[u] = "none"
      BY <1>0, <1>1
    <3>2. QED
      BY <1>0, <1>2, <3>1 DEF Steady, RowKept, Listed, answers
  <2>3. Asked(u) => RunsKnown(u)'
    BY <1>0, <1>1, <1>2, <2>1 DEF TaskInv, RunsKnown, InProgress, Runs
  <2>4. QED
    BY <1>3, <2>1, <2>2, <2>3, SteadyTask
<1>5. QED
  BY <1>3, <1>4 DEF IInv

LEMMA JobIInv ==
  ASSUME IInv, NEW t \in Tasks, RunRefused(t) \/ Ends(t)
  PROVE  IInv'
<1>0. /\ DockTypeOK /\ UNCHANGED <<tasks, timers, since, answers, request, downloads, reloads>>
      /\ \A u \in Tasks : RowKept(u)
  BY DEF IInv, RunRefused, Ends, RunEnds, Finish, RowKept, Listed
<1>1. CASE Ends(t) /\ t \in Runs
  <2>1. PICK st \in Final : job[t] = "running" /\ Finish(t, st)
    BY <1>1 DEF Ends, RunEnds
  <2>2. DockTypeOK'
    BY <1>0, <2>1 DEF DockTypeOK, Finish, Jobs, Final, answers
  <2>3. QED
    BY <1>0, <1>1, <2>1, <2>2, RunFinishes DEF answers
<1>2. ASSUME NEW st \in Jobs \ {"none", "running"}, job' = [job EXCEPT ![t] = st], lastRun' = lastRun,
             job[t] = "queued" \/ (job[t] = "running" /\ t \notin Runs)
      PROVE  IInv'
  <2>1. /\ job'[t] = st /\ \A u \in Tasks \ {t} : job'[u] = job[u]
        /\ job' \in [Tasks -> Jobs]
    BY <1>0, <1>2 DEF DockTypeOK
  <2>2. DockTypeOK' /\ Apart(t) /\ Onward /\ SameRuns
    BY <1>0, <1>2, <2>1 DEF DockTypeOK, Apart, Onward, SameRuns, Runs, Final, answers
  <2>3. Steady(t)
    BY <1>0, <1>2, <2>1 DEF Steady, answers
  <2>4. QED
    BY <2>2, <2>3, SteadySuffices
<1>3. CASE RunRefused(t)
  BY <1>2, <1>3 DEF RunRefused, Jobs
<1>4. CASE Ends(t) /\ t \notin Runs
  BY <1>2, <1>4 DEF Ends, RunEnds, Finish, Jobs, Final
<1>5. QED
  BY <1>1, <1>3, <1>4

-----------------------------------------------------------------------------
(* The status of the dataset.                                              *)

\* Whoever is asked for tells of a run since then, once there was one.
LEMMA UpstreamGood ==
  ASSUME IInv, NEW t \in Tasks, Asked(t)
  PROVE  /\ Upstream \in Answer
         /\ Upstream = Progress => since[t] # {}
         /\ since[t] # {} => Upstream \in {Progress} \cup since[t]
<1>1. RunsKnown(t) /\ lastRun \in Tasks \cup {NoTask}
  BY DEF IInv, TaskInv, DockTypeOK
<1>2. CASE InProgress
  BY <1>1, <1>2 DEF Upstream, InProgress, RunsKnown, Answer
<1>3. CASE ~InProgress
  BY <1>1, <1>3, DockAssumption DEF Upstream, RunsKnown, Answer
<1>4. QED
  BY <1>2, <1>3

LEMMA UpstreamTyped ==
  ASSUME DockTypeOK PROVE Upstream \in Answer
BY DEF DockTypeOK, Upstream, Answer

\* A row that has seen a run is told of one since it was asked for.
LEMMA AskStatusIInv ==
  ASSUME IInv, NEW t \in Tasks, AskStatus(t)
  PROVE  IInv'
<1>0. /\ DockTypeOK /\ TaskInv(t) /\ t \in Runs
      /\ UNCHANGED <<tasks, timers, server, cached, misled, request, downloads, reloads>>
      /\ Kind[t] = "refresh" => Listed(t)
      /\ fresh' \in SUBSET Tasks /\ fresh \subseteq fresh'
  BY DEF IInv, AskStatus, Active, DockTypeOK
<1>1. PICK v \in {cached, Upstream} :
        reading' = [reading EXCEPT ![t] = v] /\ (v = cached \/ t \in fresh')
  BY DEF AskStatus
<1>2. v \in Answer
  BY <1>0, UpstreamTyped DEF DockTypeOK
<1>3. /\ reading' \in [Tasks -> Answer] /\ reading'[t] = v
      /\ \A u \in Tasks \ {t} : reading'[u] = reading[u]
  BY <1>0, <1>1, <1>2 DEF DockTypeOK
<1>4. DockTypeOK' /\ Apart(t) /\ Onward /\ SameRuns
  BY <1>0, <1>3 DEF DockTypeOK, Apart, Onward, SameRuns, server
<1>5. DownloadKnown(t)' /\ VerdictMatches(t)' = VerdictMatches(t)
  BY <1>0 DEF TaskInv, DownloadKnown, VerdictMatches, Listed, server
<1>6. AskedFirst(t)'
  BY <1>0 DEF TaskInv, AskedFirst, Asked, Listed, server
<1>7. Asked(t) => RunsKnown(t)'
  BY <1>0, <1>4, RunsSame DEF TaskInv
<1>8. ASSUME Asked(t), t \notin misled PROVE StatusKnown(t)'
  <2>1. StatusKnown(t) /\ since' = since /\ (Seen(t)' <=> Seen(t))
    BY <1>0, <1>8 DEF TaskInv, Seen, Listed, server
  <2>2. /\ v = Progress => since[t] # {}
        /\ Seen(t) => Good(t, v)
    BY <1>1, <1>8, <2>1, UpstreamGood DEF StatusKnown, Trusts, Told, Good
  <2>3. Trusts(t)' \/ cached' = Progress => since[t] # {}
    BY <1>0, <1>3, <2>1, <2>2 DEF StatusKnown, Trusts
  <2>4. Told(t)' => Good(t, cached)
    BY <1>0, <1>1, <1>3, <2>1 DEF StatusKnown, Told, Good
  <2>5. QED
    BY <1>0, <1>3, <2>1, <2>2, <2>3, <2>4 DEF StatusKnown, Good
<1>9. TaskInv(t)'
  BY <1>0, <1>5, <1>6, <1>7, <1>8 DEF TaskInv, Asked, server
<1>10. QED
  BY <1>4, <1>9, RowSuffices

\* What is stored misleads nobody but those it is counted for.
LEMMA StoreStatusIInv ==
  ASSUME IInv, NEW t \in Tasks, StoreStatus(t)
  PROVE  IInv'
<1>0. /\ DockTypeOK /\ cached' = reading[t] /\ misled' = misled \cup Misled(reading[t])
      /\ UNCHANGED <<tasks, timers, server, request, downloads, reloads>>
      /\ fresh' \in SUBSET Tasks
      /\ reading' \in [Tasks -> Answer]
      /\ \A u \in Tasks : reading'[u] \in {reading[u], Nothing}
  BY DEF IInv, StoreStatus, DockTypeOK, Answer
<1>1. DockTypeOK'
  BY <1>0 DEF DockTypeOK, Misled, server
<1>2. ASSUME NEW u \in Tasks PROVE TaskInv(u)'
  <2>1. TaskInv(u) /\ (Asked(u)' <=> Asked(u))
    BY <1>0 DEF IInv, Asked, server
  <2>2. DownloadKnown(u)' /\ AskedFirst(u)'
    BY <1>0, <2>1 DEF TaskInv, DownloadKnown, AskedFirst, Listed, Asked, server
  <2>3. Asked(u) => RunsKnown(u)'
    <3>1. SameRuns
      BY <1>0 DEF SameRuns, server
    <3>2. QED
      BY <2>1, <3>1, RunsSame DEF TaskInv
  <2>4. ASSUME Asked(u), u \notin misled' PROVE StatusKnown(u)' /\ VerdictMatches(u)'
    <3>1. /\ StatusKnown(u) /\ VerdictMatches(u)
          /\ reading[t] \in About(u) \cup {Upstream}
      BY <1>0, <2>1, <2>4 DEF TaskInv, Misled, Asked
    <3>2. /\ reading[t] = Progress => since[u] # {}
          /\ since[u] # {} => Good(u, reading[t])
      <4>1. RunsKnown(u) /\ Progress \notin Runs
        BY <2>1, <2>4, DockAssumption DEF TaskInv, Runs
      <4>2. QED
        BY <2>4, <3>1, <4>1, UpstreamGood DEF About, Good, RunsKnown
    <3>3. /\ since' = since /\ Listed(u)' = Listed(u) /\ tasks' = tasks
          /\ Trusts(u)' => Trusts(u)
          /\ Told(u)' => Trusts(u)
          /\ Seen(u)' <=> Seen(u)
      BY <1>0, DockAssumption DEF Trusts, Told, Seen, Listed, server
    <3>4. StatusKnown(u)'
      <4>1. /\ (cached = Progress \/ Trusts(u))' => since[u] # {}
            /\ Told(u)' => Good(u, reading[t])
        BY <1>0, <3>1, <3>2, <3>3 DEF StatusKnown
      <4>2. Seen(u) => Good(u, reading'[u])
        BY <1>0, <3>1 DEF StatusKnown, Good
      <4>3. QED
        BY <1>0, <3>3, <4>1, <4>2 DEF StatusKnown, Good
    <3>5. VerdictMatches(u)'
      BY <1>0, <3>1, <3>3 DEF VerdictMatches, server
    <3>6. QED
      BY <3>4, <3>5
  <2>5. QED
    BY <2>1, <2>2, <2>3, <2>4 DEF TaskInv
<1>3. QED
  BY <1>1, <1>2 DEF IInv

\* An answer that is lost, and the end of the cached one.
LEMMA StatusLostIInv ==
  ASSUME IInv, NEW t \in Tasks, StatusLost(t)
  PROVE  IInv'
<1>0. /\ DockTypeOK /\ reading' = [reading EXCEPT ![t] = Nothing]
      /\ UNCHANGED <<tasks, timers, server, cached, fresh, misled, request, downloads, reloads>>
  BY DEF IInv, StatusLost
<1>1. /\ reading' \in [Tasks -> Answer] /\ reading'[t] = Nothing
      /\ \A u \in Tasks \ {t} : reading'[u] = reading[u]
  BY <1>0 DEF DockTypeOK, Answer
<1>2. DockTypeOK' /\ Apart(t) /\ Onward /\ SameRuns
  BY <1>0, <1>1 DEF DockTypeOK, Apart, Onward, SameRuns, server
<1>3. Steady(t)
  BY <1>0, <1>1 DEF Steady, RowKept, Listed, server
<1>4. QED
  BY <1>2, <1>3, SteadySuffices

LEMMA ForgetIInv ==
  ASSUME IInv, Forget
  PROVE  IInv'
<1>0. /\ DockTypeOK /\ cached' = Nothing
      /\ UNCHANGED <<tasks, timers, server, reading, fresh, misled, request, downloads, reloads>>
  BY DEF IInv, Forget
<1>1. DockTypeOK' /\ Onward /\ SameRuns
  BY <1>0 DEF DockTypeOK, Answer, Onward, SameRuns, server
<1>2. ASSUME NEW t \in Tasks PROVE TaskInv(t)'
  <2>1. TaskInv(t) /\ Steady(t)
    BY <1>0 DEF IInv, Steady, RowKept, Listed, server
  <2>2. QED
    BY <1>1, <2>1, RunsSame, SteadyTask DEF TaskInv
<1>3. QED
  BY <1>1, <1>2 DEF IInv

-----------------------------------------------------------------------------
(* The rows.                                                               *)

\* A verdict, if it is one that the row may give by itself.
LEMMA VerdictStep ==
  ASSUME IInv, NEW t \in Tasks, NEW s \in Status, Listed(t), Verdict(t, s),
         UNCHANGED <<server, answers, request, downloads, reloads>>,
         ~Noticed(s) \/ Kind[t] # "refresh" \/ ~tasks[t].seen
  PROVE  IInv'
<1>1. DockTypeOK
  BY DEF IInv
<1>2. /\ tasks' \in [Tasks -> Task \cup {NoTask}] /\ timers' \in SUBSET Tasks
      /\ tasks'[t].status = s /\ tasks'[t].seen = tasks[t].seen
      /\ tasks'[t].downloaded = tasks[t].downloaded
      /\ \A u \in Tasks \ {t} : tasks'[u] = tasks[u]
  BY <1>1, VerdictFrame
<1>3. RowKept(t)
  BY <1>2 DEF RowKept
<1>4. QED
  BY <1>2, <1>3, RowStep

\* What a poll of a refresh may do to its row: nothing that a refresh that saw
\* no run could not do, see one, or tell what it has read.
LEMMA PollRow ==
  ASSUME DockTypeOK, NEW t \in Tasks, PollRefresh(t)
  PROVE  /\ tasks' \in [Tasks -> Task \cup {NoTask}] /\ timers' \in SUBSET Tasks
         /\ \A u \in Tasks \ {t} : tasks'[u] = tasks[u]
         /\ Listed(t)' <=> Listed(t)
         /\ \/ RowKept(t)
            \/ /\ reading[t] = Progress /\ Listed(t)
               /\ tasks'[t].status \in {"pending", "cancelling"}
            \/ /\ reading[t] # Progress /\ tasks'[t].seen = tasks[t].seen
               /\ tasks'[t].status = "success"   => StatusOf(reading[t]) = "Completed"
               /\ tasks'[t].status = "cancelled" => StatusOf(reading[t]) = "Cancelled"
<1> DEFINE a == reading[t]
<1> DEFINE Goal == /\ tasks' \in [Tasks -> Task \cup {NoTask}] /\ timers' \in SUBSET Tasks
                   /\ \A u \in Tasks \ {t} : tasks'[u] = tasks[u]
                   /\ Listed(t)' <=> Listed(t)
<1>1. ASSUME UNCHANGED <<tasks, timers>> PROVE Goal /\ RowKept(t)
  BY <1>1 DEF DockTypeOK, RowKept, Listed
<1>2. CASE ~Active(t)
  BY <1>1, <1>2 DEF PollRefresh
<1>3. CASE Active(t) /\ a = Progress
  <2>1. tasks' = [tasks EXCEPT ![t].seen = TRUE] /\ UNCHANGED timers
    BY <1>3 DEF PollRefresh
  <2> DEFINE x == [tasks[t] EXCEPT !.seen = TRUE]
  <2>2. x \in Task /\ x.status = tasks[t].status /\ Listed(t)
    BY <1>3, TypeParts DEF Task, Active
  <2>3. tasks' = [tasks EXCEPT ![t] = x]
    BY <2>1
  <2> HIDE DEF x
  <2>4. /\ tasks' \in [Tasks -> Task \cup {NoTask}] /\ tasks'[t] = x
        /\ \A u \in Tasks \ {t} : tasks'[u] = tasks[u]
    BY <2>2, <2>3, EntryFrame
  <2>5. x # NoTask
    BY <2>2, ListedTask
  <2>6. QED
    BY <1>3, <2>1, <2>2, <2>4, <2>5 DEF Active, Listed, DockTypeOK
<1>4. CASE Active(t) /\ a # Progress
  <2>0. RefreshVerdict(t, StatusOf(a)) /\ Listed(t)
    BY <1>4 DEF PollRefresh, Active
  <2>1. ASSUME NEW s \in Status, Verdict(t, s)
        PROVE  /\ Goal /\ tasks'[t].status = s /\ tasks'[t].seen = tasks[t].seen
               /\ tasks'[t].downloaded = tasks[t].downloaded
    BY <2>0, <2>1, VerdictFrame
  <2>2. CASE RefreshTimeout(t)
    <3>1. CASE ~Overdue(t)
      BY <1>1, <2>2, <3>1 DEF RefreshTimeout
    <3>2. CASE Overdue(t) /\ tasks[t].status = "cancelling"
      <4>1. Verdict(t, "error") /\ "error" \in Status /\ ~Noticed("error")
        BY <2>2, <3>2 DEF RefreshTimeout, Status, Noticed
      <4>2. QED
        BY <2>0, <2>1, <4>1 DEF RowKept
    <3>3. CASE Overdue(t) /\ tasks[t].status # "cancelling"
      <4>1. Verdict(t, "success") /\ "success" \in Status /\ ~tasks[t].seen
        BY <2>2, <3>3 DEF RefreshTimeout, Status, Overdue
      <4>2. QED
        BY <2>0, <2>1, <4>1 DEF RowKept
    <3>4. QED
      BY <3>1, <3>2, <3>3
  <2>3. CASE ~RefreshTimeout(t)
    <3> DEFINE st == StatusOf(a)
               s  == CASE st = "Completed" -> "success"
                       [] st = "Cancelled" -> "cancelled"
                       [] OTHER -> "error"
    <3>1. Verdict(t, s)
      BY <2>0, <2>3 DEF RefreshVerdict
    <3>2. /\ s \in Status
          /\ s = "success" => st = "Completed"
          /\ s = "cancelled" => st = "Cancelled"
      BY DEF Status
    <3> HIDE DEF s
    <3>3. QED
      BY <1>4, <2>1, <3>1, <3>2
  <2>4. QED
    BY <2>2, <2>3
<1>5. QED
  BY <1>2, <1>3, <1>4

\* The poll of a refresh: what it has read is of a run since it was asked for.
LEMMA PollRefreshIInv ==
  ASSUME IInv, NEW t \in Tasks, PollRefresh(t)
  PROVE  IInv'
<1>0. /\ DockTypeOK /\ TaskInv(t) /\ reading' = [reading EXCEPT ![t] = Nothing]
      /\ UNCHANGED <<server, cached, fresh, misled, request, downloads, reloads>>
      /\ Kind[t] = "refresh" /\ reading[t] # Nothing
  BY DEF IInv, PollRefresh
<1>1. /\ reading' \in [Tasks -> Answer] /\ reading'[t] = Nothing
      /\ \A u \in Tasks \ {t} : reading'[u] = reading[u]
  BY <1>0 DEF DockTypeOK, Answer
<1>2. /\ tasks' \in [Tasks -> Task \cup {NoTask}] /\ timers' \in SUBSET Tasks
      /\ \A u \in Tasks \ {t} : tasks'[u] = tasks[u]
      /\ Listed(t)' <=> Listed(t)
  BY <1>0, PollRow
<1>3. DockTypeOK' /\ Apart(t) /\ Onward /\ SameRuns
  BY <1>0, <1>1, <1>2 DEF DockTypeOK, Apart, Onward, SameRuns, server
<1>4. CASE RowKept(t)
  <2>1. Steady(t)
    BY <1>0, <1>1, <1>4 DEF Steady, server
  <2>2. QED
    BY <1>3, <2>1, SteadySuffices
<1>5. /\ DownloadKnown(t)' /\ AskedFirst(t)' /\ Asked(t) /\ Asked(t)'
      /\ RunsKnown(t)'
  <2>1. Asked(t) /\ Asked(t)'
    BY <1>0 DEF TaskInv, AskedFirst, Asked, server
  <2>2. RunsKnown(t)'
    BY <1>0, <1>3, <2>1, RunsSame DEF TaskInv
  <2>3. DownloadKnown(t)'
    BY <1>0 DEF TaskInv, DownloadKnown, server
  <2>4. AskedFirst(t)'
    BY <1>0, <2>1 DEF TaskInv, AskedFirst
  <2>5. QED
    BY <2>1, <2>2, <2>3, <2>4
<1>6. CASE /\ reading[t] = Progress /\ Listed(t)
           /\ tasks'[t].status \in {"pending", "cancelling"}
  <2>1. ASSUME t \notin misled PROVE StatusKnown(t)'
    <3>1. StatusKnown(t) /\ Trusts(t) /\ Told(t)
      BY <1>0, <1>5, <1>6, <2>1 DEF TaskInv, Trusts, Told, PollRefresh
    <3>2. QED
      BY <1>0, <1>1, <3>1 DEF StatusKnown, Good, server
  <2>2. VerdictMatches(t)'
    BY <1>6 DEF VerdictMatches
  <2>3. TaskInv(t)'
    BY <1>0, <1>5, <2>1, <2>2 DEF TaskInv
  <2>4. QED
    BY <1>3, <2>3, RowSuffices
<1>7. CASE /\ reading[t] # Progress /\ tasks'[t].seen = tasks[t].seen
           /\ tasks'[t].status = "success"   => StatusOf(reading[t]) = "Completed"
           /\ tasks'[t].status = "cancelled" => StatusOf(reading[t]) = "Cancelled"
  <2>1. ASSUME t \notin misled, Listed(t), tasks[t].seen
        PROVE  reading[t] \in since[t] /\ StatusOf(reading[t]) = job[reading[t]]
    <3>1. Good(t, reading[t]) /\ since[t] \subseteq Tasks
      BY <1>0, <1>5, <2>1 DEF TaskInv, StatusKnown, Seen, DockTypeOK
    <3>2. reading[t] \in since[t]
      BY <1>0, <1>7, <3>1 DEF Good
    <3>3. QED
      BY <3>1, <3>2, DockAssumption DEF StatusOf
  <2>2. t \notin misled => VerdictMatches(t)'
    BY <1>0, <1>2, <1>7, <2>1 DEF VerdictMatches, server
  <2>3. ASSUME t \notin misled PROVE StatusKnown(t)'
    <3>1. StatusKnown(t) /\ (Trusts(t)' => Trusts(t)) /\ (Told(t)' => Told(t)) /\ (Seen(t)' => Seen(t))
      BY <1>0, <1>1, <1>2, <1>5, <1>7, <2>3, DockAssumption DEF TaskInv, Trusts, Told, Seen
    <3>2. QED
      BY <1>0, <1>1, <3>1 DEF StatusKnown, Good, server
  <2>4. TaskInv(t)'
    BY <1>0, <1>5, <2>2, <2>3 DEF TaskInv
  <2>5. QED
    BY <1>3, <2>4, RowSuffices
<1>8. QED
  BY <1>0, <1>4, <1>6, <1>7, PollRow

\* The other rows' polls.
LEMMA PollOtherIInv ==
  ASSUME IInv, NEW t \in Tasks, PollCollect(t) \/ PollExport(t) \/ PollImport(t)
  PROVE  IInv'
<1>0. /\ DockTypeOK /\ TaskInv(t)
      /\ UNCHANGED <<server, answers, request, reloads>>
      /\ Kind[t] # "refresh" /\ Listed(t)
  BY DEF IInv, PollCollect, PollExport, PollImport
<1>1. ASSUME UNCHANGED <<tasks, timers, downloads>> PROVE IInv'
  BY <1>0, <1>1, RowStep DEF DockTypeOK, RowKept, Listed
<1>2. ASSUME NEW s \in {"success", "error"}, Verdict(t, s), UNCHANGED downloads
      PROVE  IInv'
  BY <1>0, <1>2, VerdictStep DEF Status
<1>3. CASE PollCollect(t) \/ PollImport(t)
  BY <1>1, <1>2, <1>3 DEF PollCollect, PollImport
<1>4. CASE PollExport(t) /\ job[t] # "Completed"
  BY <1>1, <1>2, <1>4 DEF PollExport
<1>5. CASE PollExport(t) /\ job[t] = "Completed"
  <2> DEFINE x == [tasks[t] EXCEPT !.status = "success", !.downloaded = TRUE]
  <2>1. /\ Kind[t] = "export"
        /\ downloads' = [downloads EXCEPT ![t] = IF tasks[t].downloaded THEN @ ELSE @ + 1]
        /\ tasks' = Patched(t, x) /\ timers' = timers \cup {t}
    BY <1>5 DEF PollExport
  <2>2. x \in Task /\ x.downloaded
    BY <1>0, TypeParts DEF Task, Status
  <2> HIDE DEF x
  <2>3. /\ tasks' \in [Tasks -> Task \cup {NoTask}]
        /\ tasks'[t] = x /\ \A u \in Tasks \ {t} : tasks'[u] = tasks[u]
    BY <1>0, <2>1, <2>2, PatchedFrame
  <2>4. downloads[t] \in {0, 1} /\ (downloads[t] = 1 => tasks[t].downloaded)
    BY <1>0 DEF TaskInv, DownloadKnown
  <2>5. /\ downloads'[t] \in {0, 1} /\ downloads' \in [Tasks -> 0..2]
        /\ \A u \in Tasks \ {t} : downloads'[u] = downloads[u]
    BY <1>0, <2>1, <2>4 DEF DockTypeOK
  <2>6. DockTypeOK' /\ Apart(t) /\ Onward /\ SameRuns
    BY <1>0, <2>1, <2>3, <2>5
       DEF DockTypeOK, Apart, Onward, SameRuns, server, answers
  <2>7. TaskInv(t)'
    BY <1>0, <1>5, <2>1, <2>2, <2>3, <2>5
       DEF TaskInv, DownloadKnown, AskedFirst, Asked, server, answers
  <2>8. QED
    BY <2>6, <2>7, RowSuffices
<1>6. QED
  BY <1>3, <1>4, <1>5

\* A row is removed, or it grows older.
LEMMA RowAgesIInv ==
  ASSUME IInv, NEW t \in Tasks,
         TimerFires(t) \/ Close(t) \/ Grow(t) \/ CancelGrows(t)
  PROVE  IInv'
<1>0. /\ DockTypeOK /\ timers' \in SUBSET Tasks
      /\ UNCHANGED <<server, answers, request, downloads, reloads>>
  BY DEF IInv, DockTypeOK, TimerFires, Close, Grow, CancelGrows
<1>1. CASE tasks' = [tasks EXCEPT ![t] = NoTask]
  <2>1. /\ tasks' \in [Tasks -> Task \cup {NoTask}] /\ ~Listed(t)'
        /\ \A u \in Tasks \ {t} : tasks'[u] = tasks[u]
    BY <1>0, <1>1, EntryFrame DEF Listed
  <2>2. QED
    BY <1>0, <2>1, RowStep DEF RowKept
<1>2. ASSUME Listed(t), NEW x \in Task, tasks' = [tasks EXCEPT ![t] = x],
             x.status = tasks[t].status, x.seen = tasks[t].seen,
             x.downloaded = tasks[t].downloaded
      PROVE  IInv'
  <2>1. /\ tasks' \in [Tasks -> Task \cup {NoTask}] /\ tasks'[t] = x
        /\ \A u \in Tasks \ {t} : tasks'[u] = tasks[u]
    BY <1>0, <1>2, EntryFrame
  <2>2. QED
    BY <1>0, <1>2, <2>1, RowStep DEF RowKept
<1>3. CASE Grow(t)
  <2> DEFINE x == [tasks[t] EXCEPT !.age = @ + 1]
  <2>1. tasks[t].age \in 0..2 /\ tasks[t].age < 2 /\ Listed(t) /\ tasks[t] \in Task
    BY <1>0, <1>3, TypeParts DEF Grow, Task
  <2>2. /\ x \in Task /\ x.status = tasks[t].status /\ x.seen = tasks[t].seen
        /\ x.downloaded = tasks[t].downloaded
    BY <2>1 DEF Task
  <2>3. tasks' = [tasks EXCEPT ![t] = x]
    BY <1>3 DEF Grow
  <2>4. QED
    BY <1>2, <2>1, <2>2, <2>3
<1>4. CASE CancelGrows(t)
  <2> DEFINE x == [tasks[t] EXCEPT !.overdue = TRUE]
  <2>1. Listed(t) /\ tasks[t] \in Task
    BY <1>0, <1>4, TypeParts DEF CancelGrows
  <2>2. /\ x \in Task /\ x.status = tasks[t].status /\ x.seen = tasks[t].seen
        /\ x.downloaded = tasks[t].downloaded
    BY <2>1 DEF Task
  <2>3. tasks' = [tasks EXCEPT ![t] = x]
    BY <1>4 DEF CancelGrows
  <2>4. QED
    BY <1>2, <2>1, <2>2, <2>3
<1>5. QED
  BY <1>1, <1>3, <1>4 DEF TimerFires, Close

-----------------------------------------------------------------------------
\* A reload writes every row: it keeps what each has seen and downloaded, and
\* turns into a success only a row that has seen no run.
LEMMA ReloadIInv ==
  ASSUME IInv, Reload
  PROVE  IInv'
<1>0. /\ DockTypeOK /\ UNCHANGED <<server, cached, misled, downloads>>
      /\ request' = [t \in Tasks |-> "none"] /\ reloads' \in 0..MaxReloads
      /\ fresh' \in SUBSET Tasks
      /\ reading' = [t \in Tasks |-> IF Kind[t] = "refresh" THEN Nothing ELSE reading[t]]
  BY DockAssumption DEF IInv, DockTypeOK, Reload
<1>1. PICK dropped \in SUBSET Tasks :
        /\ tasks' = [t \in Tasks |-> Restored(t, dropped)]
        /\ timers' = RestoredTimers([t \in Tasks |-> Restored(t, dropped)])
  BY DEF Reload
<1>2. ASSUME NEW t \in Tasks
      PROVE  /\ Restored(t, dropped) \in Task \cup {NoTask}
             /\ Restored(t, dropped) # NoTask =>
                  /\ Listed(t)
                  /\ Restored(t, dropped).seen = tasks[t].seen
                  /\ Restored(t, dropped).downloaded = tasks[t].downloaded
                  /\ \/ Restored(t, dropped).status = tasks[t].status
                     \/ ~Noticed(Restored(t, dropped).status)
                     \/ ~tasks[t].seen
  <2>1. CASE ~Listed(t) \/ t \in dropped
    BY <2>1 DEF Restored
  <2>2. CASE Listed(t) /\ t \notin dropped
    <3>1. tasks[t] \in Task
      BY <1>0, <2>2, TypeParts
    <3> DEFINE w(s) == [tasks[t] EXCEPT !.status = s]
    <3>2. ASSUME NEW s \in {"error", "success"}
          PROVE  /\ w(s) \in Task /\ w(s).status = s /\ w(s).seen = tasks[t].seen
                 /\ w(s).downloaded = tasks[t].downloaded
      BY <3>1 DEF Task, Status
    <3>3. \/ Restored(t, dropped) = tasks[t]
          \/ Restored(t, dropped) = w("error")
          \/ Restored(t, dropped) = w("success") /\ ~tasks[t].seen
      BY <2>2 DEF Restored, Overdue, Active
    <3> HIDE DEF w
    <3>4. ~Noticed("error")
      BY DEF Noticed
    <3>5. QED
      BY <2>2, <3>1, <3>2, <3>3, <3>4
  <2>3. QED
    BY <2>1, <2>2
<1>3. tasks' \in [Tasks -> Task \cup {NoTask}] /\ \A t \in Tasks : tasks'[t] = Restored(t, dropped)
  BY <1>1, <1>2
<1>4. /\ reading' \in [Tasks -> Answer]
      /\ \A t \in Tasks :
           reading'[t] = Nothing \/ (reading'[t] = reading[t] /\ (t \in fresh => t \in fresh'))
  <2>1. /\ reading' = [t \in Tasks |-> IF Kind[t] = "refresh" THEN Nothing ELSE reading[t]]
        /\ fresh' = {t \in fresh : Kind[t] # "refresh"}
        /\ reading \in [Tasks -> Answer] /\ Nothing \in Answer
    BY <1>0 DEF Reload, DockTypeOK, Answer
  <2>2. \A t \in Tasks :
          IF Kind[t] = "refresh" THEN reading'[t] = Nothing
          ELSE reading'[t] = reading[t] /\ (t \in fresh => t \in fresh')
    BY <2>1
  <2>3. QED
    BY <2>1, <2>2
<1>5. DockTypeOK' /\ Onward /\ SameRuns
  BY <1>0, <1>1, <1>3, <1>4
     DEF DockTypeOK, RestoredTimers, Requests, Onward, SameRuns, server
<1>6. ASSUME NEW t \in Tasks PROVE TaskInv(t)'
  <2>1. RowKept(t)
    BY <1>2, <1>3 DEF RowKept, Listed
  <2>2. TaskInv(t) /\ Steady(t)
    BY <1>0, <1>4, <2>1 DEF IInv, Steady, server
  <2>3. QED
    BY <1>5, <2>2, RunsSame, SteadyTask DEF TaskInv
<1>7. QED
  BY <1>5, <1>6 DEF IInv

-----------------------------------------------------------------------------
\* Nothing is listed and nothing runs at first.
LEMMA InitIInv ==
  ASSUME DockInit PROVE IInv
<1>1. DockTypeOK
  BY DockAssumption DEF DockInit, DockTypeOK, Jobs, Requests, Answer
<1>2. \A t \in Tasks : TaskInv(t)
  BY DEF DockInit, TaskInv, DownloadKnown, AskedFirst, Asked, Listed
<1>3. QED
  BY <1>1, <1>2 DEF IInv

\* One case per action.
LEMMA StepIInv ==
  ASSUME IInv, [DockNext]_dockVars PROVE IInv'
<1>1. CASE UNCHANGED dockVars
  <2>1. DockTypeOK' /\ Onward /\ SameRuns
    BY <1>1 DEF dockVars, server, answers, IInv, DockTypeOK, Onward, SameRuns
  <2>2. ASSUME NEW t \in Tasks PROVE TaskInv(t)'
    <3>1. TaskInv(t) /\ Steady(t)
      BY <1>1 DEF dockVars, server, answers, IInv, Steady, RowKept, Listed
    <3>2. QED
      BY <2>1, <3>1, RunsSame, SteadyTask DEF TaskInv
  <2>3. QED
    BY <2>1, <2>2 DEF IInv
<1>2. ASSUME NEW t \in Tasks, StartRefresh(t) PROVE IInv'
  BY <1>2, StartRefreshIInv
<1>3. ASSUME NEW t \in Tasks, StartJob(t) \/ StartCollect(t) PROVE IInv'
  BY <1>3, StartIInv
<1>4. ASSUME NEW t \in Tasks, NEW from \in {"cancel-dock", "cancel-page"},
             AskCancel(t, from)
      PROVE  IInv'
  BY <1>4, AskCancelIInv
<1>5. ASSUME NEW t \in Tasks, Answered(t) PROVE IInv'
  BY <1>5, StartIInv, CollectAnsweredIInv, CancelAnsweredIInv DEF Answered
<1>6. ASSUME NEW t \in Tasks, Poll(t) PROVE IInv'
  BY <1>6, PollRefreshIInv, PollOtherIInv DEF Poll
<1>7. ASSUME NEW t \in Tasks,
             TimerFires(t) \/ Close(t) \/ Grow(t) \/ CancelGrows(t)
      PROVE  IInv'
  BY <1>7, RowAgesIInv
<1>8. ASSUME NEW t \in Tasks, AskStatus(t) \/ StoreStatus(t) \/ StatusLost(t) PROVE IInv'
  BY <1>8, AskStatusIInv, StoreStatusIInv, StatusLostIInv
<1>9. ASSUME NEW t \in Tasks, RunStarts(t) \/ StartsItself(t) PROVE IInv'
  BY <1>9, BeginsIInv
<1>10. ASSUME NEW t \in Tasks, RunRefused(t) \/ Ends(t) PROVE IInv'
  BY <1>10, JobIInv
<1>11. CASE Forget \/ Reload
  BY <1>11, ForgetIInv, ReloadIInv
<1>12. QED
  BY <1>1, <1>2, <1>3, <1>4, <1>5, <1>6, <1>7, <1>8, <1>9, <1>10, <1>11 DEF DockNext

\* The inductive invariant holds in every state of the dock, whatever its
\* tasks, and whether or not anything in it is fair.
THEOREM Invariance == DockSpec => []IInv
<1>1. DockInit => IInv
  BY InitIInv
<1>2. IInv /\ [DockNext]_dockVars => IInv'
  BY StepIInv
<1>3. QED
  BY <1>1, <1>2, PTL DEF DockSpec

\* The state of the dock keeps its types.
THEOREM TypeCorrect == DockSpec => []DockTypeOK
<1>1. IInv => DockTypeOK
  BY DEF IInv
<1>2. QED
  BY <1>1, Invariance, PTL

\* The file of an export is downloaded at most once, over all reloads and
\* polls of its row (ExportTaskRow of TaskDock.tsx).
THEOREM DownloadsHappenOnce == DockSpec => []DownloadedOnce
<1>1. IInv => DownloadedOnce
  BY DEF IInv, TaskInv, DownloadKnown, DownloadedOnce
<1>2. QED
  BY <1>1, Invariance, PTL

\* A row that has seen a run in progress never tells another verdict than what
\* became of a run since it was asked for, unless an older answer was stored over
\* a newer one: for any number of refreshes, users, viewers and reloads
\* (RefreshTaskRow of BackgroundTaskDock.tsx, live_refresh_status of reports.py).
THEOREM VerdictsMatchRuns == DockSpec => []VerdictMatchesRun
<1>1. ASSUME IInv PROVE VerdictMatchesRun
  <2>1. SUFFICES ASSUME NEW t \in Tasks \ misled, Listed(t), Kind[t] = "refresh", tasks[t].seen
                 PROVE  /\ tasks[t].status = "success"   => \E u \in since[t] : job[u] = "Completed"
                        /\ tasks[t].status = "cancelled" => \E u \in since[t] : job[u] = "Cancelled"
    BY DEF VerdictMatchesRun
  <2>2. VerdictMatches(t)
    BY <1>1, <2>1 DEF IInv, TaskInv, AskedFirst
  <2>3. QED
    BY <2>1, <2>2 DEF VerdictMatches
<1>2. QED
  BY <1>1, Invariance, PTL

=============================================================================
