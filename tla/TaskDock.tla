------------------------------- MODULE TaskDock -------------------------------
(***************************************************************************)
(* The background tasks of a browser tab: the store that lists them and    *)
(* keeps them across a reload, the dock whose rows poll the server and     *)
(* give a verdict, and the pages that start and cancel them.  What runs on *)
(* the server (job) goes on without the browser.                           *)
(*                                                                         *)
(* The status of a dataset is asked from the server, which answers from a  *)
(* cache of 20 s or asks Power BI, and stores what it was told: whoever    *)
(* asks may store it late, when a run has started or ended since.          *)
(*                                                                         *)
(* Time is abstracted to ages: a task is young, older than the 20 s after  *)
(* which a refresh believes any final status, or overdue (10 min).  A      *)
(* request to cancel is overdue after 5 min.                               *)
(***************************************************************************)
EXTENDS Naturals, FiniteSets

CONSTANTS
  Tasks,      \* task ids
  Kind,       \* [Tasks -> Kinds]; "elsewhere" is a refresh of the same dataset
              \* that this tab does not list: of another user, or of its
              \* schedule; and another viewer who asks for the status
  Earlier,    \* the last status the history of the dataset already holds
  NoTask,     \* no entry in the list; no run
  Nothing,    \* no answer about the dataset
  Progress,   \* the answer: a run is in progress
  MaxReloads  \* how often the tab is reloaded

Kinds   == {"refresh", "elsewhere", "collect", "export", "import"}
Final   == {"Completed", "Failed", "Cancelled"}

VARIABLES
  tasks,      \* useTaskStore.tasks, kept in localStorage
  timers,     \* tasks a removal timer will remove
  job,        \* what the server does for each task
  lastRun,    \* the refresh that ended last, NoTask for one before all these
  request,    \* the request about a task that is under way
  cached,     \* the cached answer about the dataset
  reading,    \* the answer that a request for the status has read
  fresh,      \* those of them that come from Power BI and will be stored
  since,      \* history: the runs in progress since a refresh was asked for
  misled,     \* history: the refreshes about which an old answer was stored
  downloads,  \* how often the file of an export was downloaded
  reloads

server   == <<job, lastRun, since>>
answers  == <<cached, reading, fresh, misled>>
dockVars == <<tasks, timers, server, answers, request, downloads, reloads>>

Status == {"pending", "cancelling", "cancelled", "success", "error"}
Task == [status : Status, seen : BOOLEAN, known : BOOLEAN,
         downloaded : BOOLEAN, age : 0..2, overdue : BOOLEAN]

ASSUME DockAssumption ==
  /\ Kind \in [Tasks -> Kinds]
  /\ Earlier \in {"none", "Completed", "Failed"}
  /\ NoTask \notin Tasks \cup Task
  /\ Nothing \notin Tasks \cup {NoTask} /\ Progress \notin Tasks \cup {NoTask, Nothing}
  /\ MaxReloads \in Nat

NewTask(t) == [status |-> "pending", seen |-> FALSE, known |-> Kind[t] # "collect",
               downloaded |-> FALSE, age |-> 0, overdue |-> FALSE]

Jobs     == {"none", "queued", "running", "refused"} \cup Final
Requests == {"none", "refresh", "start", "cancel-dock", "cancel-page"}

\* An answer names the run whose last status it tells.
Answer == Tasks \cup {NoTask, Nothing, Progress}

Listed(t) == tasks[t] # NoTask
Active(t) == Listed(t) /\ tasks[t].status \in {"pending", "cancelling"}
Noticed(s) == s \in {"success", "cancelled"}

DockTypeOK ==
  /\ tasks \in [Tasks -> Task \cup {NoTask}]
  /\ timers \in SUBSET Tasks
  /\ job \in [Tasks -> Jobs]
  /\ lastRun \in Tasks \cup {NoTask}
  /\ request \in [Tasks -> Requests]
  /\ cached \in Answer /\ reading \in [Tasks -> Answer] /\ fresh \in SUBSET Tasks
  /\ since \in [Tasks -> SUBSET Tasks] /\ misled \in SUBSET Tasks
  /\ downloads \in [Tasks -> 0..2]
  /\ reloads \in 0..MaxReloads

DockInit ==
  /\ tasks = [t \in Tasks |-> NoTask]
  /\ timers = {}
  /\ job = [t \in Tasks |-> "none"]
  /\ lastRun = NoTask
  /\ request = [t \in Tasks |-> "none"]
  /\ cached = Nothing /\ reading = [t \in Tasks |-> Nothing] /\ fresh = {}
  /\ since = [t \in Tasks |-> {}] /\ misled = {}
  /\ downloads = [t \in Tasks |-> 0]
  /\ reloads = 0

-----------------------------------------------------------------------------
(* The store: a patch of a task that is not listed does nothing.           *)

Patched(t, task) == IF Listed(t) THEN [tasks EXCEPT ![t] = task] ELSE tasks
SetStatus(t, s)  == Patched(t, [tasks[t] EXCEPT !.status = s])

\* markCancelling records when the cancel was asked for.
MarkCancelling(t) == Patched(t, [tasks[t] EXCEPT !.status = "cancelling", !.overdue = FALSE])

\* Mutant: the setTimeout is missing.
VerdictStays(t, s) ==
  /\ tasks' = SetStatus(t, s)
  /\ UNCHANGED timers

\* A verdict: success and cancelled are removed by a timer, an error stays.
Verdict(t, s) ==
  /\ tasks' = SetStatus(t, s)
  /\ timers' = IF Noticed(s) THEN timers \cup {t} ELSE timers

-----------------------------------------------------------------------------
(* Starting a task.                                                        *)

Runs       == {t \in Tasks : Kind[t] \in {"refresh", "elsewhere"}}
InProgress == \E t \in Runs : job[t] = "running"
Reserved   == \E t \in Runs : job[t] = "queued"

\* The refresh button is hidden while a request or a task of the tab is under
\* way.  A run of somebody else hides it too, but what the page knows of it may
\* be old: the server decides.
Offered == \A t \in Runs : ~Active(t) /\ request[t] # "refresh"

\* The server queues a refresh of a dataset that has none queued or in
\* progress, and drops the cached answer.
StartRefresh(t) ==
  /\ t \in Runs /\ job[t] = "none" /\ ~Reserved /\ ~InProgress
  /\ job' = [job EXCEPT ![t] = "queued"]
  /\ cached' = Nothing
  /\ IF Kind[t] = "elsewhere" THEN UNCHANGED request
     ELSE Offered /\ request' = [request EXCEPT ![t] = "refresh"]
  /\ UNCHANGED <<tasks, timers, lastRun, since, reading, fresh, misled, downloads, reloads>>

\* The page lists a refresh when it is told, if it is, that it was accepted.
RefreshListed(t, told) ==
  /\ request[t] = "refresh"
  /\ request' = [request EXCEPT ![t] = "none"]
  /\ tasks' = IF told THEN [tasks EXCEPT ![t] = NewTask(t)] ELSE tasks
  /\ UNCHANGED <<timers, server, answers, downloads, reloads>>

\* An export, an upload or a replacement that the server has accepted.
StartJob(t) ==
  /\ Kind[t] \in {"export", "import"} /\ job[t] = "none"
  /\ job' = [job EXCEPT ![t] = "running"]
  /\ tasks' = [tasks EXCEPT ![t] = NewTask(t)]
  /\ UNCHANGED <<timers, lastRun, since, answers, request, downloads, reloads>>

\* Collect now: one fixed id, listed before the request is answered.
StartCollect(t) ==
  /\ Kind[t] = "collect" /\ request[t] = "none"
  /\ Listed(t) => tasks[t].status # "pending"
  /\ tasks' = [tasks EXCEPT ![t] = NewTask(t)]
  /\ request' = [request EXCEPT ![t] = "start"]
  /\ UNCHANGED <<timers, server, answers, downloads, reloads>>

\* The answer to collect-now; its callbacks run only if the page is still
\* there.
CollectAnswered(t, here) ==
  /\ request[t] = "start"
  /\ request' = [request EXCEPT ![t] = "none"]
  /\ \/ /\ job[t] # "running"
        /\ job' = [job EXCEPT ![t] = "running"]
        /\ tasks' = IF here THEN Patched(t, [tasks[t] EXCEPT !.known = TRUE]) ELSE tasks
     \/ /\ job[t] = "running"
        /\ tasks' = IF here THEN SetStatus(t, "success") ELSE tasks
        /\ UNCHANGED job
     \/ /\ tasks' = IF here THEN SetStatus(t, "error") ELSE tasks
        /\ UNCHANGED job
  /\ UNCHANGED <<timers, lastRun, since, answers, downloads, reloads>>

-----------------------------------------------------------------------------
(* Cancelling a refresh, from the dock or from the page of the report.     *)

Finish(t, st) ==
  /\ job' = [job EXCEPT ![t] = st]
  /\ lastRun' = IF t \in Runs THEN t ELSE lastRun
  /\ UNCHANGED since

\* The page also offers to cancel when it has seen a run in progress, maybe an
\* old one.
CanCancel(t, from) ==
  /\ Kind[t] = "refresh" /\ Listed(t) /\ request[t] = "none"
  /\ tasks[t].status = "pending"
  /\ tasks[t].seen \/ (from = "cancel-page" /\ \E u \in Runs : job[u] \in {"running"} \cup Final)

AskCancel(t, from) ==
  /\ CanCancel(t, from)
  /\ tasks' = MarkCancelling(t)
  /\ request' = [request EXCEPT ![t] = from]
  /\ UNCHANGED <<timers, server, answers, downloads, reloads>>

\* The server asks Power BI to cancel the run of the dataset that is in
\* progress, whoever started it, now or in a while, and drops the cached answer;
\* or it answers that it cannot.
Cancels ==
  /\ \/ \E u \in Runs : job[u] = "running" /\ Finish(u, "Cancelled")
     \/ (\E u \in Runs : job[u] \in {"running"} \cup Final) /\ UNCHANGED server
  /\ cached' = Nothing

\* The dock writes the status whatever it has become; the page only if it still
\* waits.
CancelAnswered(t, ok) ==
  LET listed == Listed(t)
      waits  == listed /\ tasks[t].status = "cancelling"
  IN
  /\ request[t] \in {"cancel-dock", "cancel-page"}
  /\ IF ok THEN Cancels ELSE UNCHANGED <<server, cached>>
  /\ tasks' = IF listed /\ (request[t] = "cancel-dock" \/ waits)
              THEN SetStatus(t, IF ok THEN "cancelling" ELSE "pending") ELSE tasks
  /\ request' = [request EXCEPT ![t] = "none"]
  /\ UNCHANGED <<timers, reading, fresh, misled, downloads, reloads>>

-----------------------------------------------------------------------------
(* The status of the dataset.                                              *)

\* What Power BI tells: a run, anyone's, is in progress, or the last one.
Upstream == IF InProgress THEN Progress ELSE lastRun
StatusOf(a) == IF a = NoTask THEN Earlier ELSE job[a]

\* A row of the dock, or another viewer, asks: the server takes the cached
\* answer if it finds one, or Power BI's; it may have looked for the cached one a
\* while ago.  Only what another viewer stores matters here.
AskStatus(t) ==
  /\ t \in Runs /\ reading[t] = Nothing /\ (Kind[t] = "refresh" => Active(t))
  /\ \/ /\ Kind[t] = "refresh" /\ cached # Nothing
        /\ reading' = [reading EXCEPT ![t] = cached] /\ UNCHANGED fresh
     \/ reading' = [reading EXCEPT ![t] = Upstream] /\ fresh' = fresh \cup {t}
  /\ UNCHANGED <<tasks, timers, server, cached, misled, request, downloads, reloads>>

\* What Power BI told is stored, over whatever is cached by then.  The answer
\* misleads a refresh if it is about no run since that was asked for and no
\* longer true.
About(t) == since[t] \cup (IF since[t] = {} THEN {} ELSE {Progress})
Misled(a) == {t \in Tasks : Kind[t] = "refresh" /\ job[t] # "none" /\ a \notin About(t) \cup {Upstream}}

StoreStatus(t) ==
  /\ t \in fresh
  /\ fresh' = fresh \ {t}
  /\ cached' = reading[t]
  /\ misled' = misled \cup Misled(reading[t])
  /\ reading' = IF Kind[t] = "refresh" THEN reading ELSE [reading EXCEPT ![t] = Nothing]
  /\ UNCHANGED <<tasks, timers, server, request, downloads, reloads>>

\* The answer to a row never arrives.
StatusLost(t) ==
  /\ Kind[t] = "refresh" /\ reading[t] # Nothing /\ t \notin fresh
  /\ reading' = [reading EXCEPT ![t] = Nothing]
  /\ UNCHANGED <<tasks, timers, server, cached, fresh, misled, request, downloads, reloads>>

\* The cached answer expires; a worker that has started a run deletes it too.
Forget ==
  /\ cached # Nothing /\ cached' = Nothing
  /\ UNCHANGED <<tasks, timers, server, reading, fresh, misled, request, downloads, reloads>>

-----------------------------------------------------------------------------
(* The rows of the dock.                                                   *)

Overdue(t) ==
  \/ tasks[t].status = "cancelling" /\ tasks[t].overdue
  \/ tasks[t].status = "pending" /\ ~tasks[t].seen /\ tasks[t].age = 2

\* The safety timeouts of a refresh whose status tells nothing.
RefreshTimeout(t) ==
  IF ~Overdue(t) THEN UNCHANGED <<tasks, timers>>
  ELSE Verdict(t, IF tasks[t].status = "cancelling" THEN "error" ELSE "success")

\* Mutant: whatever ends after a request to cancel was cancelled.
CancelBelieved(t, st) ==
  IF st \in Final /\ (tasks[t].seen \/ tasks[t].status = "cancelling")
  THEN Verdict(t, IF tasks[t].status = "cancelling" THEN "cancelled"
                  ELSE IF st = "Completed" THEN "success" ELSE "error")
  ELSE RefreshTimeout(t)

RefreshVerdict(t, st) ==
  LET new == tasks[t].seen \/ tasks[t].status = "cancelling" \/ tasks[t].age > 0 IN
  IF new /\ st \in Final
  THEN Verdict(t, CASE st = "Completed" -> "success"
                    [] st = "Cancelled" -> "cancelled"
                    [] OTHER            -> "error")
  ELSE RefreshTimeout(t)

\* The poll of a row is answered.
PollRefresh(t) ==
  /\ Kind[t] = "refresh" /\ reading[t] # Nothing /\ t \notin fresh
  /\ reading' = [reading EXCEPT ![t] = Nothing]
  /\ IF ~Active(t) THEN UNCHANGED <<tasks, timers>>
     ELSE IF reading[t] = Progress
     THEN tasks' = [tasks EXCEPT ![t].seen = TRUE] /\ UNCHANGED timers
     ELSE RefreshVerdict(t, StatusOf(reading[t]))
  /\ UNCHANGED <<server, cached, fresh, misled, request, downloads, reloads>>

PollCollect(t) ==
  /\ Kind[t] = "collect" /\ Listed(t) /\ tasks[t].status = "pending" /\ tasks[t].known
  /\ CASE job[t] = "Completed" -> Verdict(t, "success")
       [] job[t] = "Failed"    -> Verdict(t, "error")
       [] OTHER -> IF tasks[t].age = 2 THEN Verdict(t, "error") ELSE UNCHANGED <<tasks, timers>>
  /\ UNCHANGED <<server, answers, request, downloads, reloads>>

\* Mutant: the row downloads but keeps nothing of it.
ExportForgets(t) ==
  /\ Kind[t] = "export" /\ Listed(t) /\ tasks[t].status = "pending"
  /\ job[t] = "Completed" /\ downloads[t] < 3
  /\ downloads' = [downloads EXCEPT ![t] = @ + 1]
  /\ timers' = timers \cup {t}
  /\ UNCHANGED <<tasks, server, answers, request, reloads>>

\* An export that is done is downloaded once, with the verdict.
PollExport(t) ==
  /\ Kind[t] = "export" /\ Listed(t) /\ tasks[t].status = "pending"
  /\ CASE job[t] = "Completed" ->
            /\ downloads' = [downloads EXCEPT ![t] = IF tasks[t].downloaded THEN @ ELSE @ + 1]
            /\ tasks' = Patched(t, [tasks[t] EXCEPT !.status = "success", !.downloaded = TRUE])
            /\ timers' = timers \cup {t}
       [] job[t] = "Failed" -> Verdict(t, "error") /\ UNCHANGED downloads
       [] OTHER -> UNCHANGED <<tasks, timers, downloads>>
  /\ UNCHANGED <<server, answers, request, reloads>>

PollImport(t) ==
  /\ Kind[t] = "import" /\ Listed(t) /\ tasks[t].status = "pending"
  /\ CASE job[t] = "Completed" -> Verdict(t, "success")
       [] job[t] = "Failed"    -> Verdict(t, "error")
       [] OTHER                -> UNCHANGED <<tasks, timers>>
  /\ UNCHANGED <<server, answers, request, downloads, reloads>>

Poll(t) == PollRefresh(t) \/ PollCollect(t) \/ PollExport(t) \/ PollImport(t)

\* A removal timer fires.  It removes whatever the id then stands for.
TimerFires(t) ==
  /\ t \in timers
  /\ timers' = timers \ {t}
  /\ tasks' = [tasks EXCEPT ![t] = NoTask]
  /\ UNCHANGED <<server, answers, request, downloads, reloads>>

\* The close button of a row that is no longer active.
Close(t) ==
  /\ Listed(t) /\ ~Active(t)
  /\ tasks' = [tasks EXCEPT ![t] = NoTask]
  /\ UNCHANGED <<timers, server, answers, request, downloads, reloads>>

\* The tab is reloaded: timers, requests and callbacks are gone, an entry older
\* than its limit may be dropped, a row that is mounted without an answer looks
\* at its timeouts, and notices get a new timer.
Restored(t, dropped) ==
  IF ~Listed(t) \/ t \in dropped THEN NoTask
  ELSE IF Kind[t] = "refresh" /\ Active(t) /\ Overdue(t)
  THEN [tasks[t] EXCEPT !.status = IF @ = "cancelling" THEN "error" ELSE "success"]
  ELSE IF Kind[t] = "collect" /\ tasks[t].status = "pending" /\ tasks[t].age = 2
  THEN [tasks[t] EXCEPT !.status = "error"]
  ELSE tasks[t]

\* The rows' effects run before the dock's, so their verdicts get timers too.
RestoredTimers(list) == {t \in Tasks : list[t] # NoTask /\ Noticed(list[t].status)}

Reload ==
  /\ reloads < MaxReloads /\ reloads' = reloads + 1
  /\ \E dropped \in SUBSET {t \in Tasks : Listed(t) /\ tasks[t].age = 2} :
       LET list == [t \in Tasks |-> Restored(t, dropped)] IN
       /\ tasks' = list
       /\ timers' = RestoredTimers(list)
  /\ request' = [t \in Tasks |-> "none"]
  /\ reading' = [t \in Tasks |-> IF Kind[t] = "refresh" THEN Nothing ELSE reading[t]]
  /\ fresh' = {t \in fresh : Kind[t] # "refresh"}
  /\ UNCHANGED <<server, cached, misled, downloads>>

-----------------------------------------------------------------------------
(* The server, and time.                                                   *)

\* A run starts, if none is in progress: Power BI runs one refresh of a dataset
\* at a time.
Begins(t) ==
  /\ t \in Runs /\ ~InProgress
  /\ job' = [job EXCEPT ![t] = "running"]
  /\ since' = [u \in Tasks |-> IF Kind[u] = "refresh" /\ job[u] # "none"
                               THEN since[u] \cup {t} ELSE since[u]]
  /\ UNCHANGED <<tasks, timers, lastRun, answers, request, downloads, reloads>>

\* A worker takes the refresh up (or never does); or Power BI refuses it, or the
\* reservation has expired; a refresh of the schedule needs neither.
RunStarts(t)    == job[t] = "queued" /\ Begins(t)
StartsItself(t) == Kind[t] = "elsewhere" /\ job[t] = "none" /\ Begins(t)

RunRefused(t) ==
  /\ job[t] = "queued"
  /\ job' = [job EXCEPT ![t] = "refused"]
  /\ UNCHANGED <<tasks, timers, lastRun, since, answers, request, downloads, reloads>>

\* A job ends; somebody else may have cancelled it.
RunEnds(t, st) ==
  /\ job[t] = "running"
  /\ st = "Cancelled" => t \in Runs
  /\ Finish(t, st)
  /\ UNCHANGED <<tasks, timers, answers, request, downloads, reloads>>

Grow(t) ==
  /\ Listed(t) /\ tasks[t].age < 2
  /\ tasks' = [tasks EXCEPT ![t].age = @ + 1]
  /\ UNCHANGED <<timers, server, answers, request, downloads, reloads>>

CancelGrows(t) ==
  /\ Listed(t) /\ tasks[t].status = "cancelling" /\ ~tasks[t].overdue
  /\ tasks' = [tasks EXCEPT ![t].overdue = TRUE]
  /\ UNCHANGED <<timers, server, answers, request, downloads, reloads>>

Ends(t) == \E st \in Final : RunEnds(t, st)
Answered(t) == \/ \E told \in BOOLEAN : RefreshListed(t, told)
               \/ \E here \in BOOLEAN : CollectAnswered(t, here)
               \/ \E ok \in BOOLEAN : CancelAnswered(t, ok)

DockNext ==
  \/ \E t \in Tasks :
       \/ StartRefresh(t) \/ StartJob(t) \/ StartCollect(t)
       \/ \E from \in {"cancel-dock", "cancel-page"} : AskCancel(t, from)
       \/ Answered(t) \/ Poll(t) \/ TimerFires(t) \/ Close(t)
       \/ AskStatus(t) \/ StoreStatus(t) \/ StatusLost(t)
       \/ RunStarts(t) \/ StartsItself(t) \/ RunRefused(t) \/ Ends(t)
       \/ Grow(t) \/ CancelGrows(t)
  \/ Forget \/ Reload

\* The rows ask, and not every answer is lost; timers fire, requests are
\* answered, running jobs end, the cache expires and time passes.  Nothing makes
\* a worker take a queued refresh up.
DockFairness ==
  /\ WF_dockVars(Forget)
  /\ \A t \in Tasks :
       /\ WF_dockVars(Ends(t))
       /\ t \in Runs => WF_dockVars(StoreStatus(t))
       /\ Kind[t] = "refresh" => WF_dockVars(AskStatus(t)) /\ WF_dockVars(CancelGrows(t))
       /\ Kind[t] # "elsewhere" =>
            /\ SF_dockVars(Poll(t)) /\ WF_dockVars(TimerFires(t))
            /\ WF_dockVars(Answered(t)) /\ WF_dockVars(Grow(t))

DockSpec == DockInit /\ [][DockNext]_dockVars /\ DockFairness

-----------------------------------------------------------------------------
(* Properties.                                                             *)

\* The file of an export is downloaded at most once, although the tab may be
\* reloaded and the row mounted again at any moment.
DownloadedOnce == \A t \in Tasks : downloads[t] <= 1

\* A row that has seen a run in progress says only what became of a run in
\* progress since it was asked for, which is its own unless somebody else's ran
\* too: success only if one completed, cancelled only if one was.  So also when
\* the run completes while the cancel is under way, when the answer to the cancel
\* comes after the verdict, and when answers are cached and arrive late; but not
\* once an answer older than the refresh was stored over a newer one.  (A row
\* that has seen none may take over the verdict of the run before.)
VerdictMatchesRun ==
  \A t \in Tasks \ misled : Listed(t) /\ Kind[t] = "refresh" /\ tasks[t].seen =>
    /\ tasks[t].status = "success"   => \E u \in since[t] : job[u] = "Completed"
    /\ tasks[t].status = "cancelled" => \E u \in since[t] : job[u] = "Cancelled"

\* A task does not linger: once it is listed it comes to an error, which waits
\* for the user, or leaves the list.  A collection is left out, a refresh of
\* somebody else is never listed.
TaskLeaves ==
  \A t \in Tasks : Kind[t] \notin {"collect", "elsewhere"} =>
    (Listed(t) ~> (~Listed(t) \/ tasks[t].status = "error"))

\* A collection that is shown as pending does not stay so for ever: its result
\* is found, or the safety timeout turns it into an error.
CollectionSettles ==
  \A t \in Tasks : Kind[t] = "collect" => (Active(t) ~> ~Active(t))
=============================================================================
