---------------------------- MODULE MailPipeline ----------------------------
(***************************************************************************)
(* The scheduled mail pipeline: the Beat tick that queues due rounds       *)
(* (workers/tasks/mail_dispatch.py), the Celery workers that run them      *)
(* (workers/tasks/mail_job.py, services/mail/mail_service.py), the retry   *)
(* endpoint (api/routes/mail_jobs.py) and the schedule endpoints           *)
(* (api/routes/mail_schedules.py).                                         *)
(*                                                                         *)
(* One action is one stretch of code between two points where another      *)
(* process can be seen: a committed transaction, a Redis command, a call   *)
(* to Power BI or to the SMTP server.                                      *)
(***************************************************************************)
EXTENDS Naturals, FiniteSets, RedisLock

CONSTANTS
    Schedules,      \* ids of mail schedules
    Fires,          \* cron fire minutes: the run keys that Beat derives
    Retries,        \* run keys that the retry endpoint can derive
    Pages,          \* page names of the report
    Workers,        \* worker processes, each running one task at a time
    None,           \* the value of a field that holds nothing
    Configs,        \* the schedules that clients post, see Config
    ClosedFires,    \* <<s, f>>: start/end date, weekend or holiday forbids f
    MailRetryMax,   \* settings.MAIL_RETRY_MAX
    MaxCopies,      \* bound: copies of one task in the queue
    MaxEdits,       \* bound: PATCHes of schedules
    MaxFaults       \* bound: crashes, uncaught exceptions, redeliveries

RunKeys == Fires \cup Retries
Round == Schedules \X RunKeys

\* What the pipeline reads of a schedule: the enabled column, the selected
\* pages, and whether its recipient rows resolve to at least one address.
Config == [enabled : BOOLEAN, pages : SUBSET Pages, reachable : BOOLEAN]

ASSUME ConstantsOK ==
    /\ Configs \subseteq Config
    /\ Fires \cap Retries = {}
    /\ None \notin Fires \cup Pages \cup Round
    /\ Free \notin Workers
    /\ MailRetryMax \in Nat \ {0}
    /\ {MaxCopies, MaxEdits, MaxFaults} \subseteq Nat

VARIABLES
    \* cron and the schedule tables
    due,        \* due[s]: the last fire of s while its catch-up window is open
    fired,      \* fired[s]: the fires of s so far
    phase,      \* phase[s]: whether the mail_schedules row exists
    config,     \* config[s]: the columns and child rows the pipeline reads
    \* Redis
    queue,      \* queue[j]: copies of task bip.mail_job(j) waiting
    locks,      \* locks[s]: value of bip:lock:mail:{s}
    \* mail_jobs, export_jobs, report_image_paths
    status,     \* status[j]: status of the row of j, "absent" when there is none
    exports,    \* exports[j][p]: status of the export row of page p
    images,     \* images[j]: pages with a stored image
    retryOf,    \* retryOf[k]: the failed job whose retry derived run key k
    \* the SMTP server
    inbox,      \* inbox[j]: messages the server accepted for j
    carried,    \* carried[j]: pages in the last message accepted for j
    \* workers
    pc,         \* pc[w]: where worker w is in its task
    task,       \* task[w]: the task it runs
    run,        \* run[w]: local variables of the task
    stale,      \* workers whose lock expired under the task they run
    \* bounds
    edits, faults

cronVars == <<due, fired>>
scheduleVars == <<phase, config>>
jobVars == <<status, exports, images>>
smtpVars == <<inbox, carried>>
workerVars == <<pc, task, run, stale>>
boundVars == <<edits, faults>>
vars == <<cronVars, scheduleVars, queue, locks, jobVars, retryOf, smtpVars,
          workerVars, boundVars>>

-----------------------------------------------------------------------------
Phase == {"new", "live", "deleted"}
Status == {"absent", "running", "succeeded", "failed"}
ExportStatus == {"absent", "NotStarted", "Running", "Succeeded", "Failed"}

\* "check" to "create" precede the row of the round; "export" to "final"
\* follow it; "release" is the finally clause.
Beginning == {"check", "create"}
Pipeline == {"export", "start", "poll", "mark", "send", "final"}
PC == {"idle", "release"} \cup Beginning \cup Pipeline

Run == [selected : SUBSET Pages,       \* pages read when the row was inserted
        todo : SUBSET Pages,           \* pages not exported yet
        page : Pages \cup {None},      \* page being exported
        bad : SUBSET Pages,            \* pages whose export failed
        attached : SUBSET Pages,       \* pages whose image was attached
        tries : 0 .. MailRetryMax,     \* SMTP attempts that raised
        ok : BOOLEAN]                  \* the verdict to record

NoRun == [selected |-> {}, todo |-> {}, page |-> None, bad |-> {},
          attached |-> {}, tries |-> 0, ok |-> FALSE]

TypeOK ==
    /\ due \in [Schedules -> Fires \cup {None}]
    /\ fired \in [Schedules -> SUBSET Fires]
    /\ phase \in [Schedules -> Phase]
    /\ config \in [Schedules -> Config]
    /\ queue \in [Round -> 0 .. MaxCopies]
    /\ locks \in [Schedules -> Workers \cup {Free}]
    /\ status \in [Round -> Status]
    /\ exports \in [Round -> [Pages -> ExportStatus]]
    /\ images \in [Round -> SUBSET Pages]
    /\ retryOf \in [Retries -> Round \cup {None}]
    /\ inbox \in [Round -> Nat]
    /\ carried \in [Round -> SUBSET Pages]
    /\ pc \in [Workers -> PC]
    /\ task \in [Workers -> Round \cup {None}]
    /\ run \in [Workers -> Run]
    /\ stale \in SUBSET Workers
    /\ edits \in 0 .. MaxEdits
    /\ faults \in 0 .. MaxFaults

NoExports == [p \in Pages |-> "absent"]

Init ==
    /\ due = [s \in Schedules |-> None]
    /\ fired = [s \in Schedules |-> {}]
    /\ phase = [s \in Schedules |-> "new"]
    /\ config = [s \in Schedules |->
                    [enabled |-> FALSE, pages |-> {}, reachable |-> FALSE]]
    /\ queue = [j \in Round |-> 0]
    /\ locks = [s \in Schedules |-> Free]
    /\ status = [j \in Round |-> "absent"]
    /\ exports = [j \in Round |-> NoExports]
    /\ images = [j \in Round |-> {}]
    /\ retryOf = [k \in Retries |-> None]
    /\ inbox = [j \in Round |-> 0]
    /\ carried = [j \in Round |-> {}]
    /\ pc = [w \in Workers |-> "idle"]
    /\ task = [w \in Workers |-> None]
    /\ run = [w \in Workers |-> NoRun]
    /\ stale = {}
    /\ edits = 0
    /\ faults = 0

-----------------------------------------------------------------------------
(***************************************************************************)
(* Schedules and the clock                                                 *)
(***************************************************************************)

\* POST /api/mail-schedules: the row, its recipients and its pages at once.
CreateSchedule(s) ==
    /\ phase[s] = "new"
    /\ phase' = [phase EXCEPT ![s] = "live"]
    /\ \E c \in Configs : config' = [config EXCEPT ![s] = c]
    /\ UNCHANGED <<cronVars, queue, locks, jobVars, retryOf, smtpVars,
                   workerVars, boundVars>>

\* PATCH /api/mail-schedules/{s}: any of its columns, pages and recipients.
\* A new cron expression has another previous fire, possibly one that an
\* earlier expression had already.  The envelope also changes when users,
\* groups or departments do.
UpdateSchedule(s) ==
    /\ phase[s] = "live"
    /\ edits < MaxEdits
    /\ edits' = edits + 1
    /\ \E c \in Configs : config' = [config EXCEPT ![s] = c]
    /\ \E f \in Fires \cup {None} :
          /\ due' = [due EXCEPT ![s] = f]
          /\ fired' = [fired EXCEPT ![s] = @ \cup ({f} \ {None})]
    /\ UNCHANGED <<phase, queue, locks, jobVars, retryOf, smtpVars, workerVars,
                   faults>>

\* DELETE /api/mail-schedules/{s}: the foreign keys cascade to recipients,
\* pages, mail_jobs and, through them, export_jobs and report_image_paths.
DeleteSchedule(s) ==
    /\ phase[s] = "live"
    /\ phase' = [phase EXCEPT ![s] = "deleted"]
    /\ status' = [j \in Round |-> IF j[1] = s THEN "absent" ELSE status[j]]
    /\ exports' = [j \in Round |-> IF j[1] = s THEN NoExports ELSE exports[j]]
    /\ images' = [j \in Round |-> IF j[1] = s THEN {} ELSE images[j]]
    /\ UNCHANGED <<cronVars, config, queue, locks, retryOf, smtpVars,
                   workerVars, boundVars>>

\* A cron minute of s comes: it is the previous fire from now on, and within
\* the catch-up window.
CronFires(s) ==
    \E f \in Fires \ fired[s] :
        /\ due' = [due EXCEPT ![s] = f]
        /\ fired' = [fired EXCEPT ![s] = @ \cup {f}]
        /\ UNCHANGED <<scheduleVars, queue, locks, jobVars, retryOf, smtpVars,
                       workerVars, boundVars>>

\* _CATCHUP_WINDOW_SEC passed since the fire.
CatchUpCloses(s) ==
    /\ due[s] # None
    /\ due' = [due EXCEPT ![s] = None]
    /\ UNCHANGED <<fired, scheduleVars, queue, locks, jobVars, retryOf,
                   smtpVars, workerVars, boundVars>>

-----------------------------------------------------------------------------
(***************************************************************************)
(* Queueing                                                                *)
(***************************************************************************)

\* Faulty variant: a schedule with a job that still says running is busy.
DispatchableUnlessBusy(s, f) ==
    /\ phase[s] = "live" /\ config[s].enabled
    /\ <<s, f>> \notin ClosedFires
    /\ status[<<s, f>>] = "absent"
    /\ \A k \in RunKeys : status[<<s, k>>] # "running"

\* The gates of a dispatch tick, in the order of the code.
Dispatchable(s, f) ==
    /\ phase[s] = "live" /\ config[s].enabled
    /\ <<s, f>> \notin ClosedFires
    /\ status[<<s, f>>] = "absent"

\* A tick queues the round of s that is due.  Ticks repeat every 30 s, so the
\* same round is queued again until its row exists.
Dispatch(s) ==
    /\ due[s] # None
    /\ Dispatchable(s, due[s])
    /\ queue[<<s, due[s]>>] < MaxCopies
    /\ queue' = [queue EXCEPT ![<<s, due[s]>>] = @ + 1]
    /\ UNCHANGED <<cronVars, scheduleVars, locks, jobVars, retryOf, smtpVars,
                   workerVars, boundVars>>

\* Faulty variant: whatever did not succeed may be retried.
RetryableUnlessSent(j) == status[j] \in {"running", "failed"}

\* POST /api/mail-jobs/{id}/retry accepts failed jobs only.
Retryable(j) == status[j] = "failed"

\* The retry queues j's schedule under a run key derived from j's and the
\* second of the request: within one second the same key comes out again.
RetryMailJob(j, k) ==
    /\ Retryable(j)
    /\ retryOf[k] \in {None, j}
    /\ queue[<<j[1], k>>] < MaxCopies
    /\ retryOf' = [retryOf EXCEPT ![k] = j]
    /\ queue' = [queue EXCEPT ![<<j[1], k>>] = @ + 1]
    /\ UNCHANGED <<cronVars, scheduleVars, locks, jobVars, smtpVars,
                   workerVars, boundVars>>

\* The Redis broker delivers a task again when the worker that prefetched it
\* did not acknowledge it within the visibility timeout.
Redeliver(j) ==
    /\ faults < MaxFaults
    /\ queue[j] \in 1 .. (MaxCopies - 1)
    /\ queue' = [queue EXCEPT ![j] = @ + 1]
    /\ faults' = faults + 1
    /\ UNCHANGED <<cronVars, scheduleVars, locks, jobVars, retryOf, smtpVars,
                   workerVars, edits>>

-----------------------------------------------------------------------------
(***************************************************************************)
(* The lock and the row                                                    *)
(***************************************************************************)

\* A task that finds the lock taken returns "skipped"; nobody queues it again.
SkipLocked(w, j) ==
    /\ pc[w] = "idle" /\ queue[j] > 0
    /\ ~Acquirable(locks, j[1])
    /\ queue' = [queue EXCEPT ![j] = @ - 1]
    /\ UNCHANGED <<cronVars, scheduleVars, locks, jobVars, retryOf, smtpVars,
                   workerVars, boundVars>>

\* The lock value is a fresh UUID.  A worker runs one task at a time and a
\* key it left behind keeps it out like everybody else, so that its identity
\* stands for the UUID of its current task.
AcquireLock(w, j) ==
    /\ pc[w] = "idle" /\ queue[j] > 0
    /\ Acquirable(locks, j[1])
    /\ queue' = [queue EXCEPT ![j] = @ - 1]
    /\ locks' = Acquired(locks, j[1], w)
    /\ pc' = [pc EXCEPT ![w] = "check"]
    /\ task' = [task EXCEPT ![w] = j]
    /\ UNCHANGED <<cronVars, scheduleVars, jobVars, retryOf, smtpVars, run,
                   stale, boundVars>>

\* Worker w goes on at label l; its local variables become r.
Goto(w, l) == pc' = [pc EXCEPT ![w] = l]
Assign(w, r) == run' = [run EXCEPT ![w] = r]

\* The row of this round exists already: skipped "duplicate".
CheckDuplicate(w) ==
    /\ pc[w] = "check"
    /\ \/ status[task[w]] # "absent" /\ Goto(w, "release")
       \/ status[task[w]] = "absent" /\ Goto(w, "create")
    /\ UNCHANGED <<cronVars, scheduleVars, queue, locks, jobVars, retryOf,
                   smtpVars, task, run, stale, boundVars>>

\* Faulty variant: no UNIQUE(mail_schedule_id, run_key) on mail_jobs.
NoUniqueRunKey(j) == TRUE

\* UNIQUE(mail_schedule_id, run_key): the insert of a second row raises.
UniqueRunKey(j) == status[j] = "absent"

\* The schedule and its pages are read and the row is inserted and committed.
\* A schedule that is gone, and a row that another run inserted since the
\* check, end the task; a round without pages is failed at once.
CreateMailJob(w) ==
    LET j == task[w]
        selected == config[j[1]].pages
        creates == phase[j[1]] = "live" /\ UniqueRunKey(j)
    IN  /\ pc[w] = "create"
        /\ \/ /\ creates
              /\ status' = [status EXCEPT ![j] = "running"]
              /\ Assign(w, [run[w] EXCEPT !.selected = selected,
                                          !.todo = selected])
              /\ Goto(w, IF selected = {} THEN "final" ELSE "export")
           \/ /\ ~creates
              /\ Goto(w, "release")
              /\ UNCHANGED <<status, run>>
        /\ UNCHANGED <<cronVars, scheduleVars, queue, locks, exports, images,
                       retryOf, smtpVars, task, stale, boundVars>>

-----------------------------------------------------------------------------
(***************************************************************************)
(* Exporting the pages, one after the other                                *)
(***************************************************************************)

\* The export rows live and die with the row of the job.
RowExists(j) == status[j] # "absent"

\* Updates of an export row are skipped when the row is gone.
ExportMarked(j, p, st) ==
    IF RowExists(j) THEN [exports EXCEPT ![j][p] = st] ELSE exports

\* The next page in sort order; its place in that order does not matter here.
\* Inserting the export row of a deleted job violates its foreign key, and
\* nothing catches that.
CreateExport(w) ==
    LET j == task[w]
    IN  /\ pc[w] = "export"
        /\ \E p \in run[w].todo :
              \/ /\ RowExists(j)
                 /\ exports' = ExportMarked(j, p, "NotStarted")
                 /\ Assign(w, [run[w] EXCEPT !.todo = @ \ {p}, !.page = p])
                 /\ Goto(w, "start")
              \/ /\ ~RowExists(j)
                 /\ Goto(w, "release")
                 /\ UNCHANGED <<exports, run>>
        /\ UNCHANGED <<cronVars, scheduleVars, queue, locks, status, images,
                       retryOf, smtpVars, task, stale, boundVars>>

\* Faulty variant: the failure is reported to the caller but not recorded.
PageFailsSilently(w) ==
    /\ exports' = exports
    /\ Assign(w, [run[w] EXCEPT !.bad = @ \cup {run[w].page}, !.page = None])
    /\ Goto(w, "export")

\* A page that fails is recorded and does not stop the others.
PageFails(w) ==
    /\ exports' = ExportMarked(task[w], run[w].page, "Failed")
    /\ Assign(w, [run[w] EXCEPT !.bad = @ \cup {run[w].page}, !.page = None])
    /\ Goto(w, "export")

\* POST ExportTo, then the export row turns Running.
StartExport(w) ==
    /\ pc[w] = "start"
    /\ \/ PageFails(w)
       \/ /\ exports' = ExportMarked(task[w], run[w].page, "Running")
          /\ Goto(w, "poll")
          /\ UNCHANGED run
    /\ UNCHANGED <<cronVars, scheduleVars, queue, locks, status, images,
                   retryOf, smtpVars, task, stale, boundVars>>

\* Poll until done, download, store the images and their rows.  A poll that
\* times out, an export that failed and an image that cannot be stored fail
\* the page; so does the foreign key of a job deleted meanwhile.
FinishExport(w) ==
    LET j == task[w]
    IN  /\ pc[w] = "poll"
        /\ \/ PageFails(w) /\ UNCHANGED images
           \/ /\ RowExists(j)
              /\ images' = [images EXCEPT ![j] = @ \cup {run[w].page}]
              /\ Goto(w, "mark")
              /\ UNCHANGED <<exports, run>>
        /\ UNCHANGED <<cronVars, scheduleVars, queue, locks, status, retryOf,
                       smtpVars, task, stale, boundVars>>

\* A transaction of its own marks the export row Succeeded.
MarkExported(w) ==
    /\ pc[w] = "mark"
    /\ exports' = ExportMarked(task[w], run[w].page, "Succeeded")
    /\ Assign(w, [run[w] EXCEPT !.page = None])
    /\ Goto(w, "export")
    /\ UNCHANGED <<cronVars, scheduleVars, queue, locks, status, images,
                   retryOf, smtpVars, task, stale, boundVars>>

-----------------------------------------------------------------------------
(***************************************************************************)
(* Sending and the verdict                                                 *)
(***************************************************************************)

\* Faulty variant: the mail goes out with the pages that were exported.
SomePageExported(w) == run[w].bad # run[w].selected

\* One failed page is enough to fail the round.
EveryPageExported(w) == run[w].bad = {}

\* All pages were tried.  Recipients are resolved now, from the schedule as
\* it is now; images that the storage cannot read are left out of the mail.
PrepareMail(w) ==
    LET j == task[w]
        envelope == phase[j[1]] = "live" /\ config[j[1]].reachable
    IN  /\ pc[w] = "export"
        /\ run[w].todo = {}
        /\ \/ /\ ~EveryPageExported(w) \/ ~envelope
              /\ Goto(w, "final")
              /\ UNCHANGED run
           \/ /\ EveryPageExported(w) /\ envelope
              /\ \E readable \in SUBSET images[j] :
                    Assign(w, [run[w] EXCEPT !.attached = readable])
              /\ Goto(w, "send")
        /\ UNCHANGED <<cronVars, scheduleVars, queue, locks, jobVars, retryOf,
                       smtpVars, task, stale, boundVars>>

Delivered(w) ==
    /\ inbox' = [inbox EXCEPT ![task[w]] = @ + 1]
    /\ carried' = [carried EXCEPT ![task[w]] = run[w].attached]

\* One SMTP attempt that returned: audit "success", then the verdict.
SendAccepted(w) ==
    /\ pc[w] = "send"
    /\ Delivered(w)
    /\ Assign(w, [run[w] EXCEPT !.ok = TRUE])
    /\ Goto(w, "final")
    /\ UNCHANGED <<cronVars, scheduleVars, queue, locks, jobVars, retryOf,
                   task, stale, boundVars>>

\* Faulty variant: one attempt more than MAIL_RETRY_MAX.
OneAttemptMore(w) == run[w].tries = MailRetryMax

\* attempt < attempts decides whether send_with_retry tries again.
LastAttempt(w) == run[w].tries + 1 = MailRetryMax

\* One SMTP attempt that raised: the server refused the message, or it took
\* it and the answer was lost.  After the last one the round fails.
SendRaised(w) ==
    /\ pc[w] = "send"
    /\ Delivered(w) \/ UNCHANGED smtpVars
    /\ Assign(w, [run[w] EXCEPT !.tries = @ + 1])
    /\ Goto(w, IF LastAttempt(w) THEN "final" ELSE "send")
    /\ UNCHANGED <<cronVars, scheduleVars, queue, locks, jobVars, retryOf,
                   task, stale, boundVars>>

\* _finalize_mail_job writes the verdict over whatever the row says, if the
\* row still exists.
Finalize(w) ==
    LET j == task[w]
    IN  /\ pc[w] = "final"
        /\ status' = IF ~RowExists(j) THEN status
                     ELSE [status EXCEPT ![j] =
                             IF run[w].ok THEN "succeeded" ELSE "failed"]
        /\ Goto(w, "release")
        /\ UNCHANGED <<cronVars, scheduleVars, queue, locks, exports, images,
                       retryOf, smtpVars, task, run, stale, boundVars>>

EndTask(w) ==
    /\ Goto(w, "idle")
    /\ task' = [task EXCEPT ![w] = None]
    /\ Assign(w, NoRun)
    /\ stale' = stale \ {w}

\* Faulty variant: the worker waits until the lock is its own again.
ReleaseWhenOwner(w) ==
    /\ pc[w] = "release" /\ ~Acquirable(locks, task[w][1])
    /\ locks' = Released(locks, task[w][1], w)
    /\ EndTask(w)
    /\ UNCHANGED <<cronVars, scheduleVars, queue, jobVars, retryOf, smtpVars,
                   boundVars>>

\* The finally clause: the lock is deleted if the token is still there.
ReleaseLock(w) ==
    /\ pc[w] = "release"
    /\ locks' = Released(locks, task[w][1], w)
    /\ EndTask(w)
    /\ UNCHANGED <<cronVars, scheduleVars, queue, jobVars, retryOf, smtpVars,
                   boundVars>>

-----------------------------------------------------------------------------
(***************************************************************************)
(* What can go wrong around a task                                         *)
(***************************************************************************)

Holds(w, s) == pc[w] # "idle" /\ task[w][1] = s

\* Faulty variant: SET NX without EX.
NeverExpires(s) == FALSE /\ UNCHANGED vars

\* The TTL of the lock is DEFAULT_LOCK_TTL_SEC and nothing renews it, while
\* one page alone may be polled for EXPORT_POLL_TIMEOUT_SEC.
LockExpires(s) ==
    /\ ~Acquirable(locks, s)
    /\ locks' = Expired(locks, s)
    /\ stale' = stale \cup {w \in Workers : locks[s] = w /\ Holds(w, s)}
    /\ UNCHANGED <<cronVars, scheduleVars, queue, jobVars, retryOf, smtpVars,
                   pc, task, run, boundVars>>

\* A call that is not guarded raises: the token request, any transaction, the
\* audit record.  The finally clause still runs; the row is left as it is.
Raise(w) ==
    /\ faults < MaxFaults
    /\ pc[w] \in Beginning \cup Pipeline
    /\ Goto(w, "release")
    /\ faults' = faults + 1
    /\ UNCHANGED <<cronVars, scheduleVars, queue, locks, jobVars, retryOf,
                   smtpVars, task, run, stale, edits>>

\* The worker process dies.  Celery acknowledged the task when it started, so
\* it is not delivered again; the lock stays until its TTL runs out.
Crash(w) ==
    /\ faults < MaxFaults
    /\ pc[w] # "idle"
    /\ EndTask(w)
    /\ faults' = faults + 1
    /\ UNCHANGED <<cronVars, scheduleVars, queue, locks, jobVars, retryOf,
                   smtpVars, edits>>

-----------------------------------------------------------------------------
\* A worker on its own, from the check to the finally clause.
Step(w) ==
    \/ CheckDuplicate(w) \/ CreateMailJob(w)
    \/ CreateExport(w) \/ StartExport(w) \/ FinishExport(w) \/ MarkExported(w)
    \/ PrepareMail(w) \/ SendAccepted(w) \/ SendRaised(w) \/ Finalize(w)
    \/ ReleaseLock(w)

Next ==
    \/ \E s \in Schedules :
          \/ CreateSchedule(s) \/ UpdateSchedule(s) \/ DeleteSchedule(s)
          \/ CronFires(s) \/ CatchUpCloses(s) \/ Dispatch(s) \/ LockExpires(s)
    \/ \E j \in Round :
          \/ \E k \in Retries : RetryMailJob(j, k)
          \/ Redeliver(j)
          \/ \E w \in Workers : SkipLocked(w, j) \/ AcquireLock(w, j)
    \/ \E w \in Workers : Step(w) \/ Raise(w) \/ Crash(w)

Spec == Init /\ [][Next]_vars

\* A worker that runs goes on, an idle one takes a task whose lock is free, a
\* key with a TTL expires, Beat ticks.  Nothing obliges an operator, the clock
\* or a fault.
Fairness ==
    /\ \A w \in Workers : WF_vars(Step(w))
    /\ \A s \in Schedules : WF_vars(LockExpires(s)) /\ WF_vars(Dispatch(s))
    /\ \A j \in Round : WF_vars(\E w \in Workers : AcquireLock(w, j))

FairSpec == Spec /\ Fairness

-----------------------------------------------------------------------------
(***************************************************************************)
(* Safety                                                                  *)
(***************************************************************************)

\* Two workers are inside tasks of one schedule only if the lock of one of
\* them has expired under it: release never deletes the lock of another
\* holder (lock.py, "a stale owner ... can never delete the new owner's lock").
LeaseExclusion ==
    \A w, v \in Workers, s \in Schedules :
        Holds(w, s) /\ Holds(v, s) /\ w # v => w \in stale \/ v \in stale

\* However often a round is queued, redelivered, or its lock lost, no two
\* workers are ever past the row insert of the same round: UNIQUE is the last
\* line of defence that mail_job.py claims it to be.
OneRunPerRound ==
    \A w, v \in Workers :
        pc[w] \in Pipeline /\ pc[v] \in Pipeline /\ task[w] = task[v] => w = v

\* A verdict, once recorded, is never overwritten, by a late run of the same
\* round or by anything else; it can only be deleted with its schedule.
VerdictIsFinal ==
    [][\A j \in Round :
          status[j] \in {"succeeded", "failed"} =>
              status'[j] = status[j] \/ phase'[j[1]] = "deleted"]_vars

\* A job that says succeeded exported at least one page, none of its export
\* rows is unfinished or failed, each exported page has its stored image, and
\* the server accepted its mail.
SuccessIsComplete ==
    \A j \in Round : status[j] = "succeeded" =>
        /\ inbox[j] > 0
        /\ \E p \in Pages : exports[j][p] = "Succeeded"
        /\ \A p \in Pages : \/ exports[j][p] = "absent"
                              \/ (exports[j][p] = "Succeeded" /\ p \in images[j])

\* When a job has its verdict no export row of it is left NotStarted or
\* Running: a page that failed at any stage was recorded as failed.
VerdictSettlesExports ==
    \A j \in Round : status[j] \in {"succeeded", "failed"} =>
        \A p \in Pages : exports[j][p] \notin {"NotStarted", "Running"}

\* Over all runs, retries of the SMTP call, crashes and redeliveries, a round
\* puts at most MAIL_RETRY_MAX messages into the mailboxes.
BoundedResend == \A j \in Round : inbox[j] <= MailRetryMax

\* A run key that a retry derived always stems from a job that failed and
\* still says so: a job that succeeded after all is never sent again.
RetryOnlyOfFailed ==
    \A k \in Retries : retryOf[k] # None =>
        status[retryOf[k]] = "failed" \/ phase[retryOf[k][1]] = "deleted"

\* The whole pipeline, workers and all, does no more than the ledger promises.
Ledger == INSTANCE MailLedger WITH
    MaxSend <- MailRetryMax,
    existing <- {s \in Schedules : phase[s] # "deleted"},
    verdict <- status,
    messages <- inbox

LedgerSpec == Ledger!Spec

-----------------------------------------------------------------------------
(***************************************************************************)
(* Liveness, under FairSpec                                                *)
(***************************************************************************)

\* A worker always gets out of its task, whatever Power BI and SMTP answer
\* and whoever holds the lock by then.
TaskEnds == \A w \in Workers : pc[w] # "idle" ~> pc[w] = "idle"

\* A lock left behind by a dead worker does not keep the schedule blocked.
OrphanLockGoes ==
    \A s \in Schedules :
        (locks[s] # Free /\ \A w \in Workers : ~Holds(w, s)) ~> locks[s] = Free

\* A fire that is due opens its round while its catch-up window is open, even
\* when its tasks were dropped at the lock, or an earlier round of the
\* schedule died halfway and still says running.
DueRoundStarts ==
    \A s \in Schedules, f \in Fires :
        (due[s] = f /\ phase[s] = "live" /\ config[s].enabled
                   /\ <<s, f>> \notin ClosedFires)
        ~> (\/ status[<<s, f>>] # "absent"
            \/ due[s] # f \/ ~config[s].enabled \/ phase[s] = "deleted")

-----------------------------------------------------------------------------
(***************************************************************************)
(* What the documents say and the code does not do                         *)
(***************************************************************************)

\* mail_job.py:515: the lock keeps one schedule from running twice at a time.
ScheduleRunsAlone ==
    \A w, v \in Workers :
        pc[w] \in Pipeline /\ pc[v] \in Pipeline /\ task[w][1] = task[v][1]
            => w = v

=============================================================================
