# BIP verification project

TLA+ models of the BI portal: its backend in `src/backend` (FastAPI, Celery,
PostgreSQL, Redis, Power BI, SMTP) and the pages of `src/frontend` (React,
TanStack Query, zustand) that keep state while the server answers. What the
processes do to the state they share, and what a page does with answers that
come late, is checked by TLC on small instances; what matters most of it is also
proved with TLAPS for every instance.

## 1. The system

Three kinds of process share one PostgreSQL database and one Redis: API
processes (`app/api`), Celery workers (`app/workers/tasks`) and Celery Beat
(`app/workers/beat_schedule.py`). Browsers talk to the API processes. Power BI and
an SMTP server are outside. A request handler runs in one database session that it commits itself,
most of them once, at the end; what is not committed rolls back when the session
closes (`db/session.py`). A Celery task opens a session per stretch of work. Redis holds sessions, locks, tracking keys,
caches and the broker's queues, none of them in a transaction with the database.

A page of the frontend is one queue of tasks: handlers, timers and answers run to
completion with the render they cause. Its state is spread over React state,
stores that outlive the page, the query cache, where an answer is found again by
the key it was asked under, and embedded reports in frames of their own. Between
a request and its answer the user goes on, and other users change the server.

### Inventory

| component | state | operations | what makes it correct |
|---|---|---|---|
| Mail schedules, dispatch (`mail_schedules.py`, `mail_dispatch.py`, `MailSchedulePage.tsx`) | `mail_schedules` and children, cron fires within the catch-up window; the form | create, patch, delete (cascading), tick every 30 s; edit, order pages, save | a due fire opens its round, once; a schedule names pages of its report |
| Mail jobs (`mail_job.py`, `mail_jobs.py`, `mail_service.py`) | `mail_jobs`, `export_jobs`, `report_image_paths`, the schedule's lock, messages sent | lock, check, insert, export page by page, send with retries, verdict; retry endpoint | one run per round, a verdict that is final and true, bounded messages |
| Redis lock (`lock.py`) | key to token | SET NX EX, Lua compare-and-delete, expiry | nobody deletes another's lock |
| Dataset refresh (`datasets.py`, `refresh_trigger.py`) | reservation lock, tracking key, queue, Power BI's runs and history | trigger, cancel, worker's POST | no POST over an active run, every run findable |
| Sessions, login (`services/auth`, `auth.py`) | `session:*` keys, the set of a user's sessions, user rows | login, sliding expiry, logout, destroy all | a disabled user or an old password has no session |
| User administration (`users.py`, `UsersPage.tsx`) | `users`; drafts of roles, dialogs | disable, reset, delete, roles, accounts | the same; what is stored is what was drafted, for the user it was drafted for |
| Permissions (`permission_service.py`, `permissions_admin.py`, `roles.py`, `PermissionsPage.tsx`) | grants per subject, report and code; menu rights; drafts of them | grant, replace, revoke, bulk, delete a subject | a code comes with its VIEW; a request is whole or nothing; no rights of what is gone; nothing revoked comes back |
| Groups, organisation (`groups.py`, `org.py`, `team_group_sync.py`, `GroupsPage.tsx`) | groups, members, departments | edit, synchronise team groups | a team group has its team's members, and the plan that was shown is the one that is done |
| Request centre (`requests.py`, `ServiceCenterPage.tsx`) | requests, history, attachments in the file store | submit, comment, status, attach, delete | history chains; closed stays closed; a row has its file |
| Collector and monitoring (`collector.py`, `collect.py`, `RefreshStatusPage.tsx`, `components/gantt`) | refresh runs, catalogue rows; the day, the filters, the timeline | collect under lock; select, exclude, hover | an ended run stays ended; nothing enters the catalogue by itself; what is drawn is what is selected |
| Direct export (`exports.py`, `BackgroundTaskDock.tsx`) | `export_jobs` without mail job; rows of the dock | start, poll, download | the file comes once, the verdict is the run's |
| Display boards (`display_boards.py`, `DisplayBoardPlayerPage.tsx`, `DisplayBoardsPage.tsx`) | boards, slides; rotation, tokens | play; edit settings and slides | the embed follows the slide, the wall never stops; ranks without gaps |
| Catalogue (`reports.py`, `folders.py`, hub, favourites, pickers) | reports, folders, favourites; address, query cache | find, star, order, move, edit | what is listed is what is stored |
| Report view (`ReportViewPage.tsx`) | visit, embed, banner of new data | look, export, refresh, replace | the visit is stored, no hidden page is exported, no new data is missed |
| Statistics (`StatsDashboardPage.tsx`, `stats.py`) | filters, drill-down, query cache | filter, drill, change the period | what is drawn fits the filters; a period is made of its days |
| Alerts, token cache, PBIX import, retention, holidays, audit, storage | their keys, tables, files | mostly single-row reads and writes | see `PROJECT.json` |

`PROJECT.json` lists every component with its sources and status, and every
hazard at its line. On the server the hard part is the same nearly everywhere: a
Redis step and a database step, or two transactions, with another process in
between; locks whose TTL (60 s) is shorter than the work under them; a queue that
may drop a task with its worker or deliver it twice; Power BI showing a run only
some time after it was started. On a page it is an answer to a question nobody
asks any more, a draft made from a list that has changed, and a copy of one piece
of state in another.

## 2. The modules

| module | what it is |
|---|---|
| `RedisLock` | operators on a table of locks, used by both pipelines |
| `MailPipeline` | schedules, Beat, queue, workers, retry endpoint, SMTP |
| `MailLedger` | abstract: the rows of `mail_jobs` and the messages sent |
| `MCMailPipeline` | instances of `MailPipeline` |
| `DatasetRefresh` | manual refreshes of one dataset |
| `ReportPermissions` | the administration of permissions by several administrators at once |
| `PermissionLedger` | abstract: the tables of permissions, changed by one request at a time |
| `DisplayPlayer`, `MCDisplayPlayer` | the unattended player of a board, and an instance |
| `TaskDock`, `MCTaskDock` | the dock of background tasks with the jobs they follow, and instances |
| `UserSessions` | server: sessions of one account, logins and administrators |
| `RequestCenter` | server: one request under several operators, with its files |
| `RefreshCollector` | server: collections of one workspace, registrations and deletions of reports |
| `ViewSession`, `ReportEmbed`, `ReportNotices` | the page of a report: how long it was looked at, what is embedded and exported, what is said of refreshes |
| `ReportCatalog`, `FavoriteFolders`, `ReportPicker`, `ReportTree` | finding reports: the hub, the favourites, the trees to choose from |
| `MailScheduleForm` | the form of a mail schedule |
| `GrantPages` | the permissions page: menus and reports of a subject |
| `MCPermissions` | the administration of permissions and the page it is done on, one at a time, and instances |
| `AdminReports`, `BoardEditor`, `TeamGroups`, `UserAdmin` | the pages that administer reports, boards, groups and users |
| `ServiceCenter` | the page of the requests |
| `StatsDashboard`, `TrendPeriods` | the statistics page and the calendar of its trends |
| `RefreshMonitor`, `RefreshTimeline` | the monitoring page: selection and table; timeline |
| `ServerParts` | `RequestCenter` and `RefreshCollector` together |
| `MCServer` | the refreshes of a dataset, sessions, requests and collections, one at a time, and instances |
| `Sorting` | a set in the order of a relation: what the database and the pages sort |
| `PortalPages` | the pages, one at a time: five parts it extends, and twelve it instantiates over nine shared variables |
| `MCPages` | an instance of `PortalPages` |
| `MailPipelineProofs`, `DisplayPlayerProofs`, `TaskDockProofs` | theorems about the module they are named for |
| `ServerProofs` | theorems about `DatasetRefresh`, `UserSessions`, `RequestCenter` and `RefreshCollector` |
| `PermissionsProofs` | theorems about `ReportPermissions` and `GrantPages` |
| `PagesProofs` | theorems about `ViewSession`, `ReportEmbed`, `ReportNotices`, `FavoriteFolders` and `MailScheduleForm` |
| `AdminProofs` | theorems about `AdminReports`, `BoardEditor`, `TeamGroups`, `UserAdmin` and `ServiceCenter`, and about `PortalPages`; lemmas about order and recursion |
| `PortalProofs` | theorems about `PortalPages`: `StatsDashboard`, `TrendPeriods`, `RefreshMonitor` and `RefreshTimeline`; `ReportCatalog`, `ReportPicker`, `ReportTree`, `AdminReports` and `ServiceCenter`; the types of all its pages; lemmas about forests of folders |

### MailPipeline

A *round* is a pair (schedule, run key), the pair that
`UNIQUE(mail_schedule_id, run_key)` protects. The life of a task follows
`_run_mail_job` line by line:

| label | code | next |
|---|---|---|
| `idle` | `acquire_lock` (mail_job.py:521) | `check`, or dropped by `SkipLocked` |
| `check` | the duplicate query (529-545) | `create`, `release` |
| `create` | the insert of the row (354-391) | `export`, `final` (no pages), `release` |
| `export`, `start`, `poll`, `mark` | one page: insert the export row, ExportTo, poll and store, mark (98-310) | `export` |
| `send` | `send_with_retry` (mail_service.py:104-119) | `send`, `final` |
| `final` | `_finalize_mail_job` (500-509) | `release` |
| `release` | the `finally` (548-549) | `idle` |

One action is one stretch between two points where another process can look: a
commit, a Redis command, a call to Power BI or SMTP. What the data is abstracted
to:

- A cron minute is an element of `Fires`; `due[s]` is the fire that
  `_due_fire` returns while the catch-up window is open. `ClosedFires` stands
  for the start/end date, weekend and holiday gates. A later fire takes the
  place of an earlier one, inside the window too, as `get_prev` does.
- The value of a lock is a fresh UUID; the identity of the worker stands for it,
  because a worker has one task at a time and cannot take a lock that an earlier
  task of its own left behind.
- The TTL is no number: a lock may expire whenever it exists. A run with a page
  that is polled for ten minutes outlives the TTL of one minute, so that nothing
  sharper would be right.
- `Dispatch` merges the tick's query for a row and its `send_task`. In between
  only the row can appear, and a task queued for a round with a row is what
  `CheckDuplicate` expects anyway, so that a copy from an earlier tick already
  produces every behaviour.
- Recipients are one bit, `reachable`; they are resolved when the mail is
  prepared, from the schedule as it is by then, as the code does.
- An exception that reaches the `finally` is `Raise`; a dead worker is `Crash`.
  Neither writes the row. `acks_late` is not set, so that a dead worker's task is
  gone; `Redeliver` is the transport delivering a prefetched task again.

### MailLedger

The abstract specification: rounds open once, messages are accepted while the
row runs (or after its schedule was deleted), at most `MaxSend` of them, one
verdict is recorded, `succeeded` only after a message, and deleting a schedule
takes its rows along. `MailPipeline` implements it with
`existing <- {s : phase[s] # "deleted"}`, `verdict <- status`,
`messages <- inbox`, `MaxSend <- MailRetryMax`. This is where a late run of a
round whose lock expired would show: it would send beyond the limit, or settle
a row twice.

### DatasetRefresh

One dataset; `Requests` are triggers and at the same time the tokens of their
reservations. A trigger walks `new, read, ttl, list, forget, enqueue, accepted`
(or `undo, refused`), the phases being the Redis commands and calls of
`trigger_refresh`; a cancel walks the same reads, then `cancel, forget, done`; a
worker walks `check, post, store, release` of `_trigger`. Power BI starts at most
one run at a time, lists a run some time after its start (`RunAppears`) and ends
it when it likes; scheduled runs (`ForeignRunStarts`) come in between.

Assumptions about the outside: Power BI lists a run before
`REFRESH_HISTORY_GRACE_SEC` are over (`GraceEnds` waits for it), no run
outlives `REFRESH_ID_TTL_SEC` (`TrackingExpires`), and the history of ten entries
shows every active run. A redelivery needs the visibility timeout of an hour,
when the reservation of ten minutes is long gone, so that only the copies that
`EnqueueFails` makes are modelled.

Two history variables say when the code's protection was lost by something it
cannot help, so that the properties can say exactly what remains true: `broken`
holds the triggers whose lock expired, whose tracking could not be read, or whose
task is queued twice or queued and refused; `unguarded` the runs that such a
trigger started, whose identifier was lost with an answer, a worker or a Redis
error, or whose tracking key was deleted while the history did not show them.

### ReportPermissions and PermissionLedger

A request is one transaction under READ COMMITTED (no isolation level is set):

| `pc` | code | next |
|---|---|---|
| `idle` | the endpoint is called (`AskGrant` ... `AskDelete`) | `lock` |
| `lock` | `_lock_direct_report_permission_subject` and its copies in `permissions_admin.py`: `FOR UPDATE` on a user or a group (`LockSubject`), nothing for a role or a department (`SkipLock`) | `read`, `write`, or 404 |
| `read` | the queries for the reports and the rows that exist | `write`, 404, 409 |
| `write` | deletes, inserts, commit | `idle` |

A row of `report_permissions` is a triple of report, subject and code; a row id is
not modelled, because a revocation remembers the row its id names and loses it
when the row is deleted (`Forget`). `Insertable` is the UNIQUE constraint and the
foreign key to `reports`: what they refuse rolls the transaction back. Users and
groups are `Owners`, both with the same life: here they only differ in the table
that is locked. `AskBulk` stands for the panel of a report, for the screen of a
subject and for the VIEW_STATS that an author receives (`reports.py`,
`pbix_import.py`), which all lock, read and insert what is missing. Deleting a
report locks no subject and is a single step; that a mail schedule may forbid it
is a choice.

`PermissionLedger` has one action per kind of request, each of them taking
effect at once: what a request for a user or a group does equals what it would
have done alone. Roles and departments have only the weaker `GrantPartly`: some
of the rows arrive. The refinement mapping is the identity on the four tables.

### UserSessions, RequestCenter, RefreshCollector

Each has one action for each stretch between two Redis commands, flushes or
commits, and a fault that ends a call at any of them.

A login and an administrator's change meet at the user's row, which both write
before they turn to Redis; the write is flushed, so that `holder` has the row
until its commit. What that leaves open is `missed`: a login that verified the
password before a change committed and wrote the row after it, and a login that
began while a change with nothing to write (disabling twice) emptied the set
without the row. `SessionsAreCurrent` says that nothing else escapes, although
the set of a user's sessions is read, and its members deleted, in several commands.

A patch of a request reads, compares and writes without a lock; `overtaken` are
the operators and calls who had read the request before another commit. The
property is that history, closing and files hold but for these. An upload stores
the file first, a deletion removes it first, so that a call that dies may leave a
file without a row, or a row without a file, and it must be one of these calls.

The collector's Redis lock may expire under it. Two collections then overlap, and
what keeps an ended run ended is that both upsert the row of the workspace first
and so wait for each other there; a collection inserts reports it found in the
catalogue, which may have been deleted since (`revived`).

### The pages

A page module has the state of the page as its variables (React state, store,
query cache, requests under way), what the server holds for it, and one action
for each handler, effect and answer, with the effects and clean-ups that follow in
the same render. Requests are answered in any order, refused, or lost where the
browser may lose them. Others change the server at any time, by the same
endpoints. The endpoints are modelled from `src/backend`, with their checks,
where a page's property depends on them. Parts of a page that touch none of each
other's state are told apart by a variable (`part`, `focus`) that says which of
them a behaviour uses.

`PortalPages` joins the pages, with `page` saying which of them is open. It extends the
five that have variables of their own, and instantiates the twelve others over nine
variables that they share, each under names of its own: `server` is mostly what is
stored, `list` and `sight` what is shown of it, `fields`, `draft` and `window` what is
typed and the dialog it is typed in, `jobs` the requests on their way, `save` what was
asked for, `part` what of the page is followed. `MCPages` is its instance for TLC, and
the theorems about the pages are about `PortalPages` itself, so that they are about
what the runs check. A behaviour stays on its page, and what belongs to other pages
stays as it began, so that the runs add up and nothing is multiplied. Pages do share
the server, but what a page depends on is in its own module together with what others
do to it.
`MCServer` joins four parts of the server in the same way, and `MCPermissions` the
endpoints of permissions with the panels of their page.

Two of the small modules: `TrendPeriods` checks the arithmetic of days, ISO weeks
and months by comparing the first and last day the page computes from a label
with the days the server gives that label, for the days around each New Year
of 2019 to 2033 (`Near`). `RefreshTimeline` has two clocks, that of the page, read every
30 s, and the present, and places in fractions of a pixel, so that bar, line and
tooltip can be compared exactly.

### DisplayPlayer and TaskDock

The player's actions are the two intervals, the continuations of token requests,
the events of the embed and the keys; every one runs with the effects of the
render it causes (`EnterSlide`). `Tick` is the interval of a second in all its
branches. The dock's rows each poll one job; the job goes on without the browser.
A reload (`Reload`) keeps the stored rows and loses what only memory had.

What a refresh row is told comes through the cache of `live_refresh_status`
(`reports.py:1198-1249`), in three steps that others come between: `AskStatus` takes
the cached answer, or looks for it, finds none and asks Power BI; `StoreStatus` writes
what Power BI told then over whatever is cached by now; `PollRefresh` acts on the
answer, which the row may also lose (`StatusLost`). `cached` is the Redis key, `reading`
what a request has read, `fresh` who will still store it. The key goes when a refresh
is triggered or cancelled, when a worker has posted, and after 20 s (`Forget`). Other
viewers ask and store too. A run of somebody else, or of the schedule, may begin while
the row's own is queued (`StartsItself`); Power BI runs one at a time. Redis is taken
to work; an answer that Redis refuses is the one of a cache that is empty.

So a row cannot know whose run it is told about. `since[t]` is the history of the runs that
were in progress since `t` was asked for, and `VerdictMatchesRun` says what the code
does keep: a row that has seen a run in progress tells what became of one of these.
`misled` names the one way out: a reader who asked Power BI before the refresh began
stores that answer after the cache was dropped, over the newer one; a row that saw
"in progress" then reads an old "Completed" and takes it for its own. The comment at
`refresh_trigger.py:111` ("트리거 직후 route/UI가 이전 20초 캐시를 보지 않도록 즉시
무효화한다") holds of the key it deletes, not of the readers on their way to it.

### ReportNotices

The data are queried (`Query`) before the rendered event (`Render`), whose time is what
the end of a run is compared with. A run that completes between the two is older
than `renderedAt` and newer than the screen; no banner ever offers it. `missed` is the
history of these runs, and `QuietMeansFresh` holds of all others. The comment at
`ReportViewPage.tsx:658` promises the banner for a refresh that completes after the
embed has rendered, and keeps that; nothing is promised of the data drawn by then.

### GrantPages

The panel of a subject is mounted anew with every subject (`key`,
`PermissionsPage.tsx:651`). `work` is the request of the panel that is open, `left`
what earlier panels of the same subject have asked and the server may still do:
`Remount` clears the selection and leaves the request behind, `LeftDone` carries it
out and touches nothing of the panel, neither its selection nor its buttons. `gone`
are the permissions that the open panel has revoked and nobody has asked for since;
`RevokedStaysRevoked` says they stay revoked. What an earlier panel has revoked is not
in `gone`: its answer, late, clears nothing, so the selection of the new panel, filled
from the list before the answer, may store the permission again. The comment at
`PermissionsPage.tsx:715` ("회수 전 선택한 교체 초안이 삭제한 권한을 다시 부여하지
않도록 초기화한다") is kept within one panel only. The menus have the same life
(`Reopen`, and `here` in a request).

### BoardEditor

A change of slides is read, decided and committed: `Check` reads the slides that the
request is checked against, `ReadRanks` those its ranks come from (the last rank, or
the others after a deletion), `SlidesStored` commits. A reorder has one read for both.
Nothing is locked but the rows a transaction has written (`Locked`: a slide that is
deleted and not yet committed), a flush writes only the columns that differ from what was
read (`Moved`), and the table has no UNIQUE beyond its key (`models/display.py:56-62`).
Overlapping requests therefore store an item twice, a rank twice, or leave a gap.
Each board keeps a history, `mixed`: "items" when an addition was committed over
slides that others had changed since it checked them, "ranks" when ranks were
written from slides that others had changed since they were read; a reorder or a
deletion that nobody came between numbers all slides and takes "ranks" away.
`BoardsAsEdited` claims no item twice and no gap exactly while a board is not mixed.
Two docstrings say it without that: `display_boards.py:427-428` ("완전히 동일한
레포트+페이지 조합은 중복 재생이 되므로 막는다") and `579` ("0..n-1로 다시 압축한다").
The requests of the page are asked one of a kind at a time, as its buttons are, and
others ask one at a time beside them (`AskElsewhere`).

## 3. What is checked

| run | asks | expects |
|---|---|---|
| `mail_safety` | types, lease, one run per round, true and final verdicts, bounded messages, retries only of failures, refinement of `MailLedger` | pass, 2.2 million states |
| `mail_live` | tasks end, orphan locks go, due rounds start | pass, 160 thousand states |
| `mail_alone` | the documented claim that a schedule never runs twice at a time | violated |
| `server_safety` | refreshes: types, one trigger in charge, no hidden run, no POST over a run; `SessionsAreCurrent` of `UserSessions`; `WritersAgree` of `RequestCenter` and `RefreshCollector` | pass, 1.4 million states |
| `refresh_late` | the documented claim that a late worker sends nothing | violated |
| `permissions_safety` | types, no orphans, grants with their VIEW, refinement of `PermissionLedger`; `GrantsAsAsked` of `GrantPages` | pass, 3.4 million states |
| `permissions_category` | the documented claim that no grant leaves a code without VIEW, for roles and departments | violated |
| `display_play` | the embed is that of the slide, nobody waits on a dead request, every healthy slide is played again and again | pass |
| `dock` | a verdict is that of a run since the refresh was asked for, whatever is cached; a file comes once, rows leave | pass, 270 thousand states |
| `dock_collect` | the commented claim that a collection is settled by its timeout | violated |
| `pages` | the properties of the pages below | pass, 2.7 million states |
| `report_export` | the commented claim that the page on the screen is exported | violated |

The invariants of `pages`, with the modules they speak of:

| invariant | modules |
|---|---|
| `VisitIsStored` | `ViewSession` |
| `NoHiddenPageExported` | `ReportEmbed` |
| `QuietMeansFresh` | `ReportNotices` |
| `ShownIsStored` | `FavoriteFolders` |
| `FoundIsShown` | `ReportCatalog`, `ReportPicker`, `ReportTree`, `AdminReports`, `ServiceCenter` |
| `ScheduleFitsReport` | `MailScheduleForm` |
| `FiltersAreShown` | `StatsDashboard`, `TrendPeriods`, `RefreshMonitor`, `RefreshTimeline` |
| `StoredAsAsked` | `AdminReports`, `BoardEditor`, `TeamGroups`, `UserAdmin`, `ServiceCenter` |

Properties are stated, with what they say about the code, at the end of each
module; each has a mutant in `PROJECT.json`, a plausible bug under which it fails,
and where an invariant joins several modules nearly every one of them has its own.
Where the code does not protect itself a property has an exception, which is a
variable of its own (`unaware`, `moved`, `missed`, `overtaken`, `revived`,
`theirs`, `broken`, `unguarded`, `misled`, `mixed`): what it names is exactly what
remains open. Such a case is recorded, not excluded: a run that starts without
protection (`unguarded`) or a reservation that was lost (`broken`) is in the model,
may happen at any time, and the property then says nothing about it.

**Bounds.** `mail_safety`: one schedule (schedules share nothing but workers),
two workers (a lease is a matter between two), two pages (one can fail and the
other succeed), one fire and one retry key (two rounds), four kinds of schedule
(complete, without pages, without recipients, disabled), two copies of a task, two
SMTP attempts, one fault, no edit of a schedule (`MaxEdits = 0`; edits under a run are in
`mail_live`, and of the safety properties only the theorems cover them). `mail_live`: one worker, two fires, one edit, one
fault, two of each only where the property needs it; more workers only help the
progress it states. `server_safety`: two triggers, one cancel, two workers, two
runs, one fault; it passed with three runs too (4.2 million states); two logins against two
administrators, two operators and two calls on a request, two collections of one
report with one run.
`permissions_safety`: two requests (a row lock is a matter between two), a group,
a department, a report, a menu key and three codes, one of each kind: VIEW, one
that implies it and VIEW_STATS; on the page two menus with two requests at a time, two
reports with the request of the open panel and one that an earlier panel has left
(`MaxTasks = 2`, `MaxLeft = 1`; of two such requests each meets the panel by itself). `display_play`: two reports, boards that
gain and lose a slide, one forced request. `dock`: four scopes: a refresh alone in a tab
that is reloaded once; a refresh beside a run of somebody else, where the tab is not
reloaded, the page itself cancels nothing (the dock does), that other run comes from a schedule,
and who asks finds the cached answer if there is one; both may still have found none and
store what they were told in either order. What the second scope leaves out is in the
first, but for the other run. Then a
collection; an export beside an import. `pages`: two or three of
everything a page lists (an order needs two, a neighbour that is jumped over
three), a folder in a folder, pages of one row, two requests at a time where requests
meet (one in `AdminReports` and `BoardEditor`, against the others' changes), two slides
and two items on a board, three runs of a dataset, and an order of
popularity (`Rank`) that does not change; that reports are published and withdrawn
between two pages does, and is what `moved` names.
Counters that grow without limit in the code are capped by `MaxCopies`,
`MaxEdits`, `MaxFaults`, `MaxReloads`, `MaxRuns`, `MaxTasks`, `MaxWork`, `MaxJobs`,
`MaxTime`, `MaxPosts`, `MaxId` and their kin, each in a guard; `Elder` names the
folders of favourites that are renamed or deleted elsewhere (folders differ only by age).

**Deadlock** is off everywhere: the bounds end every behaviour, and a system
with nothing due and nobody asking rests.

**Fairness** is only where the code schedules. `MailPipeline!FairSpec` is weak: a
worker inside a task goes on (every call has a timeout: HTTP, polling, SMTP), an idle
worker takes a task whose lock is free, Redis expires a key that has a TTL, Beat
ticks. Operators, the clock, Power BI's verdicts and faults are not fair. That
Beat's tick is handled although all workers are busy is an assumption: the code
gives it no queue of its own, and within a catch-up window of busy workers a fire
is lost. `DisplayPlayer!LiveSpec` is weakly fair to the one-second interval, which
fires as long as the page is open, and to nothing else: tokens, embeds and the
server may be silent for ever. `TaskDock!DockFairness`: rows ask and poll, timers fire,
requests are answered or time out, running jobs end, what was read is stored, the
cached answer expires, time passes. A poll is
strongly fair, because answers and reloads disable it again and again while its
interval goes on. Nothing makes a worker take a queued refresh up.

**Findings.** Five statements of the repository that the code does not keep:
the mail lock is held for 60 s and not renewed, so two runs of one schedule
overlap (`mail_alone`; UNIQUE still keeps a *round* from running twice, which is
`OneRunPerRound`); a worker checks its reservation once,
before the token request, so a late worker does send its POST (`refresh_late`);
a grant to a role or a department can end with DOWNLOAD and no VIEW when VIEW is
revoked while it runs (`permissions_category`; users and groups are safe, which
is `GrantKeepsView`); a collection whose task id never reaches its row stays
pending in the dock, because the timeout waits for a poll (`dock_collect`); after
a navigation inside the report the export of the current page exports the
header's page (`report_export`).

**Seen while modelling**, without a run of their own:

- mail: an image that cannot be read back is left out of a mail whose job succeeds
  (`mail_job.py:484`); the retry endpoint answers 202 although a lock that is held
  drops the task (`mail_jobs.py:99`).
- accounts: a new password is said to reset the lock of failed logins
  (`users.py:261`), but the counter is not cleared; INCR and EXPIRE of the
  counter are two commands (`local_user_auth.py`), so that a crash between them
  leaves a lock without end; sessions of `users` and `local_admins` with the same
  id share a set (`session_service.py:28`).
- groups: a team that has become empty keeps the last members of its group
  (`team_group_sync.py:119`).
- direct export: the token request is outside the `try` of `export_poll.py`, and
  its failure leaves the row RUNNING.
- collector: it can create again a report that is deleted between its query and
  its upsert, against its docstring (`CatalogIsCurated` excepts `revived`).
- alerts: the notice of a recovery is lost when the key of the alert has expired
  or the mail fails (`ops_alert_service.py`).
- statistics: "load more" ends by asking for 1200 rows of a server that gives 1000; a
  comment (`StatsDashboardPage.tsx:979`) gives a report filter priority over the company,
  the server (`stats.py:75-82`) answers with nothing when the report is of another one.
- dock: a reader of the status that was slow puts an old answer back after
  `refresh_trigger.py:111` has dropped it, and a row takes it for its own verdict; a
  row whose run is still queued takes over the result of a run of somebody else.
- report page: a run that completes between the query of the report and its rendered
  event is never offered.
- permissions: a revocation answered after its panel was left clears no selection
  (`PermissionsPage.tsx:715`).
- boards: two operators can add the same page twice, give a rank twice or leave a gap
  (`display_boards.py:428`, `579`).
- reports: author or e-mail sent as null are not cleared (`reports.py:755`).
- requests: the dialog is not keyed by its request, so that a status chosen for one
  is still chosen after the earlier request it refers to is opened
  (`RequestDetailModal.tsx:70`).
- monitoring: the latest date overwrites a day that was chosen before its answer
  (`RefreshStatusPage.tsx:92-113`); while a new selection loads, the export writes
  the rows of the last one (193-199); the comment at
  `ganttGeometry.test.ts:4` says rows keep the order of appearance, the test at 41 and
  the code order them by earliest start; reports of the
  same name share a row; a tooltip stays when its bar disappears.

## 4. What is proved

Every theorem below holds for any sets and any bounds: schedules, workers, runs,
slides, folders, tabs that stay open for any time. The assumptions on the constants
are few and of one kind, that a value which stands for "none" is not among the
values it is told from, that sets of different actors do not meet, and that bounds
are numbers; where TLC can evaluate them they are `ASSUME`s of the module
(`ConstantsOK`, `DockAssumption`, `PlayerAssumption`, and those of `ViewSession`),
elsewhere they are the hypotheses of the theorems
(`SessionConstants`, `RequestConstants`, `CollectConstants`, `EmbedConstants`,
`FavoriteConstants`, `MenuConstants`, `StoredConstants`, `FilterConstants`,
`FoundConstants`, `TypedConstants`, `MaxRuns \in Nat`). Beyond that the code justifies these: a report has a first page
which is not hidden; the ids of boards and slides are numbers, and board 1 is the
least (`BoardConstants`); of the names that a team may have for its
group one is its own, which the database's key makes sure of (`GroupConstants`); the
numbers of the requests tell runs apart (`MonitorConstants`); an empty string and
"none" are ids of no department and no user (`StatsConstants`); a day has at most 335
hours, the number the timeline's loop is bounded by (`TimelineConstants`); and the
days that the trends look at are from 2018 on (`PeriodConstants`).

No property is inductive by itself; each proof is an inductive invariant, one lemma
for each action, and the property from the invariant.

**The mail pipeline** (`MailPipelineProofs`).

- `Invariance`: `IInv`. `OneRunPerRound` needs that a worker past the insert
  owns its row: the row of its round exists unless the schedule was deleted
  (`RunOwnsRow`), that a row exists only for a schedule that does
  (`RowsHaveSchedule`), so that a second insert for a live round is refused and
  none for a deleted one begins. `BoundedResend` needs that the attempts of the one
  run count the messages (`SendsCounted`), `LeaseExclusion` that a worker inside a
  task which is not stale holds the lock (`LeaseHeld`). From it `TypeCorrect`,
  `LeasesExclude`, `RunsAreUnique`, `ResendsAreBounded`, `RetriesAreOfFailures`.
- `RowsTrackRuns`: `ExportInv`, relative to `IInv`, by which the export rows of a job
  say page for page what its run remembers (`RowsFollowRun`): nothing of a page it
  has not tried, "unfinished" only of the page in hand, "failed" only of the bad
  ones. From it `SuccessesAreComplete` and `VerdictsSettleExports`.
- `PipelineImplementsLedger`: `Spec => MailLedger`'s `Spec` under the mapping above,
  one case per action; and from it `VerdictsAreFinal`, an action property that is
  proved of the ledger.

**Manual refreshes** (`ServerProofs`). The token of a reservation that still
protects the dataset is in one place (`TokenInOnePlace`: the trigger, the queue or
one worker) and holds the lock there (`LockHeld`); what its trigger has read of Redis
and of Power BI stays true for as long (`TrackingRead`, `NothingRuns`). From it
`TypeCorrect`, `ReservationsExclude`, `RunsAreFindable` and `NoPostOverRun`.

**Permissions** (`PermissionsProofs`). That a grant brings its VIEW needs that
what a grant read still stands when it commits (`Reads`), which holds because nobody
else writes rows of a subject that is locked (`Holding`, `LocksAreHeld`), and
because a revocation only ever deletes a row of the subject it has locked
(`Targets`). `WriteIsWritten` reduces the five kinds of commit to "these rows of
its subject went, those came", from which each conjunct follows. From it
`TypeCorrect`, `NothingIsOrphaned`, `GrantsKeepView`; and
`PermissionsImplementLedger`, where a grant of which one report was deleted
meanwhile, with nothing left to insert there, maps to a grant over the reports that
still exist (`Standing`).

**The server's parts** (`ServerProofs`). Sessions: what a login has read of the row stays true while
it holds the row lock (`LoginsKnow`), and a request that writes the row holds it from
SMEMBERS to its commit, so that no session is added to those it has still to end
(`EndsAll`). From it `SessionsStayCurrent`. Requests: `RequestsStayWhole`, because whoever
has read a request and is not in `overtaken` knows the status it has
(`ReadersKnow`), and a file is there unless a deletion has removed it (`FilesKept`).
Collections: `CollectionsStayTrue`, because the row of the workspace makes collections wait for each
other (`RowExcludes`), so that what one has read of a run under it is no older than
what is stored (`ReadsAreCurrent`), and the reports it is about to register are an
operator's or were deleted meanwhile (`FoundIsAccounted`). `PartsAgree` joins
the last two in `WritersAgree`.

**The board player** (`DisplayPlayerProofs`). A registered request is for the report it
is registered for, and the slot of a plain request holds none but its own (`Wired`),
whatever renewals replace it: `JoinedRequestsAreLive`. Every switch that is awaited
is for the report of the current slide, and when none is awaited the embed shows it
(`Settled`): `EmbedsFollowSlides`. Where a board is changed under the player this
rests on the index being put back onto the board before anything else looks at it.

**The dock** (`TaskDockProofs`). A file that was downloaded is known to the row that would
do it again (`DownloadKnown`): `DownloadsHappenOnce`. For the verdicts, answers are followed
from Power BI over the cache to the row (`StatusKnown`): for a refresh that is not
`misled`, once its row was told "in progress" whatever is cached is about a run
since it was asked for, and once it has seen that, so is what it has read. The
second half is what the cache is for, and what a slow reader breaks. That the last run
Power BI tells of is one of these needs that all runs since are counted and end
in turn (`RunsKnown`): `VerdictsMatchRuns`.

**The report page and the favourites** (`PagesProofs`). `VisitsAreStored` follows the
sum of the visible time from the clock of the page over the requests on their way to
the row (`NothingInvented`, `NothingForgotten`). `ExportsHideHiddenPages`: the page
that the header calls the current one is never a hidden one, however late the list of
pages comes. `SilenceMeansFresh`: every run that has completed is drawn, was missed
between query and rendered event, or ended later than the time it is said to be
rendered at (`Settled`). `FavoritesAreCurrent`: an answer that is on its way
equals what is stored, and so does what is shown when none is, unless the query is
`unaware` or a reorder is under way that is shown in advance (`BrowserKnows`); that a
new folder is appended to the same list at both ends needs that its number was never
given before, and the lemmas about lists of folders (`WithoutKeeps`, `ReorderKeeps`).

**Forms** (`PermissionsProofs`, `PagesProofs`). What a page stores was prepared from a list that may be old.
Menus: a request's list differs from the one it was made from only in the menus the
request is about (`TaskMade`), so that what was answered of the other menus is carried
over or given up (`ClaimsHold`). Reports: nothing that the open panel has revoked is
selected (`NotSelected`) or asked for by its request under way (`NotRequested`), because
its answer clears the selection; what earlier panels have left to be done ends the
claim for what it gives (`LeftDone`), and for nothing else. `GrantsHold` joins the two in `GrantsAsAsked`. Mail
schedules: the form is sound at any time (`SoundForm`: pages of its report, each once,
numbered as they stand, nobody twice), which the lemmas about lists that are edited in
place carry (`RemoveAtDrops`, `ExchangedSwaps`, `ReindexNumbers`, `PagesKeep`); so is
what is listed, saved and stored, because pages that are numbered as they stand are
in their order (`NumberedIsOrdered`): `SchedulesFit`.

**The administration** (`AdminProofs`). `AdministrationHolds` is `StoredAsAsked`, from
one invariant for each page (`StoredIInv`).

- Users: what is asked for is what was typed or drafted, for the user it was typed for
  (`SaveKept`, `DialogKept`), and a draft that is shown is one of the user shown
  (`ShownKept`).
- Requests: the files a submission has left with its request are those it has
  counted, and no two submissions have the same one (`FilesCounted`); nobody asks
  anything of a request that is not there (`RequestsKnown`).
- Groups: what a plan does is a fold over the teams, which `AllNumbers` and
  `Recursion` let one reason about by steps: after each the groups are those of the
  teams before it. The name a group gets is free by then.
- Boards: a board that is not mixed is numbered from zero on without gaps and shows
  each item once (`Shaped`), and what a request has read allowed it, whatever has
  happened since (`Backed`). A commit over the slides that were read makes a board of
  that shape (`Rewritten`, with `TidyTo` and what it means to sort a finite set,
  `InOrderSorts`); over any others it keeps ids apart and is marked.
- Reports: while an order is under way and met no other change, the ranks that are
  stored and those that are still to be sent make up the order, and a sequence that
  is sorted by them is the only one (`SortedOnce`).

**Statistics and monitoring** (`PortalProofs`). `FiltersHold` is `FiltersAreShown`, from
`FilterIInv`.

- Statistics: the answer that is kept was asked by the tab that is open, of some filters
  (`KeptFits`), and two questions of one tab with the same key are the same question
  (`KeysApart`), which is what a key has to be.
- The calendar of the trends: each day is in one year (`YearExists`, `YearIs`) and one month
  (`MonthHolds`, `MonthIs`), so that a label is of the days between its bounds and of no
  other (`DaysFit`, `WeeksFit`, `MonthsFit`). TLC checks fifteen turns of a year, the
  theorem is about every day.
- The monitoring: what is kept of a selection answers it (`AnswersKept`), and what the table has
  reported is what it shows, or was when it was last drawn (`RowsFit`). Runs that began
  at one time are in the order of their requests, which TLC's instance does not have.
- The timeline: the clock never runs ahead of the present (`ClockTyped`), the place of a moment
  grows with it (`PlacesGrow`), a bar is cut at the midnights but not turned (`Widens`),
  and the loop over the hours draws every whole hour of the day (`HoursAreTicked`).

**Finding a report** (`PortalProofs`). `FoundHolds` is `FoundIsShown`, from `FoundIInv`. Of
the folders it assumes that they are a forest (`Treed`: the one a folder lies in is less
deep), for the catalogue also that a report lies in a folder and that no two reports are
released at the same time, for then the ids, which the model leaves out, decide.

- Recursion: what is defined from values that are less deep exists (`DepthRecursion`), and
  `AllFolders`, `DepthInduction` and `WayDown` go up and down the folders. `InLine` says
  what it is to be above a folder: an order, in which those above one are in line, up to
  a root.
- The tree of the administration is closed under parents, at the server and in the list, and
  nothing lies in a folder that is not there (`Closed`, `Placed`); a folder is searched
  with all above it (`MatchesAbove`).
- The trees of the permissions draw the folders above what matches (`MatchBelow`).
- The picker walks up from what it found and stops where it was before; one walk keeps
  what was passed connected (`ClimbUp`), hence all of them, in whatever order
  (`FoldClimbs`).
- The catalogue: what is shown are pages of the list of their key, each begins where the one
  before it ends, and only the first may be empty (`InPages`), unless the reports have
  changed since. Such pages are a beginning of the list (`Pieces`, `PagesFollow`); the
  next page (`NextPage`) and a fetch of all of them (`LoadedPages`) keep it so.
- The requests: the page that is shown begins before the rows end (`PagesOfRows`, `PageThere`).

**The types of the pages** (`PortalProofs`). `PagesTypeCorrect`. The open page stays open and
takes its own steps only (`OnePage`), so that a part with variables of its own has the
types that are proved of it alone (`PartsTyped`). Of the favourites that is
`FavoriteTypeCorrect`: no folder is stored twice, and each report is in a folder that is
stored, whatever is created, ordered and deleted in between (`Whole`, `OnceCounted`). The pages that share variables need more than their invariants say
(`SlotsTyped`): no list of records is asked for beyond one more part than the server
gives (`LifeTyped`), since one can ask for more only when what was asked for is there,
and the server refuses that one; no page of the requests is chosen behind the number of
the requests (`PageBounded`), since each that one can go on to has a row; a group made by hand has an id of such a group, and who is
added to it is a member that was picked (`GroupKept`); and what is stored of a user is a
role or an account by the part of the page that is followed, which an answer fits
because the request was made there (`UserKept`). It assumes besides that requests and groups
are numbered from 1 and that an account has an e-mail.

**Only model-checked.** Liveness (`mail_live`, `EverySlideIsPlayed`, `TaskLeaves`):
the prover has no ENABLED and no fairness. Induction is not given by the library in a form the provers
can use; `LeastNumber`, `AllNumbers` and `Recursion` state it for sets and functions,
and where a model sorts or folds what a theorem is about it uses `Sorting`, or a
recursive function, in place of the operators of the library, which cannot be expanded.

## 5. Not modelled, and why

Markup, charts and mail layout, image cropping, the arithmetic of cron
expressions, the text of audit records and answers, the mock client and the mock mode
of refreshes; the live status cache is modelled where it is read, in `TaskDock`, with
a Redis that answers. A run key is an atom,
whose column a chain of retries outgrows. SQL that only reads (statistics,
permission checks, directories) would be restated rather than modelled.

- Retention deletes what nobody reads any more, files before rows.
- The token cache is one key whose value every process can fetch for itself.
- The alerts suppress repeated mails by one key for each component; nothing in the
  portal reads what they send.
- The task of a direct export runs once, for one row, without a lock; the polling
  it shares with mail jobs is in `MailPipeline`, and its row in the dock in `TaskDock`.
- An import of a PBIX file meets other processes in the table of reports only
  (`RefreshCollector!RegisterReport`).
- The login page, the audit log and the page of the operations status show what one
  query answers.
- `src/PBI_SERVER_MONITORING` is the application the portal's monitoring was taken
  from, with a database and a Redis of its own.

The components listed in `PROJECT.json` as `not_modelled` carry their reason.
