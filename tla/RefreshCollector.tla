-------------------------- MODULE RefreshCollector --------------------------
(***************************************************************************)
(* The collection of the refreshes of a workspace by Celery tasks, one     *)
(* every few minutes and one for each push of a button: a Redis lock that  *)
(* may expire under its holder, and one transaction for the workspace, the *)
(* reports the catalogue has and the runs of every dataset.                *)
(*                                                                         *)
(* Datasets and schedules are upserted as the runs are; names are left out *)
(* as everything an upsert sets but the status of a run.                   *)
(***************************************************************************)
EXTENDS Naturals, RedisLock

CONSTANTS
  Tasks,     \* workers that collect
  Upstream,  \* those of the workspace at Power BI
  Refreshes  \* refreshes, each of a dataset of its own

VARIABLES
  lock,      \* the table of locks, with the one of the workspace
  writer,    \* the task whose transaction has written the row of the workspace
  powerbi,   \* how far Power BI says each run is
  recorded,  \* how far refresh_runs says
  catalog,   \* the reports with a row
  task,      \* [Tasks -> how far, the reports it found, the runs it has written]
  theirs,    \* history: the reports operators have registered and not deleted
  revived,   \* history: reports deleted between a task's query and its upsert
  ended      \* history: runs that were stored as ended

collectVars == <<lock, writer, powerbi, recorded, catalog, task, theirs, revived, ended>>

\* Absent, in progress, ended: map_status and the null end time.
Progress == 0..2
Unread == 3

Workspace == "workspace"
Resting == [at |-> "idle", found |-> {}, read |-> [x \in Refreshes |-> Unread]]

CollectTypeOK ==
  /\ lock \in [{Workspace} -> Tasks \cup {Free}] /\ writer \in Tasks \cup {Free}
  /\ powerbi \in [Refreshes -> Progress] /\ recorded \in [Refreshes -> Progress]
  /\ catalog \subseteq Upstream /\ theirs \subseteq Upstream /\ revived \subseteq Upstream
  /\ ended \subseteq Refreshes
  /\ task \in [Tasks -> [at : {"idle", "begin", "query", "upsert", "runs", "release"},
                         found : SUBSET Upstream, read : [Refreshes -> Progress \cup {Unread}]]]

CollectInit ==
  /\ lock = [k \in {Workspace} |-> Free] /\ writer = Free
  /\ powerbi = [x \in Refreshes |-> 0] /\ recorded = [x \in Refreshes |-> 0]
  /\ catalog \in SUBSET Upstream /\ theirs = catalog /\ revived = {} /\ ended = {}
  /\ task = [t \in Tasks |-> Resting]

TaskGoes(t, from, to) == task[t].at = from /\ task' = [task EXCEPT ![t].at = to]
RowFreed(t) == IF writer = t THEN Free ELSE writer

-----------------------------------------------------------------------------
(* _run_collect and collect_workspace.  A task that finds the lock taken    *)
(* ends and leaves nothing.                                                *)

AcquireCollectLock(t) ==
  /\ Acquirable(lock, Workspace) /\ TaskGoes(t, "idle", "begin")
  /\ lock' = Acquired(lock, Workspace, t)
  /\ UNCHANGED <<writer, powerbi, recorded, catalog, theirs, revived, ended>>

\* Mutant: a workspace that exists is left as it is.
WorkspaceExists(t) ==
  /\ TaskGoes(t, "begin", "query")
  /\ UNCHANGED <<lock, writer, powerbi, recorded, catalog, theirs, revived, ended>>

\* The upsert of the workspace waits for a transaction that has written its row,
\* and makes those that follow wait for this one.
UpsertWorkspace(t) ==
  /\ writer = Free /\ TaskGoes(t, "begin", "query") /\ writer' = t
  /\ UNCHANGED <<lock, powerbi, recorded, catalog, theirs, revived, ended>>

\* upsert_reports asks which of Power BI's reports the catalogue has, and then
\* upserts those; one that was deleted in between is inserted.
FindReports(t) ==
  /\ task[t].at = "query"
  /\ task' = [task EXCEPT ![t].at = "upsert", ![t].found = catalog]
  /\ UNCHANGED <<lock, writer, powerbi, recorded, catalog, theirs, revived, ended>>
UpsertReports(t) ==
  /\ TaskGoes(t, "upsert", "runs") /\ revived' = revived \cup (task[t].found \ catalog)
  /\ UNCHANGED <<lock, writer, powerbi, recorded, catalog, theirs, ended>>

\* The runs of a dataset are asked for and written.
UpsertRun(t, x) ==
  /\ task[t].at = "runs" /\ task[t].read[x] = Unread
  /\ task' = [task EXCEPT ![t].read[x] = powerbi[x]]
  /\ UNCHANGED <<lock, writer, powerbi, recorded, catalog, theirs, revived, ended>>

\* A run of the history keeps its row when Power BI no longer lists it.
CommitCollect(t) ==
  /\ task[t].at = "runs" /\ \A x \in Refreshes : task[t].read[x] # Unread
  /\ task' = [task EXCEPT ![t] = [Resting EXCEPT !.at = "release"]]
  /\ writer' = RowFreed(t)
  /\ recorded' = [x \in Refreshes |-> IF task[t].read[x] = 0 THEN recorded[x] ELSE task[t].read[x]]
  /\ ended' = ended \cup {x \in Refreshes : recorded'[x] = 2}
  /\ catalog' = catalog \cup task[t].found
  /\ UNCHANGED <<lock, powerbi, theirs, revived>>

\* An exception, of Power BI mostly, rolls back.
CollectFails(t) ==
  /\ task[t].at \in {"begin", "query", "upsert", "runs"}
  /\ task' = [task EXCEPT ![t] = [Resting EXCEPT !.at = "release"]] /\ writer' = RowFreed(t)
  /\ UNCHANGED <<lock, powerbi, recorded, catalog, theirs, revived, ended>>

ReleaseCollectLock(t) ==
  /\ TaskGoes(t, "release", "idle") /\ lock' = Released(lock, Workspace, t)
  /\ UNCHANGED <<writer, powerbi, recorded, catalog, theirs, revived, ended>>

\* A worker that dies leaves the lock to its TTL, which ends a slow one's as well.
CollectorDies(t) ==
  /\ task[t].at # "idle" /\ task' = [task EXCEPT ![t] = Resting] /\ writer' = RowFreed(t)
  /\ UNCHANGED <<lock, powerbi, recorded, catalog, theirs, revived, ended>>
CollectLockExpires ==
  /\ ~Acquirable(lock, Workspace) /\ lock' = Expired(lock, Workspace)
  /\ UNCHANGED <<writer, powerbi, recorded, catalog, task, theirs, revived, ended>>

-----------------------------------------------------------------------------
(* Around it.                                                              *)

RunGoesOn(x) ==
  /\ powerbi[x] < 2 /\ powerbi' = [powerbi EXCEPT ![x] = @ + 1]
  /\ UNCHANGED <<lock, writer, recorded, catalog, task, theirs, revived, ended>>

\* Rows that were upserted are locked until the commit.
Written(r) == \E t \in Tasks : task[t].at = "runs" /\ r \in task[t].found

\* import_pbix and its kin; delete_report.
RegisterReport(r) ==
  /\ r \notin catalog /\ ~Written(r)
  /\ catalog' = catalog \cup {r} /\ theirs' = theirs \cup {r} /\ revived' = revived \ {r}
  /\ UNCHANGED <<lock, writer, powerbi, recorded, task, ended>>
DeleteReport(r) ==
  /\ r \in catalog /\ ~Written(r)
  /\ catalog' = catalog \ {r} /\ theirs' = theirs \ {r} /\ revived' = revived \ {r}
  /\ UNCHANGED <<lock, writer, powerbi, recorded, task, ended>>

CollectNext ==
  \/ \E t \in Tasks :
       \/ AcquireCollectLock(t) \/ UpsertWorkspace(t) \/ FindReports(t) \/ UpsertReports(t)
       \/ CommitCollect(t) \/ CollectFails(t) \/ ReleaseCollectLock(t) \/ CollectorDies(t)
       \/ \E x \in Refreshes : UpsertRun(t, x)
  \/ \E x \in Refreshes : RunGoesOn(x)
  \/ \E r \in Upstream : RegisterReport(r) \/ DeleteReport(r)
  \/ CollectLockExpires

CollectSpec == CollectInit /\ [][CollectNext]_collectVars

\* A run that was stored as ended stays so, although the lock expires under a
\* collection that has read an earlier state: collections wait for each other at the
\* row of the workspace.  And a collection brings nothing into the catalogue that
\* no operator registered, but a report that was deleted while it looked.
RunsMoveOn == \A x \in ended : recorded[x] = 2
CatalogIsCurated == catalog \subseteq theirs \cup revived
CollectionsHold == RunsMoveOn /\ CatalogIsCurated
=============================================================================
