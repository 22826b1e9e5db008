---------------------------- MODULE DatasetRefresh ----------------------------
(***************************************************************************)
(* Manual refreshes of one Power BI dataset: the trigger and cancel        *)
(* endpoints (api/routes/datasets.py), the worker task that sends the POST *)
(* (workers/tasks/refresh_trigger.py), and Power BI as these two use it.   *)
(*                                                                         *)
(* A trigger reserves the dataset with a Redis lock, hands the token to    *)
(* the worker through the queue, and the worker releases the lock after    *)
(* the POST.  Between the POST and the moment Power BI lists the run, only *)
(* the request id stored in Redis shows that a run is on.  One action is   *)
(* one Redis command, one queue operation or one call to Power BI.         *)
(***************************************************************************)
EXTENDS Naturals, FiniteSets, RedisLock

CONSTANTS
    Dataset,        \* the dataset
    Requests,       \* trigger requests; each one's lock token is itself
    Cancels,        \* cancel requests
    Workers,        \* worker processes
    Runs,           \* request ids of Power BI refresh runs
    None,           \* the value of a field that holds nothing
    MaxFaults       \* bound: crashes, failing Redis commands, lost answers

ASSUME ConstantsOK ==
    /\ Free \notin Requests
    /\ None \notin Runs \cup Requests
    /\ Requests \cap Cancels = {}
    /\ MaxFaults \in Nat

VARIABLES
    \* Redis
    locks,      \* locks[Dataset]: value of bip:lock:refresh:{dataset}
    tracked,    \* value of bip:refreshid:{dataset}
    recent,     \* its age is below REFRESH_HISTORY_GRACE_SEC
    queue,      \* queue[r]: copies of the task that carries token r
    \* Power BI
    state,      \* state[i]: "unused", "active" or "ended"
    listed,     \* runs that the refresh history shows
    portal,     \* runs that the portal started: the enhanced ones
    \* the API
    api,        \* api[r]: where trigger r is
    cancel,     \* cancel[c]: where cancel c is
    seen,       \* seen[x]: what a trigger or a cancel read of the tracking
    target,     \* target[c]: the run that cancel c stops
    \* workers
    pc,         \* pc[w]: where worker w is in its task
    job,        \* job[w]: the trigger whose task it runs
    started,    \* started[w]: the request id that Power BI answered
    \* history, for the properties
    broken,     \* triggers whose reservation stopped protecting them
    unguarded,  \* runs that were started, or lost, without protection
    faults

redisVars == <<locks, tracked, recent, queue>>
powerbiVars == <<state, listed, portal>>
apiVars == <<api, cancel, seen, target>>
workerVars == <<pc, job, started>>
historyVars == <<broken, unguarded, faults>>
vars == <<redisVars, powerbiVars, apiVars, workerVars, historyVars>>

-----------------------------------------------------------------------------
Reading == {"new", "read", "ttl", "list", "forget"}
Api == Reading \cup {"enqueue", "undo", "accepted", "refused"}
Cancel == Reading \cup {"cancel", "done"}
PC == {"idle", "check", "post", "store", "release"}
Tracking == [id : Runs \cup {None}, recent : BOOLEAN]
Untracked == [id |-> None, recent |-> FALSE]

TypeOK ==
    /\ locks \in [{Dataset} -> Requests \cup {Free}]
    /\ tracked \in Runs \cup {None}
    /\ recent \in BOOLEAN
    /\ queue \in [Requests -> 0 .. 2]
    /\ state \in [Runs -> {"unused", "active", "ended"}]
    /\ listed \in SUBSET Runs
    /\ portal \in SUBSET Runs
    /\ api \in [Requests -> Api]
    /\ cancel \in [Cancels -> Cancel]
    /\ seen \in [Requests \cup Cancels -> Tracking]
    /\ target \in [Cancels -> Runs \cup {None}]
    /\ pc \in [Workers -> PC]
    /\ job \in [Workers -> Requests \cup {None}]
    /\ started \in [Workers -> Runs \cup {None}]
    /\ broken \in SUBSET Requests
    /\ unguarded \in SUBSET Runs
    /\ faults \in 0 .. MaxFaults

Init ==
    /\ locks = [d \in {Dataset} |-> Free]
    /\ tracked = None
    /\ recent = FALSE
    /\ queue = [r \in Requests |-> 0]
    /\ state = [i \in Runs |-> "unused"]
    /\ listed = {}
    /\ portal = {}
    /\ api = [r \in Requests |-> "new"]
    /\ cancel = [c \in Cancels |-> "new"]
    /\ seen = [x \in Requests \cup Cancels |-> Untracked]
    /\ target = [c \in Cancels |-> None]
    /\ pc = [w \in Workers |-> "idle"]
    /\ job = [w \in Workers |-> None]
    /\ started = [w \in Workers |-> None]
    /\ broken = {}
    /\ unguarded = {}
    /\ faults = 0

Active == {i \in Runs : state[i] = "active"}

\* A Redis command or an HTTP call fails, or its answer is lost.
Fault == faults < MaxFaults /\ faults' = faults + 1

\* The runs whose only trace is the tracking key: losing it hides them.
OnlyTracked == {i \in Active : i = tracked /\ i \notin listed}

\* DEL bip:refreshid:{dataset}, whatever it holds by now.
ForgetTracking == tracked' = None /\ recent' = FALSE

-----------------------------------------------------------------------------
(***************************************************************************)
(* POST /api/datasets/{dataset}/refresh                                    *)
(***************************************************************************)
At(r, l) == api[r] = l
Continue(r, l) == api' = [api EXCEPT ![r] = l]

\* The dataset is reserved, or the request is refused with 409.
Reserve(r) ==
    /\ At(r, "new")
    /\ \/ /\ Acquirable(locks, Dataset)
          /\ locks' = Acquired(locks, Dataset, r)
          /\ Continue(r, "read")
       \/ /\ ~Acquirable(locks, Dataset)
          /\ Continue(r, "refused")
          /\ UNCHANGED locks
    /\ UNCHANGED <<tracked, recent, queue, powerbiVars, cancel, seen, target,
                   workerVars, historyVars>>

\* Faulty variant: the tracking is deleted before anything was checked.
ReadAndForget(r) ==
    /\ At(r, "read")
    /\ seen' = [seen EXCEPT ![r] = [id |-> tracked, recent |-> recent]]
    /\ ForgetTracking
    /\ Continue(r, "list")
    /\ UNCHANGED <<locks, queue, powerbiVars, cancel, target, workerVars,
                   historyVars>>

\* _read_refresh_tracking: GET, then TTL when there was a value.
ReadTracking(r) ==
    /\ \/ /\ At(r, "read")
          /\ seen' = [seen EXCEPT ![r].id = tracked]
          /\ Continue(r, IF tracked = None THEN "list" ELSE "ttl")
       \/ /\ At(r, "ttl")
          /\ seen' = [seen EXCEPT ![r].recent = recent]
          /\ Continue(r, "list")
    /\ UNCHANGED <<redisVars, powerbiVars, cancel, target, workerVars,
                   historyVars>>

\* Either command raises: the trigger goes on as if nothing were tracked.
ReadTrackingFails(r) ==
    /\ At(r, "read") \/ At(r, "ttl")
    /\ Fault
    /\ seen' = [seen EXCEPT ![r] = Untracked]
    /\ Continue(r, "list")
    /\ broken' = broken \cup {r}
    /\ UNCHANGED <<redisVars, powerbiVars, cancel, target, workerVars,
                   unguarded>>

\* Faulty variant: what the history does not show is not on.
NeverHidden(x) == TRUE

\* The stored id is recent and the history does not show it yet.
NotHidden(x) ==
    seen[x].id # None /\ seen[x].recent => seen[x].id \in listed

\* The refresh history decides: any active run, of whatever kind, and a run
\* that is only tracked, refuse the request.
Unoccupied(r) == Active \cap listed = {} /\ NotHidden(r)

ListRefreshes(r) ==
    /\ At(r, "list")
    /\ Continue(r, IF Unoccupied(r) THEN "forget" ELSE "undo")
    /\ UNCHANGED <<redisVars, powerbiVars, cancel, seen, target, workerVars,
                   historyVars>>

\* Power BI does not answer: nothing was decided, the reservation is undone.
ListRefreshesFails(r) ==
    /\ At(r, "list")
    /\ Fault
    /\ Continue(r, "undo")
    /\ UNCHANGED <<redisVars, powerbiVars, cancel, seen, target, workerVars,
                   broken, unguarded>>

\* The tracking of a past run is deleted; a Redis error is ignored.  A trigger
\* that lost its protection may delete the only trace of a run here.
ForgetPastRun(r) ==
    /\ At(r, "forget")
    /\ \/ /\ ForgetTracking
          /\ unguarded' = unguarded \cup (IF r \in broken THEN OnlyTracked ELSE {})
          /\ UNCHANGED faults
       \/ Fault /\ UNCHANGED <<tracked, recent, unguarded>>
    /\ Continue(r, "enqueue")
    /\ UNCHANGED <<locks, queue, powerbiVars, cancel, seen, target, workerVars,
                   broken>>

\* Faulty variant: finally, not except, releases the reservation.
EnqueueThenUndo(r) ==
    /\ At(r, "enqueue")
    /\ queue' = [queue EXCEPT ![r] = 1]
    /\ Continue(r, "undo")
    /\ UNCHANGED <<locks, tracked, recent, powerbiVars, cancel, seen, target,
                   workerVars, historyVars>>

\* refresh_trigger.delay returns.
Enqueue(r) ==
    /\ At(r, "enqueue")
    /\ queue' = [queue EXCEPT ![r] = 1]
    /\ Continue(r, "accepted")
    /\ UNCHANGED <<locks, tracked, recent, powerbiVars, cancel, seen, target,
                   workerVars, historyVars>>

\* The connection to the broker fails: the client library publishes again
\* what had arrived already, or delay raises after or before it arrived.
EnqueueFails(r) ==
    /\ At(r, "enqueue")
    /\ Fault
    /\ \/ /\ queue' = [queue EXCEPT ![r] = 2]
          /\ Continue(r, "accepted")
          /\ broken' = broken \cup {r}
       \/ /\ queue' = [queue EXCEPT ![r] = 1]
          /\ Continue(r, "undo")
          /\ broken' = broken \cup {r}
       \/ /\ Continue(r, "undo")
          /\ UNCHANGED <<queue, broken>>
    /\ UNCHANGED <<locks, tracked, recent, powerbiVars, cancel, seen, target,
                   workerVars, unguarded>>

\* The except clause: the reservation is released and the request refused.
UndoReservation(r) ==
    /\ At(r, "undo")
    /\ locks' = Released(locks, Dataset, r)
    /\ Continue(r, "refused")
    /\ UNCHANGED <<tracked, recent, queue, powerbiVars, cancel, seen, target,
                   workerVars, historyVars>>

\* The API process dies, or the release fails: the TTL has to free the lock.
TriggerDies(r) ==
    /\ api[r] \in Api \ {"new", "accepted", "refused"}
    /\ Fault
    /\ Continue(r, "refused")
    /\ UNCHANGED <<redisVars, powerbiVars, cancel, seen, target, workerVars,
                   broken, unguarded>>

-----------------------------------------------------------------------------
(***************************************************************************)
(* The worker task                                                         *)
(***************************************************************************)
Goto(w, l) == pc' = [pc EXCEPT ![w] = l]

TakeTask(w, r) ==
    /\ pc[w] = "idle" /\ queue[r] > 0
    /\ queue' = [queue EXCEPT ![r] = @ - 1]
    /\ job' = [job EXCEPT ![w] = r]
    /\ Goto(w, "check")
    /\ UNCHANGED <<locks, tracked, recent, powerbiVars, apiVars, started,
                   historyVars>>

EndTask(w) ==
    /\ Goto(w, "idle")
    /\ job' = [job EXCEPT ![w] = None]
    /\ started' = [started EXCEPT ![w] = None]

\* The lock still holds the token that the task carries.
Reserved(w) == locks[Dataset] = job[w]

\* A task whose reservation expired or was replaced ends here.
CheckReservation(w) ==
    /\ pc[w] = "check"
    /\ \/ Reserved(w) /\ Goto(w, "post") /\ UNCHANGED <<job, started>>
       \/ ~Reserved(w) /\ EndTask(w)
    /\ UNCHANGED <<redisVars, powerbiVars, apiVars, historyVars>>

\* Power BI starts a run, unless one is active already.
StartRun(i) ==
    /\ Active = {}
    /\ state[i] = "unused"
    /\ state' = [state EXCEPT ![i] = "active"]

\* The POST is accepted and its request id arrives.
PostAccepted(w) ==
    /\ pc[w] = "post"
    /\ \E i \in Runs :
          /\ StartRun(i)
          /\ portal' = portal \cup {i}
          /\ started' = [started EXCEPT ![w] = i]
          /\ unguarded' = IF job[w] \in broken THEN unguarded \cup {i}
                          ELSE unguarded
    /\ Goto(w, "store")
    /\ UNCHANGED <<redisVars, listed, apiVars, job, broken, faults>>

\* Power BI refuses the POST: a run is on, or the model cannot be refreshed.
PostRejected(w) ==
    /\ pc[w] = "post"
    /\ Goto(w, "release")
    /\ UNCHANGED <<redisVars, powerbiVars, apiVars, job, started, historyVars>>

\* The answer of an accepted POST is lost, or names no request id.
PostUnanswered(w) ==
    /\ pc[w] = "post"
    /\ Fault
    /\ \E i \in Runs :
          /\ StartRun(i)
          /\ portal' = portal \cup {i}
          /\ unguarded' = unguarded \cup {i}
    /\ Goto(w, "release")
    /\ UNCHANGED <<redisVars, listed, apiVars, job, started, broken>>

\* Faulty variant: the token of the reservation is stored as the request id.
StoreToken(w) ==
    /\ pc[w] = "store"
    /\ tracked' = job[w]
    /\ recent' = TRUE
    /\ Goto(w, "release")
    /\ UNCHANGED <<locks, queue, powerbiVars, apiVars, job, started,
                   historyVars>>

\* SET bip:refreshid:{dataset}.  A run whose tracking is overwritten while
\* the history does not show it has no trace left.
StoreRefreshId(w) ==
    /\ pc[w] = "store"
    /\ tracked' = started[w]
    /\ recent' = TRUE
    /\ unguarded' = IF job[w] \in broken THEN unguarded \cup OnlyTracked
                    ELSE unguarded
    /\ Goto(w, "release")
    /\ UNCHANGED <<locks, queue, powerbiVars, apiVars, job, started, broken,
                   faults>>

\* The finally clause.
ReleaseReservation(w) ==
    /\ pc[w] = "release"
    /\ locks' = Released(locks, Dataset, job[w])
    /\ EndTask(w)
    /\ UNCHANGED <<tracked, recent, queue, powerbiVars, apiVars, historyVars>>

\* The worker dies, or the SET or the release fails.
WorkerDies(w) ==
    /\ pc[w] # "idle"
    /\ Fault
    /\ unguarded' = IF pc[w] = "store" THEN unguarded \cup {started[w]}
                    ELSE unguarded
    /\ EndTask(w)
    /\ UNCHANGED <<redisVars, powerbiVars, apiVars, broken>>

-----------------------------------------------------------------------------
(***************************************************************************)
(* DELETE /api/datasets/{dataset}/refresh                                  *)
(***************************************************************************)
Proceed(c, l) == cancel' = [cancel EXCEPT ![c] = l]

\* The tracking is read as the trigger reads it, errors included.
CancelReads(c) ==
    /\ \/ /\ cancel[c] = "new"
          /\ seen' = [seen EXCEPT ![c].id = tracked]
          /\ Proceed(c, IF tracked = None THEN "list" ELSE "ttl")
          /\ UNCHANGED faults
       \/ /\ cancel[c] = "ttl"
          /\ seen' = [seen EXCEPT ![c].recent = recent]
          /\ Proceed(c, "list")
          /\ UNCHANGED faults
       \/ /\ cancel[c] \in {"new", "ttl"}
          /\ Fault
          /\ seen' = [seen EXCEPT ![c] = Untracked]
          /\ Proceed(c, "list")
    /\ UNCHANGED <<redisVars, powerbiVars, api, target, workerVars, broken,
                   unguarded>>

\* The runs that the history offers for cancellation.
Cancellable == Active \cap listed \cap portal

\* The stored id if its run is active, else an active enhanced run, else the
\* stored id while it may be hidden; otherwise 409.
Selected(c, i) ==
    IF Cancellable # {}
    THEN i \in Cancellable /\ (seen[c].id \in Cancellable => i = seen[c].id)
    ELSE i = seen[c].id /\ ~NotHidden(c)

\* Other errors of the history call end the request too.
SelectRun(c) ==
    /\ cancel[c] = "list"
    /\ \/ \E i \in Runs : /\ Selected(c, i)
                          /\ target' = [target EXCEPT ![c] = i]
                          /\ Proceed(c, "cancel")
       \/ /\ \A i \in Runs : ~Selected(c, i)
          /\ Proceed(c, "done")
          /\ UNCHANGED target
    /\ UNCHANGED <<redisVars, powerbiVars, api, seen, workerVars, historyVars>>

\* Power BI takes the DELETE and ends the run now or later, or answers 400 or
\* 404 because the run is over.
CancelRun(c) ==
    /\ cancel[c] = "cancel"
    /\ \/ state' = [state EXCEPT ![target[c]] = "ended"]
       \/ UNCHANGED state
    /\ Proceed(c, "forget")
    /\ UNCHANGED <<redisVars, listed, portal, api, seen, target, workerVars,
                   historyVars>>

\* Accepted or over: the tracking key is deleted, whatever it holds by now.
ForgetCancelled(c) ==
    /\ cancel[c] = "forget"
    /\ ForgetTracking
    /\ unguarded' = unguarded \cup OnlyTracked
    /\ Proceed(c, "done")
    /\ UNCHANGED <<locks, queue, powerbiVars, api, seen, target, workerVars,
                   broken, faults>>

\* A call to Power BI or the deletion fails, or the process dies.
CancelDies(c) ==
    /\ cancel[c] \in {"list", "cancel", "forget"}
    /\ Fault
    /\ Proceed(c, "done")
    /\ UNCHANGED <<redisVars, powerbiVars, api, seen, target, workerVars,
                   broken, unguarded>>

-----------------------------------------------------------------------------
(***************************************************************************)
(* Power BI and the clock                                                  *)
(***************************************************************************)

\* A scheduled refresh, or one started in the Power BI portal.
ForeignRunStarts(i) ==
    /\ StartRun(i)
    /\ UNCHANGED <<redisVars, listed, portal, apiVars, workerVars, historyVars>>

\* The history shows a run some time after it started.
RunAppears(i) ==
    /\ state[i] # "unused" /\ i \notin listed
    /\ listed' = listed \cup {i}
    /\ UNCHANGED <<redisVars, state, portal, apiVars, workerVars, historyVars>>

RunEnds(i) ==
    /\ i \in Active
    /\ state' = [state EXCEPT ![i] = "ended"]
    /\ UNCHANGED <<redisVars, listed, portal, apiVars, workerVars, historyVars>>

\* REFRESH_HISTORY_GRACE_SEC is long enough for the history to catch up.
GraceEnds ==
    /\ recent
    /\ tracked \in listed \/ tracked \notin Active
    /\ recent' = FALSE
    /\ UNCHANGED <<locks, tracked, queue, powerbiVars, apiVars, workerVars,
                   historyVars>>

\* REFRESH_ID_TTL_SEC is the longest an enhanced refresh can run.
TrackingExpires ==
    /\ tracked # None /\ tracked \notin Active /\ ~recent
    /\ ForgetTracking
    /\ UNCHANGED <<locks, queue, powerbiVars, apiVars, workerVars, historyVars>>

\* A trigger is in charge from its reservation until the API gives it up or
\* the worker that it passed the token to is through.
InCharge(r) ==
    \/ api[r] \in (Reading \ {"new"}) \cup {"enqueue", "undo"}
    \/ \E w \in Workers : job[w] = r /\ pc[w] \in {"post", "store", "release"}

\* _REFRESH_SUBMIT_LOCK_TTL_SEC passed since the reservation.  A run that was
\* started but not stored yet loses its protection with it.
LockExpires ==
    /\ ~Acquirable(locks, Dataset)
    /\ locks' = Expired(locks, Dataset)
    /\ broken' = broken \cup {locks[Dataset]}
    /\ unguarded' = unguarded \cup
          {started[w] : w \in {v \in Workers : /\ pc[v] = "store"
                                              /\ job[v] = locks[Dataset]}}
    /\ UNCHANGED <<tracked, recent, queue, powerbiVars, apiVars, workerVars,
                   faults>>

-----------------------------------------------------------------------------
Trigger(r) ==
    \/ Reserve(r) \/ ReadTracking(r) \/ ListRefreshes(r) \/ ForgetPastRun(r)
    \/ Enqueue(r) \/ UndoReservation(r)

TriggerFault(r) ==
    \/ ReadTrackingFails(r) \/ ListRefreshesFails(r) \/ EnqueueFails(r)
    \/ TriggerDies(r)

Work(w) ==
    \/ CheckReservation(w) \/ PostAccepted(w) \/ PostRejected(w)
    \/ StoreRefreshId(w) \/ ReleaseReservation(w)

Next ==
    \/ \E r \in Requests : Trigger(r) \/ TriggerFault(r)
    \/ \E w \in Workers : \/ \E r \in Requests : TakeTask(w, r)
                          \/ Work(w) \/ PostUnanswered(w) \/ WorkerDies(w)
    \/ \E c \in Cancels : \/ CancelReads(c) \/ SelectRun(c) \/ CancelRun(c)
                          \/ ForgetCancelled(c) \/ CancelDies(c)
    \/ \E i \in Runs : ForeignRunStarts(i) \/ RunAppears(i) \/ RunEnds(i)
    \/ GraceEnds \/ TrackingExpires \/ LockExpires

Spec == Init /\ [][Next]_vars

-----------------------------------------------------------------------------
(***************************************************************************)
(* Safety                                                                  *)
(***************************************************************************)

\* Two triggers are in charge of the dataset at a time only if the
\* reservation of one of them stopped protecting it: from the check in the
\* API to the answer of Power BI the token passes through three processes.
ReservationExclusion ==
    \A r, q \in Requests :
        InCharge(r) /\ InCharge(q) /\ r # q => r \in broken \/ q \in broken

\* A run that the portal started can always be found, by the next trigger and
\* by a cancel, in the history or under the tracking key, except for what
\* was started without protection or lost.
RunIsFindable ==
    \A i \in Active \cap portal :
        \/ i \in listed
        \/ i = tracked /\ recent
        \/ \E w \in Workers : pc[w] = "store" /\ started[w] = i
        \/ i \in unguarded

\* A worker about to send its POST meets no active run of the portal, as long
\* as its reservation protects it and the run was not lost: reservation,
\* tracking and history leave no gap between them.
NoDoublePost ==
    \A w \in Workers :
        pc[w] = "post" /\ job[w] \notin broken =>
            Active \cap portal \subseteq unguarded

-----------------------------------------------------------------------------
(***************************************************************************)
(* What the documents say and the code does not do                         *)
(***************************************************************************)

\* refresh_trigger.py, _trigger: a worker whose lock expired or was replaced
\* sends no request.
LateWorkerSendsNothing ==
    \A w \in Workers : pc[w] = "post" => locks[Dataset] = job[w]

=============================================================================
