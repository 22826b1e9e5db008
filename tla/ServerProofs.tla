----------------------------- MODULE ServerProofs -----------------------------
(***************************************************************************)
(* What calls that run at the same time leave at the server, for any       *)
(* number of them: triggers, cancels and workers of the refresh of a       *)
(* dataset, logins and administrators at one account, operators and users  *)
(* at one request of the service centre, and collections of one workspace  *)
(* whose lock may expire.                                                  *)
(***************************************************************************)
EXTENDS DatasetRefresh, UserSessions, ServerParts, FiniteSetTheorems, SequenceTheorems, TLAPS

-----------------------------------------------------------------------------
(* The refresh of a dataset, for any numbers of triggers, cancels,         *)
(* workers, runs and faults, from one inductive invariant.  A token that   *)
(* still protects the dataset is in one place at a time (TokenInOnePlace)  *)
(* and holds the lock there (LockHeld); what its trigger read of Redis and *)
(* of Power BI stays true for as long (TrackingRead, NothingRuns), because *)
(* nobody else can start a run that the model counts as guarded.           *)

\* An idle worker has no task, any other has one, and a worker that is about to
\* store a request id has one.
TaskLocals ==
    \A w \in Workers : /\ pc[w] = "idle" <=> job[w] = None
                       /\ pc[w] = "store" => started[w] \in Runs

Submitting(r) == api[r] \in (Reading \ {"new"}) \cup {"enqueue", "undo"}
Queued(r)     == queue[r] > 0
Carries(w, r) == job[w] = r

\* Where the token of a trigger can be.
Held(r) == Submitting(r) \/ Queued(r) \/ \E w \in Workers : Carries(w, r)

\* The API hands a token on when it is through with it, as one copy, and a copy
\* is taken once: this holds until the token loses its protection.
TokenInOnePlace ==
    \A r \in Requests \ broken :
        /\ Queued(r) \/ (\E w \in Workers : Carries(w, r)) => api[r] = "accepted"
        /\ queue[r] <= 1
        /\ Queued(r) => \A w \in Workers : ~Carries(w, r)
        /\ \A w, v \in Workers : Carries(w, r) /\ Carries(v, r) => w = v

\* A token that protects the dataset holds the lock, wherever it is.
LockHeld == \A r \in Requests \ broken : Held(r) => locks[Dataset] = r

\* The active runs that the portal started under a reservation and did not lose.
Guarded == (Active \cap portal) \ unguarded

\* The runs of the portal were started.
PortalRunsStarted == \A i \in portal : state[i] # "unused"

\* A run that a worker without protection has started counts as unguarded.
LateRunsUnguarded ==
    \A w \in Workers : pc[w] = "store" /\ job[w] \in broken => started[w] \in unguarded

\* While a worker has yet to store its run, there is no other.
SoleRun ==
    \A w \in Workers : pc[w] = "store" /\ job[w] \notin broken => Guarded \subseteq {started[w]}

\* A trigger that protects the dataset has read of the tracking whatever the
\* history does not show.
TrackingRead ==
    \A r \in Requests \ broken : \A i \in Guarded \ listed :
        /\ api[r] \in {"ttl", "list"} => seen[r].id = i
        /\ api[r] = "list" => seen[r].recent

\* From the history call to the POST no run is on.
Cleared(r) ==
    \/ api[r] \in {"forget", "enqueue"} \/ Queued(r)
    \/ \E w \in Workers : Carries(w, r) /\ pc[w] \in {"check", "post"}
NothingRuns == \A r \in Requests \ broken : Cleared(r) => Guarded = {}

IInv ==
    /\ TypeOK
    /\ TaskLocals
    /\ TokenInOnePlace
    /\ LockHeld
    /\ PortalRunsStarted
    /\ LateRunsUnguarded
    /\ SoleRun
    /\ TrackingRead
    /\ NothingRuns
    /\ RunIsFindable

-----------------------------------------------------------------------------
(***************************************************************************)
(* Types.                                                                  *)
(***************************************************************************)
RedisTyped ==
    /\ locks \in [{Dataset} -> Requests \cup {Free}]
    /\ tracked \in Runs \cup {None}
    /\ recent \in BOOLEAN
    /\ queue \in [Requests -> 0 .. 2]
PowerBITyped ==
    /\ state \in [Runs -> {"unused", "active", "ended"}]
    /\ listed \in SUBSET Runs
    /\ portal \in SUBSET Runs
SeenTyped == seen \in [Requests \cup Cancels -> Tracking]
ApiTyped ==
    /\ api \in [Requests -> Api]
    /\ cancel \in [Cancels -> Cancel]
    /\ target \in [Cancels -> Runs \cup {None}]
WorkersTyped ==
    /\ pc \in [Workers -> PC]
    /\ job \in [Workers -> Requests \cup {None}]
    /\ started \in [Workers -> Runs \cup {None}]
HistoryTyped ==
    /\ broken \in SUBSET Requests
    /\ unguarded \in SUBSET Runs
    /\ faults \in 0 .. MaxFaults

Parts == /\ RedisTyped /\ PowerBITyped /\ SeenTyped /\ ApiTyped
         /\ WorkersTyped /\ HistoryTyped

LEMMA TypeParts == (TypeOK <=> Parts) /\ (TypeOK' <=> Parts')
BY DEF TypeOK, Parts, RedisTyped, PowerBITyped, SeenTyped, ApiTyped, WorkersTyped, HistoryTyped

\* Initially nothing is on.
LEMMA InitIInv == Init => IInv
<1> SUFFICES ASSUME Init PROVE IInv
  OBVIOUS
<1>1. RedisTyped /\ PowerBITyped
  <2>1. locks \in [{Dataset} -> Requests \cup {Free}] /\ tracked \in Runs \cup {None}
    BY DEF Init
  <2>2. recent \in BOOLEAN
    BY DEF Init
  <2>3. queue \in [Requests -> 0 .. 2]
    BY DEF Init
  <2>4. PowerBITyped
    BY DEF Init, PowerBITyped
  <2>5. QED
    BY <2>1, <2>2, <2>3, <2>4 DEF RedisTyped
<1>2. SeenTyped
  BY DEF Init, SeenTyped, Tracking, Untracked
<1>3. ApiTyped /\ WorkersTyped
  BY DEF Init, ApiTyped, WorkersTyped, Api, Cancel, Reading, PC
<1>4. HistoryTyped
  BY ConstantsOK DEF Init, HistoryTyped
<1>5. TypeOK /\ TaskLocals
  BY <1>1, <1>2, <1>3, <1>4, TypeParts DEF Parts, Init, TaskLocals
<1>6. \A r \in Requests : ~Held(r) /\ ~Cleared(r)
  BY ConstantsOK DEF Init, Held, Cleared, Submitting, Queued, Carries, Reading
<1>7. TokenInOnePlace /\ LockHeld /\ NothingRuns
  BY <1>6 DEF Init, TokenInOnePlace, LockHeld, NothingRuns, Held, Queued, Carries
<1>8. PortalRunsStarted /\ LateRunsUnguarded /\ SoleRun /\ TrackingRead /\ RunIsFindable
  BY DEF Init, PortalRunsStarted, LateRunsUnguarded, SoleRun, TrackingRead, RunIsFindable, Active, Guarded
<1>9. QED
  BY <1>5, <1>7, <1>8 DEF IInv

\* An endpoint keeps the types of what it has read.
LEMMA SeenFrame ==
    ASSUME TypeOK, NEW x \in Requests \cup Cancels,
           \/ seen' = [seen EXCEPT ![x].id = tracked]
           \/ seen' = [seen EXCEPT ![x].recent = recent]
           \/ seen' = [seen EXCEPT ![x] = Untracked]
    PROVE  SeenTyped'
<1>1. CASE seen' = [seen EXCEPT ![x].id = tracked]
  BY <1>1 DEF TypeOK, SeenTyped, Tracking
<1>2. CASE seen' = [seen EXCEPT ![x].recent = recent]
  BY <1>2 DEF TypeOK, SeenTyped, Tracking
<1>3. CASE seen' = [seen EXCEPT ![x] = Untracked]
  BY <1>3 DEF TypeOK, SeenTyped, Tracking, Untracked
<1>4. QED
  BY <1>1, <1>2, <1>3

\* The steps of a trigger keep types.
LEMMA TriggerTyped ==
    ASSUME TypeOK, NEW r \in Requests, Trigger(r) \/ TriggerFault(r)
    PROVE  TypeOK'
<1> USE DEF At, Fault, Continue, ForgetTracking, redisVars, powerbiVars, workerVars, historyVars,
            Parts, Trigger, TriggerFault, Reserve, ReadTracking, ReadTrackingFails,
            ListRefreshes, ListRefreshesFails, ForgetPastRun, Enqueue, EnqueueFails,
            UndoReservation, TriggerDies
<1>1. PowerBITyped' /\ WorkersTyped'
  <2>1. UNCHANGED <<powerbiVars, workerVars>>
    OBVIOUS
  <2>2. QED
    BY <2>1, TypeParts DEF PowerBITyped, WorkersTyped
<1>2. ApiTyped'
  <2>1. (\E l \in Api : Continue(r, l)) /\ UNCHANGED <<cancel, target>>
    BY DEF Api, Reading
  <2>2. QED
    BY <2>1, TypeParts DEF ApiTyped
<1>3. SeenTyped'
  <2>1. CASE ReadTracking(r) \/ ReadTrackingFails(r)
    BY <2>1, SeenFrame
  <2>2. CASE UNCHANGED seen
    BY <2>2, TypeParts DEF SeenTyped
  <2>3. QED
    BY <2>1, <2>2
<1>4. RedisTyped'
  <2>1. locks' \in [{Dataset} -> Requests \cup {Free}]
    BY TypeParts DEF RedisTyped, Acquired, Released
  <2>2. queue' \in [Requests -> 0 .. 2]
    BY TypeParts DEF RedisTyped
  <2>3. ForgetTracking \/ UNCHANGED <<tracked, recent>>
    OBVIOUS
  <2>4. QED
    BY <2>1, <2>2, <2>3, TypeParts DEF RedisTyped
<1>5. HistoryTyped'
  <2>1. broken' \subseteq Requests /\ faults' \in 0 .. MaxFaults
    BY TypeParts, ConstantsOK DEF HistoryTyped
  <2>2. unguarded' \subseteq unguarded \cup OnlyTracked
    OBVIOUS
  <2>3. QED
    BY <2>1, <2>2, TypeParts DEF HistoryTyped, OnlyTracked, Active
<1>6. QED
  BY <1>1, <1>2, <1>3, <1>4, <1>5, TypeParts

\* The steps of a worker keep types and its locals.
LEMMA WorkerTyped ==
    ASSUME TypeOK, TaskLocals, NEW w \in Workers,
           (\E r \in Requests : TakeTask(w, r)) \/ Work(w) \/ PostUnanswered(w) \/ WorkerDies(w)
    PROVE  TypeOK' /\ TaskLocals'
<1> USE DEF Fault, Goto, EndTask, redisVars, powerbiVars, apiVars, workerVars, historyVars,
            Parts, Work, TakeTask, CheckReservation, PostAccepted, PostRejected, PostUnanswered,
            StoreRefreshId, ReleaseReservation, WorkerDies
<1>1. SeenTyped' /\ ApiTyped'
  <2>1. UNCHANGED apiVars
    OBVIOUS
  <2>2. QED
    BY <2>1, TypeParts DEF SeenTyped, ApiTyped
<1>2. PowerBITyped'
  <2>1. /\ listed' = listed
        /\ \/ UNCHANGED <<state, portal>>
           \/ \E i \in Runs : StartRun(i) /\ portal' = portal \cup {i}
    OBVIOUS
  <2>2. QED
    BY <2>1, TypeParts DEF PowerBITyped, StartRun
<1>3. WorkersTyped' /\ TaskLocals'
  <2>1. \/ \E r \in Requests : Goto(w, "check") /\ job' = [job EXCEPT ![w] = r] /\ UNCHANGED started
        \/ EndTask(w)
        \/ /\ pc[w] # "idle" /\ (Goto(w, "post") \/ Goto(w, "release"))
           /\ UNCHANGED <<job, started>>
        \/ \E i \in Runs : /\ pc[w] # "idle" /\ Goto(w, "store")
                            /\ started' = [started EXCEPT ![w] = i] /\ UNCHANGED job
    OBVIOUS
  <2>2. WorkersTyped'
    BY <2>1, TypeParts DEF WorkersTyped, PC
  <2>3. TaskLocals'
    BY <2>1, TypeParts, ConstantsOK DEF WorkersTyped, TaskLocals, PC
  <2>4. QED
    BY <2>2, <2>3
<1>4. RedisTyped'
  <2>1. locks' \in [{Dataset} -> Requests \cup {Free}]
    BY TypeParts DEF RedisTyped, Released
  <2>2. queue' \in [Requests -> 0 .. 2]
    BY TypeParts DEF RedisTyped
  <2>3. \/ tracked' \in Runs /\ recent' = TRUE
        \/ UNCHANGED <<tracked, recent>>
    BY DEF TaskLocals
  <2>4. QED
    BY <2>1, <2>2, <2>3, TypeParts DEF RedisTyped
<1>5. HistoryTyped'
  <2>1. broken' = broken /\ faults' \in 0 .. MaxFaults
    BY TypeParts, ConstantsOK DEF HistoryTyped
  <2>2. unguarded' \subseteq unguarded \cup Runs
    BY DEF OnlyTracked, Active, TaskLocals
  <2>3. QED
    BY <2>1, <2>2, TypeParts DEF HistoryTyped
<1>6. QED
  BY <1>1, <1>2, <1>3, <1>4, <1>5, TypeParts

\* The steps of a cancel keep types.
LEMMA CancelTyped ==
    ASSUME TypeOK, NEW c \in Cancels,
           CancelReads(c) \/ SelectRun(c) \/ CancelRun(c) \/ ForgetCancelled(c) \/ CancelDies(c)
    PROVE  TypeOK'
<1> USE DEF Fault, Proceed, ForgetTracking, redisVars, powerbiVars, workerVars, historyVars,
            Parts, CancelReads, SelectRun, CancelRun, ForgetCancelled, CancelDies
<1>1. WorkersTyped'
  <2>1. UNCHANGED workerVars
    OBVIOUS
  <2>2. QED
    BY <2>1, TypeParts DEF WorkersTyped
<1>2. PowerBITyped'
  <2>1. UNCHANGED <<listed, portal>> /\ (UNCHANGED state \/ state' = [state EXCEPT ![target[c]] = "ended"])
    OBVIOUS
  <2>2. QED
    BY <2>1, TypeParts DEF PowerBITyped
<1>3. ApiTyped'
  <2>1. /\ api' = api /\ \E l \in Cancel : Proceed(c, l)
        /\ UNCHANGED target \/ \E i \in Runs : target' = [target EXCEPT ![c] = i]
    BY DEF Cancel, Reading
  <2>2. QED
    BY <2>1, TypeParts DEF ApiTyped
<1>4. SeenTyped'
  <2>1. CASE CancelReads(c)
    BY <2>1, SeenFrame
  <2>2. CASE UNCHANGED seen
    BY <2>2, TypeParts DEF SeenTyped
  <2>3. QED
    BY <2>1, <2>2
<1>5. RedisTyped'
  <2>1. UNCHANGED <<locks, queue>> /\ (ForgetTracking \/ UNCHANGED <<tracked, recent>>)
    OBVIOUS
  <2>2. QED
    BY <2>1, TypeParts DEF RedisTyped
<1>6. HistoryTyped'
  <2>1. broken' = broken /\ faults' \in 0 .. MaxFaults
    BY TypeParts, ConstantsOK DEF HistoryTyped
  <2>2. unguarded' \subseteq unguarded \cup OnlyTracked
    OBVIOUS
  <2>3. QED
    BY <2>1, <2>2, TypeParts DEF HistoryTyped, OnlyTracked, Active
<1>7. QED
  BY <1>1, <1>2, <1>3, <1>4, <1>5, <1>6, TypeParts

\* What Power BI does, and time.
Environment ==
    \/ \E i \in Runs : ForeignRunStarts(i) \/ RunAppears(i) \/ RunEnds(i)
    \/ GraceEnds \/ TrackingExpires \/ LockExpires

LEMMA EnvironmentTyped ==
    ASSUME TypeOK, TaskLocals, Environment
    PROVE  TypeOK'
<1> USE DEF ForgetTracking, redisVars, powerbiVars, apiVars, workerVars, historyVars,
            Parts, Environment, ForeignRunStarts, RunAppears, RunEnds, GraceEnds, TrackingExpires,
            LockExpires
<1>1. SeenTyped' /\ ApiTyped' /\ WorkersTyped'
  <2>1. UNCHANGED <<apiVars, workerVars>>
    OBVIOUS
  <2>2. QED
    BY <2>1, TypeParts DEF SeenTyped, ApiTyped, WorkersTyped
<1>2. PowerBITyped'
  BY TypeParts DEF PowerBITyped, StartRun
<1>3. RedisTyped'
  <2>1. locks' \in [{Dataset} -> Requests \cup {Free}]
    BY TypeParts DEF RedisTyped, Expired
  <2>2. queue' = queue /\ (ForgetTracking \/ (tracked' = tracked /\ (recent' = recent \/ recent' = FALSE)))
    OBVIOUS
  <2>3. QED
    BY <2>1, <2>2, TypeParts DEF RedisTyped
<1>4. HistoryTyped'
  <2>1. broken' \subseteq broken \cup Requests
    BY TypeParts DEF RedisTyped, Acquirable
  <2>2. unguarded' \subseteq unguarded \cup Runs /\ faults' = faults
    BY DEF TaskLocals
  <2>3. QED
    BY <2>1, <2>2, TypeParts DEF HistoryTyped
<1>5. QED
  BY <1>1, <1>2, <1>3, <1>4, TypeParts

\* Next, by who takes the step.
LEMMA NextCases ==
    ASSUME [Next]_vars
    PROVE  \/ \E r \in Requests : Trigger(r) \/ TriggerFault(r)
           \/ \E w \in Workers : \/ \E r \in Requests : TakeTask(w, r)
                                 \/ Work(w) \/ PostUnanswered(w) \/ WorkerDies(w)
           \/ \E c \in Cancels : \/ CancelReads(c) \/ SelectRun(c) \/ CancelRun(c)
                                 \/ ForgetCancelled(c) \/ CancelDies(c)
           \/ Environment
           \/ UNCHANGED vars
BY DEF Next, Environment

LEMMA StepTyped ==
    ASSUME TypeOK, TaskLocals, [Next]_vars
    PROVE  TypeOK' /\ TaskLocals'
<1>1. CASE \E r \in Requests : Trigger(r) \/ TriggerFault(r)
  <2>1. UNCHANGED workerVars
    BY <1>1 DEF Trigger, TriggerFault, Reserve, ReadTracking, ReadTrackingFails, ListRefreshes,
       ListRefreshesFails, ForgetPastRun, Enqueue, EnqueueFails, UndoReservation, TriggerDies
  <2>2. QED
    BY <1>1, <2>1, TriggerTyped DEF TaskLocals, workerVars
<1>2. CASE \E w \in Workers : \/ \E r \in Requests : TakeTask(w, r)
                              \/ Work(w) \/ PostUnanswered(w) \/ WorkerDies(w)
  BY <1>2, WorkerTyped
<1>3. CASE \E c \in Cancels : \/ CancelReads(c) \/ SelectRun(c) \/ CancelRun(c)
                              \/ ForgetCancelled(c) \/ CancelDies(c)
  <2>1. UNCHANGED workerVars
    BY <1>3 DEF CancelReads, SelectRun, CancelRun, ForgetCancelled, CancelDies
  <2>2. QED
    BY <1>3, <2>1, CancelTyped DEF TaskLocals, workerVars
<1>4. CASE Environment
  <2>1. UNCHANGED workerVars
    BY <1>4 DEF Environment, ForeignRunStarts, RunAppears, RunEnds, GraceEnds, TrackingExpires, LockExpires
  <2>2. QED
    BY <1>4, <2>1, EnvironmentTyped DEF TaskLocals, workerVars
<1>5. CASE UNCHANGED vars
  BY <1>5 DEF vars, redisVars, powerbiVars, apiVars, workerVars, historyVars, TypeOK, TaskLocals
<1>6. QED
  BY <1>1, <1>2, <1>3, <1>4, <1>5, NextCases

-----------------------------------------------------------------------------
(***************************************************************************)
(* The token and the lock.                                                 *)
(***************************************************************************)

\* A step of a trigger: it moves the token of no other, passes its own on at
\* "enqueue" only, takes the lock when it is free, and gives up its own.
LEMMA TriggerFrame ==
    ASSUME TypeOK, NEW r \in Requests, Trigger(r) \/ TriggerFault(r)
    PROVE  /\ UNCHANGED <<powerbiVars, workerVars, cancel, target>>
           /\ \A q \in Requests \ {r} : api'[q] = api[q] /\ queue'[q] = queue[q] /\ seen'[q] = seen[q]
           /\ broken \subseteq broken' /\ broken' \subseteq broken \cup {r}
           /\ unguarded \subseteq unguarded'
           /\ api[r] = "new" \/ Submitting(r)
           /\ \/ UNCHANGED queue /\ api'[r] # "accepted"
              \/ r \in broken'
              \/ api[r] = "enqueue" /\ api'[r] = "accepted" /\ queue'[r] = 1
           /\ \/ UNCHANGED locks /\ api[r] # "new"
              \/ UNCHANGED locks /\ api'[r] = "refused"
              \/ api[r] = "new" /\ locks[Dataset] = Free /\ locks'[Dataset] = r
              \/ locks[Dataset] = r /\ api'[r] = "refused"
<1> USE DEF At, Fault, Continue, ForgetTracking, Submitting, Reading, TypeOK,
            redisVars, powerbiVars, workerVars, historyVars, Trigger, TriggerFault
<1>1. CASE Reserve(r)
  BY <1>1 DEF Reserve, Acquirable, Acquired
<1>2. CASE ReadTracking(r) \/ ReadTrackingFails(r)
  BY <1>2 DEF ReadTracking, ReadTrackingFails
<1>3. CASE ListRefreshes(r) \/ ListRefreshesFails(r)
  BY <1>3 DEF ListRefreshes, ListRefreshesFails
<1>4. CASE ForgetPastRun(r)
  BY <1>4 DEF ForgetPastRun
<1>5. CASE Enqueue(r) \/ EnqueueFails(r)
  BY <1>5 DEF Enqueue, EnqueueFails
<1>6. CASE UndoReservation(r) \/ TriggerDies(r)
  BY <1>6 DEF UndoReservation, TriggerDies, Released, Api
<1>7. QED
  BY <1>1, <1>2, <1>3, <1>4, <1>5, <1>6

\* A step of a worker moves the token of its own task only: it takes it from the
\* queue, keeps it, or ends the task, and then it gives up its own lock at most.
LEMMA WorkerFrame ==
    ASSUME TypeOK, NEW w \in Workers,
           (\E r \in Requests : TakeTask(w, r)) \/ Work(w) \/ PostUnanswered(w) \/ WorkerDies(w)
    PROVE  /\ UNCHANGED <<apiVars, broken, listed>>
           /\ \A v \in Workers \ {w} : pc'[v] = pc[v] /\ job'[v] = job[v] /\ started'[v] = started[v]
           /\ unguarded \subseteq unguarded'
           /\ \/ /\ pc[w] = "idle" /\ pc'[w] = "check" /\ UNCHANGED locks
                 /\ \E r \in Requests : /\ queue[r] > 0 /\ queue' = [queue EXCEPT ![r] = @ - 1]
                                       /\ job'[w] = r
              \/ /\ pc[w] # "idle" /\ UNCHANGED queue
                 /\ \/ UNCHANGED <<job, locks>> /\ pc'[w] # "check"
                    \/ /\ job'[w] = None /\ pc'[w] = "idle"
                       /\ UNCHANGED locks \/ locks[Dataset] = job[w]
<1> USE DEF Fault, Goto, EndTask, TypeOK, redisVars, powerbiVars, apiVars, workerVars, historyVars
<1>1. CASE \E r \in Requests : TakeTask(w, r)
  BY <1>1 DEF TakeTask
<1>2. CASE Work(w)
  BY <1>2 DEF Work, CheckReservation, PostAccepted, PostRejected, StoreRefreshId, ReleaseReservation, Released
<1>3. CASE PostUnanswered(w) \/ WorkerDies(w)
  BY <1>3 DEF PostUnanswered, WorkerDies
<1>4. QED
  BY <1>1, <1>2, <1>3

\* Cancels, Power BI and time move no token; a lock that expires breaks the
\* protection of whoever holds it.
LEMMA OthersFrame ==
    ASSUME TypeOK,
           \/ \E c \in Cancels : \/ CancelReads(c) \/ SelectRun(c) \/ CancelRun(c)
                                \/ ForgetCancelled(c) \/ CancelDies(c)
           \/ Environment
           \/ UNCHANGED vars
    PROVE  /\ UNCHANGED <<api, queue, workerVars>>
           /\ UNCHANGED <<locks, broken>> \/ broken' = broken \cup {locks[Dataset]}
           /\ unguarded \subseteq unguarded'
           /\ listed \subseteq listed'
           /\ \A r \in Requests : seen'[r] = seen[r]
<1> USE ConstantsOK DEF Fault, Proceed, ForgetTracking, TypeOK,
            redisVars, powerbiVars, apiVars, workerVars, historyVars
<1>1. CASE \E c \in Cancels : \/ CancelReads(c) \/ SelectRun(c) \/ CancelRun(c)
                             \/ ForgetCancelled(c) \/ CancelDies(c)
  BY <1>1 DEF CancelReads, SelectRun, CancelRun, ForgetCancelled, CancelDies
<1>2. CASE Environment
  BY <1>2 DEF Environment, ForeignRunStarts, RunAppears, RunEnds, GraceEnds, TrackingExpires, LockExpires
<1>3. CASE UNCHANGED vars
  BY <1>3 DEF vars
<1>4. QED
  BY <1>1, <1>2, <1>3

Tokens == TypeOK /\ TaskLocals /\ TokenInOnePlace /\ LockHeld

LEMMA TriggerTokens ==
    ASSUME Tokens, NEW r \in Requests, Trigger(r) \/ TriggerFault(r)
    PROVE  TokenInOnePlace' /\ LockHeld'
<1> USE DEF Tokens, Queued, Carries
<1>1. r \notin broken => ~Queued(r) /\ \A w \in Workers : ~Carries(w, r)
  BY TriggerFrame DEF TokenInOnePlace, Submitting, Reading
<1>2. TokenInOnePlace'
  <2> SUFFICES ASSUME NEW q \in Requests \ broken'
               PROVE  /\ Queued(q)' \/ (\E w \in Workers : Carries(w, q)') => api'[q] = "accepted"
                      /\ queue'[q] <= 1
                      /\ Queued(q)' => \A w \in Workers : ~Carries(w, q)'
                      /\ \A w, v \in Workers : Carries(w, q)' /\ Carries(v, q)' => w = v
    BY DEF TokenInOnePlace
  <2>1. q \notin broken /\ job' = job
    BY TriggerFrame DEF workerVars
  <2>2. CASE q # r
    BY <2>1, <2>2, TriggerFrame DEF TokenInOnePlace
  <2>3. CASE q = r
    BY <2>1, <2>3, <1>1, TriggerFrame DEF TypeOK
  <2>4. QED
    BY <2>2, <2>3
<1>3. LockHeld'
  <2> SUFFICES ASSUME NEW q \in Requests \ broken', Held(q)'
               PROVE  locks'[Dataset] = q
    BY DEF LockHeld
  <2>1. q \notin broken /\ job' = job
    BY TriggerFrame DEF workerVars
  <2>2. CASE q # r
    <3>1. Held(q)
      BY <2>1, <2>2, TriggerFrame DEF Held, Submitting
    <3>2. locks[Dataset] = q /\ q # Free
      BY <2>1, <3>1, ConstantsOK DEF LockHeld
    <3>3. QED
      BY <2>2, <3>2, TriggerFrame
  <2>3. CASE q = r
    <3>1. api'[r] # "refused"
      BY <1>1, <2>1, <2>3, TriggerFrame DEF Held, Submitting, Reading
    <3>2. api[r] # "new" => locks[Dataset] = r
      BY <2>1, <2>3, TriggerFrame DEF LockHeld, Held
    <3>3. QED
      BY <2>3, <3>1, <3>2, TriggerFrame
  <2>4. QED
    BY <2>2, <2>3
<1>4. QED
  BY <1>2, <1>3

LEMMA WorkerTokens ==
    ASSUME Tokens, NEW w \in Workers,
           (\E r \in Requests : TakeTask(w, r)) \/ Work(w) \/ PostUnanswered(w) \/ WorkerDies(w)
    PROVE  TokenInOnePlace' /\ LockHeld'
<1> USE DEF Tokens, Queued, Carries
<1>1. broken' = broken /\ api' = api
  BY WorkerFrame DEF apiVars
<1>2. CASE /\ pc[w] = "idle" /\ UNCHANGED locks
           /\ \E r \in Requests : /\ queue[r] > 0 /\ queue' = [queue EXCEPT ![r] = @ - 1]
                                 /\ job'[w] = r
  <2>1. PICK r \in Requests : queue[r] > 0 /\ queue' = [queue EXCEPT ![r] = @ - 1] /\ job'[w] = r
    BY <1>2
  <2>2. /\ queue'[r] = queue[r] - 1 /\ \A q \in Requests \ {r} : queue'[q] = queue[q]
        /\ \A q \in Requests : queue[q] \in 0 .. 2
    BY <2>1 DEF TypeOK
  <2>3. \A v \in Workers \ {w} : job'[v] = job[v]
    BY WorkerFrame
  <2>4. \A q \in Requests : Held(q)' => Held(q)
    BY <1>1, <2>1, <2>2, <2>3 DEF Held, Submitting
  <2>5. TokenInOnePlace'
    BY <1>1, <2>1, <2>2, <2>3 DEF TokenInOnePlace
  <2>6. LockHeld'
    BY <1>1, <1>2, <2>4 DEF LockHeld
  <2>7. QED
    BY <2>5, <2>6
<1>3. CASE UNCHANGED <<queue, job, locks>>
  BY <1>1, <1>3 DEF TokenInOnePlace, LockHeld, Held, Submitting
<1>4. CASE pc[w] # "idle" /\ UNCHANGED queue /\ job'[w] = None
  <2>1. \A v \in Workers \ {w} : job'[v] = job[v]
    BY WorkerFrame
  <2>2. TokenInOnePlace' /\ (\A q \in Requests : Held(q)' => Held(q))
    BY <1>1, <1>4, <2>1, ConstantsOK DEF TokenInOnePlace, Held, Submitting
  <2>3. ASSUME NEW q \in Requests \ broken', Held(q)'
        PROVE  locks'[Dataset] = q
    <3>1. locks[Dataset] = q
      BY <1>1, <2>2, <2>3 DEF LockHeld
    <3>2. job[w] # q
      BY <1>1, <1>4, <2>1, <2>3, ConstantsOK DEF TokenInOnePlace, Held, Submitting, Reading
    <3>3. QED
      BY <1>4, <3>1, <3>2, WorkerFrame
  <2>4. QED
    BY <2>2, <2>3 DEF LockHeld
<1>5. QED
  <2>1. \/ UNCHANGED <<queue, job, locks>>
        \/ pc[w] # "idle" /\ UNCHANGED queue /\ job'[w] = None
        \/ /\ pc[w] = "idle" /\ UNCHANGED locks
           /\ \E r \in Requests : /\ queue[r] > 0 /\ queue' = [queue EXCEPT ![r] = @ - 1]
                                 /\ job'[w] = r
    BY WorkerFrame
  <2>2. QED
    BY <1>2, <1>3, <1>4, <2>1

LEMMA StepTokens ==
    ASSUME Tokens, [Next]_vars
    PROVE  Tokens'
<1>1. TypeOK' /\ TaskLocals'
  BY StepTyped DEF Tokens
<1>2. ASSUME \/ \E c \in Cancels : \/ CancelReads(c) \/ SelectRun(c) \/ CancelRun(c)
                                   \/ ForgetCancelled(c) \/ CancelDies(c)
             \/ Environment
             \/ UNCHANGED vars
      PROVE  TokenInOnePlace' /\ LockHeld'
  BY <1>2, OthersFrame DEF Tokens, TokenInOnePlace, LockHeld, Held, Submitting, Queued, Carries, workerVars
<1>3. QED
  BY <1>1, <1>2, NextCases, TriggerTokens, WorkerTokens DEF Tokens

-----------------------------------------------------------------------------
(***************************************************************************)
(* The runs.                                                               *)
(***************************************************************************)

\* A run that is started: by somebody else, without protection or with its answer
\* lost, or by a worker that is protected and goes on to store its id.
LEMMA RunsFrame ==
    ASSUME TypeOK, [Next]_vars
    PROVE  /\ listed \subseteq listed' /\ unguarded \subseteq unguarded' /\ broken \subseteq broken'
           /\ \/ Active' \subseteq Active /\ portal' = portal
              \/ \E i \in Runs : StartRun(i) /\ portal' = portal
              \/ \E w \in Workers, i \in Runs :
                    /\ pc[w] = "post" /\ StartRun(i) /\ portal' = portal \cup {i}
                    /\ \/ i \in unguarded'
                       \/ job[w] \notin broken /\ pc'[w] = "store" /\ started'[w] = i
           /\ \A i \in Runs : state[i] # "unused" => state'[i] # "unused"
<1> USE DEF Fault, TypeOK, Active, redisVars, powerbiVars, apiVars, workerVars, historyVars
<1>1. CASE \E r \in Requests : Trigger(r) \/ TriggerFault(r)
  <2>1. UNCHANGED powerbiVars /\ unguarded \subseteq unguarded' /\ broken \subseteq broken'
    BY <1>1, TriggerFrame
  <2>2. QED
    BY <2>1
<1>2. CASE \E w \in Workers : \/ \E r \in Requests : TakeTask(w, r)
                              \/ Work(w) \/ PostUnanswered(w) \/ WorkerDies(w)
  <2>1. PICK w \in Workers : \/ \E r \in Requests : TakeTask(w, r)
                            \/ Work(w) \/ PostUnanswered(w) \/ WorkerDies(w)
    BY <1>2
  <2>2. listed' = listed /\ unguarded \subseteq unguarded' /\ broken' = broken
    BY <2>1, WorkerFrame
  <2>3. CASE PostAccepted(w) \/ PostUnanswered(w)
    BY <2>2, <2>3 DEF PostAccepted, PostUnanswered, StartRun, Goto
  <2>4. CASE UNCHANGED powerbiVars
    BY <2>2, <2>4
  <2>5. QED
    BY <2>1, <2>3, <2>4 DEF Work, TakeTask, CheckReservation, PostRejected, StoreRefreshId,
       ReleaseReservation, WorkerDies
<1>3. CASE \E c \in Cancels : \/ CancelReads(c) \/ SelectRun(c) \/ CancelRun(c)
                              \/ ForgetCancelled(c) \/ CancelDies(c)
  BY <1>3 DEF CancelReads, SelectRun, CancelRun, ForgetCancelled, CancelDies
<1>4. CASE Environment
  BY <1>4 DEF Environment, ForeignRunStarts, StartRun, RunAppears, RunEnds, GraceEnds,
     TrackingExpires, LockExpires
<1>5. CASE UNCHANGED vars
  BY <1>5 DEF vars
<1>6. QED
  BY <1>1, <1>2, <1>3, <1>4, <1>5, NextCases

LEMMA StepPortal ==
    ASSUME TypeOK, TypeOK', PortalRunsStarted, [Next]_vars
    PROVE  PortalRunsStarted'
BY RunsFrame DEF PortalRunsStarted, TypeOK, StartRun

\* Two tokens that protect the dataset are one.
LEMMA OneToken ==
    ASSUME Tokens, NEW r \in Requests \ broken, NEW q \in Requests \ broken, Held(r), Held(q)
    PROVE  r = q
BY DEF Tokens, LockHeld

LEMMA BusyWorkersHold ==
    ASSUME Tokens, NEW w \in Workers, pc[w] # "idle"
    PROVE  job[w] \in Requests /\ Held(job[w])
BY DEF Tokens, TypeOK, TaskLocals, Held, Carries

\* The guarded runs only become fewer, unless a worker with protection starts one.
LEMMA GuardedFrame ==
    ASSUME TypeOK, PortalRunsStarted, [Next]_vars
    PROVE  \/ Guarded' \subseteq Guarded
           \/ \E w \in Workers : /\ pc[w] = "post" /\ job[w] \notin broken
                                /\ pc'[w] = "store" /\ Guarded' \subseteq {started'[w]}
<1>1. CASE Active' \subseteq Active /\ portal' = portal
  BY <1>1, RunsFrame DEF Guarded
<1>2. CASE \E i \in Runs : StartRun(i) /\ portal' = portal
  BY <1>2, RunsFrame DEF Guarded, StartRun, Active, PortalRunsStarted, TypeOK
<1>3. CASE \E w \in Workers, i \in Runs :
              /\ pc[w] = "post" /\ StartRun(i) /\ portal' = portal \cup {i}
              /\ \/ i \in unguarded'
                 \/ job[w] \notin broken /\ pc'[w] = "store" /\ started'[w] = i
  BY <1>3, RunsFrame DEF Guarded, StartRun, Active, TypeOK
<1>4. QED
  BY <1>1, <1>2, <1>3, RunsFrame

\* While a token protects the dataset, only its own worker starts a guarded run.
LEMMA OnlyHolderStarts ==
    ASSUME IInv, [Next]_vars, NEW r \in Requests \ broken, Held(r)
    PROVE  \/ Guarded' \subseteq Guarded
           \/ \E w \in Workers : /\ Carries(w, r) /\ pc[w] = "post" /\ pc'[w] = "store"
                                /\ Guarded' \subseteq {started'[w]}
<1>1. ASSUME NEW w \in Workers, pc[w] = "post", job[w] \notin broken
      PROVE  job[w] = r
  BY <1>1, OneToken, BusyWorkersHold DEF IInv, Tokens
<1>2. QED
  BY <1>1, GuardedFrame DEF IInv, Carries

\* A worker enters "store" from "post" only, and keeps its task and its run there.
LEMMA StoreFrame ==
    ASSUME TypeOK, [Next]_vars, NEW w \in Workers, pc'[w] = "store"
    PROVE  /\ job'[w] = job[w]
           /\ \/ pc[w] = "store" /\ started'[w] = started[w]
              \/ PostAccepted(w)
<1>1. CASE \E r \in Requests : Trigger(r) \/ TriggerFault(r)
  BY <1>1, TriggerFrame DEF workerVars
<1>2. ASSUME NEW v \in Workers, \/ \E r \in Requests : TakeTask(v, r)
                               \/ Work(v) \/ PostUnanswered(v) \/ WorkerDies(v)
      PROVE  /\ job'[w] = job[w]
             /\ \/ pc[w] = "store" /\ started'[w] = started[w]
                \/ PostAccepted(w)
  <2>1. CASE v # w
    BY <1>2, <2>1, WorkerFrame
  <2>2. CASE v = w
    BY <1>2, <2>2 DEF TypeOK, Goto, EndTask, TakeTask, Work, CheckReservation, PostAccepted, PostRejected,
       PostUnanswered, StoreRefreshId, ReleaseReservation, WorkerDies, workerVars
  <2>3. QED
    BY <2>1, <2>2
<1>3. CASE \/ \E c \in Cancels : \/ CancelReads(c) \/ SelectRun(c) \/ CancelRun(c)
                                 \/ ForgetCancelled(c) \/ CancelDies(c)
           \/ Environment
           \/ UNCHANGED vars
  BY <1>3, OthersFrame DEF workerVars
<1>4. QED
  BY <1>1, <1>2, <1>3, NextCases

LEMMA StepLateRuns ==
    ASSUME IInv, [Next]_vars
    PROVE  LateRunsUnguarded'
<1> SUFFICES ASSUME NEW w \in Workers, pc'[w] = "store", job'[w] \in broken'
             PROVE  started'[w] \in unguarded'
  BY DEF LateRunsUnguarded
<1> USE DEF IInv
<1>1. CASE PostAccepted(w)
  BY <1>1 DEF PostAccepted, TypeOK
<1>2. CASE pc[w] = "store" /\ started'[w] = started[w] /\ job[w] \in broken
  BY <1>2, RunsFrame DEF LateRunsUnguarded
<1>3. CASE pc[w] = "store" /\ started'[w] = started[w] /\ job[w] \notin broken
  <2>1. job[w] \in broken' /\ job[w] \in Requests
    BY <1>3, StoreFrame, BusyWorkersHold DEF Tokens
  <2>2. ASSUME NEW r \in Requests, Trigger(r) \/ TriggerFault(r)
        PROVE  FALSE
    <3>1. job[w] = r /\ api[r] # "accepted"
      BY <1>3, <2>1, <2>2, TriggerFrame DEF Submitting, Reading
    <3>2. QED
      BY <1>3, <2>1, <3>1 DEF TokenInOnePlace, Carries
  <2>3. LockExpires
    <3>1. broken' # broken
      BY <1>3, <2>1
    <3>2. QED
      BY <2>2, <3>1, NextCases, WorkerFrame DEF Environment, CancelReads, SelectRun, CancelRun,
         ForgetCancelled, CancelDies, ForeignRunStarts, RunAppears, RunEnds, GraceEnds,
         TrackingExpires, vars, historyVars
  <2>4. QED
    BY <1>3, <2>1, <2>3 DEF LockExpires
<1>4. QED
  BY <1>1, <1>2, <1>3, StoreFrame

LEMMA StepSoleRun ==
    ASSUME IInv, [Next]_vars
    PROVE  SoleRun'
<1> SUFFICES ASSUME NEW w \in Workers, pc'[w] = "store", job'[w] \notin broken'
             PROVE  Guarded' \subseteq {started'[w]}
  BY DEF SoleRun
<1>1. job'[w] = job[w] /\ job[w] \notin broken /\ pc[w] # "idle"
  BY StoreFrame, RunsFrame DEF IInv, PostAccepted
<1>2. job[w] \in Requests \ broken /\ Held(job[w])
  BY <1>1, BusyWorkersHold DEF IInv, Tokens
<1>3. CASE pc[w] = "store" /\ started'[w] = started[w]
  <2>1. Guarded \subseteq {started[w]}
    BY <1>1, <1>3 DEF IInv, SoleRun
  <2>2. ASSUME NEW v \in Workers, Carries(v, job[w]), pc[v] = "post"
        PROVE  FALSE
    BY <1>2, <1>3, <2>2 DEF IInv, TokenInOnePlace, Carries
  <2>3. QED
    BY <1>2, <1>3, <2>1, <2>2, OnlyHolderStarts
<1>4. CASE PostAccepted(w)
  BY <1>4 DEF IInv, TypeOK, PostAccepted, StartRun, Guarded, Active
<1>5. QED
  BY <1>3, <1>4, StoreFrame DEF IInv

LEMMA StepNothingRuns ==
    ASSUME IInv, [Next]_vars
    PROVE  NothingRuns'
<1> SUFFICES ASSUME NEW r \in Requests \ broken', Cleared(r)'
             PROVE  Guarded' = {}
  BY DEF NothingRuns
<1> USE DEF IInv
<1>1. r \notin broken
  BY RunsFrame
<1>2. CASE Cleared(r)
  <2>1. Held(r) /\ Guarded = {}
    BY <1>1, <1>2 DEF NothingRuns, Cleared, Held, Submitting, Reading
  <2>2. ASSUME NEW w \in Workers, Carries(w, r), pc[w] = "post", pc'[w] = "store"
        PROVE  FALSE
    <3>1. /\ api[r] = "accepted" /\ ~Queued(r)
          /\ \A v \in Workers \ {w} : ~Carries(v, r)
      BY <1>1, <2>2 DEF TokenInOnePlace
    <3>2. PostAccepted(w)
      BY <2>2, StoreFrame
    <3>3. UNCHANGED <<api, queue, job>>
      BY <3>2 DEF PostAccepted, redisVars, apiVars
    <3>4. QED
      BY <2>2, <3>1, <3>3 DEF Cleared, Queued, Carries
  <2>3. QED
    BY <1>1, <2>1, <2>2, OnlyHolderStarts
<1>3. CASE ~Cleared(r)
  <2>1. ListRefreshes(r) /\ api'[r] = "forget"
    <3>1. ASSUME NEW q \in Requests, Trigger(q) \/ TriggerFault(q)
          PROVE  ListRefreshes(r) /\ api'[r] = "forget"
      <4>1. UNCHANGED <<pc, job>> /\ (q # r => api'[r] = api[r] /\ queue'[r] = queue[r])
        BY <3>1, TriggerFrame DEF workerVars
      <4>2. q = r
        BY <1>3, <4>1 DEF Cleared, Queued, Carries
      <4>3. api'[r] \in {"forget", "enqueue"} \/ api[r] = "enqueue" \/ UNCHANGED queue
        BY <3>1, <4>2, TriggerFrame
      <4>4. api'[r] \in {"forget", "enqueue"} /\ api[r] \notin {"forget", "enqueue"}
        BY <1>3, <4>1, <4>3 DEF Cleared, Queued, Carries
      <4>5. QED
        BY <3>1, <4>2, <4>4 DEF TypeOK, At, Continue, Trigger, TriggerFault, Reserve, ReadTracking,
           ReadTrackingFails, ListRefreshes, ListRefreshesFails, ForgetPastRun, Enqueue, EnqueueFails,
           UndoReservation, TriggerDies
    <3>2. ASSUME NEW w \in Workers, \/ \E q \in Requests : TakeTask(w, q)
                                   \/ Work(w) \/ PostUnanswered(w) \/ WorkerDies(w)
          PROVE  FALSE
      <4> USE DEF TypeOK, Cleared, Queued, Carries, Goto, EndTask, redisVars, apiVars, workerVars
      <4>1. CASE \E q \in Requests : TakeTask(w, q)
        BY <1>3, <4>1 DEF TakeTask
      <4>2. CASE Work(w)
        BY <1>3, <4>2, ConstantsOK DEF Work, CheckReservation, PostAccepted, PostRejected, StoreRefreshId,
           ReleaseReservation
      <4>3. CASE PostUnanswered(w) \/ WorkerDies(w)
        BY <1>3, <4>3, ConstantsOK DEF PostUnanswered, WorkerDies
      <4>4. QED
        BY <3>2, <4>1, <4>2, <4>3
    <3>3. CASE \/ \E c \in Cancels : \/ CancelReads(c) \/ SelectRun(c) \/ CancelRun(c)
                                     \/ ForgetCancelled(c) \/ CancelDies(c)
               \/ Environment
               \/ UNCHANGED vars
      BY <1>3, <3>3, OthersFrame DEF Cleared, Queued, Carries, workerVars
    <3>4. QED
      BY <3>1, <3>2, <3>3, NextCases
  <2>2. api[r] = "list" /\ Unoccupied(r) /\ UNCHANGED <<powerbiVars, unguarded>>
    BY <2>1 DEF ListRefreshes, At, Continue, TypeOK, historyVars
  <2>3. ASSUME NEW i \in Guarded
        PROVE  FALSE
    <3>1. i \notin listed /\ i \in Runs
      BY <2>2 DEF Unoccupied, Guarded, Active
    <3>2. seen[r].id = i /\ seen[r].recent
      BY <1>1, <2>2, <3>1 DEF TrackingRead
    <3>3. QED
      BY <2>2, <3>1, <3>2, ConstantsOK DEF Unoccupied, NotHidden
  <2>4. QED
    BY <2>2, <2>3 DEF Guarded, Active, powerbiVars
<1>4. QED
  BY <1>2, <1>3

\* While a trigger is at the API with its protection, the only traces of a guarded
\* run are the history and the tracking key.
LEMMA TracesOfGuarded ==
    ASSUME IInv, NEW r \in Requests \ broken, Submitting(r), NEW i \in Guarded \ listed
    PROVE  i = tracked /\ recent
<1> USE DEF IInv
<1>1. ASSUME NEW w \in Workers, pc[w] = "store", started[w] = i
      PROVE  FALSE
  <2>1. job[w] \notin broken
    BY <1>1 DEF LateRunsUnguarded, Guarded
  <2>2. job[w] = r
    BY <1>1, <2>1, OneToken, BusyWorkersHold DEF Tokens, Held
  <2>3. QED
    BY <1>1, <2>2 DEF TokenInOnePlace, Carries, Submitting, Reading
<1>2. QED
  BY <1>1 DEF RunIsFindable, Guarded

LEMMA StepTrackingRead ==
    ASSUME IInv, [Next]_vars
    PROVE  TrackingRead'
<1> SUFFICES ASSUME NEW r \in Requests \ broken', NEW i \in Guarded' \ listed',
                    api'[r] \in {"ttl", "list"}
             PROVE  /\ seen'[r].id = i
                    /\ api'[r] = "list" => seen'[r].recent
  BY DEF TrackingRead
<1> USE DEF IInv
<1>1. r \notin broken /\ i \notin listed
  BY RunsFrame
<1>2. CASE api'[r] = api[r] /\ seen'[r] = seen[r]
  <2>1. Held(r) /\ Submitting(r)
    BY <1>2 DEF Held, Submitting, Reading
  <2>2. \A w \in Workers : ~Carries(w, r)
    BY <1>1, <2>1 DEF TokenInOnePlace, Submitting, Reading
  <2>3. i \in Guarded
    BY <1>1, <2>1, <2>2, OnlyHolderStarts
  <2>4. QED
    BY <1>1, <1>2, <2>3 DEF TrackingRead
<1>3. CASE Trigger(r) \/ TriggerFault(r)
  <2>1. i \in Guarded /\ i \in Runs
    BY <1>3, TriggerFrame DEF Guarded, Active, powerbiVars
  <2>2. /\ ReadTracking(r)
        /\ \/ /\ api[r] = "read" /\ seen' = [seen EXCEPT ![r].id = tracked]
              /\ api'[r] = IF tracked = None THEN "list" ELSE "ttl"
           \/ api[r] = "ttl" /\ seen' = [seen EXCEPT ![r].recent = recent]
    BY <1>3 DEF Trigger, TriggerFault, Reserve, ReadTracking, ReadTrackingFails, ListRefreshes,
       ListRefreshesFails, ForgetPastRun, Enqueue, EnqueueFails, UndoReservation, TriggerDies,
       At, Continue, TypeOK
  <2>3. i = tracked /\ recent
    BY <1>1, <2>1, <2>2, TracesOfGuarded DEF Submitting, Reading
  <2>4. seen[r] \in Tracking /\ (api[r] = "ttl" => seen[r].id = i)
    BY <1>1, <2>1 DEF TrackingRead, TypeOK
  <2>5. QED
    BY <2>1, <2>2, <2>3, <2>4, ConstantsOK DEF TypeOK, Tracking
<1>4. QED
  <2>1. ASSUME NEW q \in Requests, q # r, Trigger(q) \/ TriggerFault(q)
        PROVE  api'[r] = api[r] /\ seen'[r] = seen[r]
    BY <2>1, TriggerFrame
  <2>2. ASSUME NEW w \in Workers, \/ \E q \in Requests : TakeTask(w, q)
                                 \/ Work(w) \/ PostUnanswered(w) \/ WorkerDies(w)
        PROVE  api'[r] = api[r] /\ seen'[r] = seen[r]
    BY <2>2, WorkerFrame DEF apiVars
  <2>3. CASE \/ \E c \in Cancels : \/ CancelReads(c) \/ SelectRun(c) \/ CancelRun(c)
                                   \/ ForgetCancelled(c) \/ CancelDies(c)
             \/ Environment
             \/ UNCHANGED vars
    BY <1>2, <2>3, OthersFrame
  <2>4. QED
    BY <1>2, <1>3, <2>1, <2>2, <2>3, NextCases

\* A guarded run that only the tracking key shows is not forgotten: it stays under the
\* key, or is listed or counted as unguarded by then.
LEMMA TrackingFrame ==
    ASSUME IInv, [Next]_vars, NEW i \in Guarded \ listed, i = tracked, recent, i \in Active'
    PROVE  (i = tracked' /\ recent') \/ i \in unguarded'
<1> USE DEF IInv
<1>1. CASE UNCHANGED <<tracked, recent>>
  BY <1>1
<1>2. i \in OnlyTracked
  BY DEF OnlyTracked, Guarded
<1>3. ASSUME NEW r \in Requests, ForgetPastRun(r)
      PROVE  (i = tracked' /\ recent') \/ i \in unguarded'
  <2>1. CASE r \in broken
    BY <1>2, <1>3, <2>1 DEF ForgetPastRun
  <2>2. CASE r \notin broken
    BY <1>3, <2>2 DEF ForgetPastRun, At, NothingRuns, Cleared
  <2>3. QED
    BY <2>1, <2>2
<1>4. ASSUME NEW w \in Workers, StoreRefreshId(w)
      PROVE  (i = tracked' /\ recent') \/ i \in unguarded'
  BY <1>2, <1>4 DEF StoreRefreshId, SoleRun
<1>5. ASSUME NEW c \in Cancels, ForgetCancelled(c)
      PROVE  (i = tracked' /\ recent') \/ i \in unguarded'
  BY <1>2, <1>5 DEF ForgetCancelled
<1>6. ~GraceEnds /\ ~TrackingExpires
  BY DEF GraceEnds, TrackingExpires, Guarded
<1>7. QED
  BY <1>1, <1>3, <1>4, <1>5, <1>6 DEF Next, Trigger, TriggerFault, Work, Reserve, ReadTracking,
     ReadTrackingFails, ListRefreshes, ListRefreshesFails, Enqueue, EnqueueFails, UndoReservation,
     TriggerDies, TakeTask, CheckReservation, PostAccepted, PostRejected, PostUnanswered,
     ReleaseReservation, WorkerDies, CancelReads, SelectRun, CancelRun, CancelDies,
     ForeignRunStarts, RunAppears, RunEnds, LockExpires, vars, redisVars

\* A worker leaves "store" with the id of its run stored, or dies and loses it.
LEMMA LeavingStore ==
    ASSUME IInv, [Next]_vars, NEW w \in Workers, pc[w] = "store"
    PROVE  \/ pc'[w] = "store" /\ started'[w] = started[w]
           \/ tracked' = started[w] /\ recent'
           \/ started[w] \in unguarded'
<1>1. ASSUME NEW v \in Workers, \/ \E r \in Requests : TakeTask(v, r)
                               \/ Work(v) \/ PostUnanswered(v) \/ WorkerDies(v)
      PROVE  \/ pc'[w] = "store" /\ started'[w] = started[w]
             \/ tracked' = started[w] /\ recent'
             \/ started[w] \in unguarded'
  <2>1. CASE v # w
    BY <1>1, <2>1, WorkerFrame DEF IInv
  <2>2. CASE v = w
    BY <1>1, <2>2 DEF TakeTask, Work, CheckReservation, PostAccepted, PostRejected, PostUnanswered,
       StoreRefreshId, ReleaseReservation, WorkerDies
  <2>3. QED
    BY <2>1, <2>2
<1>2. QED
  BY <1>1, NextCases, TriggerFrame, OthersFrame DEF IInv, workerVars

LEMMA StepFindable ==
    ASSUME IInv, TypeOK', [Next]_vars
    PROVE  RunIsFindable'
<1> SUFFICES ASSUME NEW i \in Active' \cap portal', i \notin unguarded', i \notin listed'
             PROVE  \/ i = tracked' /\ recent'
                    \/ \E w \in Workers : pc'[w] = "store" /\ started'[w] = i
  BY DEF RunIsFindable
<1> USE DEF IInv
<1>1. CASE i \in Guarded
  <2>1. i \notin listed /\ i \in Active \cap portal /\ i \notin unguarded
    BY <1>1, RunsFrame DEF Guarded
  <2>2. CASE i = tracked /\ recent
    BY <1>1, <2>1, <2>2, TrackingFrame
  <2>3. CASE \E w \in Workers : pc[w] = "store" /\ started[w] = i
    BY <2>3, LeavingStore
  <2>4. QED
    BY <2>1, <2>2, <2>3 DEF RunIsFindable
<1>2. CASE i \notin Guarded
  BY <1>2, GuardedFrame DEF Guarded
<1>3. QED
  BY <1>1, <1>2

-----------------------------------------------------------------------------
\* IInv is inductive.
LEMMA StepIInv == IInv /\ [Next]_vars => IInv'
<1> SUFFICES ASSUME IInv, [Next]_vars PROVE IInv'
  OBVIOUS
<1>1. Tokens'
  BY StepTokens DEF IInv, Tokens
<1>2. PortalRunsStarted'
  BY <1>1, StepPortal DEF IInv, Tokens
<1>3. LateRunsUnguarded' /\ SoleRun' /\ TrackingRead' /\ NothingRuns'
  BY StepLateRuns, StepSoleRun, StepTrackingRead, StepNothingRuns
<1>4. RunIsFindable'
  BY <1>1, StepFindable DEF Tokens
<1>5. QED
  BY <1>1, <1>2, <1>3, <1>4 DEF IInv, Tokens

\* The inductive invariant holds in every reachable state.
THEOREM Invariance == Spec => []IInv
BY InitIInv, StepIInv, PTL DEF Spec

\* Every reachable state is well-typed: no more copies of a task, faults or labels than
\* the code has.
THEOREM TypeCorrect == Spec => []TypeOK
<1>1. IInv => TypeOK
  BY DEF IInv
<1>2. QED
  BY <1>1, Invariance, PTL

\* The Redis reservation excludes: two triggers are in charge of the dataset at a time only
\* if the lock expired under one of them, Redis failed it, or its task was published twice.
THEOREM ReservationsExclude == Spec => []ReservationExclusion
<1>1. ASSUME IInv, NEW r \in Requests, InCharge(r)
      PROVE  Held(r)
  BY <1>1 DEF InCharge, Held, Submitting, Carries
<1>2. IInv => ReservationExclusion
  BY <1>1, OneToken DEF IInv, Tokens, ReservationExclusion
<1>3. QED
  BY <1>2, Invariance, PTL

\* A run that the portal started is in the refresh history, under the tracking key, or
\* with the worker that is about to store it, unless it was lost or started unprotected.
THEOREM RunsAreFindable == Spec => []RunIsFindable
<1>1. IInv => RunIsFindable
  BY DEF IInv
<1>2. QED
  BY <1>1, Invariance, PTL

\* A worker whose reservation still protects the dataset never sends its POST over an
\* active run of the portal.
THEOREM NoPostOverRun == Spec => []NoDoublePost
<1>1. ASSUME IInv PROVE NoDoublePost
  <2> SUFFICES ASSUME NEW w \in Workers, pc[w] = "post", job[w] \notin broken
               PROVE  Guarded = {}
    BY DEF NoDoublePost, Guarded
  <2>1. job[w] \in Requests \ broken
    BY <1>1, BusyWorkersHold DEF IInv, Tokens
  <2>2. QED
    BY <1>1, <2>1 DEF IInv, NothingRuns, Cleared, Carries
<1>2. QED
  BY <1>1, Invariance, PTL

-----------------------------------------------------------------------------
(* The sessions of an account. Two chains meet in the row lock: what a     *)
(* login has read of the row stays true while it holds the lock            *)
(* (LoginsKnow), and a request that writes the row holds it from SMEMBERS  *)
(* to the commit, so that no session is added to those it has still to end *)
(* (EndsAll).                                                              *)

\* Requests are told apart, and nobody is one of them.
SessionConstants ==
    /\ Logins \cap Changes = {}
    /\ Nobody \notin Logins \cup Changes
    /\ IsFiniteSet(Changes)

\* A login has the row lock from the flush of its UPDATE to the commit.
Locking == {"locked", "stored", "indexed"}

\* A session that its user can use and administrators were told about.
Usable(l) == l \in keys /\ l \notin missed

-----------------------------------------------------------------------------
LoginAt  == {"idle", "verified", "in", "out"} \cup Locking
ChangeAt == {"idle", "read", "clearing", "cleared", "done"}

\* SessionTypeOK without the bound of the password, which Counted adds.
SessionTyped ==
    /\ row \in [exists : BOOLEAN, active : BOOLEAN, password : Nat]
    /\ holder \in Logins \cup Changes \cup {Nobody}
    /\ keys \subseteq Logins /\ indexed \subseteq Logins /\ missed \subseteq Logins
    /\ login \in [Logins -> [at : LoginAt, seen : Nat]]
    /\ change \in [Changes -> [at : ChangeAt, kind : Kinds, active : BOOLEAN,
                               doomed : SUBSET Logins]]

\* The row lock is with the login that flushed, or with the request that
\* flushed or read FOR UPDATE; and the row it locks exists.
LoginsLock == \A l \in Logins : holder = l <=> login[l].at \in Locking
ChangesLock ==
    \A c \in Changes :
        holder = c <=> \/ change[c].at \in {"clearing", "cleared"} /\ Writes(c)
                       \/ change[c].at = "read" /\ change[c].kind = "delete"
HolderHasRow == holder # Nobody => row.exists

\* What a login has read of the row is still so, unless it was overtaken.
Agrees(l) == row.exists /\ row.active /\ login[l].seen = row.password
LoginsKnow ==
    \A l \in Logins :
        /\ login[l].at \in {"verified"} \cup Locking /\ l \notin missed => Agrees(l)
        /\ login[l].at = "in" /\ Usable(l) => Agrees(l)

\* A session is indexed from SADD on.
SessionsListed ==
    \A l \in Logins :
        login[l].at \in {"indexed", "in"} /\ Usable(l) => l \in indexed

\* A request that holds the lock and ends sessions has every one before it,
\* and none after it.
EndsAll ==
    \A c \in Changes :
        /\ change[c].at = "clearing" => change[c].kind # "enable"
        /\ holder = c /\ change[c].kind # "enable" /\ change[c].at # "read" =>
              \A l \in Logins : login[l].at = "in" /\ Usable(l) =>
                  change[c].at = "clearing" /\ l \in change[c].doomed

\* Passwords are those of requests that are done.
Finished == {c \in Changes : change[c].at = "done"}
Counted ==
    /\ row.password <= Cardinality(Finished)
    /\ \A l \in Logins : login[l].seen <= row.password

SessionIInv ==
    /\ SessionTyped
    /\ LoginsLock /\ ChangesLock /\ HolderHasRow
    /\ LoginsKnow /\ SessionsListed /\ EndsAll
    /\ Counted

-----------------------------------------------------------------------------
\* A login that goes on changes its own label, and nothing it has read.
LEMMA LoginFrame ==
    ASSUME SessionTyped, NEW l \in Logins, NEW from, NEW to \in LoginAt,
           LoginGoes(l, from, to)
    PROVE  /\ login' \in [Logins -> [at : LoginAt, seen : Nat]]
           /\ login[l].at = from /\ login'[l].at = to
           /\ login'[l].seen = login[l].seen
           /\ \A k \in Logins \ {l} : login'[k] = login[k]
BY DEF LoginGoes, SessionTyped

\* A request that goes on keeps what it does and what it has read of the row.
LEMMA ChangeGoes ==
    ASSUME SessionTyped, NEW c \in Changes, NEW to \in ChangeAt,
           change' = [change EXCEPT ![c].at = to]
    PROVE  /\ change' \in [Changes -> [at : ChangeAt, kind : Kinds,
                                       active : BOOLEAN, doomed : SUBSET Logins]]
           /\ change'[c].at = to /\ change'[c].doomed = change[c].doomed
           /\ change'[c].kind = change[c].kind
           /\ change'[c].active = change[c].active
           /\ \A d \in Changes \ {c} : change'[d] = change[d]
BY DEF SessionTyped

\* No request that is done is undone, so Finished only grows.
LEMMA FinishedGrows ==
    ASSUME SessionConstants, Counted, row' \in [exists : BOOLEAN, active : BOOLEAN,
                                                password : Nat],
           row.password \in Nat,
           row'.password = row.password,
           \A c \in Changes : change[c].at = "done" => change'[c].at = "done",
           \A l \in Logins : login'[l].seen = login[l].seen
                                \/ login'[l].seen = row.password
    PROVE  Counted'
<1>1. Finished \subseteq Finished' /\ IsFiniteSet(Finished')
  <2>1. Finished' \subseteq Changes
    BY DEF Finished
  <2>2. QED
    BY <2>1, FS_Subset DEF SessionConstants, Finished
<1>2. Cardinality(Finished) <= Cardinality(Finished') /\ IsFiniteSet(Finished)
  BY <1>1, FS_Subset
<1>3. Cardinality(Finished) \in Nat /\ Cardinality(Finished') \in Nat
  BY <1>1, <1>2, FS_CardinalityType
<1>4. QED
  BY <1>2, <1>3 DEF Counted

-----------------------------------------------------------------------------
\* No request changes: what SessionIInv says of requests stays, if the lock of each
\* stays and no session is added to the usable ones.
LEMMA LoginNextIInv ==
    ASSUME SessionConstants, SessionIInv, NEW l \in Logins,
           \/ LoginVerifies(l) \/ LoginLocks(l) \/ LoginStores(l) \/ LoginLists(l)
           \/ LoginCommits(l) \/ LoginDies(l) \/ SessionExpires(l) \/ Logout(l)
    PROVE  SessionIInv'
<1>0. /\ SessionTyped /\ LoginsLock /\ ChangesLock /\ HolderHasRow
      /\ LoginsKnow /\ SessionsListed /\ EndsAll /\ Counted
  BY DEF SessionIInv
<1>1. /\ UNCHANGED <<row, change, missed>>
      /\ row \in [exists : BOOLEAN, active : BOOLEAN, password : Nat]
  BY <1>0 DEF SessionTyped, LoginVerifies, LoginLocks, LoginStores, LoginLists,
     LoginCommits, LoginDies, SessionExpires, Logout
<1>2. ASSUME login' \in [Logins -> [at : LoginAt, seen : Nat]],
             \A k \in Logins : \/ login'[k].seen = login[k].seen
                                \/ login'[k].seen = row.password
      PROVE  Counted'
  <2>1. \A c \in Changes : change[c].at = "done" => change'[c].at = "done"
    BY <1>1
  <2>2. row.password \in Nat
    BY <1>1
  <2>3. QED
    BY <1>0, <1>1, <1>2, <2>1, <2>2, FinishedGrows
<1>3. ASSUME UNCHANGED holder, LoginsLock' PROVE (LoginsLock /\ ChangesLock /\ HolderHasRow)'
  BY <1>0, <1>1, <1>3 DEF ChangesLock, HolderHasRow, Writes
<1>4. CASE LoginVerifies(l)
  <2>1. /\ UNCHANGED <<holder, keys, indexed>> /\ login[l].at = "idle"
        /\ row.exists /\ row.active
        /\ login' = [login EXCEPT ![l] = [at |-> "verified", seen |-> row.password]]
    BY <1>4 DEF LoginVerifies
  <2>2. /\ login'[l].at = "verified" /\ login'[l].seen = row.password
        /\ \A k \in Logins \ {l} : login'[k] = login[k]
        /\ login' \in [Logins -> [at : LoginAt, seen : Nat]]
    BY <1>0, <1>1, <2>1 DEF SessionTyped, LoginAt
  <2>3. SessionTyped' /\ Counted'
    BY <1>0, <1>1, <1>2, <2>1, <2>2 DEF SessionTyped
  <2>4. LoginsLock'
    BY <1>0, <2>1, <2>2 DEF LoginsLock, Locking
  <2>5. (LoginsKnow /\ SessionsListed /\ EndsAll)'
    BY <1>0, <1>1, <2>1, <2>2
       DEF LoginsKnow, SessionsListed, EndsAll, Usable, Agrees, Locking
  <2>6. QED
    BY <1>3, <2>1, <2>3, <2>4, <2>5 DEF SessionIInv
<1>5. CASE LoginLocks(l)
  <2>1. /\ UNCHANGED <<keys, indexed>> /\ holder = Nobody
        /\ \/ row.exists /\ LoginGoes(l, "verified", "locked") /\ holder' = l
           \/ ~row.exists /\ LoginGoes(l, "verified", "out") /\ holder' = holder
    BY <1>5 DEF LoginLocks
  <2>2. /\ login[l].at = "verified"
        /\ \/ row.exists /\ login'[l].at = "locked" /\ holder' = l
           \/ ~row.exists /\ login'[l].at = "out" /\ holder' = holder
        /\ login'[l].seen = login[l].seen
        /\ \A k \in Logins \ {l} : login'[k] = login[k]
        /\ login' \in [Logins -> [at : LoginAt, seen : Nat]]
    BY <1>0, <2>1, LoginFrame DEF LoginAt, Locking
  <2>3. SessionTyped' /\ Counted'
    BY <1>0, <1>1, <1>2, <2>1, <2>2 DEF SessionTyped
  <2>4. LoginsLock'
    BY <1>0, <2>1, <2>2 DEF LoginsLock, Locking, SessionConstants
  <2>5. ChangesLock' /\ HolderHasRow'
    BY <1>0, <1>1, <2>1, <2>2
       DEF ChangesLock, HolderHasRow, Writes, SessionConstants
  <2>6. (LoginsKnow /\ SessionsListed /\ EndsAll)'
    BY <1>0, <1>1, <2>1, <2>2
       DEF LoginsKnow, SessionsListed, EndsAll, Usable, Agrees, Locking,
           SessionConstants
  <2>7. QED
    BY <2>3, <2>4, <2>5, <2>6 DEF SessionIInv
<1>6. CASE LoginStores(l) \/ LoginLists(l)
  <2>1. /\ UNCHANGED holder
        /\ \/ LoginGoes(l, "locked", "stored") /\ keys' = keys \cup {l} /\ indexed' = indexed
           \/ LoginGoes(l, "stored", "indexed") /\ keys' = keys /\ indexed' = indexed \cup {l}
    BY <1>6 DEF LoginStores, LoginLists
  <2>2. /\ \/ /\ login[l].at = "locked" /\ login'[l].at = "stored"
              /\ keys' = keys \cup {l} /\ indexed' = indexed
           \/ /\ login[l].at = "stored" /\ login'[l].at = "indexed"
              /\ keys' = keys /\ indexed' = indexed \cup {l}
        /\ login'[l].seen = login[l].seen
        /\ \A k \in Logins \ {l} : login'[k] = login[k]
        /\ login' \in [Logins -> [at : LoginAt, seen : Nat]]
    BY <1>0, <2>1, LoginFrame DEF LoginAt, Locking
  <2>3. SessionTyped' /\ Counted'
    BY <1>0, <1>1, <1>2, <2>1, <2>2 DEF SessionTyped
  <2>4. LoginsLock'
    BY <1>0, <2>1, <2>2 DEF LoginsLock, Locking
  <2>5. (LoginsKnow /\ SessionsListed /\ EndsAll)'
    BY <1>0, <1>1, <2>1, <2>2
       DEF LoginsKnow, SessionsListed, EndsAll, Usable, Agrees, Locking
  <2>6. QED
    BY <1>3, <2>1, <2>3, <2>4, <2>5 DEF SessionIInv
<1>7. CASE LoginCommits(l) \/ LoginDies(l)
  <2>1. /\ UNCHANGED <<keys, indexed>> /\ holder' = Unlocked(l)
        /\ \/ LoginGoes(l, "indexed", "in")
           \/ \E at \in {"verified"} \cup Locking : LoginGoes(l, at, "out")
    BY <1>7 DEF LoginCommits, LoginDies, Locking
  <2>2. /\ \/ login[l].at = "indexed" /\ login'[l].at = "in"
           \/ login[l].at \in {"verified"} \cup Locking /\ login'[l].at = "out"
        /\ login'[l].seen = login[l].seen
        /\ \A k \in Logins \ {l} : login'[k] = login[k]
        /\ login' \in [Logins -> [at : LoginAt, seen : Nat]]
    BY <1>0, <2>1, LoginFrame DEF LoginAt
  <2>3. holder' = IF holder = l THEN Nobody ELSE holder
    BY <2>1 DEF Unlocked
  <2>4. SessionTyped' /\ Counted'
    BY <1>0, <1>1, <1>2, <2>1, <2>2, <2>3 DEF SessionTyped
  <2>5. LoginsLock'
    BY <1>0, <2>2, <2>3 DEF LoginsLock, Locking, SessionConstants
  <2>6. ChangesLock' /\ HolderHasRow'
    BY <1>0, <1>1, <2>3 DEF ChangesLock, HolderHasRow, Writes, SessionConstants
  <2>7. (LoginsKnow /\ SessionsListed)'
    BY <1>0, <1>1, <2>1, <2>2
       DEF LoginsKnow, SessionsListed, Usable, Agrees, Locking
  <2>8. EndsAll'
    BY <1>0, <1>1, <2>1, <2>2, <2>3
       DEF EndsAll, Usable, LoginsLock, Locking, SessionConstants
  <2>9. QED
    BY <2>4, <2>5, <2>6, <2>7, <2>8 DEF SessionIInv
<1>8. CASE SessionExpires(l) \/ Logout(l)
  <2>1. /\ UNCHANGED <<holder, login>> /\ keys' = keys \ {l}
        /\ indexed' = indexed \/ indexed' = indexed \ {l}
    BY <1>8 DEF SessionExpires, Logout
  <2>2. SessionTyped' /\ Counted'
    BY <1>0, <1>1, <1>2, <2>1 DEF SessionTyped
  <2>3. LoginsLock'
    BY <1>0, <2>1 DEF LoginsLock
  <2>4. (LoginsKnow /\ SessionsListed /\ EndsAll)'
    BY <1>0, <1>1, <2>1 DEF LoginsKnow, SessionsListed, EndsAll, Usable, Agrees
  <2>5. QED
    BY <1>3, <2>1, <2>2, <2>3, <2>4 DEF SessionIInv
<1>9. QED
  BY <1>4, <1>5, <1>6, <1>7, <1>8

-----------------------------------------------------------------------------
\* Requests until the commit: the row stays, and so does what logins know.
LEMMA ChangeNextIInv ==
    ASSUME SessionConstants, SessionIInv, NEW c \in Changes,
           \/ \E kind \in Kinds : ChangeReads(c, kind)
           \/ ChangeFlushes(c) \/ ChangeForgets(c) \/ ChangeDies(c)
           \/ \E l \in Logins : ChangeEnds(c, l)
    PROVE  SessionIInv'
<1>0. /\ SessionTyped /\ LoginsLock /\ ChangesLock /\ HolderHasRow
      /\ LoginsKnow /\ SessionsListed /\ EndsAll /\ Counted
  BY DEF SessionIInv
<1>1. /\ UNCHANGED <<row, login>> /\ change[c].at # "done"
      /\ row \in [exists : BOOLEAN, active : BOOLEAN, password : Nat]
      /\ change[c] \in [at : ChangeAt, kind : Kinds, active : BOOLEAN,
                        doomed : SUBSET Logins]
  BY <1>0 DEF SessionTyped, ChangeReads, ChangeFlushes, ChangeForgets, ChangeDies,
     ChangeEnds
<1>2. ASSUME \A d \in Changes \ {c} : change'[d] = change[d] PROVE Counted'
  <2>1. \A d \in Changes : change[d].at = "done" => change'[d].at = "done"
    BY <1>1, <1>2
  <2>2. /\ row.password \in Nat /\ row'.password = row.password
        /\ \A l \in Logins : login'[l].seen = login[l].seen
    BY <1>1
  <2>3. QED
    BY <1>0, <1>1, <2>1, <2>2, FinishedGrows
<1>3. ASSUME UNCHANGED keys, missed \subseteq missed' PROVE LoginsKnow'
  BY <1>0, <1>1, <1>3 DEF LoginsKnow, Usable, Agrees
<1>4. CASE \E kind \in Kinds : ChangeReads(c, kind)
  <2>1. PICK kind \in Kinds : ChangeReads(c, kind)
    BY <1>4
  <2>2. /\ UNCHANGED <<keys, indexed, missed>> /\ change[c].at = "idle" /\ row.exists
        /\ change' = [change EXCEPT ![c] = [at |-> "read", kind |-> kind,
                                           active |-> row.active, doomed |-> {}]]
        /\ kind = "delete" => holder = Nobody
        /\ holder' = IF kind = "delete" THEN c ELSE holder
    BY <2>1 DEF ChangeReads
  <2>3. /\ change'[c].at = "read" /\ change'[c].kind = kind
        /\ \A d \in Changes \ {c} : change'[d] = change[d]
        /\ change' \in [Changes -> [at : ChangeAt, kind : Kinds, active : BOOLEAN,
                                    doomed : SUBSET Logins]]
    BY <1>0, <1>1, <2>2 DEF SessionTyped, ChangeAt
  <2>4. SessionTyped' /\ Counted'
    BY <1>0, <1>1, <1>2, <2>2, <2>3 DEF SessionTyped
  <2>5. LoginsLock' /\ HolderHasRow'
    BY <1>0, <1>1, <2>2 DEF LoginsLock, HolderHasRow, SessionConstants, Locking
  <2>6. ChangesLock'
    BY <1>0, <1>1, <2>2, <2>3 DEF ChangesLock, Writes, SessionConstants
  <2>7. SessionsListed' /\ EndsAll'
    BY <1>0, <1>1, <2>2, <2>3 DEF SessionsListed, EndsAll, Usable, SessionConstants
  <2>8. QED
    BY <1>3, <2>2, <2>4, <2>5, <2>6, <2>7 DEF SessionIInv
<1>5. CASE ChangeFlushes(c)
  <2> DEFINE gone == Writes(c) /\ ~row.exists
             to == IF gone THEN "done"
                   ELSE IF change[c].kind = "enable" THEN "cleared" ELSE "clearing"
             ds == IF gone \/ change[c].kind = "enable" THEN {} ELSE indexed
  <2>1. /\ UNCHANGED <<keys, indexed, missed>> /\ change[c].at = "read"
        /\ Writes(c) => holder \in {Nobody, c}
        /\ change' = [change EXCEPT ![c].at = to, ![c].doomed = ds]
        /\ holder' = IF Writes(c) /\ ~gone THEN c ELSE holder
    BY <1>5 DEF ChangeFlushes
  <2>2. /\ to \in ChangeAt /\ ds \in SUBSET Logins
        /\ change' = [change EXCEPT ![c].at = to, ![c].doomed = ds]
    BY <1>0, <2>1 DEF SessionTyped, ChangeAt
  <2> HIDE DEF to, ds
  <2>3. /\ change'[c].at = to /\ change'[c].doomed = ds
        /\ change'[c].kind = change[c].kind /\ change'[c].active = change[c].active
        /\ \A d \in Changes \ {c} : change'[d] = change[d]
        /\ change' \in [Changes -> [at : ChangeAt, kind : Kinds, active : BOOLEAN,
                                    doomed : SUBSET Logins]]
    BY <1>0, <2>2 DEF SessionTyped
  <2>4. SessionTyped' /\ Counted'
    BY <1>0, <1>1, <1>2, <2>1, <2>3 DEF SessionTyped
  <2>5. \A d \in Changes : Writes(d)' <=> Writes(d)
    BY <2>3 DEF Writes
  <2>6. holder = c => ~gone /\ Writes(c)
    BY <1>0, <2>1 DEF ChangesLock, HolderHasRow, Writes, SessionConstants
  <2>7. LoginsLock' /\ HolderHasRow'
    BY <1>0, <1>1, <2>1 DEF LoginsLock, HolderHasRow, SessionConstants, Locking
  <2>8. ChangesLock'
    <3>1. ASSUME NEW d \in Changes, d # c
          PROVE  (holder = d <=> holder' = d) /\ change'[d] = change[d]
      BY <2>1, <2>3, <3>1 DEF SessionConstants
    <3>2. holder' = c <=> to \in {"clearing", "cleared"} /\ Writes(c)
      BY <2>1, <2>6 DEF to
    <3>3. to # "read"
      BY DEF to
    <3>4. QED
      BY <1>0, <2>3, <2>5, <3>1, <3>2, <3>3 DEF ChangesLock
  <2>9. SessionsListed'
    BY <1>0, <1>1, <2>1 DEF SessionsListed, Usable
  <2>10. EndsAll'
    <3>1. ASSUME NEW l \in Logins, login'[l].at = "in", Usable(l)',
                 holder' = c, change[c].kind # "enable"
          PROVE  to = "clearing" /\ l \in ds
      <4>1. l \in indexed
        BY <1>0, <1>1, <2>1, <3>1 DEF SessionsListed, Usable
      <4>2. ~gone
        BY <2>1, <2>6, <3>1
      <4>3. QED
        BY <3>1, <4>1, <4>2 DEF to, ds
    <3>2. ASSUME NEW d \in Changes, d # c, holder' = d
          PROVE  holder = d /\ change'[d] = change[d]
      BY <2>1, <2>3, <3>2
    <3>3. ASSUME NEW d \in Changes, d # c
          PROVE  /\ change'[d].at = "clearing" => change'[d].kind # "enable"
                 /\ /\ holder' = d /\ change'[d].kind # "enable"
                    /\ change'[d].at # "read"
                    => \A l \in Logins : login'[l].at = "in" /\ Usable(l)' =>
                         change'[d].at = "clearing" /\ l \in change'[d].doomed
      BY <1>0, <1>1, <2>1, <2>3, <3>2, <3>3 DEF EndsAll, Usable
    <3>4. change'[c].at = "clearing" => change'[c].kind # "enable"
      BY <2>3 DEF to
    <3>5. QED
      BY <2>3, <3>1, <3>3, <3>4 DEF EndsAll
  <2>11. QED
    BY <1>3, <2>1, <2>4, <2>7, <2>8, <2>9, <2>10 DEF SessionIInv
<1>6. CASE \E l \in Logins : ChangeEnds(c, l)
  <2>1. PICK l \in Logins : ChangeEnds(c, l)
    BY <1>6
  <2>2. /\ UNCHANGED <<holder, indexed, missed>> /\ change[c].at = "clearing"
        /\ keys' = keys \ {l}
        /\ change' = [change EXCEPT ![c].doomed = @ \ {l}]
    BY <2>1 DEF ChangeEnds
  <2>3. /\ change'[c].at = "clearing" /\ change'[c].doomed = change[c].doomed \ {l}
        /\ change'[c].kind = change[c].kind /\ change'[c].active = change[c].active
        /\ \A d \in Changes \ {c} : change'[d] = change[d]
        /\ change' \in [Changes -> [at : ChangeAt, kind : Kinds, active : BOOLEAN,
                                    doomed : SUBSET Logins]]
    BY <1>0, <1>1, <2>2 DEF SessionTyped
  <2>4. SessionTyped' /\ Counted'
    BY <1>0, <1>1, <1>2, <2>2, <2>3 DEF SessionTyped
  <2>5. LoginsLock' /\ HolderHasRow' /\ ChangesLock'
    BY <1>0, <1>1, <2>2, <2>3 DEF LoginsLock, HolderHasRow, ChangesLock, Writes
  <2>6. LoginsKnow' /\ SessionsListed' /\ EndsAll'
    BY <1>0, <1>1, <2>2, <2>3 DEF LoginsKnow, Agrees, SessionsListed, EndsAll, Usable
  <2>7. QED
    BY <2>4, <2>5, <2>6 DEF SessionIInv
<1>7. CASE ChangeForgets(c)
  <2>1. /\ UNCHANGED <<keys, holder>> /\ change[c].at = "clearing"
        /\ change[c].doomed = {} /\ indexed' = {}
        /\ change' = [change EXCEPT ![c].at = "cleared"]
        /\ missed' = IF holder = c THEN missed ELSE missed \cup (indexed \cap keys)
    BY <1>7 DEF ChangeForgets
  <2>2. /\ change'[c].at = "cleared"
        /\ change'[c].kind = change[c].kind /\ change'[c].active = change[c].active
        /\ \A d \in Changes \ {c} : change'[d] = change[d]
        /\ change' \in [Changes -> [at : ChangeAt, kind : Kinds, active : BOOLEAN,
                                    doomed : SUBSET Logins]]
    BY <1>0, <2>1, ChangeGoes DEF ChangeAt
  <2>3. SessionTyped' /\ Counted'
    BY <1>0, <1>1, <1>2, <2>1, <2>2 DEF SessionTyped
  <2>4. LoginsLock' /\ HolderHasRow' /\ ChangesLock'
    BY <1>0, <1>1, <2>1, <2>2 DEF LoginsLock, HolderHasRow, ChangesLock, Writes
  <2>5. SessionsListed'
    <3>1. ASSUME NEW l \in Logins, login[l].at \in {"indexed", "in"}, Usable(l)',
                 holder = c
          PROVE  FALSE
      <4>1. login[l].at = "in" /\ Usable(l)
        BY <1>0, <2>1, <3>1 DEF LoginsLock, Locking, SessionConstants, Usable
      <4>2. QED
        BY <1>0, <2>1, <3>1, <4>1 DEF EndsAll
    <3>2. ASSUME NEW l \in Logins, login[l].at \in {"indexed", "in"}, Usable(l)',
                 holder # c
          PROVE  FALSE
      BY <1>0, <2>1, <3>2 DEF SessionsListed, Usable
    <3>3. QED
      BY <1>1, <3>1, <3>2 DEF SessionsListed
  <2>6. EndsAll'
    BY <1>0, <1>1, <2>1, <2>2 DEF EndsAll, Usable
  <2>7. QED
    BY <1>3, <2>1, <2>3, <2>4, <2>5, <2>6 DEF SessionIInv
<1>8. CASE ChangeDies(c)
  <2>1. /\ UNCHANGED <<keys, indexed, missed>>
        /\ change' = [change EXCEPT ![c].at = "done"]
        /\ holder' = IF holder = c THEN Nobody ELSE holder
    BY <1>8 DEF ChangeDies, Unlocked
  <2>2. /\ change'[c].at = "done"
        /\ \A d \in Changes \ {c} : change'[d] = change[d]
        /\ change' \in [Changes -> [at : ChangeAt, kind : Kinds, active : BOOLEAN,
                                    doomed : SUBSET Logins]]
    BY <1>0, <2>1, ChangeGoes DEF ChangeAt
  <2>3. SessionTyped' /\ Counted'
    BY <1>0, <1>1, <1>2, <2>1, <2>2 DEF SessionTyped
  <2>4. LoginsLock' /\ HolderHasRow' /\ ChangesLock'
    BY <1>0, <1>1, <2>1, <2>2
       DEF LoginsLock, HolderHasRow, ChangesLock, Writes, SessionConstants
  <2>5. SessionsListed' /\ EndsAll'
    BY <1>0, <1>1, <2>1, <2>2 DEF SessionsListed, EndsAll, Usable, SessionConstants
  <2>6. QED
    BY <1>3, <2>1, <2>3, <2>4, <2>5 DEF SessionIInv
<1>9. QED
  BY <1>4, <1>5, <1>6, <1>7, <1>8

-----------------------------------------------------------------------------
\* What a commit makes of the row.
LEMMA CommittedRow ==
    ASSUME SessionTyped, NEW c \in Changes, ChangeCommits(c)
    PROVE  /\ row' \in [exists : BOOLEAN, active : BOOLEAN, password : Nat]
           /\ row'.password \in {row.password, row.password + 1}
           /\ ~Writes(c) => row' = row
           /\ Writes(c) /\ change[c].kind = "enable" =>
                 row'.active /\ row'.exists = row.exists
                             /\ row'.password = row.password
           /\ change[c].kind # "delete" => row'.exists = row.exists
<1> DEFINE R == [exists : BOOLEAN, active : BOOLEAN, password : Nat]
<1>1. row \in R /\ change[c].kind \in Kinds
  BY DEF SessionTyped
<1>2. CASE ~Writes(c)
  BY <1>1, <1>2 DEF ChangeCommits
<1>3. CASE Writes(c) /\ change[c].kind = "delete"
  <2>1. row' = [row EXCEPT !.exists = FALSE]
    BY <1>3 DEF ChangeCommits
  <2>2. QED
    BY <1>1, <1>3, <2>1
<1>4. CASE Writes(c) /\ change[c].kind = "reset"
  <2>1. row' = [row EXCEPT !.password = @ + 1]
    BY <1>4 DEF ChangeCommits
  <2>2. QED
    BY <1>1, <1>4, <2>1
<1>5. CASE Writes(c) /\ change[c].kind = "enable"
  <2>1. row' = [row EXCEPT !.active = TRUE]
    BY <1>5 DEF ChangeCommits
  <2>2. QED
    BY <1>1, <1>5, <2>1
<1>6. CASE Writes(c) /\ change[c].kind = "disable"
  <2>1. row' = [row EXCEPT !.active = FALSE]
    BY <1>6 DEF ChangeCommits
  <2>2. QED
    BY <1>1, <1>6, <2>1
<1>7. QED
  BY <1>1, <1>2, <1>3, <1>4, <1>5, <1>6 DEF Kinds

\* A commit.  If it writes the row no login holds the lock, those that read
\* the row become missed, and of the sessions that are open either none is
\* usable (EndsAll) or the commit enables the account.
LEMMA ChangeCommitsIInv ==
    ASSUME SessionConstants, SessionIInv, NEW c \in Changes, ChangeCommits(c)
    PROVE  SessionIInv'
<1>0. /\ SessionTyped /\ LoginsLock /\ ChangesLock /\ HolderHasRow
      /\ LoginsKnow /\ SessionsListed /\ EndsAll /\ Counted
  BY DEF SessionIInv
<1>1. /\ UNCHANGED <<keys, indexed, login>> /\ change[c].at = "cleared"
      /\ change' = [change EXCEPT ![c].at = "done"]
      /\ holder' = IF holder = c THEN Nobody ELSE holder
      /\ missed' = IF Writes(c) THEN missed \cup {l \in Logins : login[l].at = "verified"}
                               ELSE missed
  BY DEF ChangeCommits, Unlocked
<1>2. /\ change'[c].at = "done"
      /\ \A d \in Changes \ {c} : change'[d] = change[d]
      /\ change' \in [Changes -> [at : ChangeAt, kind : Kinds, active : BOOLEAN,
                                  doomed : SUBSET Logins]]
  BY <1>0, <1>1, ChangeGoes DEF ChangeAt
<1>3. /\ row' \in [exists : BOOLEAN, active : BOOLEAN, password : Nat]
      /\ row'.password \in {row.password, row.password + 1}
      /\ ~Writes(c) => row' = row
      /\ Writes(c) /\ change[c].kind = "enable" =>
            row'.active /\ row'.exists = row.exists /\ row'.password = row.password
  BY <1>0, CommittedRow
<1>4. SessionTyped'
  BY <1>0, <1>1, <1>2, <1>3 DEF SessionTyped
<1>5. holder = c <=> Writes(c)
  BY <1>0, <1>1 DEF ChangesLock
<1>6. LoginsLock' /\ ChangesLock'
  BY <1>0, <1>1, <1>2 DEF LoginsLock, ChangesLock, Writes, SessionConstants
<1>7. HolderHasRow'
  BY <1>0, <1>1, <1>3, <1>5 DEF HolderHasRow
<1>8. LoginsKnow'
  <2>1. CASE ~Writes(c)
    BY <1>0, <1>1, <1>3, <2>1 DEF LoginsKnow, Agrees, Usable
  <2>2. CASE Writes(c)
    <3>1. \A l \in Logins : login[l].at \notin Locking
      BY <1>0, <1>5, <2>2 DEF LoginsLock, SessionConstants
    <3>2. \A l \in Logins : login[l].at = "verified" => l \in missed'
      BY <1>1, <2>2
    <3>3. CASE change[c].kind = "enable"
      <4>1. ASSUME NEW l \in Logins, login[l].at = "in", Usable(l)'
            PROVE  Agrees(l)'
        BY <1>0, <1>1, <1>3, <2>2, <3>3, <4>1 DEF LoginsKnow, Agrees, Usable
      <4>2. QED
        BY <1>1, <3>1, <3>2, <4>1 DEF LoginsKnow, Locking
    <3>4. CASE change[c].kind # "enable"
      <4>1. \A l \in Logins : login[l].at = "in" => ~Usable(l)
        BY <1>0, <1>1, <1>5, <2>2, <3>4 DEF EndsAll
      <4>2. QED
        BY <1>1, <3>1, <3>2, <4>1 DEF LoginsKnow, Locking, Usable
    <3>5. QED
      BY <3>3, <3>4
  <2>3. QED
    BY <2>1, <2>2
<1>9. SessionsListed'
  BY <1>0, <1>1 DEF SessionsListed, Usable
<1>10. EndsAll'
  BY <1>0, <1>1, <1>2 DEF EndsAll, Usable, SessionConstants
<1>11. Counted'
  <2>1. Finished' = Finished \cup {c} /\ c \notin Finished
    BY <1>1, <1>2 DEF Finished
  <2>2. IsFiniteSet(Finished)
    BY FS_Subset DEF SessionConstants, Finished
  <2>3. Cardinality(Finished') = Cardinality(Finished) + 1 /\ Cardinality(Finished) \in Nat
    BY <2>1, <2>2, FS_AddElement, FS_CardinalityType
  <2>4. row.password \in Nat /\ \A l \in Logins : login[l].seen \in Nat
    BY <1>0 DEF SessionTyped
  <2>5. QED
    BY <1>0, <1>1, <1>3, <2>3, <2>4 DEF Counted
<1>12. QED
  BY <1>4, <1>6, <1>7, <1>8, <1>9, <1>10, <1>11 DEF SessionIInv

-----------------------------------------------------------------------------
\* Nobody has logged in yet and no request has begun.
LEMMA SessionInitIInv == SessionConstants /\ SessionInit => SessionIInv
<1> SUFFICES ASSUME SessionConstants, SessionInit PROVE SessionIInv
  OBVIOUS
<1>1. SessionTyped
  <2>1. row \in [exists : BOOLEAN, active : BOOLEAN, password : Nat]
    <3>1. row \in [exists : {TRUE}, active : BOOLEAN, password : {0}]
      BY DEF SessionInit
    <3>2. {TRUE} \subseteq BOOLEAN /\ {0} \subseteq Nat
      OBVIOUS
    <3>3. QED
      BY <3>1, <3>2, Zenon
  <2>2. login \in [Logins -> [at : LoginAt, seen : Nat]]
    BY DEF SessionInit, LoginAt
  <2>3. change \in [Changes -> [at : ChangeAt, kind : Kinds, active : BOOLEAN,
                               doomed : SUBSET Logins]]
    BY DEF SessionInit, ChangeAt, Kinds
  <2>4. QED
    BY <2>1, <2>2, <2>3 DEF SessionInit, SessionTyped
<1>2. Finished = {}
  BY DEF SessionInit, Finished
<1>3. Counted
  BY <1>2, FS_EmptySet DEF SessionInit, Counted
<1>4. QED
  BY <1>1, <1>3 DEF SessionInit, SessionConstants, SessionIInv, LoginsLock, ChangesLock,
     HolderHasRow, LoginsKnow, SessionsListed, EndsAll, Usable, Locking

\* SessionIInv is inductive.
LEMMA SessionStepIInv == SessionConstants /\ SessionIInv /\ [SessionNext]_sessionVars => SessionIInv'
<1> SUFFICES ASSUME SessionConstants, SessionIInv, [SessionNext]_sessionVars PROVE SessionIInv'
  OBVIOUS
<1>0. /\ SessionTyped /\ LoginsLock /\ ChangesLock /\ HolderHasRow
      /\ LoginsKnow /\ SessionsListed /\ EndsAll /\ Counted
  BY DEF SessionIInv
<1>1. CASE LoginNext
  BY <1>1, LoginNextIInv DEF LoginNext
<1>2. CASE ChangeNext
  BY <1>2, ChangeNextIInv, ChangeCommitsIInv DEF ChangeNext
<1>3. ASSUME UNCHANGED <<row, holder, keys, login, change, missed>>,
             indexed' \subseteq indexed, keys \cap indexed \subseteq indexed'
      PROVE  SessionIInv'
  <2>1. SessionTyped' /\ LoginsLock' /\ ChangesLock' /\ HolderHasRow'
    BY <1>0, <1>3 DEF SessionTyped, LoginsLock, ChangesLock, HolderHasRow, Writes
  <2>2. LoginsKnow' /\ SessionsListed' /\ EndsAll' /\ Counted'
    BY <1>0, <1>3 DEF LoginsKnow, SessionsListed, EndsAll, Counted, Agrees,
       Usable, Finished
  <2>3. QED
    BY <2>1, <2>2 DEF SessionIInv
<1>4. CASE ListExpires
  BY <1>3, <1>4 DEF ListExpires
<1>5. CASE UNCHANGED sessionVars
  BY <1>3, <1>5 DEF sessionVars
<1>6. QED
  BY <1>1, <1>2, <1>4, <1>5 DEF SessionNext

\* The inductive invariant holds in every reachable state.
THEOREM SessionInvariance ==
    ASSUME SessionConstants PROVE SessionSpec => []SessionIInv
BY SessionInitIInv, SessionStepIInv, PTL DEF SessionSpec

\* A session that its user can use was opened with the password of today by an
\* account that exists and is active, and the next administrator finds it in
\* the set; the missed ones, of which no administrator was told, excepted.
THEOREM SessionsStayCurrent ==
    ASSUME SessionConstants PROVE SessionSpec => []SessionsAreCurrent
<1>1. SessionIInv => SessionsAreCurrent
  BY DEF SessionIInv, LoginsKnow, SessionsListed, Usable, Agrees, SessionsAreCurrent
<1>2. QED
  BY <1>1, SessionInvariance, PTL

\* The state is well-typed: no more passwords than requests, since each is
\* set by one that is done.
THEOREM SessionsAreTyped ==
    ASSUME SessionConstants PROVE SessionSpec => []SessionTypeOK
<1>1. SessionIInv => SessionTypeOK
  <2> SUFFICES ASSUME SessionIInv PROVE SessionTypeOK
    OBVIOUS
  <2>1. Finished \subseteq Changes
    BY DEF Finished
  <2>2. Cardinality(Finished) <= Cardinality(Changes) /\ IsFiniteSet(Finished)
    BY <2>1, FS_Subset DEF SessionConstants
  <2>3. Cardinality(Finished) \in Nat /\ Cardinality(Changes) \in Nat
    BY <2>2, FS_CardinalityType DEF SessionConstants
  <2>4. /\ row \in [exists : BOOLEAN, active : BOOLEAN, password : Nat]
        /\ login \in [Logins -> [at : LoginAt, seen : Nat]]
        /\ row.password <= Cardinality(Finished)
        /\ \A l \in Logins : login[l].seen <= row.password
    BY DEF SessionIInv, SessionTyped, Counted
  <2>5. row \in [exists : BOOLEAN, active : BOOLEAN,
                 password : 0 .. Cardinality(Changes)]
    BY <2>2, <2>3, <2>4
  <2>6. login \in [Logins -> [at : LoginAt, seen : 0 .. Cardinality(Changes)]]
    BY <2>2, <2>3, <2>4
  <2>7. QED
    BY <2>5, <2>6 DEF SessionIInv, SessionTyped, SessionTypeOK, LoginAt, ChangeAt, Locking
<1>2. QED
  BY <1>1, SessionInvariance, PTL

-----------------------------------------------------------------------------
(* A request of the service centre: who has read what before it changed.   *)

Entry == [from : RequestStatus \cup {Absent}, to : RequestStatus, by : Operators \cup {Absent}]
Call  == [at : {"idle", "open", "stored", "gone", "out"},
          does : {"comment", "upload", "delete"}, file : Attachments]

\* A call that has read the request and has yet to commit.
Underway(c) == call[c].at \in {"open", "stored", "gone"}

RequestTyped ==
  /\ status \in RequestStatus
  /\ history \in Seq(Entry) /\ history # <<>>
  /\ comments \subseteq Calls /\ closed \subseteq Calls
  /\ rows \subseteq Attachments /\ files \subseteq Attachments
  /\ patch \in [Operators -> RequestStatus \cup {Absent, Done}]
  /\ call \in [Calls -> Call]
  /\ overtaken \subseteq Operators \cup Calls

\* Who was not overtaken knows the request as it is.
ReadersKnow ==
  /\ \A o \in Operators \ overtaken : patch[o] \in RequestStatus => patch[o] = status
  /\ \A c \in Calls \ overtaken : Underway(c) => status # "done"

\* A call that deletes f and has removed its file.
Removed(f) == \E c \in Calls :
  call[c].does = "delete" /\ call[c].file = f /\ call[c].at \in {"gone", "out"}

\* An attachment with a row, or with an upload that is about to write it, has its
\* file, or somebody removed it.
FilesKept == \A f \in Attachments :
  f \in rows \/ (f \in Calls /\ call[f].at = "stored") => f \in files \/ Removed(f)

RequestIInv ==
  /\ RequestTyped
  /\ HistoryChains /\ ClosedStaysClosed
  /\ ReadersKnow /\ FilesKept

\* Nobody is a status.
RequestConstants == Absent \notin RequestStatus

\* A request begins with one entry in its history.
LEMMA RequestInitIInv ==
  ASSUME RequestConstants, RequestInit PROVE RequestIInv
<1> DEFINE e == [from |-> Absent, to |-> "pending", by |-> Absent]
<1>1. e \in Entry /\ e.to = "pending" /\ history = <<e>>
  BY DEF RequestInit, Entry, RequestStatus
<1> HIDE DEF e
<1>2. history \in Seq(Entry) /\ history # <<>> /\ Len(history) = 1 /\ history[1] = e
  BY <1>1
<1>3. call \in [Calls -> Call] /\ \A c \in Calls : call[c].at = "idle"
  BY DEF RequestInit, Call, Attachments
<1>4. RequestTyped
  BY <1>2, <1>3 DEF RequestInit, RequestTyped, RequestStatus, Attachments
<1>5. HistoryChains
  BY <1>1, <1>2 DEF HistoryChains, RequestInit
<1>6. ReadersKnow
  BY <1>3 DEF ReadersKnow, Underway, RequestInit, RequestConstants
<1>7. QED
  BY <1>3, <1>4, <1>5, <1>6 DEF RequestIInv, ClosedStaysClosed, FilesKept, RequestInit

\* An operator who reads knows the status, and one who has written or failed
\* has nothing to know.
LEMMA PatchAloneIInv ==
  ASSUME RequestConstants, RequestIInv, NEW o \in Operators, NEW s \in {status, Done},
         patch' = [patch EXCEPT ![o] = s],
         UNCHANGED <<status, history, comments, rows, files, call, overtaken, closed>>
  PROVE  RequestIInv'
<1>1. RequestTyped /\ patch \in [Operators -> RequestStatus \cup {Absent, Done}]
  BY DEF RequestIInv, RequestTyped
<1>2. RequestTyped'
  BY <1>1 DEF RequestTyped
<1>3. Done \notin RequestStatus
  BY DEF Done, RequestStatus
<1>4. ReadersKnow'
  BY <1>1, <1>3 DEF RequestIInv, ReadersKnow, Underway
<1>5. (HistoryChains /\ ClosedStaysClosed /\ FilesKept)'
  BY DEF RequestIInv, HistoryChains, ClosedStaysClosed, FilesKept, Removed
<1>6. QED
  BY <1>2, <1>4, <1>5 DEF RequestIInv

\* A change of the status extends the chain, and overtakes everybody else.
LEMMA PatchWritesIInv ==
  ASSUME RequestConstants, RequestIInv, NEW o \in Operators, NEW asked \in RequestStatus,
         PatchWrites(o, asked)
  PROVE  RequestIInv'
<1>0. /\ RequestTyped /\ HistoryChains /\ ClosedStaysClosed /\ ReadersKnow /\ FilesKept
      /\ patch \in [Operators -> RequestStatus \cup {Absent, Done}]
      /\ patch[o] \in RequestStatus /\ patch' = [patch EXCEPT ![o] = Done]
      /\ UNCHANGED <<comments, rows, files, call, closed>>
      /\ history \in Seq(Entry) /\ history # <<>>
  BY DEF RequestIInv, RequestTyped, PatchWrites
<1>1. CASE asked = patch[o]
  BY <1>0, <1>1, PatchAloneIInv DEF PatchWrites
<1>2. CASE asked # patch[o]
  <2> DEFINE e == [from |-> patch[o], to |-> asked, by |-> o]
  <2>1. /\ status' = asked /\ history' = Append(history, e)
        /\ overtaken' = overtaken \cup Readers(o)
    BY <1>2 DEF PatchWrites
  <2>2. e \in Entry /\ e.from = patch[o] /\ e.to = asked /\ e.by = o
    BY <1>0 DEF Entry
  <2> HIDE DEF e
  <2>3. /\ history' \in Seq(Entry) /\ history' # <<>>
        /\ Len(history') = Len(history) + 1
        /\ \A i \in 1..Len(history) : history'[i] = history[i]
        /\ history'[Len(history) + 1] = e
    BY <1>0, <2>1, <2>2, AppendProperties
  <2>4. Len(history) \in Nat \ {0}
    BY <1>0
  <2>5. Done \notin RequestStatus /\ overtaken' \subseteq Operators \cup Calls
    BY <1>0, <2>1 DEF Done, RequestStatus, Readers, RequestTyped
  <2>6. RequestTyped'
    BY <1>0, <2>1, <2>3, <2>5 DEF RequestTyped
  <2>7. HistoryChains'
    <3>1. history'[Len(history')].to = status'
      BY <2>1, <2>2, <2>3
    <3>2. ASSUME NEW i \in 2..Len(history'), history'[i].by \notin overtaken'
          PROVE  history'[i].from = history'[i - 1].to
      <4>1. CASE i = Len(history) + 1
        <5>1. history'[i] = e /\ history'[i - 1] = history[Len(history)]
          BY <2>3, <2>4, <4>1
        <5>2. o \notin overtaken
          BY <2>1, <2>2, <3>2, <5>1
        <5>3. patch[o] = status /\ history[Len(history)].to = status
          BY <1>0, <5>2 DEF ReadersKnow, HistoryChains
        <5>4. QED
          BY <2>2, <5>1, <5>3
      <4>2. CASE i # Len(history) + 1
        <5>1. /\ i \in 2..Len(history) /\ history'[i] = history[i]
              /\ history'[i - 1] = history[i - 1]
          BY <2>3, <2>4, <4>2
        <5>2. history[i].by \notin overtaken
          BY <2>1, <3>2, <5>1
        <5>3. QED
          BY <1>0, <5>1, <5>2 DEF HistoryChains
      <4>3. QED
        BY <4>1, <4>2
    <3>3. QED
      BY <3>1, <3>2 DEF HistoryChains
  <2>8. ReadersKnow'
    <3>1. ASSUME NEW x \in Operators \ overtaken' PROVE patch'[x] \notin RequestStatus
      BY <1>0, <2>1, <2>5, <3>1 DEF Readers
    <3>2. ASSUME NEW c \in Calls \ overtaken' PROVE ~Underway(c)'
      BY <1>0, <2>1, <3>2 DEF Readers, Underway
    <3>3. QED
      BY <3>1, <3>2 DEF ReadersKnow
  <2>9. ClosedStaysClosed' /\ FilesKept'
    BY <1>0, <2>1 DEF ClosedStaysClosed, FilesKept, Removed
  <2>10. QED
    BY <2>6, <2>7, <2>8, <2>9 DEF RequestIInv
<1>3. QED
  BY <1>1, <1>2

\* A call moves on by itself, without the request.
LEMMA CallFrame ==
  ASSUME RequestIInv, NEW c \in Calls, NEW k \in Call,
         call' = [call EXCEPT ![c] = k],
         call[c].at = "idle" => k.at = "open" /\ RequestOpen,
         call[c].at \in {"gone", "out"} => k.at \in {"gone", "out"} /\ k.does = call[c].does
                                           /\ k.file = call[c].file,
         Underway(c) \/ call[c].at = "idle",
         rows' \subseteq Attachments, files' \subseteq Attachments,
         comments' \subseteq Calls,
         closed' = closed \/ (closed' = closed \cup {c} /\ status = "done" /\ Underway(c)),
         UNCHANGED <<status, history, patch, overtaken>>
  PROVE  /\ RequestTyped' /\ HistoryChains' /\ ClosedStaysClosed' /\ ReadersKnow'
         /\ \A f \in Attachments : Removed(f) => Removed(f)'
         /\ call'[c] = k /\ \A d \in Calls \ {c} : call'[d] = call[d]
<1>0. /\ RequestTyped /\ HistoryChains /\ ClosedStaysClosed /\ ReadersKnow
      /\ call \in [Calls -> Call]
  BY DEF RequestIInv, RequestTyped
<1>1. call'[c] = k /\ \A d \in Calls \ {c} : call'[d] = call[d]
  BY <1>0
<1>2. RequestTyped'
  BY <1>0 DEF RequestTyped
<1>3. HistoryChains'
  BY <1>0 DEF HistoryChains
<1>4. ClosedStaysClosed'
  BY <1>0 DEF ClosedStaysClosed, ReadersKnow
<1>5. ReadersKnow'
  <2>1. ASSUME NEW d \in Calls \ overtaken, Underway(d)' PROVE status # "done"
    <3>1. CASE d = c
      BY <1>0, <1>1, <2>1, <3>1 DEF ReadersKnow, RequestOpen
    <3>2. CASE d # c
      BY <1>0, <1>1, <2>1, <3>2 DEF ReadersKnow, Underway
    <3>3. QED
      BY <3>1, <3>2
  <2>2. QED
    BY <1>0, <2>1 DEF ReadersKnow
<1>6. ASSUME NEW f \in Attachments, Removed(f) PROVE Removed(f)'
  BY <1>1, <1>6 DEF Removed
<1>7. QED
  BY <1>1, <1>2, <1>3, <1>4, <1>5, <1>6

\* Comments, uploads and deletions: what each does to rows and files.
LEMMA CallIInv ==
  ASSUME RequestIInv, NEW c \in Calls,
         \/ \E does \in {"comment", "upload", "delete"}, file \in Attachments :
              CallReads(c, does, file)
         \/ Comment(c) \/ UploadStores(c) \/ UploadCommits(c)
         \/ DeleteRemoves(c) \/ DeleteCommits(c) \/ CallFails(c)
  PROVE  RequestIInv'
<1>0. /\ call \in [Calls -> Call] /\ FilesKept /\ c \in Attachments
      /\ rows \subseteq Attachments /\ files \subseteq Attachments
      /\ comments \subseteq Calls
      /\ call[c] \in Call /\ call[c].file \in Attachments
  BY DEF RequestIInv, RequestTyped, Call, Attachments
<1>1. CASE \E does \in {"comment", "upload", "delete"}, file \in Attachments :
             CallReads(c, does, file)
  <2>1. PICK does \in {"comment", "upload", "delete"}, file \in Attachments :
               CallReads(c, does, file)
    BY <1>1
  <2> DEFINE k == [at |-> "open", does |-> does, file |-> file]
  <2>2. /\ call' = [call EXCEPT ![c] = k] /\ call[c].at = "idle" /\ RequestOpen
        /\ UNCHANGED <<status, history, comments, rows, files, patch, overtaken, closed>>
    BY <2>1 DEF CallReads
  <2>3. k \in Call /\ k.at = "open"
    BY DEF Call
  <2> HIDE DEF k
  <2>4. /\ RequestTyped' /\ HistoryChains' /\ ClosedStaysClosed' /\ ReadersKnow'
        /\ \A f \in Attachments : Removed(f) => Removed(f)'
        /\ call'[c] = k /\ \A d \in Calls \ {c} : call'[d] = call[d]
    BY <1>0, <2>2, <2>3, CallFrame
  <2>5. FilesKept'
    BY <1>0, <2>2, <2>3, <2>4 DEF FilesKept
  <2>6. QED
    BY <2>4, <2>5 DEF RequestIInv
<1>2. CASE ~\E does \in {"comment", "upload", "delete"}, file \in Attachments :
             CallReads(c, does, file)
  <2>1. PICK at \in {"stored", "gone", "out"} :
          /\ call' = [call EXCEPT ![c].at = at] /\ Underway(c)
          /\ at = "gone" => DeleteRemoves(c)
          /\ at = "stored" => UploadStores(c)
          /\ call[c].at = "gone" => at = "out"
    BY <1>2 DEF Comment, UploadStores, UploadCommits, DeleteRemoves, DeleteCommits,
                CallFails, Ends, Underway
  <2> DEFINE k == [call[c] EXCEPT !.at = at]
  <2>2. /\ call' = [call EXCEPT ![c] = k] /\ k \in Call /\ k.at = at
        /\ k.does = call[c].does /\ k.file = call[c].file
    BY <1>0, <2>1 DEF Call
  <2> HIDE DEF k
  <2>3. UNCHANGED <<status, history, patch, overtaken>>
    BY <1>2 DEF Comment, UploadStores, UploadCommits, DeleteRemoves, DeleteCommits, CallFails
  <2>4. /\ rows' \subseteq Attachments /\ files' \subseteq Attachments
        /\ comments' \subseteq Calls
    BY <1>0, <1>2 DEF Comment, UploadStores, UploadCommits, DeleteRemoves, DeleteCommits,
                      CallFails
  <2>5. closed' = closed \/ (closed' = closed \cup {c} /\ status = "done")
    BY <1>2 DEF Comment, UploadStores, UploadCommits, DeleteRemoves, DeleteCommits,
                CallFails, Ends
  <2>6. /\ RequestTyped' /\ HistoryChains' /\ ClosedStaysClosed' /\ ReadersKnow'
        /\ \A f \in Attachments : Removed(f) => Removed(f)'
        /\ call'[c] = k /\ \A d \in Calls \ {c} : call'[d] = call[d]
    BY <2>1, <2>2, <2>3, <2>4, <2>5, CallFrame DEF Underway
  <2>7. FilesKept'
    <3>1. CASE Comment(c) \/ CallFails(c)
      <4>1. UNCHANGED <<rows, files>> /\ call'[c].at = "out"
        <5>1. call' = [call EXCEPT ![c].at = "out"] /\ UNCHANGED <<rows, files>>
          BY <3>1 DEF Comment, CallFails, Ends
        <5>2. QED
          BY <1>0, <5>1 DEF Call
      <4>2. QED
        BY <1>0, <2>6, <4>1 DEF FilesKept
    <3>2. CASE UploadStores(c)
      <4>1. rows' = rows /\ files' = files \cup {c}
        BY <3>2 DEF UploadStores
      <4>2. QED
        BY <1>0, <2>6, <4>1 DEF FilesKept
    <3>3. CASE UploadCommits(c)
      <4>1. /\ rows' = rows \cup {c} /\ files' = files /\ call[c].at = "stored"
            /\ call'[c].at = "out"
        BY <1>0, <3>3 DEF UploadCommits, Ends
      <4>2. QED
        BY <1>0, <2>6, <4>1 DEF FilesKept
    <3>4. CASE DeleteRemoves(c)
      <4>1. /\ rows' = rows /\ files' \in {files, files \ {call[c].file}}
            /\ call'[c].at = "gone" /\ call[c].does = "delete"
        BY <1>0, <3>4 DEF DeleteRemoves
      <4>2. ASSUME NEW f \in Attachments, f = call[c].file PROVE Removed(f)'
        BY <2>2, <2>6, <4>1, <4>2 DEF Removed
      <4>3. QED
        <5>1. ASSUME NEW f \in Attachments, f # call[c].file, f \in files
              PROVE  f \in files'
          BY <4>1, <5>1
        <5>2. ASSUME NEW f \in Attachments, f # call[c].file,
                     f \in rows' \/ (f \in Calls /\ call'[f].at = "stored")
              PROVE  f \in rows \/ (f \in Calls /\ call[f].at = "stored")
          BY <2>6, <4>1, <5>2
        <5>3. QED
          <6>1. ASSUME NEW f \in Attachments,
                       f \in rows' \/ (f \in Calls /\ call'[f].at = "stored"),
                       f # call[c].file
                PROVE  f \in files' \/ Removed(f)'
            BY <1>0, <2>6, <5>1, <5>2, <6>1 DEF FilesKept
          <6>2. QED
            BY <4>2, <6>1 DEF FilesKept
    <3>5. CASE DeleteCommits(c)
      <4>1. rows' \subseteq rows /\ files' = files /\ call'[c].at = "out"
        BY <1>0, <3>5 DEF DeleteCommits, Ends
      <4>2. QED
        BY <1>0, <2>6, <4>1 DEF FilesKept
    <3>6. QED
      BY <1>2, <3>1, <3>2, <3>3, <3>4, <3>5
  <2>8. QED
    BY <2>6, <2>7 DEF RequestIInv
<1>3. QED
  BY <1>1, <1>2

\* However the calls interleave, fail and overtake each other.
THEOREM RequestInvariance ==
  ASSUME RequestConstants PROVE RequestSpec => []RequestIInv
<1>1. RequestInit => RequestIInv
  BY RequestInitIInv
<1>2. RequestIInv /\ [RequestNext]_requestVars => RequestIInv'
  <2> SUFFICES ASSUME RequestIInv, [RequestNext]_requestVars PROVE RequestIInv'
    OBVIOUS
  <2>1. CASE UNCHANGED requestVars
    BY <2>1 DEF requestVars, RequestIInv, RequestTyped, HistoryChains, ClosedStaysClosed,
                ReadersKnow, Underway, FilesKept, Removed
  <2>2. ASSUME NEW o \in Operators, PatchReads(o) \/ PatchFails(o) PROVE RequestIInv'
    BY <2>2, PatchAloneIInv DEF PatchReads, PatchFails
  <2>3. QED
    BY <2>1, <2>2, PatchWritesIInv, CallIInv DEF RequestNext
<1>3. QED
  BY <1>1, <1>2, PTL DEF RequestSpec

\* The history of a request tells how it came to its status, a request that is done
\* is written by nobody who began later, and a row without a file is the trace of a
\* deletion (update_request, _ensure_request_open, delete_attachment).
THEOREM RequestsStayWhole ==
  ASSUME RequestConstants PROVE RequestSpec => []RequestsAreWhole
<1>1. RequestIInv => RequestsAreWhole
  <2> SUFFICES ASSUME RequestIInv PROVE AttachmentsHaveFiles
    BY DEF RequestIInv, RequestsAreWhole
  <2>1. QED
    BY DEF RequestIInv, RequestTyped, FilesKept, Removed, AttachmentsHaveFiles
<1>2. QED
  BY <1>1, RequestInvariance, PTL

-----------------------------------------------------------------------------
(* The collection of a workspace.                                          *)

TaskState == [at : {"idle", "begin", "query", "upsert", "runs", "release"},
              found : SUBSET Upstream, read : [Refreshes -> Progress \cup {Unread}]]

\* A task whose transaction has written the row of the workspace.
HoldsRow(t) == task[t].at \in {"query", "upsert", "runs"}

\* One transaction at a time has written the row.
RowExcludes == \A t \in Tasks : HoldsRow(t) <=> writer = t

\* What the task that holds the row has read of a run is no older than what is
\* stored, and nothing is stored that Power BI has not said.
ReadsAreCurrent ==
  /\ \A x \in Refreshes : recorded[x] <= powerbi[x]
  /\ \A t \in Tasks, x \in Refreshes : task[t].read[x] # Unread =>
       task[t].at = "runs" /\ recorded[x] <= task[t].read[x] /\ task[t].read[x] <= powerbi[x]

\* The reports a task is about to commit are an operator's, or were deleted
\* between its query and its upsert.
FoundIsAccounted ==
  \A t \in Tasks : task[t].at = "runs" => task[t].found \subseteq theirs \cup revived

CollectIInv ==
  /\ CollectTypeOK /\ RunsMoveOn /\ CatalogIsCurated
  /\ RowExcludes /\ ReadsAreCurrent /\ FoundIsAccounted

\* The lock of a key that does not exist has no task in it.
CollectConstants == Free \notin Tasks

\* CollectTypeOK without what the lock says, which nothing relies on.
LEMMA CollectParts ==
  ASSUME CollectTypeOK
  PROVE  /\ powerbi \in [Refreshes -> 0..2] /\ recorded \in [Refreshes -> 0..2]
         /\ catalog \subseteq Upstream /\ theirs \subseteq Upstream /\ revived \subseteq Upstream
         /\ ended \subseteq Refreshes /\ writer \in Tasks \cup {Free}
         /\ task \in [Tasks -> TaskState]
         /\ lock \in [{Workspace} -> Tasks \cup {Free}]
BY DEF CollectTypeOK, TaskState, Progress

\* A task between two collections.
LEMMA IdleTyped ==
  /\ Resting \in TaskState /\ Resting.at = "idle"
  /\ [Resting EXCEPT !.at = "release"] \in TaskState
  /\ [Resting EXCEPT !.at = "release"].at = "release"
  /\ \A x \in Refreshes : Resting.read[x] = Unread /\ [Resting EXCEPT !.at = "release"].read[x] = Unread
BY DEF Resting, TaskState

\* The lock changes hands; the invariant does not rely on it.
LEMMA LockTyped ==
  ASSUME CollectTypeOK, NEW t \in Tasks,
         \/ lock' = Acquired(lock, Workspace, t) \/ lock' = Released(lock, Workspace, t)
         \/ lock' = Expired(lock, Workspace)
  PROVE  lock' \in [{Workspace} -> Tasks \cup {Free}]
BY DEF CollectTypeOK, Acquired, Released, Expired

\* A task moves without writing: it may take the row when that is free, and let
\* it go; it forgets what it read or reads on.
LEMMA TaskMovesIInv ==
  ASSUME CollectConstants, CollectIInv, NEW t \in Tasks, NEW k \in TaskState,
         task' = [task EXCEPT ![t] = k],
         lock' \in [{Workspace} -> Tasks \cup {Free}],
         \/ k.at \in {"query", "upsert", "runs"} /\ writer' = t /\ writer \in {Free, t}
         \/ k.at \in {"idle", "begin", "release"} /\ writer' = RowFreed(t),
         k.at = "runs" => k.found \subseteq theirs \cup revived',
         \A x \in Refreshes : k.read[x] # Unread =>
           k.at = "runs" /\ recorded[x] <= k.read[x] /\ k.read[x] <= powerbi[x],
         revived \subseteq revived', revived' \subseteq Upstream,
         UNCHANGED <<powerbi, recorded, catalog, theirs, ended>>
  PROVE  CollectIInv'
<1>0. /\ CollectTypeOK /\ RunsMoveOn /\ CatalogIsCurated
      /\ RowExcludes /\ ReadsAreCurrent /\ FoundIsAccounted
      /\ task \in [Tasks -> TaskState]
  BY CollectParts DEF CollectIInv
<1>1. task'[t] = k /\ \A u \in Tasks \ {t} : task'[u] = task[u]
  BY <1>0
<1>2. CollectTypeOK'
  BY <1>0, CollectParts DEF CollectTypeOK, TaskState, Progress, RowFreed
<1>3. RunsMoveOn' /\ CatalogIsCurated'
  BY <1>0 DEF RunsMoveOn, CatalogIsCurated
<1>4. RowExcludes'
  BY <1>0, <1>1 DEF RowExcludes, HoldsRow, RowFreed, CollectConstants
<1>5. ReadsAreCurrent'
  BY <1>0, <1>1 DEF ReadsAreCurrent
<1>6. FoundIsAccounted'
  BY <1>0, <1>1 DEF FoundIsAccounted
<1>7. QED
  BY <1>2, <1>3, <1>4, <1>5, <1>6 DEF CollectIInv

\* Before the runs are read nothing is read, so a task may move there.
LEMMA TaskGoesIInv ==
  ASSUME CollectConstants, CollectIInv, NEW t \in Tasks,
         \/ AcquireCollectLock(t) \/ UpsertWorkspace(t) \/ FindReports(t) \/ UpsertReports(t)
         \/ CollectFails(t) \/ ReleaseCollectLock(t) \/ CollectorDies(t)
  PROVE  CollectIInv'
<1>0. /\ CollectTypeOK /\ CatalogIsCurated /\ RowExcludes /\ ReadsAreCurrent
      /\ task \in [Tasks -> TaskState] /\ task[t] \in TaskState
      /\ catalog \subseteq Upstream /\ revived \subseteq Upstream /\ writer \in Tasks \cup {Free}
      /\ lock \in [{Workspace} -> Tasks \cup {Free}]
      /\ task[t].found \subseteq Upstream
      /\ task[t].at # "runs" => \A x \in Refreshes : task[t].read[x] = Unread
  BY CollectParts DEF CollectIInv, TaskState, ReadsAreCurrent
<1> DEFINE Moved(at) == [task[t] EXCEPT !.at = at]
<1>1. ASSUME NEW at \in {"idle", "begin", "query", "upsert", "runs", "release"}
      PROVE  /\ Moved(at) \in TaskState /\ Moved(at).at = at
             /\ Moved(at).found = task[t].found /\ Moved(at).read = task[t].read
  BY <1>0 DEF TaskState
<1> HIDE DEF Moved
<1>2. CASE AcquireCollectLock(t) \/ ReleaseCollectLock(t)
  <2>1. PICK at \in {"begin", "idle"} :
          task' = [task EXCEPT ![t] = Moved(at)]
    BY <1>0, <1>2 DEF AcquireCollectLock, ReleaseCollectLock, TaskGoes, Moved
  <2>2. /\ task[t].at \in {"idle", "release"}
        /\ UNCHANGED <<writer, powerbi, recorded, catalog, theirs, revived, ended>>
    BY <1>2 DEF AcquireCollectLock, ReleaseCollectLock, TaskGoes
  <2>3. lock' \in [{Workspace} -> Tasks \cup {Free}]
    BY <1>0, <1>2, LockTyped DEF AcquireCollectLock, ReleaseCollectLock
  <2>4. writer' = RowFreed(t)
    BY <1>0, <2>2 DEF RowExcludes, HoldsRow, RowFreed
  <2>5. QED
    BY <1>0, <1>1, <2>1, <2>2, <2>3, <2>4, TaskMovesIInv
<1>3. CASE UpsertWorkspace(t)
  <2>1. /\ task' = [task EXCEPT ![t] = Moved("query")]
        /\ task[t].at = "begin" /\ writer = Free /\ writer' = t
        /\ UNCHANGED <<lock, powerbi, recorded, catalog, theirs, revived, ended>>
    BY <1>0, <1>3 DEF UpsertWorkspace, TaskGoes, Moved
  <2>2. QED
    BY <1>0, <1>1, <2>1, TaskMovesIInv
<1>4. CASE FindReports(t)
  <2> DEFINE k == [task[t] EXCEPT !.at = "upsert", !.found = catalog]
  <2>1. /\ task' = [task EXCEPT ![t] = k] /\ task[t].at = "query"
        /\ UNCHANGED <<lock, writer, powerbi, recorded, catalog, theirs, revived, ended>>
    BY <1>0, <1>4 DEF FindReports
  <2>2. k \in TaskState /\ k.at = "upsert" /\ k.read = task[t].read
    BY <1>0 DEF TaskState
  <2> HIDE DEF k
  <2>3. writer = t
    BY <1>0, <2>1 DEF RowExcludes, HoldsRow
  <2>4. QED
    BY <1>0, <2>1, <2>2, <2>3, TaskMovesIInv
<1>5. CASE UpsertReports(t)
  <2>1. /\ task' = [task EXCEPT ![t] = Moved("runs")]
        /\ task[t].at = "upsert" /\ revived' = revived \cup (task[t].found \ catalog)
        /\ UNCHANGED <<lock, writer, powerbi, recorded, catalog, theirs, ended>>
    BY <1>0, <1>5 DEF UpsertReports, TaskGoes, Moved
  <2>2. writer = t
    BY <1>0, <2>1 DEF RowExcludes, HoldsRow
  <2>3. task[t].found \subseteq theirs \cup revived'
    BY <1>0, <2>1 DEF CatalogIsCurated
  <2>4. QED
    BY <1>0, <1>1, <2>1, <2>2, <2>3, TaskMovesIInv
<1>6. CASE CollectFails(t) \/ CollectorDies(t)
  <2>1. PICK k \in {Resting, [Resting EXCEPT !.at = "release"]} : task' = [task EXCEPT ![t] = k]
    BY <1>6 DEF CollectFails, CollectorDies
  <2>2. /\ writer' = RowFreed(t)
        /\ UNCHANGED <<lock, powerbi, recorded, catalog, theirs, revived, ended>>
    BY <1>6 DEF CollectFails, CollectorDies
  <2>3. k \in TaskState /\ k.at \in {"idle", "release"} /\ \A x \in Refreshes : k.read[x] = Unread
    BY <2>1, IdleTyped
  <2>4. QED
    BY <1>0, <2>1, <2>2, <2>3, TaskMovesIInv
<1>7. QED
  BY <1>2, <1>3, <1>4, <1>5, <1>6

\* The task that holds the row reads a run, which Power BI knows better than
\* the database.
LEMMA UpsertRunIInv ==
  ASSUME CollectConstants, CollectIInv, NEW t \in Tasks, NEW x \in Refreshes, UpsertRun(t, x)
  PROVE  CollectIInv'
<1>0. /\ RowExcludes /\ ReadsAreCurrent /\ FoundIsAccounted
      /\ task \in [Tasks -> TaskState] /\ task[t] \in TaskState
      /\ task[t].read \in [Refreshes -> Progress \cup {Unread}]
      /\ powerbi[x] \in Progress /\ recorded[x] \in Progress
      /\ task[t].at = "runs" /\ revived \subseteq Upstream
      /\ lock \in [{Workspace} -> Tasks \cup {Free}]
  BY CollectParts DEF CollectIInv, TaskState, Progress, UpsertRun
<1> DEFINE k == [task[t] EXCEPT !.read = [task[t].read EXCEPT ![x] = powerbi[x]]]
<1>1. /\ task' = [task EXCEPT ![t] = k]
      /\ UNCHANGED <<lock, writer, powerbi, recorded, catalog, theirs, revived, ended>>
  BY <1>0 DEF UpsertRun
<1>2. /\ k \in TaskState /\ k.at = "runs" /\ k.found = task[t].found
      /\ k.read = [task[t].read EXCEPT ![x] = powerbi[x]]
  BY <1>0 DEF TaskState
<1> HIDE DEF k
<1>3. writer = t
  BY <1>0 DEF RowExcludes, HoldsRow
<1>4. ASSUME NEW y \in Refreshes, k.read[y] # Unread
      PROVE  recorded[y] <= k.read[y] /\ k.read[y] <= powerbi[y]
  <2>1. CASE y = x
    BY <1>0, <1>2, <2>1 DEF ReadsAreCurrent, Progress
  <2>2. CASE y # x
    BY <1>0, <1>2, <1>4, <2>2 DEF ReadsAreCurrent
  <2>3. QED
    BY <2>1, <2>2
<1>5. k.found \subseteq theirs \cup revived
  BY <1>0, <1>2 DEF FoundIsAccounted
<1>6. QED
  BY <1>0, <1>1, <1>2, <1>3, <1>4, <1>5, TaskMovesIInv

\* The commit: only the holder of the row has read anything, and what it writes is
\* no older than what is stored.
LEMMA CommitIInv ==
  ASSUME CollectConstants, CollectIInv, NEW t \in Tasks, CommitCollect(t)
  PROVE  CollectIInv'
<1> DEFINE k == [Resting EXCEPT !.at = "release"]
           new(x) == IF task[t].read[x] = 0 THEN recorded[x] ELSE task[t].read[x]
<1>0. /\ RunsMoveOn /\ CatalogIsCurated
      /\ RowExcludes /\ ReadsAreCurrent /\ FoundIsAccounted
      /\ task \in [Tasks -> TaskState] /\ task[t] \in TaskState
      /\ task[t].read \in [Refreshes -> 0..2 \cup {Unread}] /\ task[t].found \subseteq Upstream
      /\ powerbi \in [Refreshes -> 0..2] /\ recorded \in [Refreshes -> 0..2]
      /\ catalog \subseteq Upstream /\ theirs \subseteq Upstream /\ revived \subseteq Upstream
      /\ ended \subseteq Refreshes /\ writer \in Tasks \cup {Free}
      /\ lock \in [{Workspace} -> Tasks \cup {Free}]
  BY CollectParts DEF CollectIInv, TaskState, Progress
<1>1. /\ task[t].at = "runs" /\ \A x \in Refreshes : task[t].read[x] # Unread
      /\ task' = [task EXCEPT ![t] = k] /\ writer' = RowFreed(t)
      /\ recorded' = [x \in Refreshes |-> new(x)]
      /\ ended' = ended \cup {x \in Refreshes : recorded'[x] = 2}
      /\ catalog' = catalog \cup task[t].found
      /\ UNCHANGED <<lock, powerbi, theirs, revived>>
  BY DEF CommitCollect
<1>2. k \in TaskState /\ k.at = "release" /\ \A x \in Refreshes : k.read[x] = Unread
  BY IdleTyped
<1> HIDE DEF k
<1>3. \A x \in Refreshes : new(x) \in 0..2 /\ recorded[x] <= new(x) /\ new(x) <= powerbi[x]
  BY <1>0, <1>1 DEF ReadsAreCurrent
<1>4. \A x \in Refreshes : recorded'[x] = new(x)
  BY <1>1
<1> HIDE DEF new
<1>5. recorded' \in [Refreshes -> 0..2]
  BY <1>1, <1>3
<1>6. task'[t] = k /\ \A u \in Tasks \ {t} : task'[u] = task[u]
  BY <1>0, <1>1
<1>7. writer = t /\ \A u \in Tasks \ {t} : ~HoldsRow(u)
  BY <1>0, <1>1 DEF RowExcludes, HoldsRow
<1>8. CollectTypeOK'
  BY <1>0, <1>1, <1>2, <1>5 DEF CollectTypeOK, TaskState, Progress, RowFreed
<1>9. RunsMoveOn'
  <2>1. ASSUME NEW x \in ended' PROVE recorded'[x] = 2
    <3>1. CASE x \in ended
      BY <1>0, <1>3, <1>4, <3>1 DEF RunsMoveOn
    <3>2. CASE x \notin ended
      BY <1>1, <2>1, <3>2
    <3>3. QED
      BY <3>1, <3>2
  <2>2. QED
    BY <2>1 DEF RunsMoveOn
<1>10. CatalogIsCurated'
  BY <1>0, <1>1 DEF CatalogIsCurated, FoundIsAccounted
<1>11. RowExcludes' /\ FoundIsAccounted'
  <2>1. writer' = Free /\ \A u \in Tasks : ~HoldsRow(u)'
    BY <1>1, <1>2, <1>6, <1>7 DEF RowFreed, HoldsRow
  <2>2. QED
    BY <2>1 DEF RowExcludes, HoldsRow, FoundIsAccounted, CollectConstants
<1>12. ReadsAreCurrent'
  <2>1. ASSUME NEW u \in Tasks, NEW x \in Refreshes PROVE task'[u].read[x] = Unread
    BY <1>0, <1>2, <1>6, <1>7 DEF ReadsAreCurrent, HoldsRow
  <2>2. \A x \in Refreshes : recorded'[x] <= powerbi'[x]
    BY <1>1, <1>3, <1>4
  <2>3. QED
    BY <2>1, <2>2 DEF ReadsAreCurrent
<1>13. QED
  BY <1>8, <1>9, <1>10, <1>11, <1>12 DEF CollectIInv

\* Power BI goes on, operators register and delete, and the lock expires.
LEMMA AroundIInv ==
  ASSUME CollectConstants, CollectIInv,
         \/ \E x \in Refreshes : RunGoesOn(x)
         \/ \E r \in Upstream : RegisterReport(r) \/ DeleteReport(r)
         \/ CollectLockExpires
  PROVE  CollectIInv'
<1>0. /\ CollectTypeOK /\ RunsMoveOn /\ CatalogIsCurated
      /\ RowExcludes /\ ReadsAreCurrent /\ FoundIsAccounted
      /\ powerbi \in [Refreshes -> 0..2] /\ recorded \in [Refreshes -> 0..2]
      /\ task \in [Tasks -> TaskState]
  BY CollectParts DEF CollectIInv
<1>1. CASE \E x \in Refreshes : RunGoesOn(x)
  <2>1. PICK x \in Refreshes : RunGoesOn(x)
    BY <1>1
  <2>2. /\ powerbi[x] \in 0..1 /\ powerbi' = [powerbi EXCEPT ![x] = powerbi[x] + 1]
        /\ UNCHANGED <<lock, writer, recorded, catalog, task, theirs, revived, ended>>
    BY <1>0, <2>1 DEF RunGoesOn
  <2>3. powerbi' \in [Refreshes -> 0..2]
    BY <1>0, <2>2
  <2>4. \A y \in Refreshes : powerbi[y] <= powerbi'[y]
    BY <1>0, <2>2
  <2>5. ReadsAreCurrent'
    <3>1. ASSUME NEW y \in Refreshes PROVE recorded'[y] <= powerbi'[y]
      BY <1>0, <2>2, <2>3, <2>4 DEF ReadsAreCurrent
    <3>2. ASSUME NEW t \in Tasks, NEW y \in Refreshes, task'[t].read[y] # Unread
          PROVE  /\ task'[t].at = "runs" /\ recorded'[y] <= task'[t].read[y]
                 /\ task'[t].read[y] <= powerbi'[y]
      <4>1. /\ task[t].at = "runs" /\ recorded[y] <= task[t].read[y]
            /\ task[t].read[y] <= powerbi[y] /\ task[t].read[y] \in Nat
        BY <1>0, <2>2, <3>2 DEF ReadsAreCurrent, TaskState, Progress
      <4>2. QED
        BY <1>0, <2>2, <2>3, <2>4, <4>1
    <3>3. QED
      BY <3>1, <3>2 DEF ReadsAreCurrent
  <2>6. CollectTypeOK'
    BY <1>0, <2>2, <2>3 DEF CollectTypeOK, Progress
  <2>7. QED
    BY <1>0, <2>2, <2>5, <2>6
       DEF CollectIInv, RunsMoveOn, CatalogIsCurated, RowExcludes, HoldsRow, FoundIsAccounted
<1>2. CASE \E r \in Upstream : RegisterReport(r) \/ DeleteReport(r)
  <2>1. PICK r \in Upstream : RegisterReport(r) \/ DeleteReport(r)
    BY <1>2
  <2>2. /\ UNCHANGED <<lock, writer, powerbi, recorded, task, ended>> /\ ~Written(r)
        /\ \/ /\ catalog' = catalog \cup {r} /\ theirs' = theirs \cup {r}
              /\ revived' = revived \ {r}
           \/ /\ catalog' = catalog \ {r} /\ theirs' = theirs \ {r}
              /\ revived' = revived \ {r}
    BY <2>1 DEF RegisterReport, DeleteReport
  <2>3. CollectTypeOK'
    BY <1>0, <2>2 DEF CollectTypeOK
  <2>4. CatalogIsCurated'
    BY <1>0, <2>2 DEF CatalogIsCurated
  <2>5. FoundIsAccounted'
    BY <1>0, <2>2 DEF FoundIsAccounted, Written
  <2>6. QED
    BY <1>0, <2>2, <2>3, <2>4, <2>5
       DEF CollectIInv, RunsMoveOn, RowExcludes, HoldsRow, ReadsAreCurrent
<1>3. CASE CollectLockExpires
  <2>1. /\ UNCHANGED <<writer, powerbi, recorded, catalog, task, theirs, revived, ended>>
        /\ lock' \in [{Workspace} -> Tasks \cup {Free}]
    BY <1>0, <1>3 DEF CollectLockExpires, Expired, CollectTypeOK
  <2>2. QED
    BY <1>0, <2>1
       DEF CollectIInv, CollectTypeOK, RunsMoveOn, CatalogIsCurated, RowExcludes, HoldsRow,
           ReadsAreCurrent, FoundIsAccounted
<1>4. QED
  BY <1>1, <1>2, <1>3

\* Whoever holds the lock, whoever has lost it, and whoever dies.
THEOREM CollectInvariance ==
  ASSUME CollectConstants PROVE CollectSpec => []CollectIInv
<1>1. CollectInit => CollectIInv
  <2> SUFFICES ASSUME CollectInit PROVE CollectIInv
    OBVIOUS
  <2>1. \A t \in Tasks : task[t] = Resting
    BY DEF CollectInit
  <2>2. task \in [Tasks -> TaskState]
    BY <2>1, IdleTyped DEF CollectInit
  <2>3. CollectTypeOK
    BY <2>2 DEF CollectInit, CollectTypeOK, TaskState, Progress
  <2>4. /\ \A x \in Refreshes : recorded[x] = 0 /\ powerbi[x] = 0
        /\ ended = {} /\ theirs = catalog /\ writer = Free
    BY DEF CollectInit
  <2>5. QED
    BY <2>1, <2>3, <2>4, IdleTyped
       DEF CollectConstants, CollectIInv, RunsMoveOn, CatalogIsCurated, RowExcludes, HoldsRow, ReadsAreCurrent,
           FoundIsAccounted
<1>2. CollectIInv /\ [CollectNext]_collectVars => CollectIInv'
  <2> SUFFICES ASSUME CollectIInv, [CollectNext]_collectVars PROVE CollectIInv'
    OBVIOUS
  <2>1. CASE UNCHANGED collectVars
    BY <2>1
       DEF collectVars, CollectIInv, CollectTypeOK, RunsMoveOn, CatalogIsCurated, RowExcludes,
           HoldsRow, ReadsAreCurrent, FoundIsAccounted
  <2>2. CASE CollectNext
    BY <2>2, TaskGoesIInv, UpsertRunIInv, CommitIInv, AroundIInv DEF CollectNext
  <2>3. QED
    BY <2>1, <2>2
<1>3. QED
  BY <1>1, <1>2, PTL DEF CollectSpec

\* A run never goes back, although the lock may expire under a slow collection, and a
\* collection adds no report to the catalogue but one that was deleted while it
\* looked (the upserts of collect_workspace and upsert_reports).
THEOREM CollectionsStayTrue ==
  ASSUME CollectConstants PROVE CollectSpec => []CollectionsHold
<1>1. CollectIInv => CollectionsHold
  BY DEF CollectIInv, CollectionsHold
<1>2. QED
  BY <1>1, CollectInvariance, PTL

\* Both together, since neither has a variable of the other.
THEOREM PartsAgree ==
  ASSUME RequestConstants, CollectConstants PROVE PartsSpec => []WritersAgree
BY RequestsStayWhole, CollectionsStayTrue, PTL DEF PartsSpec, WritersAgree
=============================================================================
