--------------------------- MODULE RefreshMonitor ---------------------------
(***************************************************************************)
(* The monitoring of the refreshes: the runs of one day, chosen in a store *)
(* that outlives the page and, on the first visit, moved to the last day   *)
(* that has data; reports taken out of sight; half an hour picked in the   *)
(* chart; and the table, whose rows the page keeps for the export.         *)
(***************************************************************************)
EXTENDS Sorting

CONSTANTS
  Runs, DayOf, SlotOf, ReportOf,  \* runs; their day, half hour and report
  Start,       \* [Runs -> Nat], increasing in time
  Number,      \* [Runs -> Nat], of their requests, in order
  First,       \* what is collected at first
  Days,        \* numbers; the last is today
  All, Asked, None

VARIABLES
  stored,    \* at the server: [Runs -> status, or None before it is collected]
  store,     \* useRefreshFilterStore: the day, the status, the excluded reports,
             \* and selectedDateInitialized
  slot,      \* selectedBucket, and the selection it was picked in
  cached,    \* the answer in the query cache for each selection
  fetch,     \* that of the selection: asked, or its answer on the way
  table,     \* its filter and the direction of its order
  rows       \* visibleRowsRef: what an export has

monitorVars == <<stored, store, slot, cached, fetch, table, rows>>

Statuses == {"in_progress", "failed"}
Selections == Days \X {All, "failed"}
Answers == SUBSET (Runs \X Statuses)

MonitorTypeOK ==
  /\ stored \in [Runs -> Statuses \cup {None}]
  /\ store.day \in Days /\ store.status \in {All, "failed"} /\ store.ready \in BOOLEAN
  /\ \A s \in Selections : cached[s] = None \/ cached[s] \in Answers
  /\ fetch \in {None, Asked} \/ fetch \in Answers
  /\ \A i \in DOMAIN rows : rows[i] \in Runs \X Statuses

NoSlot == [at |-> None, of |-> None]
NewTable == [failedOnly |-> FALSE, rising |-> FALSE]

MonitorInit ==
  /\ stored = First
  /\ store = [day |-> CHOOSE x \in Days : \A y \in Days : y <= x, status |-> All, excluded |-> {}, ready |-> FALSE]
  /\ slot = NoSlot /\ cached = [s \in Selections |-> None] /\ fetch = None
  /\ table = NewTable /\ rows = <<>>

-----------------------------------------------------------------------------
(* What is drawn.                                                          *)

Selection == <<store.day, store.status>>

\* The chart and the table are there unless the page waits for its first answer;
\* after one that failed they are empty.
Drawn == store.ready /\ (cached[Selection] # None \/ fetch = None)

\* visibleTimetableRuns
Visible ==
  IF cached[Selection] = None THEN {}
  ELSE {x \in cached[Selection] : ReportOf[x[1]] \notin store.excluded}

\* Runs that began at one time are in the order of their requests, whichever the
\* direction is.
Precedes(i, j) ==
  IF Start[i] = Start[j] THEN Number[i] < Number[j] ELSE table.rising = (Start[i] < Start[j])

\* The runs of the picked half hour that pass the filter of the table, in order.
\* (Its search and its other switch filter, and its other columns order, likewise.)
VisibleRows ==
  LET shown == {x \in Visible : /\ slot.at # None => SlotOf[x[1]] = slot.at
                                /\ table.failedOnly => x[2] = "failed"}
  IN InOrder(shown, {e \in shown \X shown : Precedes(e[1][1], e[2][1])})

\* The table reports its rows; without it they stay, and it begins anew.
Draw == rows' = IF Drawn' THEN VisibleRows' ELSE rows
DrawAnew == table' = IF Drawn' THEN table ELSE NewTable

-----------------------------------------------------------------------------
(* The selection.                                                          *)

\* Mutant: the half hour stays picked.
KeepSlot == slot' = slot

\* It is dropped when the selection is another one.
ResetSlot == slot' = IF Selection' = Selection THEN slot ELSE NoSlot

\* What is selected is read unless its answer is there and young; the request for
\* the selection before is cancelled.
Select(new) ==
  /\ store' = new /\ ResetSlot
  /\ IF ~new.ready \/ (Selection' = Selection /\ store.ready) THEN UNCHANGED fetch
     ELSE fetch' = Asked \/ (cached[Selection'] # None /\ fetch' = None)
  /\ UNCHANGED <<stored, cached>> /\ DrawAnew /\ Draw

\* The filters can be set before the first answer as well.
ChooseDay(x) == x # store.day /\ Select([store EXCEPT !.day = x])
ChooseStatus(s) == s # store.status /\ Select([store EXCEPT !.status = s])

\* useLatestRefreshDate has an answer, from a moment ago, or has failed: once, it
\* sets the day, whatever was chosen before.
LatestDate(x) ==
  /\ ~store.ready
  /\ x = None \/ \E i \in Runs : stored[i] # None /\ DayOf[i] = x
  /\ Select([store EXCEPT !.day = IF x = None THEN @ ELSE x, !.ready = TRUE])

\* excludeReport, in the timeline; clearExcludedReports.
Exclude(p) ==
  /\ Drawn /\ \E x \in Visible : ReportOf[x[1]] = p
  /\ store' = [store EXCEPT !.excluded = @ \cup {p}]
  /\ UNCHANGED <<stored, slot, cached, fetch, table>> /\ Draw
ShowAll ==
  /\ Drawn /\ store.excluded # {} /\ store' = [store EXCEPT !.excluded = {}]
  /\ UNCHANGED <<stored, slot, cached, fetch, table>> /\ Draw

\* A half hour of the chart; the same one again drops it.  The chart is clicked
\* while it has anything.
PickSlot(k) ==
  /\ Drawn /\ Visible # {}
  /\ slot' = IF slot.at = k THEN NoSlot ELSE [at |-> k, of |-> Selection]
  /\ UNCHANGED <<stored, store, cached, fetch, table>> /\ Draw
DropSlot ==
  /\ Drawn /\ slot.at # None /\ slot' = NoSlot
  /\ UNCHANGED <<stored, store, cached, fetch, table>> /\ Draw

Table(new) == Drawn /\ table' = new /\ UNCHANGED <<stored, store, slot, cached, fetch>> /\ Draw
FailedOnly == Table([table EXCEPT !.failedOnly = ~@])
SortBy == Table([table EXCEPT !.rising = ~@])

-----------------------------------------------------------------------------
(* The query.                                                              *)

\* A collection has ended, the page comes into view again, or a failed request is
\* made again.
Refetch ==
  /\ store.ready /\ fetch' = Asked
  /\ UNCHANGED <<stored, store, slot, cached>> /\ DrawAnew /\ Draw

\* The query names the day and the status.
Answer(s) ==
  {x \in Runs \X Statuses : stored[x[1]] = x[2] /\ DayOf[x[1]] = s[1] /\ (s[2] = All \/ x[2] = s[2])}
Read ==
  /\ fetch = Asked /\ fetch' = Answer(Selection)
  /\ UNCHANGED <<stored, store, slot, cached, table>> /\ Draw

\* Mutant: an answer is kept for the day alone.
ForTheDay == [s \in Selections |-> IF s[1] = store.day THEN fetch ELSE cached[s]]

\* The answer is kept for its selection.
Kept == [cached EXCEPT ![Selection] = fetch]

Arrives ==
  /\ fetch \notin {None, Asked} /\ cached' = Kept /\ fetch' = None
  /\ UNCHANGED <<stored, store, slot, table>> /\ Draw
Fails ==
  /\ fetch # None /\ fetch' = None
  /\ UNCHANGED <<stored, store, slot, cached, table>> /\ Draw

\* An answer nobody looks at is forgotten.
Forget(s) ==
  /\ s # Selection /\ cached[s] # None /\ cached' = [cached EXCEPT ![s] = None]
  /\ UNCHANGED <<stored, store, slot, fetch, table>> /\ Draw

\* A collection stores a new run, or the end of one.
Collected(i) ==
  /\ stored[i] # "failed" /\ stored' = [stored EXCEPT ![i] = IF @ = None THEN "in_progress" ELSE "failed"]
  /\ UNCHANGED <<store, slot, cached, fetch, table>> /\ Draw

\* The page is left and opened again: the store stays.
Reopen ==
  /\ slot' = NoSlot /\ table' = NewTable /\ UNCHANGED <<stored, store, cached>>
  /\ IF store.ready THEN fetch' = Asked \/ (cached[Selection] # None /\ fetch' = None) ELSE UNCHANGED fetch
  /\ rows' = IF Drawn' THEN VisibleRows' ELSE <<>>

MonitorNext ==
  \/ Refetch \/ Read \/ Arrives \/ Fails \/ ShowAll \/ DropSlot \/ FailedOnly \/ SortBy \/ Reopen
  \/ \E x \in Days : ChooseDay(x) \/ LatestDate(x)
  \/ LatestDate(None)
  \/ \E s \in {All, "failed"} : ChooseStatus(s)
  \/ \E i \in Runs : Exclude(ReportOf[i]) \/ PickSlot(SlotOf[i]) \/ Collected(i)
  \/ \E s \in Selections : Forget(s)

MonitorSpec == MonitorInit /\ [][MonitorNext]_monitorVars

-----------------------------------------------------------------------------
(* Properties.                                                             *)

\* The rows fit what is selected, as the server has answered for it: of the day, of
\* the status, in order, and of no report that was excluded; and no half hour hides
\* a run unless it was picked in this selection.
SelectionIsShown ==
  /\ \A i \in DOMAIN rows : ReportOf[rows[i][1]] \notin store.excluded
  /\ Drawn =>
       /\ \A i \in DOMAIN rows :
            /\ DayOf[rows[i][1]] = store.day
            /\ store.status # All => rows[i][2] = store.status
            /\ \A k \in DOMAIN rows : i < k /\ Start[rows[i][1]] # Start[rows[k][1]] =>
                 table.rising = (Start[rows[i][1]] < Start[rows[k][1]])
       /\ slot.at # None => slot.of = Selection
=============================================================================
