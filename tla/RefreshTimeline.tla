-------------------------- MODULE RefreshTimeline ---------------------------
(***************************************************************************)
(* The timeline of the monitoring page: the runs of the chosen day as bars *)
(* in a row for each name, a line for each hour and one for the present,   *)
(* and the tooltip of the bar under the pointer.  The clock is read every  *)
(* 30 s and answers come when they come, so bars and line are of a past    *)
(* moment each.                                                            *)
(*                                                                         *)
(* Places are in 1/Length of a pixel.  Colours, labels and the buttons     *)
(* that take reports out of sight (RefreshMonitor) are left out.           *)
(***************************************************************************)
EXTENDS Integers, FiniteSets, SequencesExt

CONSTANTS
  Runs, Datasets,    \* refreshes, each of a dataset
  NameOf,            \* [Datasets -> names]: that of the report, numbers in their order
  Days, Length,      \* the first moments of the days, and how long a day is
  Hour, MinBar, Widths, MaxTime, None

VARIABLES
  clock,     \* the present
  history,   \* at the server: the runs that began, each an entry
  day,       \* the store's
  cached,    \* [Days -> the runs of the last answer, None without one]
  open,      \* timelineOpen
  now,       \* that of useNow
  width,     \* plotWidth
  tip        \* the tooltip: a run as it was hovered, and the seconds it says

timelineVars == <<clock, history, day, cached, open, now, width, tip>>

Time == 0..MaxTime
Entries == [run : Runs, of : Datasets, start : Time, end : Time \cup {None}]

TimelineTypeOK ==
  /\ clock \in Time /\ now \in Time /\ open \in BOOLEAN /\ width \in Widths
  /\ history \subseteq Entries /\ day \in Days
  /\ \A x \in Days : cached[x] = None \/ cached[x] \subseteq Entries
  /\ tip = None \/ (tip.of \in Entries /\ tip.seconds \in Time)

TimelineInit ==
  /\ clock \in Days /\ now = clock /\ history = {} /\ open = TRUE /\ tip = None
  /\ day \in Days /\ cached = [x \in Days |-> None] /\ width \in Widths

Larger(i, j) == IF i < j THEN j ELSE i

-----------------------------------------------------------------------------
(* What is drawn.                                                          *)

\* The page shows a spinner until it has an answer for the day.
Mounted == open /\ cached[day] # None
Shown == IF Mounted THEN cached[day] ELSE {}

\* groupRunsByReport
Name(e) == NameOf[e.of]
Bucket(name) == {e \in Shown : Name(e) = name}
EarliestStart(name) ==
  CHOOSE t \in Time : (\E e \in Bucket(name) : e.start = t) /\ \A e \in Bucket(name) : t <= e.start
GroupedRows == SetToSortSeq({Name(e) : e \in Shown}, LAMBDA i, j :
  \/ EarliestStart(i) < EarliestStart(j)
  \/ EarliestStart(i) = EarliestStart(j) /\ i < j)
RowIndex(e) == CHOOSE i \in DOMAIN GroupedRows : GroupedRows[i] = Name(e)

\* timeToX
TimeToX(t) == (IF t < day THEN 0 ELSE IF t > day + Length THEN Length ELSE t - day) * width

\* Mutant: a bar goes on to the present.
EndsAtClock(e) == Larger(e.start, IF e.end = None THEN clock ELSE e.end)

\* computeBarGeometry: a run without an end goes on to the last reading of the clock.
EndMs(e) == Larger(e.start, IF e.end = None THEN now ELSE e.end)

HasBar(e) == EndMs(e) >= day /\ e.start <= day + Length
Bar(e) == [x       |-> TimeToX(e.start),
           width   |-> Larger(MinBar * Length, TimeToX(EndMs(e)) - TimeToX(e.start)),
           seconds |-> EndMs(e) - e.start]

\* buildHourTicks, which begins at the hour of the first moment or at the next one.
FirstTick == LET hour == (day \div Hour) * Hour IN IF hour < day THEN hour + Hour ELSE hour
HourTicks == {t \in {FirstTick + k * Hour : k \in 0..(24 * 14 - 1)} : t <= day + Length}

HasNowLine == day <= now /\ now <= day + Length

-----------------------------------------------------------------------------
(* The server, the clock and the page.                                     *)

TimePasses ==
  /\ clock < MaxTime /\ clock' = clock + 1
  /\ UNCHANGED <<history, day, cached, open, now, width, tip>>

\* Power BI refreshes a dataset once at a time.
RunStarts(x, dataset) ==
  /\ \A e \in history : e.run # x /\ (e.of = dataset => e.end # None)
  /\ history' = history \cup {[run |-> x, of |-> dataset, start |-> clock, end |-> None]}
  /\ UNCHANGED <<clock, day, cached, open, now, width, tip>>
RunEnds(e) ==
  /\ e \in history /\ e.end = None
  /\ history' = (history \ {e}) \cup {[e EXCEPT !.end = clock]}
  /\ UNCHANGED <<clock, day, cached, open, now, width, tip>>

IntervalTicks ==
  /\ Mounted /\ now # clock /\ now' = clock
  /\ UNCHANGED <<clock, history, day, cached, open, width, tip>>
Resize ==
  /\ Mounted /\ width' \in Widths \ {width}
  /\ UNCHANGED <<clock, history, day, cached, open, now, tip>>

\* A timeline that comes into being reads clock and width, and has no tooltip; one
\* that stays keeps its own, whatever happens to the bar below the pointer.
Remount ==
  IF Mounted /\ Mounted' THEN UNCHANGED <<now, width, tip>>
  ELSE /\ tip' = None
       /\ IF Mounted' THEN now' = clock /\ width' \in Widths ELSE UNCHANGED <<now, width>>

\* query_refresh_timetable: the runs that began in the day.
AnswerArrives ==
  /\ cached' = [cached EXCEPT ![day] = {e \in history : day <= e.start /\ e.start <= day + Length}]
  /\ UNCHANGED <<clock, history, day, open>> /\ Remount
ChooseDay(x) ==
  /\ x # day /\ day' = x /\ UNCHANGED <<clock, history, cached, open>> /\ Remount
ToggleTimeline ==
  /\ open' = ~open /\ UNCHANGED <<clock, history, day, cached>> /\ Remount

Hover(e) ==
  /\ e \in Shown /\ HasBar(e) /\ tip' = [of |-> e, seconds |-> Bar(e).seconds]
  /\ UNCHANGED <<clock, history, day, cached, open, now, width>>
Leave ==
  /\ tip # None /\ tip' = None
  /\ UNCHANGED <<clock, history, day, cached, open, now, width>>

TimelineNext ==
  \/ TimePasses \/ IntervalTicks \/ Resize \/ AnswerArrives \/ ToggleTimeline \/ Leave
  \/ \E x \in Runs, dataset \in Datasets : RunStarts(x, dataset)
  \/ \E e \in Entries : RunEnds(e) \/ Hover(e)
  \/ \E x \in Days : ChooseDay(x)

\* Whatever the delays: every run of the answer has its bar, in the row of its
\* dataset, and covers no later bar of that dataset but by the least width; a run that
\* goes on ends at the line of the present, since both are of one reading of the
\* clock; the hours of the day, and no others, have their lines; and a tooltip says
\* of the run below it no more than the bar does.
TimelineTellsRuns == Mounted =>
  /\ \A e \in Shown : HasBar(e)
  /\ \A e, f \in Shown : e.of = f.of /\ e.start < f.start =>
       /\ RowIndex(e) = RowIndex(f)
       /\ Bar(e).width = MinBar * Length \/ Bar(e).x + Bar(e).width <= Bar(f).x
  /\ \A e \in Shown : e.end = None /\ e.start <= now /\ HasNowLine =>
       Bar(e).width = MinBar * Length \/ Bar(e).x + Bar(e).width = TimeToX(now)
  /\ HourTicks = {t \in day..(day + Length) : t % Hour = 0}
  /\ tip # None /\ tip.of \in Shown => tip.seconds <= Bar(tip.of).seconds
=============================================================================
