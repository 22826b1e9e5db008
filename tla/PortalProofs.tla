------------------------------- MODULE PortalProofs ---------------------------
(***************************************************************************)
(* Theorems about the pages that show what is asked for.  What the         *)
(* statistics draw was asked for by the filters, because two questions of  *)
(* one tab have different keys.  The calendar of the trends rests on each  *)
(* day being in one year and one month, and on weeks that begin four days  *)
(* before the Thursday they are numbered by.  In the monitoring an answer  *)
(* is kept for the selection it was asked under, so that the rows are of   *)
(* it as long as they are drawn; and in the timeline a bar grows only to   *)
(* the right, under the lines of the whole hours.  Reports are found in    *)
(* forests of folders, which recursion goes up and down, and in a list     *)
(* that is read a page at a time.  At the end the types of all the pages:  *)
(* of a part that has variables of its own by what is proved of it alone,  *)
(* of the others by their invariants and what those leave open.            *)
(***************************************************************************)
EXTENDS AdminProofs, PagesProofs

-----------------------------------------------------------------------------
(* The statistics.                                                         *)

\* What an empty choice is written as in a key is no department and no user.
StatsConstants ==
  /\ All \notin CountedReports /\ All \notin Companies /\ All \in DOMAIN Recorded
  /\ {"", "none"} \cap Teamed = {} /\ "" \notin Staff /\ None \notin Teamed
  /\ None \notin Stats!Drills

Filters == [company : Companies \cup {All}, report : CountedReports \cup {All}, period : Periods]
Units == {"day", "week", "month"}
Lives == [action : DOMAIN Recorded, pages : Nat]

\* The key and the question of the tab, for filters, a choice, a unit and an action.
DrillMark(d) ==
  <<IF d = None \/ d.who = "user" THEN "" ELSE IF d.id = None THEN "none" ELSE d.id,
    IF d = None \/ d.who = "department" THEN "" ELSE d.id>>
KeyFor(t, f, d, u, l) ==
  <<t, CASE t = "lifecycle" -> <<l.action, l.pages>>
         [] t = "trends"    -> <<u>>
         [] t = "detail"    -> DrillMark(d)
         [] t = "own"       -> IF d = None THEN <<>> ELSE DrillMark(d)
         [] OTHER           -> <<>>,
    IF t # "own" THEN <<f.report, f.period, f.company>> ELSE <<f.report, f.period>>>>
AskFor(t, f, d, u, l) ==
  [of |-> f, drill |-> IF t \in {"detail", "own"} THEN d ELSE None,
   by |-> CASE t = "lifecycle" -> l [] t = "trends" -> u [] OTHER -> None]

FiltersTyped ==
  /\ part \in BOOLEAN /\ server \in BOOLEAN
  /\ window \in IF part THEN Stats!Tabs ELSE {"own"}
  /\ fields \in Filters /\ (~part => fields.company = All)
  /\ sight \in Stats!Drills \cup {None} /\ draft \in Units /\ save \in Lives

ReportCounts == server => fields.report = All \/ fields.report \in Stats!ReportsOf(fields.company)

\* The answer that is kept was asked by the tab that is open, of some filters.
KeptFits ==
  \/ list = None
  \/ \E f \in Filters, d \in Stats!Drills \cup {None}, u \in Units, l \in Lives :
       /\ ~part => f.company = All
       /\ list = [key |-> KeyFor(window, f, d, u, l), asked |-> AskFor(window, f, d, u, l)]

StatsIInv == FiltersTyped /\ ReportCounts /\ KeptFits

\* A question of the open tab with the key of the present one is the present one.
LEMMA KeysApart ==
  ASSUME StatsConstants, FiltersTyped,
         NEW f \in Filters, NEW d \in Stats!Drills \cup {None}, NEW u \in Units, NEW l \in Lives,
         ~part => f.company = All,
         KeyFor(window, f, d, u, l) = KeyFor(window, fields, sight, draft, save)
  PROVE  AskFor(window, f, d, u, l) = AskFor(window, fields, sight, draft, save)
<1> DEFINE t == window  g == fields  e == sight  m == save
<1>0. /\ t \in Stats!Tabs \cup {"own"} /\ g \in Filters /\ e \in Stats!Drills \cup {None} /\ m \in Lives
      /\ t = "own" => f.company = g.company
  BY DEF FiltersTyped, Stats!Tabs
<1>1. f.report = g.report /\ f.period = g.period => (f.company = g.company => f = g)
  BY <1>0 DEF Filters
<1>2. l.action = m.action /\ l.pages = m.pages => l = m
  BY <1>0 DEF Lives
<1>3. ASSUME DrillMark(d) = DrillMark(e) PROVE d = e
  <2>1. /\ d # None => (d.who = "department" /\ d.id \in Teamed \cup {None}) \/ (d.who = "user" /\ d.id \in Staff)
        /\ e # None => (e.who = "department" /\ e.id \in Teamed \cup {None}) \/ (e.who = "user" /\ e.id \in Staff)
    BY <1>0 DEF Stats!Drills
  <2>2. d # None /\ e # None /\ d.who = e.who /\ d.id = e.id => d = e
    BY <1>0 DEF Stats!Drills
  <2>3. /\ DrillMark(d)[1] = DrillMark(e)[1] /\ DrillMark(d)[2] = DrillMark(e)[2]
        /\ DrillMark(d)[1] = IF d = None \/ d.who = "user" THEN "" ELSE IF d.id = None THEN "none" ELSE d.id
        /\ DrillMark(e)[1] = IF e = None \/ e.who = "user" THEN "" ELSE IF e.id = None THEN "none" ELSE e.id
        /\ DrillMark(d)[2] = IF d = None \/ d.who = "department" THEN "" ELSE d.id
        /\ DrillMark(e)[2] = IF e = None \/ e.who = "department" THEN "" ELSE e.id
    BY <1>3 DEF DrillMark
  <2>4. CASE d = None
    BY <2>1, <2>3, <2>4 DEF StatsConstants
  <2>5. CASE d # None /\ d.who = "department"
    BY <2>1, <2>2, <2>3, <2>5 DEF StatsConstants
  <2>6. CASE d # None /\ d.who = "user"
    BY <2>1, <2>2, <2>3, <2>6 DEF StatsConstants
  <2> QED BY <2>1, <2>4, <2>5, <2>6
<1>4. CASE t \notin {"lifecycle", "trends", "detail", "own"}
  BY <1>0, <1>1, <1>4 DEF KeyFor, AskFor
<1>5. CASE t = "lifecycle"
  BY <1>0, <1>1, <1>2, <1>5 DEF KeyFor, AskFor
<1>6. CASE t = "trends"
  BY <1>0, <1>1, <1>6 DEF KeyFor, AskFor
<1>7. CASE t = "detail"
  BY <1>0, <1>1, <1>3, <1>7 DEF KeyFor, AskFor
<1>8. CASE t = "own" /\ d = None /\ e = None
  BY <1>0, <1>1, <1>8 DEF KeyFor, AskFor
<1>9. CASE t = "own" /\ d # None /\ e # None
  BY <1>0, <1>1, <1>3, <1>9 DEF KeyFor, AskFor
<1>10. CASE t = "own" /\ (d = None) # (e = None)
  <2>1. <<>> # DrillMark(d) /\ <<>> # DrillMark(e)
    BY DEF DrillMark
  <2> QED BY <1>10, <2>1 DEF KeyFor
<1> QED BY <1>0, <1>4, <1>5, <1>6, <1>7, <1>8, <1>9, <1>10 DEF Stats!Tabs

LEMMA KeyIsQueryKey ==
  ASSUME FiltersTyped
  PROVE  /\ Stats!QueryKey = KeyFor(window, fields, sight, draft, save)
         /\ Stats!Request = AskFor(window, fields, sight, draft, save)
<1>1. Stats!Request = AskFor(window, fields, sight, draft, save)
  BY DEF Stats!Request, AskFor
<1>2. Stats!DrillKey = DrillMark(sight)
  BY DEF Stats!DrillKey, DrillMark
<1>3. Stats!PK = IF window # "own" THEN <<fields.report, fields.period, fields.company>>
                 ELSE <<fields.report, fields.period>>
  BY DEF FiltersTyped, Stats!PK, Stats!Tabs
<1> QED BY <1>1, <1>2, <1>3 DEF Stats!QueryKey, KeyFor

LEMMA StatsFollow == ASSUME StatsConstants, StatsIInv PROVE Stats!StatsFitFilters
<1>1. ASSUME Stats!Shown # None PROVE Stats!Shown = Stats!Request
  <2>1. list # None /\ list.key = Stats!QueryKey /\ Stats!Shown = list.asked
    BY <1>1 DEF Stats!Shown
  <2>2. PICK f \in Filters, d \in Stats!Drills \cup {None}, u \in Units, l \in Lives :
          /\ ~part => f.company = All
          /\ list = [key |-> KeyFor(window, f, d, u, l), asked |-> AskFor(window, f, d, u, l)]
    BY <2>1 DEF StatsIInv, KeptFits
  <2>3. KeyFor(window, f, d, u, l) = KeyFor(window, fields, sight, draft, save) /\ FiltersTyped
    BY <2>1, <2>2, KeyIsQueryKey DEF StatsIInv
  <2>4. AskFor(window, f, d, u, l) = AskFor(window, fields, sight, draft, save)
    BY <2>2, <2>3, KeysApart
  <2> QED BY <2>1, <2>2, <2>4, KeyIsQueryKey DEF StatsIInv
<1>2. ASSUME server, fields.report # All PROVE Stats!Counted # {}
  <2>1. fields.report \in Stats!ReportsOf(fields.company)
    BY <1>2 DEF StatsIInv, ReportCounts
  <2> QED BY <1>2, <2>1 DEF Stats!Counted
<1> QED BY <1>1, <1>2 DEF Stats!StatsFitFilters

LEMMA StatsInitIInv == ASSUME StatsConstants, Stats!StatsInit PROVE StatsIInv
BY DEF Stats!StatsInit, StatsIInv, FiltersTyped, ReportCounts, KeptFits, Filters, Units, Lives, Stats!Tabs, StatsConstants

LEMMA StatsStep == ASSUME StatsConstants, StatsIInv, [Stats!StatsNext]_(Stats!statsVars) PROVE StatsIInv'
<1>0. FiltersTyped /\ ReportCounts /\ KeptFits
  BY DEF StatsIInv
<1>1. ASSUME UNCHANGED <<part, window, list>> PROVE KeptFits'
  BY <1>0, <1>1 DEF KeptFits
<1>2. ASSUME NEW f \in Filters, NEW loaded \in BOOLEAN
      PROVE  /\ Stats!Pruned(f, loaded) \in Filters /\ Stats!Pruned(f, loaded).company = f.company
             /\ loaded => \/ Stats!Pruned(f, loaded).report = All
                           \/ Stats!Pruned(f, loaded).report \in Stats!ReportsOf(f.company)
  BY DEF Stats!Pruned, Filters
<1>3. CASE UNCHANGED Stats!statsVars
  BY <1>0, <1>1, <1>3 DEF Stats!statsVars, StatsIInv, FiltersTyped, ReportCounts
<1>4. CASE Stats!ListArrives
  <2>1. /\ server' = TRUE /\ fields' = Stats!Pruned(fields, TRUE)
        /\ UNCHANGED <<part, window, sight, draft, save, list>>
    BY <1>4 DEF Stats!ListArrives
  <2>2. FiltersTyped' /\ ReportCounts'
    BY <1>0, <1>2, <2>1 DEF FiltersTyped, ReportCounts
  <2> QED BY <1>1, <2>1, <2>2 DEF StatsIInv
<1>5. CASE Stats!LoadMore
  BY <1>0, <1>1, <1>5 DEF Stats!LoadMore, StatsIInv, FiltersTyped, ReportCounts, Lives
<1>6. CASE Stats!Fetch
  <2>1. list' = [key |-> KeyFor(window, fields, sight, draft, save), asked |-> AskFor(window, fields, sight, draft, save)]
        /\ UNCHANGED <<part, window, fields, sight, draft, save, server>>
    BY <1>0, <1>6, KeyIsQueryKey DEF Stats!Fetch
  <2>2. FiltersTyped' /\ ReportCounts'
    BY <1>0, <2>1 DEF FiltersTyped, ReportCounts
  <2>3. KeptFits'
    BY <1>0, <2>1 DEF FiltersTyped, KeptFits
  <2> QED BY <2>2, <2>3 DEF StatsIInv
<1>7. CASE \E t \in Stats!Tabs : Stats!SelectTab(t)
  BY <1>0, <1>7 DEF Stats!SelectTab, StatsIInv, FiltersTyped, ReportCounts, KeptFits
<1>8. CASE \E p \in Periods : Stats!SetPeriod(p)
  BY <1>0, <1>1, <1>8 DEF Stats!SetPeriod, StatsIInv, FiltersTyped, ReportCounts, Filters
<1>9. CASE \E x \in Companies \cup {All} : Stats!SetCompany(x)
  <2>1. PICK x \in Companies \cup {All} : Stats!SetCompany(x)
    BY <1>9
  <2>2. part /\ server' \in BOOLEAN /\ fields' = [fields EXCEPT !.company = x, !.report = All]
        /\ UNCHANGED <<part, window, sight, draft, save, list>>
    BY <2>1 DEF Stats!SetCompany
  <2>3. fields' \in Filters /\ fields'.report = All
    BY <1>0, <2>2 DEF FiltersTyped, Filters
  <2>4. FiltersTyped' /\ ReportCounts'
    BY <1>0, <2>2, <2>3 DEF FiltersTyped, ReportCounts
  <2> QED BY <1>1, <2>2, <2>4 DEF StatsIInv
<1>10. CASE \E x \in Companies : Stats!CompanyCard(x)
  <2>1. PICK x \in Companies : Stats!CompanyCard(x)
    BY <1>10
  <2> DEFINE f == [fields EXCEPT !.company = IF x = fields.company THEN All ELSE x]
  <2>2. part /\ server' \in BOOLEAN /\ fields' = Stats!Pruned(f, server')
        /\ UNCHANGED <<part, window, sight, draft, save, list>>
    BY <2>1 DEF Stats!CompanyCard
  <2>3. f \in Filters
    BY <1>0 DEF FiltersTyped, Filters
  <2> HIDE DEF f
  <2>4. FiltersTyped' /\ ReportCounts'
    BY <1>0, <1>2, <2>2, <2>3 DEF FiltersTyped, ReportCounts
  <2> QED BY <1>1, <2>2, <2>4 DEF StatsIInv
<1>11. CASE \E r \in CountedReports \cup {All} : Stats!PickReport(r)
  BY <1>0, <1>1, <1>11 DEF Stats!PickReport, StatsIInv, FiltersTyped, ReportCounts, Filters
<1>12. CASE \E d \in Stats!Drills : Stats!Drill(d)
  BY <1>0, <1>1, <1>12 DEF Stats!Drill, StatsIInv, FiltersTyped, ReportCounts
<1>13. CASE \E u \in {"day", "week", "month"} : Stats!SetUnit(u)
  BY <1>0, <1>1, <1>13 DEF Stats!SetUnit, StatsIInv, FiltersTyped, ReportCounts, Units
<1>14. CASE \E x \in Stats!Actions : Stats!SelectAction(x)
  BY <1>0, <1>1, <1>14 DEF Stats!SelectAction, StatsIInv, FiltersTyped, ReportCounts, Lives, Stats!Actions
<1> QED BY <1>3, <1>4, <1>5, <1>6, <1>7, <1>8, <1>9, <1>10, <1>11, <1>12, <1>13, <1>14 DEF Stats!StatsNext

-----------------------------------------------------------------------------
(* The timeline.                                                           *)

\* A day has no more hours than the timeline looks for.
TimelineConstants ==
  /\ LastMoment \in Nat /\ Midnights \in SUBSET (0..LastMoment) /\ DayLength \in Nat
  /\ Hour \in Nat \ {0} /\ DayLength <= 335 * Hour
  /\ MinBar \in Nat /\ Widths \in SUBSET Nat /\ None \notin Nat

\* Runs of one dataset follow each other.
Apart(runs) == \A e, f \in runs : e.of = f.of /\ e.start < f.start => e.end # None /\ e.end <= f.start

ClockTyped ==
  /\ part \in Timeline!Time /\ draft \in Timeline!Time /\ draft <= part
  /\ fields \in Midnights /\ window \in BOOLEAN /\ save \in Widths

RunsPast ==
  /\ server \in SUBSET Timeline!Entries /\ Apart(server)
  /\ \A e \in server : e.start <= part /\ (e.end # None => e.start <= e.end /\ e.end <= part)

AnswersFit ==
  /\ DOMAIN list = Midnights
  /\ \A x \in Midnights : list[x] # None =>
       /\ list[x] \in SUBSET Timeline!Entries /\ Apart(list[x])
       /\ \A e \in list[x] : x <= e.start /\ e.start <= x + DayLength

EndBy(e, t) == IF e.end = None THEN Timeline!Larger(e.start, t) ELSE Timeline!Larger(e.start, e.end)

TipFits == sight # None =>
  /\ sight.of \in Timeline!Entries /\ sight.seconds \in Timeline!Time
  /\ sight.seconds <= EndBy(sight.of, draft) - sight.of.start

TimelineIInv == ClockTyped /\ RunsPast /\ AnswersFit /\ TipFits

LEMMA EndsBy ==
  ASSUME TimelineConstants, NEW e \in Timeline!Entries, NEW t \in Timeline!Time
  PROVE  /\ e.start \in Timeline!Time /\ EndBy(e, t) \in Timeline!Time /\ e.start <= EndBy(e, t)
         /\ EndBy(e, t) - e.start \in Timeline!Time
         /\ \A later \in Timeline!Time : t <= later => EndBy(e, t) <= EndBy(e, later)
BY DEF TimelineConstants, Timeline!Entries, Timeline!Time, EndBy, Timeline!Larger

LEMMA EndMsIs ==
  ASSUME NEW e PROVE Timeline!EndMs(e) = EndBy(e, draft)
BY DEF Timeline!EndMs, EndBy

LEMMA Widens ==
  ASSUME NEW a \in Int, NEW b \in Int, NEW w \in Nat, a <= b
  PROVE  a * w <= b * w
OBVIOUS

LEMMA WholeHours ==
  ASSUME NEW k \in Int, NEW h \in Nat \ {0}
  PROVE  (k * h) % h = 0
OBVIOUS

\* The place of a moment grows with it.
LEMMA PlacesGrow ==
  ASSUME TimelineConstants, ClockTyped, NEW t \in Timeline!Time, NEW u \in Timeline!Time, t <= u
  PROVE  /\ Timeline!TimeToX(t) \in Int /\ Timeline!TimeToX(u) \in Int
         /\ Timeline!TimeToX(t) <= Timeline!TimeToX(u)
<1> DEFINE Cut(m) == IF m < fields THEN 0 ELSE IF m > fields + DayLength THEN DayLength ELSE m - fields
<1>1. save \in Nat /\ fields \in Nat /\ t \in Nat /\ u \in Nat /\ DayLength \in Nat
  BY DEF TimelineConstants, ClockTyped, Timeline!Time
<1>2. Cut(t) \in Int /\ Cut(u) \in Int /\ Cut(t) <= Cut(u)
  BY <1>1
<1>3. Timeline!TimeToX(t) = Cut(t) * save /\ Timeline!TimeToX(u) = Cut(u) * save
  BY DEF Timeline!TimeToX
<1> HIDE DEF Cut
<1>4. Cut(t) * save <= Cut(u) * save /\ Cut(t) * save \in Int /\ Cut(u) * save \in Int
  BY <1>1, <1>2, Widens
<1> QED BY <1>3, <1>4

\* The lines of the hours are the whole hours of the day.
LEMMA HoursAreTicked ==
  ASSUME TimelineConstants, fields \in Midnights
  PROVE  Timeline!HourTicks = {t \in fields..(fields + DayLength) : t % Hour = 0}
<1> DEFINE d == fields
           q == IF (d \div Hour) * Hour < d THEN (d \div Hour) + 1 ELSE d \div Hour
<1>1. d \in Nat /\ DayLength \in Nat /\ Hour \in Nat /\ Hour > 0 /\ DayLength <= 335 * Hour
  BY DEF TimelineConstants
<1>2. d \div Hour \in Int /\ d = Hour * (d \div Hour) + (d % Hour) /\ d % Hour \in 0..(Hour - 1)
  BY <1>1
<1>3. ((d \div Hour) + 1) * Hour = (d \div Hour) * Hour + Hour /\ ((d \div Hour) - 1) * Hour = (d \div Hour) * Hour - Hour
      /\ Hour * (d \div Hour) = (d \div Hour) * Hour /\ (d \div Hour) * Hour \in Int
  BY <1>1, <1>2
<1>4. q \in Int /\ Timeline!FirstTick = q * Hour /\ q * Hour \in Int /\ d <= q * Hour /\ (q - 1) * Hour < d
  <2>1. CASE (d \div Hour) * Hour < d
    <3>1. q = (d \div Hour) + 1 /\ q - 1 = d \div Hour
      BY <1>2, <2>1
    <3>2. Timeline!FirstTick = (d \div Hour) * Hour + Hour
      BY <2>1 DEF Timeline!FirstTick
    <3> QED BY <1>1, <1>2, <1>3, <2>1, <3>1, <3>2
  <2>2. CASE ~((d \div Hour) * Hour < d)
    <3>1. q = d \div Hour
      BY <2>2
    <3>2. Timeline!FirstTick = (d \div Hour) * Hour
      BY <2>2 DEF Timeline!FirstTick
    <3> QED BY <1>1, <1>2, <1>3, <2>2, <3>1, <3>2
  <2> QED BY <2>1, <2>2
<1> HIDE DEF q
<1>5. Timeline!HourTicks = {t \in {q * Hour + k * Hour : k \in 0..335} : t <= d + DayLength}
  BY <1>4 DEF Timeline!HourTicks
<1>6. ASSUME NEW k \in 0..335
      PROVE  q * Hour + k * Hour \in Int /\ d <= q * Hour + k * Hour /\ (q * Hour + k * Hour) % Hour = 0
  <2>1. q * Hour + k * Hour = (q + k) * Hour /\ (q + k) \in Int
    BY <1>1, <1>4
  <2>2. ((q + k) * Hour) % Hour = 0
    BY <1>1, <2>1, WholeHours
  <2>3. k * Hour \in Nat
    BY <1>1
  <2> QED BY <1>1, <1>4, <2>1, <2>2, <2>3
<1>7. ASSUME NEW t \in d..(d + DayLength), t % Hour = 0 PROVE \E k \in 0..335 : t = q * Hour + k * Hour
  <2> DEFINE p == t \div Hour
  <2>1. t \in Int /\ p \in Int /\ t = Hour * p + (t % Hour)
    BY <1>1
  <2> HIDE DEF p
  <2>2. t = p * Hour
    BY <1>1, <1>7, <2>1
  <2>3. (q - 1) * Hour < p * Hour
    BY <1>1, <1>4, <1>7, <2>1, <2>2
  <2>4. p > q - 1
    BY <1>1, <1>4, <2>1, <2>3
  <2> DEFINE k == p - q
  <2>5. k \in Nat /\ p = q + k
    BY <1>4, <2>1, <2>4
  <2> HIDE DEF k
  <2>6. (q + k) * Hour = q * Hour + k * Hour /\ k * Hour \in Int
    BY <1>1, <1>4, <2>5
  <2>7. k * Hour <= DayLength
    BY <1>1, <1>4, <1>7, <2>1, <2>2, <2>5, <2>6
  <2>8. k <= 335
    <3> SUFFICES ASSUME k >= 336 PROVE FALSE
      BY <2>5
    <3>1. 336 * Hour <= k * Hour
      BY <1>1, <2>5, Widens
    <3> QED BY <1>1, <2>6, <2>7, <3>1
  <2> QED BY <2>2, <2>5, <2>6, <2>8
<1>8. ASSUME NEW t PROVE t \in Timeline!HourTicks <=> t \in fields..(fields + DayLength) /\ t % Hour = 0
  <2>1. ASSUME t \in Timeline!HourTicks PROVE t \in fields..(fields + DayLength) /\ t % Hour = 0
    <3>1. PICK k \in 0..335 : t = q * Hour + k * Hour /\ t <= d + DayLength
      BY <1>5, <2>1
    <3>2. t \in Int /\ d <= t /\ t % Hour = 0
      BY <1>6, <3>1
    <3> QED BY <1>1, <3>1, <3>2
  <2>2. ASSUME t \in fields..(fields + DayLength), t % Hour = 0 PROVE t \in Timeline!HourTicks
    <3>1. PICK k \in 0..335 : t = q * Hour + k * Hour
      BY <1>7, <2>2
    <3> QED BY SMTT(30), <1>1, <1>5, <2>2, <3>1
  <2> QED BY <2>1, <2>2
<1> QED BY <1>8

LEMMA TimelineFollows == ASSUME TimelineConstants, TimelineIInv PROVE Timeline!TimelineTellsRuns
<1> SUFFICES ASSUME Timeline!Mounted PROVE Timeline!TimelineTellsRuns
  BY DEF Timeline!TimelineTellsRuns
<1>0. ClockTyped /\ AnswersFit /\ TipFits
  BY DEF TimelineIInv
<1>1. /\ Timeline!Shown \in SUBSET Timeline!Entries /\ Apart(Timeline!Shown)
      /\ \A e \in Timeline!Shown : fields <= e.start /\ e.start <= fields + DayLength
  BY <1>0 DEF Timeline!Shown, Timeline!Mounted, AnswersFit, ClockTyped
<1>2. \A e \in Timeline!Entries : Timeline!EndMs(e) = EndBy(e, draft) /\ EndBy(e, draft) \in Timeline!Time
                                  /\ e.start \in Timeline!Time /\ e.start <= EndBy(e, draft)
  BY <1>0, EndsBy, EndMsIs DEF ClockTyped
<1>3. fields \in Nat /\ (\A m \in Timeline!Time : m \in Nat) /\ DayLength \in Nat /\ MinBar \in Nat
  BY <1>0 DEF ClockTyped, TimelineConstants, Timeline!Time
<1>4. \A e \in Timeline!Shown : Timeline!HasBar(e)
  <2> SUFFICES ASSUME NEW e \in Timeline!Shown PROVE Timeline!HasBar(e)
    OBVIOUS
  <2>1. e \in Timeline!Entries /\ fields <= e.start /\ e.start <= fields + DayLength
    BY <1>1
  <2>2. Timeline!EndMs(e) \in Nat /\ e.start \in Nat /\ e.start <= Timeline!EndMs(e)
    BY <1>2, <1>3, <2>1
  <2> QED BY <1>3, <2>1, <2>2 DEF Timeline!HasBar
<1>5. ASSUME NEW e \in Timeline!Entries
      PROVE  \/ Timeline!Bar(e).width = MinBar * DayLength
             \/ Timeline!Bar(e).x + Timeline!Bar(e).width = Timeline!TimeToX(EndBy(e, draft))
  <2>1. Timeline!TimeToX(e.start) \in Int /\ Timeline!TimeToX(EndBy(e, draft)) \in Int
    BY <1>0, <1>2, PlacesGrow
  <2>2. /\ Timeline!Bar(e).x = Timeline!TimeToX(e.start)
        /\ Timeline!Bar(e).width = Timeline!Larger(MinBar * DayLength,
                                                   Timeline!TimeToX(EndBy(e, draft)) - Timeline!TimeToX(e.start))
    BY <1>2 DEF Timeline!Bar
  <2> QED BY <2>1, <2>2 DEF Timeline!Larger
<1>6. ASSUME NEW e \in Timeline!Shown, NEW f \in Timeline!Shown, e.of = f.of, e.start < f.start
      PROVE  /\ Timeline!RowIndex(e) = Timeline!RowIndex(f)
             /\ \/ Timeline!Bar(e).width = MinBar * DayLength
                \/ Timeline!Bar(e).x + Timeline!Bar(e).width <= Timeline!Bar(f).x
  <2>1. Timeline!RowIndex(e) = Timeline!RowIndex(f)
    BY <1>6 DEF Timeline!RowIndex, Timeline!Name
  <2>2. e \in Timeline!Entries /\ f \in Timeline!Entries /\ e.end # None /\ e.end <= f.start
    BY <1>1, <1>6 DEF Apart
  <2>3. EndBy(e, draft) <= f.start
    <3>1. e.end \in Timeline!Time /\ e.start \in Nat /\ f.start \in Nat
      BY <1>2, <1>3, <2>2 DEF Timeline!Entries
    <3> QED BY <1>3, <1>6, <2>2, <3>1 DEF EndBy, Timeline!Larger
  <2>4. Timeline!TimeToX(EndBy(e, draft)) <= Timeline!TimeToX(f.start)
    BY <1>0, <1>2, <2>2, <2>3, PlacesGrow
  <2>5. Timeline!Bar(f).x = Timeline!TimeToX(f.start)
    BY DEF Timeline!Bar
  <2> QED BY <1>5, <2>1, <2>2, <2>4, <2>5
<1>7. ASSUME NEW e \in Timeline!Shown, e.end = None, e.start <= draft
      PROVE  \/ Timeline!Bar(e).width = MinBar * DayLength
             \/ Timeline!Bar(e).x + Timeline!Bar(e).width = Timeline!TimeToX(draft)
  <2>1. EndBy(e, draft) = draft
    <3>1. draft \in Nat /\ e.start \in Nat
      BY <1>0, <1>1, <1>2, <1>3 DEF ClockTyped
    <3> QED BY <1>7, <3>1 DEF EndBy, Timeline!Larger
  <2> QED BY <1>1, <1>5, <2>1
<1>8. Timeline!HourTicks = {t \in fields..(fields + DayLength) : t % Hour = 0}
  BY <1>0, HoursAreTicked DEF ClockTyped
<1>9. sight # None /\ sight.of \in Timeline!Shown => sight.seconds <= Timeline!Bar(sight.of).seconds
  BY <1>0, <1>2 DEF TipFits, Timeline!Bar
<1> QED BY <1>4, <1>6, <1>7, <1>8, <1>9 DEF Timeline!TimelineTellsRuns

LEMMA TimelineInitIInv == ASSUME TimelineConstants, Timeline!TimelineInit PROVE TimelineIInv
BY DEF TimelineConstants, Timeline!TimelineInit, TimelineIInv, ClockTyped, RunsPast, AnswersFit, TipFits, Apart,
       Timeline!Time

\* The clock of the timeline is read, or stays with its tooltip.
LEMMA RemountKeeps ==
  ASSUME TimelineConstants, TimelineIInv, Timeline!Remount, part' = part, fields' \in Midnights, window' \in BOOLEAN
  PROVE  ClockTyped' /\ TipFits'
<1>0. ClockTyped /\ TipFits
  BY DEF TimelineIInv
<1>1. CASE Timeline!Mounted /\ Timeline!Mounted'
  BY <1>0, <1>1 DEF ClockTyped, TipFits, Timeline!Remount, EndBy
<1>2. CASE ~(Timeline!Mounted /\ Timeline!Mounted')
  <2>1. sight' = None /\ (draft' = part \/ draft' = draft) /\ save' \in Widths
    BY <1>0, <1>2 DEF Timeline!Remount, ClockTyped
  <2>2. part \in Nat
    BY <1>0 DEF ClockTyped, Timeline!Time, TimelineConstants
  <2> QED BY <1>0, <2>1, <2>2 DEF ClockTyped, TipFits
<1> QED BY <1>1, <1>2

LEMMA TimelineStep ==
  ASSUME TimelineConstants, TimelineIInv, [Timeline!TimelineNext]_(Timeline!timelineVars) PROVE TimelineIInv'
<1>0. ClockTyped /\ RunsPast /\ AnswersFit /\ TipFits
  BY DEF TimelineIInv
<1>1. ASSUME UNCHANGED server, part' \in Timeline!Time, part <= part' PROVE RunsPast'
  <2>1. \A e \in server : e.start \in Nat /\ (e.end # None => e.end \in Nat)
    BY <1>0 DEF RunsPast, Timeline!Entries, Timeline!Time, TimelineConstants
  <2>2. part \in Nat /\ part' \in Nat
    BY <1>0, <1>1 DEF ClockTyped, Timeline!Time, TimelineConstants
  <2>3. \A e \in server : e.start <= part' /\ (e.end # None => e.start <= e.end /\ e.end <= part')
    BY <1>0, <1>1, <2>1, <2>2 DEF RunsPast
  <2> QED BY <1>0, <1>1, <2>3 DEF RunsPast, Apart
<1>2. part \in Nat /\ (\A m \in Timeline!Time : m \in Nat)
  BY <1>0 DEF ClockTyped, TimelineConstants, Timeline!Time
<1>3. ASSUME UNCHANGED list PROVE AnswersFit'
  BY <1>0, <1>3 DEF AnswersFit, Apart
<1>4. ASSUME UNCHANGED <<sight, draft>> PROVE TipFits'
  BY <1>0, <1>4 DEF TipFits, EndBy
<1>5. CASE UNCHANGED Timeline!timelineVars
  <2>1. UNCHANGED <<part, server, fields, list, window, draft, save, sight>>
    BY <1>5 DEF Timeline!timelineVars
  <2> QED BY <1>0, <1>1, <1>2, <1>3, <1>4, <2>1 DEF TimelineIInv, ClockTyped
<1>6. CASE Timeline!TimePasses
  <2>1. part' \in Timeline!Time /\ part <= part' /\ UNCHANGED <<server, fields, list, window, draft, save, sight>>
    BY <1>2, <1>6 DEF Timeline!TimePasses, Timeline!Time, TimelineConstants
  <2>2. ClockTyped'
    BY <1>0, <1>2, <2>1 DEF ClockTyped
  <2> QED BY <1>1, <1>3, <1>4, <2>1, <2>2 DEF TimelineIInv
<1>7. CASE Timeline!IntervalTicks
  <2>1. draft' = part /\ UNCHANGED <<part, server, fields, list, window, save, sight>>
    BY <1>7 DEF Timeline!IntervalTicks
  <2>2. ClockTyped'
    BY <1>0, <1>2, <2>1 DEF ClockTyped
  <2>3. TipFits'
    <3> SUFFICES ASSUME sight # None PROVE TipFits'
      BY <2>1 DEF TipFits
    <3>1. sight.of \in Timeline!Entries /\ draft \in Timeline!Time /\ part \in Timeline!Time /\ draft <= part
      BY <1>0 DEF TipFits, ClockTyped
    <3>2. EndBy(sight.of, draft) <= EndBy(sight.of, part) /\ EndBy(sight.of, draft) \in Nat /\ EndBy(sight.of, part) \in Nat
          /\ sight.of.start \in Nat
      BY <1>2, <3>1, EndsBy
    <3>3. sight.seconds \in Timeline!Time /\ sight.seconds <= EndBy(sight.of, draft) - sight.of.start
      BY <1>0 DEF TipFits
    <3>4. sight.seconds <= EndBy(sight.of, part) - sight.of.start
      BY <1>2, <3>2, <3>3
    <3> QED BY <2>1, <3>1, <3>3, <3>4 DEF TipFits, EndBy
  <2> QED BY <1>1, <1>2, <1>3, <1>0, <2>1, <2>2, <2>3 DEF TimelineIInv, ClockTyped
<1>8. CASE Timeline!Resize
  <2>1. save' \in Widths /\ UNCHANGED <<part, server, fields, list, window, draft, sight>>
    BY <1>8 DEF Timeline!Resize
  <2> QED BY <1>0, <1>1, <1>2, <1>3, <1>4, <2>1 DEF TimelineIInv, ClockTyped
<1>9. CASE Timeline!AnswerArrives
  <2>1. /\ list' = [list EXCEPT ![fields] = {e \in server : fields <= e.start /\ e.start <= fields + DayLength}]
        /\ UNCHANGED <<part, server, fields, window>> /\ Timeline!Remount
    BY <1>9 DEF Timeline!AnswerArrives
  <2>2. ClockTyped' /\ TipFits'
    BY <1>0, <2>1, RemountKeeps DEF ClockTyped
  <2>3. AnswersFit'
    <3> DEFINE s == {e \in server : fields <= e.start /\ e.start <= fields + DayLength}
    <3>1. s \in SUBSET Timeline!Entries /\ Apart(s) /\ \A e \in s : fields <= e.start /\ e.start <= fields + DayLength
      BY <1>0 DEF RunsPast, Apart
    <3>2. DOMAIN list' = Midnights /\ \A x \in Midnights : list'[x] = IF x = fields THEN s ELSE list[x]
      BY <1>0, <2>1 DEF AnswersFit
    <3> HIDE DEF s
    <3> QED BY <1>0, <3>1, <3>2 DEF AnswersFit
  <2> QED BY <1>1, <1>0, <1>2, <2>1, <2>2, <2>3 DEF TimelineIInv, ClockTyped
<1>10. CASE Timeline!ToggleTimeline
  <2>1. window' \in BOOLEAN /\ UNCHANGED <<part, server, fields, list>> /\ Timeline!Remount
    BY <1>10 DEF Timeline!ToggleTimeline
  <2>2. ClockTyped' /\ TipFits'
    BY <1>0, <2>1, RemountKeeps DEF ClockTyped
  <2> QED BY <1>0, <1>1, <1>2, <1>3, <2>1, <2>2 DEF TimelineIInv, ClockTyped
<1>11. CASE Timeline!Leave
  <2>1. sight' = None /\ UNCHANGED <<part, server, fields, list, window, draft, save>>
    BY <1>11 DEF Timeline!Leave
  <2>2. TipFits'
    BY <2>1 DEF TipFits
  <2> QED BY <1>0, <1>1, <1>2, <1>3, <2>1, <2>2 DEF TimelineIInv, ClockTyped
<1>12. CASE \E x \in Bars, z \in Datasets : Timeline!RunStarts(x, z)
  <2>1. PICK x \in Bars, z \in Datasets : Timeline!RunStarts(x, z)
    BY <1>12
  <2> DEFINE n == [run |-> x, of |-> z, start |-> part, end |-> None]
  <2>2. /\ \A e \in server : e.of = z => e.end # None
        /\ server' = server \cup {n} /\ UNCHANGED <<part, fields, list, window, draft, save, sight>>
    BY <2>1 DEF Timeline!RunStarts
  <2>3. n \in Timeline!Entries /\ n.start = part /\ n.end = None /\ n.of = z
    BY <1>0 DEF Timeline!Entries, ClockTyped
  <2> HIDE DEF n
  <2>4. \A e \in server : e.start \in Nat /\ (e.end # None => e.end \in Nat)
    BY <1>0 DEF RunsPast, Timeline!Entries, Timeline!Time, TimelineConstants
  <2>5. RunsPast'
    <3>1. Apart(server')
      BY <1>0, <1>2, <2>2, <2>3, <2>4 DEF Apart, RunsPast
    <3>2. \A e \in server' : e.start <= part /\ (e.end # None => e.start <= e.end /\ e.end <= part)
      BY <1>0, <1>2, <2>2, <2>3 DEF RunsPast
    <3> QED BY <1>0, <2>2, <2>3, <3>1, <3>2 DEF RunsPast
  <2> QED BY <1>0, <1>3, <1>4, <2>2, <2>5 DEF TimelineIInv, ClockTyped
<1>13. CASE \E e \in Timeline!Entries : Timeline!RunEnds(e)
  <2>1. PICK e \in Timeline!Entries : Timeline!RunEnds(e)
    BY <1>13
  <2> DEFINE n == [e EXCEPT !.end = part]
  <2>2. /\ e \in server /\ e.end = None
        /\ server' = (server \ {e}) \cup {n} /\ UNCHANGED <<part, fields, list, window, draft, save, sight>>
    BY <2>1 DEF Timeline!RunEnds
  <2>3. n \in Timeline!Entries /\ n.start = e.start /\ n.end = part /\ n.of = e.of
    BY <1>0 DEF Timeline!Entries, ClockTyped
  <2> HIDE DEF n
  <2>4. \A f \in server : f.start \in Nat /\ (f.end # None => f.end \in Nat)
    BY <1>0 DEF RunsPast, Timeline!Entries, Timeline!Time, TimelineConstants
  <2>5. RunsPast'
    <3>1. Apart(server')
      <4>1. \A f \in server : f.of = e.of => ~(e.start < f.start)
        BY <1>0, <2>2 DEF RunsPast, Apart
      <4> QED BY <1>0, <1>2, <2>2, <2>3, <2>4, <4>1 DEF Apart, RunsPast
    <3>2. part # None
      BY <1>2 DEF TimelineConstants
    <3>3. \A f \in server' : f.start <= part /\ (f.end # None => f.start <= f.end /\ f.end <= part)
      BY <1>0, <1>2, <2>2, <2>3, <3>2 DEF RunsPast
    <3> QED BY <1>0, <2>2, <2>3, <3>1, <3>3 DEF RunsPast
  <2> QED BY <1>0, <1>3, <1>4, <2>2, <2>5 DEF TimelineIInv, ClockTyped
<1>14. CASE \E e \in Timeline!Entries : Timeline!Hover(e)
  <2>1. PICK e \in Timeline!Entries : Timeline!Hover(e)
    BY <1>14
  <2>2. sight' = [of |-> e, seconds |-> Timeline!Bar(e).seconds] /\ UNCHANGED <<part, server, fields, list, window, draft, save>>
    BY <2>1 DEF Timeline!Hover
  <2>3. Timeline!Bar(e).seconds = EndBy(e, draft) - e.start
    BY EndMsIs DEF Timeline!Bar
  <2>4. EndBy(e, draft) - e.start \in Timeline!Time
    BY <1>0, EndsBy DEF ClockTyped
  <2>5. TipFits'
    <3>1. sight'.of = e /\ sight'.seconds = EndBy(e, draft) - e.start
      BY <2>2, <2>3
    <3>2. sight'.seconds <= EndBy(e, draft) - e.start
      BY <1>2, <2>4, <3>1
    <3>3. draft' = draft
      BY <2>2
    <3> QED BY <2>4, <3>1, <3>2, <3>3 DEF TipFits, EndBy
  <2> QED BY <1>0, <1>1, <1>2, <1>3, <2>2, <2>5 DEF TimelineIInv, ClockTyped
<1>15. CASE \E x \in Midnights : Timeline!ChooseDay(x)
  <2>1. fields' \in Midnights /\ UNCHANGED <<part, server, list, window>> /\ Timeline!Remount
    BY <1>15 DEF Timeline!ChooseDay
  <2>2. ClockTyped' /\ TipFits'
    BY <1>0, <2>1, RemountKeeps DEF ClockTyped
  <2> QED BY <1>0, <1>1, <1>2, <1>3, <2>1, <2>2 DEF TimelineIInv, ClockTyped
<1> QED BY <1>5, <1>6, <1>7, <1>8, <1>9, <1>10, <1>11, <1>12, <1>13, <1>14, <1>15 DEF Timeline!TimelineNext

-----------------------------------------------------------------------------
(* The periods of the trends.                                             *)

YearLength(y) == Weeks!Jan1(y + 1) - Weeks!Jan1(y)

\* A year has 365 days or 366.
LEMMA Years ==
  ASSUME NEW y \in Nat
  PROVE  Weeks!Jan1(y) \in Int /\ YearLength(y) \in {365, 366}
BY DEF Weeks!Jan1, Weeks!Leaps, YearLength

\* What years span.
LEMMA YearsGrow ==
  ASSUME NEW y \in Nat, NEW z \in Nat, y <= z
  PROVE  365 * (z - y) <= Weeks!Jan1(z) - Weeks!Jan1(y)
BY DEF Weeks!Jan1, Weeks!Leaps
LEMMA YearsGrow2 ==
  ASSUME NEW y \in Nat, NEW z \in Nat, y <= z
  PROVE  Weeks!Jan1(z) - Weeks!Jan1(y) <= 366 * (z - y)
BY DEF Weeks!Jan1, Weeks!Leaps

\* The first days of the months, without recursion.
Begins(y) == [k \in 1..12 |->
  Weeks!Jan1(y) + (IF k = 1 THEN 0 ELSE IF k = 2 THEN 31
                   ELSE (YearLength(y) - 337) + (CASE k = 3 -> 31 [] k = 4 -> 62 [] k = 5 -> 92 [] k = 6 -> 123 [] k = 7 -> 153
                                    [] k = 8 -> 184 [] k = 9 -> 215 [] k = 10 -> 245 [] k = 11 -> 276 [] k = 12 -> 306))]
LEMMA MonthBegins ==
  ASSUME NEW y \in Nat, NEW m \in 1..12
  PROVE  Weeks!MonthStart(y, m) = Begins(y)[m]
<1> DEFINE F(s) == [k \in 1..12 |-> IF k = 1 THEN Weeks!Jan1(y) ELSE s[k - 1] + Weeks!Length(y, k - 1)]
<1>0. Weeks!Jan1(y) \in Int /\ YearLength(y) \in Int
  BY Years
<1>1. \A k \in 1..12 : Weeks!Length(y, k) = IF k = 2 THEN YearLength(y) - 337 ELSE IF k \in {4, 6, 9, 11} THEN 30 ELSE 31
  BY DEF Weeks!Length, YearLength
<1>2. Begins(y) = F(Begins(y))
  <2>1. ASSUME NEW k \in 1..12 PROVE Begins(y)[k] = F(Begins(y))[k]
    BY <1>0, <1>1 DEF Begins
  <2> QED BY <2>1 DEF Begins
<1>3. ASSUME NEW s, s = F(s) PROVE s = Begins(y)
  <2>1. \A k \in 1..12 : s[k] = IF k = 1 THEN Weeks!Jan1(y) ELSE s[k - 1] + Weeks!Length(y, k - 1)
    BY <1>3
  <2>2. s[1] = Begins(y)[1] /\ s[2] = Begins(y)[2] /\ s[3] = Begins(y)[3] /\ s[4] = Begins(y)[4]
    BY <1>0, <1>1, <2>1 DEF Begins
  <2>3. s[5] = Begins(y)[5] /\ s[6] = Begins(y)[6] /\ s[7] = Begins(y)[7] /\ s[8] = Begins(y)[8]
    BY <1>0, <1>1, <2>1, <2>2 DEF Begins
  <2>4. s[9] = Begins(y)[9] /\ s[10] = Begins(y)[10] /\ s[11] = Begins(y)[11] /\ s[12] = Begins(y)[12]
    BY <1>0, <1>1, <2>1, <2>3 DEF Begins
  <2>5. \A k \in 1..12 : s[k] = Begins(y)[k]
    BY <2>2, <2>3, <2>4
  <2>6. DOMAIN s = 1..12 /\ s = [k \in DOMAIN s |-> s[k]]
    BY <1>3
  <2> QED BY <2>5, <2>6 DEF Begins
<1> HIDE DEF F
<1>4. Begins(y) = CHOOSE s : s = F(s)
  BY <1>2, <1>3
<1> QED BY <1>4 DEF Weeks!MonthStart, F

\* No day is of a year before the first that is counted.
PeriodConstants == LastYear \in Nat /\ Near \in 0..365

\* Each day from 2018 on is in one year.
LEMMA YearExists ==
  ASSUME NEW x \in Nat
  PROVE  \E y \in Nat : 2018 <= y /\ Weeks!Jan1(y) <= x /\ x < Weeks!Jan1(y + 1)
<1> DEFINE T == {n \in Nat : x < Weeks!Jan1(2018 + n + 1)}
<1>0. Weeks!Jan1(2018) = 0 /\ \A n \in Nat : Weeks!Jan1(2018 + n) \in Int
  BY Years DEF Weeks!Jan1, Weeks!Leaps
<1>1. x \in T
  <2>1. 365 * ((2018 + x + 1) - 2018) <= Weeks!Jan1(2018 + x + 1) - Weeks!Jan1(2018)
    BY YearsGrow
  <2>2. 2018 + (x + 1) = 2018 + x + 1 /\ x + 1 \in Nat
    OBVIOUS
  <2>3. Weeks!Jan1(2018 + x + 1) \in Int
    BY <1>0, <2>2
  <2>4. x < Weeks!Jan1(2018 + x + 1)
    BY <1>0, <2>1, <2>3
  <2> QED BY <2>4
<1>2. PICK n \in T : \A m \in T : n <= m
  <2>1. T \in SUBSET Nat
    OBVIOUS
  <2> HIDE DEF T
  <2> QED BY <1>1, <2>1, LeastNumber
<1>3. Weeks!Jan1(2018 + n) <= x
  <2>1. CASE n = 0
    BY <1>0, <2>1
  <2>2. CASE n # 0
    <3>1. n - 1 \in Nat /\ n - 1 \notin T /\ 2018 + (n - 1) + 1 = 2018 + n
      BY <1>2, <2>2
    <3>2. ~(x < Weeks!Jan1(2018 + n))
      BY <3>1
    <3> QED BY <1>0, <1>2, <3>2
  <2> QED BY <2>1, <2>2
<1> QED BY <1>2, <1>3

\* and in no other.
LEMMA YearIs ==
  ASSUME NEW x \in Nat, NEW y \in Nat, 2018 <= y, Weeks!Jan1(y) <= x, x < Weeks!Jan1(y + 1)
  PROVE  Weeks!YearOf(x) = y
<1> DEFINE Fits(z) == Weeks!Jan1(z) <= x /\ x < Weeks!Jan1(z + 1)
<1>1. ASSUME NEW z \in Nat, Fits(z) PROVE z = y
  <2>1. Weeks!Jan1(y) \in Int /\ Weeks!Jan1(z) \in Int /\ Weeks!Jan1(y + 1) \in Int /\ Weeks!Jan1(z + 1) \in Int
    BY Years
  <2>2. CASE z < y
    <3>1. 365 * (y - (z + 1)) <= Weeks!Jan1(y) - Weeks!Jan1(z + 1)
      BY <2>2, YearsGrow
    <3> QED BY <1>1, <2>1, <2>2, <3>1
  <2>3. CASE y < z
    <3>1. 365 * (z - (y + 1)) <= Weeks!Jan1(z) - Weeks!Jan1(y + 1)
      BY <2>3, YearsGrow
    <3> QED BY <1>1, <2>1, <2>3, <3>1
  <2> QED BY <2>2, <2>3
<1>2. y \in (2018 + (x \div 366))..(2018 + (x \div 365))
  <2>1. Weeks!Jan1(2018) = 0 /\ Weeks!Jan1(y) \in Int /\ Weeks!Jan1(y + 1) \in Int
    BY Years DEF Weeks!Jan1, Weeks!Leaps
  <2>2. 365 * (y - 2018) <= x
    BY <2>1, YearsGrow
  <2>3. Weeks!Jan1(y + 1) - Weeks!Jan1(2018) <= 366 * (y + 1 - 2018)
    BY YearsGrow2
  <2>4. x < 366 * (y + 1 - 2018)
    BY <2>1, <2>3
  <2> QED BY <2>2, <2>4
<1>3. \A z \in (2018 + (x \div 366))..(2018 + (x \div 365)) : z \in Nat
  OBVIOUS
<1> QED BY <1>1, <1>2, <1>3 DEF Weeks!YearOf

\* It is the year that YearOf finds.
LEMMA YearHolds ==
  ASSUME NEW x \in Nat
  PROVE  /\ Weeks!YearOf(x) \in Nat /\ 2018 <= Weeks!YearOf(x) /\ 0 <= Weeks!Jan1(Weeks!YearOf(x))
         /\ Weeks!Jan1(Weeks!YearOf(x)) <= x /\ x < Weeks!Jan1(Weeks!YearOf(x) + 1)
<1>1. PICK y \in Nat : 2018 <= y /\ Weeks!Jan1(y) <= x /\ x < Weeks!Jan1(y + 1)
  BY YearExists
<1>2. Weeks!YearOf(x) = y
  BY <1>1, YearIs
<1>3. Weeks!Jan1(2018) = 0 /\ 365 * (y - 2018) <= Weeks!Jan1(y) - Weeks!Jan1(2018) /\ Weeks!Jan1(y) \in Int
  BY <1>1, Years, YearsGrow DEF Weeks!Jan1, Weeks!Leaps
<1> QED BY <1>1, <1>2, <1>3


\* The bounds that are computed for a label hold between them the days with it.
BoundsFit(u) ==
  LET b == Weeks!Bounds(u, Weeks!Label(u, server)) IN
  /\ b.start \in Nat /\ b.end \in Nat /\ b.start <= b.end
  /\ b.start..b.end = {x \in (server - 31)..(server + 31) : x >= 0 /\ Weeks!Label(u, x) = Weeks!Label(u, server)}

\* A label of a day is of one day,
LEMMA DaysFit == ASSUME server \in Nat PROVE BoundsFit("day")
<1> DEFINE y == Weeks!YearOf(server)
<1>1. y \in Nat /\ 2018 <= y /\ 0 <= Weeks!Jan1(y) /\ Weeks!Jan1(y) <= server /\ server < Weeks!Jan1(y + 1)
      /\ Weeks!Jan1(y) \in Int
  BY YearHolds, Years
<1>2. \A x : Weeks!Label("day", x) = <<Weeks!YearOf(x), x - Weeks!Jan1(Weeks!YearOf(x)) + 1>>
  BY DEF Weeks!Label
<1> DEFINE k == server - Weeks!Jan1(y) + 1
<1>3. Weeks!Bounds("day", <<y, k>>) = [start |-> Weeks!Date(y, 0, k), end |-> Weeks!Date(y, 0, k)]
  BY DEF Weeks!Bounds
<1>4. Weeks!Date(y, 0, k) = server
  <2>1. y + (0 \div 12) = y /\ (0 % 12) + 1 = 1 /\ 1 \in 1..12
    BY <1>1
  <2>2. Weeks!MonthStart(y, 1) = Weeks!Jan1(y)
    BY <1>1, MonthBegins DEF Begins
  <2> QED BY <1>1, <2>1, <2>2 DEF Weeks!Date
<1>5. ASSUME NEW x \in (server - 31)..(server + 31), x >= 0, Weeks!Label("day", x) = Weeks!Label("day", server)
      PROVE  x = server
  <2>1. Weeks!YearOf(x) = y /\ x - Weeks!Jan1(Weeks!YearOf(x)) + 1 = k
    BY <1>2, <1>5
  <2> QED BY <1>1, <2>1
<1>6. server..server = {x \in (server - 31)..(server + 31) : x >= 0 /\ Weeks!Label("day", x) = Weeks!Label("day", server)}
  <2>1. server \in (server - 31)..(server + 31) /\ server >= 0
    OBVIOUS
  <2>2. server..server = {server}
    OBVIOUS
  <2> QED BY <1>5, <2>1, <2>2
<1>7. Weeks!Bounds("day", Weeks!Label("day", server)) = [start |-> server, end |-> server]
  BY <1>2, <1>3, <1>4
<1> QED BY <1>6, <1>7 DEF BoundsFit

\* one of a week of the seven around its Thursday,
LEMMA WeeksFit == ASSUME server \in Nat PROVE BoundsFit("week")
<1> DEFINE Thursday(x) == x - Weeks!Weekday(x) + 4
           t == Thursday(server)
           y == Weeks!YearOf(t)
           j == Weeks!Jan1(y)
           w == ((t - j) \div 7) + 1
<1>1. \A x \in Nat : Thursday(x) = 7 * (x \div 7) + 3 /\ Thursday(x) \in Nat
  BY DEF Weeks!Weekday
<1>2. t \in Nat /\ t % 7 = 3 /\ t - 3 >= 0
  BY <1>1
<1>3. y \in Nat /\ 2018 <= y /\ 0 <= j /\ j <= t /\ t < Weeks!Jan1(y + 1) /\ j \in Int
  BY <1>2, YearHolds, Years
<1>4. \A x : Weeks!Label("week", x) = <<Weeks!YearOf(Thursday(x)), (Thursday(x) - Weeks!Jan1(Weeks!YearOf(Thursday(x)))) \div 7 + 1>>
  BY DEF Weeks!Label
<1>5. Weeks!Bounds("week", <<y, w>>) = [start |-> Weeks!WeekStart(y, w), end |-> Weeks!WeekStart(y, w) + 6]
  BY DEF Weeks!Bounds
<1>6. Weeks!WeekStart(y, w) = t - 3
  <2>1. \A n \in Int : Weeks!Date(y, 0, n) = j + n - 1
    <3>1. y + (0 \div 12) = y /\ (0 % 12) + 1 = 1 /\ 1 \in 1..12
      BY <1>3
    <3>2. Weeks!MonthStart(y, 1) = j
      BY <1>3, MonthBegins DEF Begins
    <3> QED BY <1>3, <3>1, <3>2 DEF Weeks!Date
  <2>2. Weeks!Date(y, 0, 4) = j + 3 /\ Weeks!Weekday(j + 3) = ((j + 3) % 7) + 1
    BY <1>3, <2>1 DEF Weeks!Weekday
  <2>3. w \in Int
    BY <1>2, <1>3
  <2>4. Weeks!WeekStart(y, w) = j + (4 - (((j + 3) % 7) + 1) + 1 + (w - 1) * 7) - 1
    BY <1>3, <2>1, <2>2, <2>3 DEF Weeks!WeekStart
  <2> HIDE DEF j, t, y
  <2> QED BY <1>2, <1>3, <2>4
<1>7. ASSUME NEW x \in Nat PROVE Weeks!Label("week", x) = Weeks!Label("week", server) <=> x \in (t - 3)..(t + 3)
  <2>1. Thursday(x) \in Nat /\ Thursday(x) % 7 = 3 /\ x \in (Thursday(x) - 3)..(Thursday(x) + 3)
    <3>1. Thursday(x) = 7 * (x \div 7) + 3 /\ Thursday(x) \in Nat
      BY <1>1
    <3>2. x \div 7 \in Nat /\ x \in (7 * (x \div 7))..(7 * (x \div 7) + 6)
      OBVIOUS
    <3> HIDE DEF Thursday
    <3>3. \A q \in Nat : (7 * q + 3) % 7 = 3
      OBVIOUS
    <3> QED BY <3>1, <3>2, <3>3
  <2>2. ASSUME Weeks!Label("week", x) = Weeks!Label("week", server) PROVE Thursday(x) = t
    <3>1. Weeks!YearOf(Thursday(x)) = y /\ (Thursday(x) - j) \div 7 + 1 = w
      BY <1>4, <2>2
    <3>2. Weeks!Jan1(y) <= Thursday(x)
      BY <2>1, <3>1, YearHolds
    <3> HIDE DEF j, t, y, Thursday
    <3>3. (Thursday(x) - j) \div 7 = (t - j) \div 7
      BY <1>2, <1>3, <2>1, <3>1
    <3> QED BY <1>2, <1>3, <2>1, <3>3
  <2>3. ASSUME x \in (t - 3)..(t + 3) PROVE Thursday(x) = t
    <3> HIDE DEF j, t, y, Thursday
    <3> QED BY <1>2, <2>1, <2>3
  <2>4. Thursday(x) = t => Weeks!Label("week", x) = Weeks!Label("week", server)
    BY <1>4
  <2> QED BY <2>1, <2>2, <2>3, <2>4
<1>8. Weeks!Bounds("week", Weeks!Label("week", server)) = [start |-> t - 3, end |-> t + 3]
  BY <1>2, <1>4, <1>5, <1>6
<1>9. server \in (t - 3)..(t + 3)
  BY <1>1
<1> HIDE DEF t
<1>10. (t - 3)..(t + 3) = {x \in (server - 31)..(server + 31) : x >= 0 /\ Weeks!Label("week", x) = Weeks!Label("week", server)}
  <2>1. \A x \in (t - 3)..(t + 3) : x \in (server - 31)..(server + 31) /\ x \in Nat
    BY <1>2, <1>9
  <2>2. \A x \in (server - 31)..(server + 31) : x >= 0 => x \in Nat
    OBVIOUS
  <2> QED BY <1>7, <2>1, <2>2
<1> QED BY <1>2, <1>8, <1>10 DEF BoundsFit

MonthEnd(y, m) == Weeks!MonthStart(y, m) + Weeks!Length(y, m)

\* The months follow each other through the year.
LEMMA MonthEnds ==
  ASSUME NEW y \in Nat
  PROVE  /\ \A m \in 1..12 : /\ Weeks!MonthStart(y, m) \in Int /\ MonthEnd(y, m) \in Int
                             /\ Weeks!MonthStart(y, m) < MonthEnd(y, m) /\ MonthEnd(y, m) <= Weeks!MonthStart(y, m) + 31
                             /\ Weeks!Jan1(y) <= Weeks!MonthStart(y, m) /\ MonthEnd(y, m) <= Weeks!Jan1(y + 1)
         /\ \A m \in 1..11 : MonthEnd(y, m) = Weeks!MonthStart(y, m + 1)
         /\ Weeks!MonthStart(y, 1) = Weeks!Jan1(y) /\ MonthEnd(y, 12) = Weeks!Jan1(y + 1)
         /\ \A m, n \in 1..12 : m < n => MonthEnd(y, m) <= Weeks!MonthStart(y, n)
<1>0. Weeks!Jan1(y) \in Int /\ YearLength(y) \in {365, 366} /\ Weeks!Jan1(y + 1) = Weeks!Jan1(y) + YearLength(y)
  <2>1. Weeks!Jan1(y + 1) \in Int
    BY Years
  <2> QED BY <2>1, Years DEF YearLength
<1>1. \A m \in 1..12 : Weeks!Length(y, m) = IF m = 2 THEN YearLength(y) - 337 ELSE IF m \in {4, 6, 9, 11} THEN 30 ELSE 31
  BY DEF Weeks!Length, YearLength
<1> DEFINE j == Weeks!Jan1(y)
           n == YearLength(y)
           A(m) == CASE m = 1 -> j [] m = 2 -> j + 31 [] m = 3 -> j + n - 306 [] m = 4 -> j + n - 275
                     [] m = 5 -> j + n - 245 [] m = 6 -> j + n - 214 [] m = 7 -> j + n - 184 [] m = 8 -> j + n - 153
                     [] m = 9 -> j + n - 122 [] m = 10 -> j + n - 92 [] m = 11 -> j + n - 61 [] m = 12 -> j + n - 31
<1>2. \A m \in 1..12 : Weeks!MonthStart(y, m) = A(m)
  <2>1. \A m \in 1..12 : Begins(y)[m] = A(m)
    BY <1>0 DEF Begins
  <2> QED BY <2>1, MonthBegins
<1>3. \A m \in 1..12 : MonthEnd(y, m) = IF m = 12 THEN j + n ELSE A(m + 1)
  BY <1>0, <1>1, <1>2 DEF MonthEnd
<1>4. \A m \in 1..12 : A(m) \in Int /\ j <= A(m) /\ A(m) < (IF m = 12 THEN j + n ELSE A(m + 1))
                       /\ (IF m = 12 THEN j + n ELSE A(m + 1)) \in Int
                       /\ (IF m = 12 THEN j + n ELSE A(m + 1)) <= A(m) + 31
                       /\ (IF m = 12 THEN j + n ELSE A(m + 1)) <= j + n
  BY <1>0
<1>5. \A m \in 1..12, k \in 1..12 : m < k => (IF m = 12 THEN j + n ELSE A(m + 1)) <= A(k)
  BY <1>0
<1>6. A(1) = j
  OBVIOUS
<1>7. Weeks!Jan1(y + 1) = j + n
  BY <1>0
<1> HIDE DEF j, n, A
<1>8. Weeks!Jan1(y) = j
  BY DEF j
<1> QED BY <1>2, <1>3, <1>4, <1>5, <1>6, <1>7, <1>8

LEMMA MonthFits ==
  ASSUME NEW y \in Nat, NEW m \in 1..12
  PROVE  /\ Weeks!MonthStart(y, m) \in Int /\ MonthEnd(y, m) \in Int
         /\ Weeks!MonthStart(y, m) < MonthEnd(y, m) /\ MonthEnd(y, m) <= Weeks!MonthStart(y, m) + 31
         /\ Weeks!Jan1(y) <= Weeks!MonthStart(y, m) /\ MonthEnd(y, m) <= Weeks!Jan1(y + 1)
BY MonthEnds

LEMMA NextMonth ==
  ASSUME NEW y \in Nat, NEW m \in 1..11
  PROVE  MonthEnd(y, m) = Weeks!MonthStart(y, m + 1)
BY MonthEnds

LEMMA MonthsApart ==
  ASSUME NEW y \in Nat, NEW m \in 1..12, NEW n \in 1..12, m < n
  PROVE  MonthEnd(y, m) <= Weeks!MonthStart(y, n)
BY MonthEnds

\* A day in a month is labelled with it,
LEMMA MonthIs ==
  ASSUME NEW x \in Nat, NEW y \in Nat, 2018 <= y, NEW m \in 1..12,
         Weeks!MonthStart(y, m) <= x, x < MonthEnd(y, m)
  PROVE  Weeks!Label("month", x) = <<y, m>>
<1>1. Weeks!YearOf(x) = y
  <2>1. Weeks!Jan1(y) \in Int /\ Weeks!Jan1(y + 1) \in Int
    BY Years
  <2>2. Weeks!Jan1(y) <= x /\ x < Weeks!Jan1(y + 1)
    <3>1. /\ Weeks!MonthStart(y, m) \in Int /\ MonthEnd(y, m) \in Int
          /\ Weeks!Jan1(y) <= Weeks!MonthStart(y, m) /\ MonthEnd(y, m) <= Weeks!Jan1(y + 1)
      BY MonthFits
    <3> QED BY <2>1, <3>1
  <2> QED BY <2>2, YearIs
<1>2. \A k \in 1..12 : Weeks!MonthStart(y, k) <= x /\ x < Weeks!MonthStart(y, k) + Weeks!Length(y, k) => k = m
  <2>1. \A k \in 1..12 : Weeks!MonthStart(y, k) \in Int /\ MonthEnd(y, k) \in Int
    BY MonthFits
  <2>2. \A k, l \in 1..12 : k < l => MonthEnd(y, k) <= Weeks!MonthStart(y, l)
    BY MonthsApart
  <2>3. \A k \in 1..12 : MonthEnd(y, k) = Weeks!MonthStart(y, k) + Weeks!Length(y, k)
    BY DEF MonthEnd
  <2>4. ASSUME NEW k \in 1..12, Weeks!MonthStart(y, k) <= x, x < MonthEnd(y, k), k # m PROVE FALSE
    <3>1. CASE k < m
      BY <2>1, <2>2, <2>4, <3>1
    <3>2. CASE m < k
      BY <2>1, <2>2, <2>4, <3>2
    <3> QED BY <2>4, <3>1, <3>2
  <2> QED BY <2>3, <2>4
<1>3. m = CHOOSE k \in 1..12 : Weeks!MonthStart(y, k) <= x /\ x < Weeks!MonthStart(y, k) + Weeks!Length(y, k)
  BY <1>2 DEF MonthEnd
<1>4. Weeks!Label("month", x) =
        <<Weeks!YearOf(x), CHOOSE k \in 1..12 : Weeks!MonthStart(Weeks!YearOf(x), k) <= x
                             /\ x < Weeks!MonthStart(Weeks!YearOf(x), k) + Weeks!Length(Weeks!YearOf(x), k)>>
  BY DEF Weeks!Label
<1> QED BY <1>1, <1>3, <1>4

\* each is in one,
LEMMA MonthHolds ==
  ASSUME NEW x \in Nat
  PROVE  \E m \in 1..12 : Weeks!MonthStart(Weeks!YearOf(x), m) <= x /\ x < MonthEnd(Weeks!YearOf(x), m)
<1> DEFINE y == Weeks!YearOf(x)
<1>1. y \in Nat /\ Weeks!Jan1(y) <= x /\ x < Weeks!Jan1(y + 1)
  BY YearHolds
<1> HIDE DEF y
<1> DEFINE T == {m \in 1..12 : x < MonthEnd(y, m)}
<1>2. 12 \in T /\ \A m \in T : m \in Nat
  BY <1>1, MonthEnds
<1>3. PICK m \in T : \A k \in T : m <= k
  <2>1. T \in SUBSET Nat
    BY <1>2
  <2> HIDE DEF T
  <2> QED BY <1>2, <2>1, LeastNumber
<1>4. Weeks!MonthStart(y, m) <= x
  <2>1. CASE m = 1
    BY <1>1, <2>1, MonthEnds
  <2>2. CASE m # 1
    <3>1. m - 1 \in 1..11 /\ m - 1 \notin T /\ (m - 1) + 1 = m
      BY <1>3, <2>2
    <3>2. ~(x < MonthEnd(y, m - 1)) /\ MonthEnd(y, m - 1) \in Int
      <4>1. m - 1 \in 1..12
        BY <3>1
      <4> QED BY <1>1, <3>1, <4>1, MonthFits
    <3>3. MonthEnd(y, m - 1) = Weeks!MonthStart(y, m)
      BY <1>1, <3>1, NextMonth
    <3> QED BY <3>2, <3>3
  <2> QED BY <2>1, <2>2
<1> QED BY <1>3, <1>4 DEF y

\* and one of a month of its days.
LEMMA MonthsFit == ASSUME server \in Nat PROVE BoundsFit("month")
<1> DEFINE y == Weeks!YearOf(server)
<1>1. y \in Nat /\ 2018 <= y /\ 0 <= Weeks!Jan1(y) /\ Weeks!Jan1(y) \in Int
  BY YearHolds, Years
<1>2. PICK m \in 1..12 : Weeks!MonthStart(y, m) <= server /\ server < MonthEnd(y, m)
  BY MonthHolds
<1> DEFINE a == Weeks!MonthStart(y, m)
           e == MonthEnd(y, m)
<1> HIDE DEF y
<1>3. a \in Nat /\ e \in Nat /\ a < e /\ e <= a + 31
  <2>1. a \in Int /\ e \in Int /\ a < e /\ e <= a + 31 /\ Weeks!Jan1(y) <= a
    BY SMTT(30), <1>1, MonthFits
  <2> HIDE DEF a, e
  <2> QED BY <1>1, <2>1
<1>4. Weeks!Label("month", server) = <<y, m>>
  BY <1>1, <1>2, MonthIs
<1>5. ASSUME NEW x \in Nat PROVE (Weeks!Label("month", x) = <<y, m>>) <=> (a <= x /\ x < e)
  <2>1. ASSUME Weeks!Label("month", x) = <<y, m>> PROVE a <= x /\ x < e
    <3>1. Weeks!YearOf(x) \in Nat /\ 2018 <= Weeks!YearOf(x)
      BY YearHolds
    <3>2. PICK k \in 1..12 : Weeks!MonthStart(Weeks!YearOf(x), k) <= x /\ x < MonthEnd(Weeks!YearOf(x), k)
      BY MonthHolds
    <3>3. Weeks!Label("month", x) = <<Weeks!YearOf(x), k>>
      BY <3>1, <3>2, MonthIs
    <3>4. Weeks!YearOf(x) = y /\ k = m
      BY <2>1, <3>3
    <3> QED BY <3>2, <3>4
  <2>2. ASSUME a <= x, x < e PROVE Weeks!Label("month", x) = <<y, m>>
    BY <1>1, <2>2, MonthIs
  <2> QED BY <2>1, <2>2
<1>6. Weeks!Bounds("month", <<y, m>>) = [start |-> a, end |-> e - 1]
  <2>1. Weeks!Bounds("month", <<y, m>>) = [start |-> Weeks!Date(y, m - 1, 1), end |-> Weeks!Date(y, m, 0)]
    BY DEF Weeks!Bounds
  <2>2. Weeks!Date(y, m - 1, 1) = a
    <3>1. y + ((m - 1) \div 12) = y /\ ((m - 1) % 12) + 1 = m
      BY <1>1
    <3>2. Weeks!Date(y, m - 1, 1) = a + 1 - 1
      BY <3>1 DEF Weeks!Date
    <3> QED BY <1>3, <3>2
  <2>3. Weeks!Date(y, m, 0) = e - 1
    <3>1. CASE m = 12
      <4>1. y + (m \div 12) = y + 1 /\ (m % 12) + 1 = 1
        BY <1>1, <3>1
      <4>2. Weeks!MonthStart(y + 1, 1) = Weeks!Jan1(y + 1)
        BY <1>1, MonthEnds
      <4>3. MonthEnd(y, 12) = Weeks!Jan1(y + 1)
        BY <1>1, MonthEnds
      <4>4. Weeks!Date(y, m, 0) = e + 0 - 1
        BY <3>1, <4>1, <4>2, <4>3 DEF Weeks!Date
      <4> QED BY <1>3, <4>4
    <3>2. CASE m # 12
      <4>1. y + (m \div 12) = y /\ (m % 12) + 1 = m + 1 /\ m \in 1..11
        BY <1>1, <3>2
      <4>2. MonthEnd(y, m) = Weeks!MonthStart(y, m + 1)
        BY <1>1, <4>1, NextMonth
      <4>3. Weeks!Date(y, m, 0) = e + 0 - 1
        BY <4>1, <4>2 DEF Weeks!Date
      <4> QED BY <1>3, <4>3
    <3> QED BY <3>1, <3>2
  <2> QED BY <2>1, <2>2, <2>3
<1>7. a <= server /\ server < e
  BY <1>2
<1> HIDE DEF a, e
<1>8. \A x : x \in a..(e - 1) <=> x \in (server - 31)..(server + 31) /\ x >= 0 /\ Weeks!Label("month", x) = <<y, m>>
  <2>1. ASSUME NEW x, x \in a..(e - 1)
        PROVE  x \in (server - 31)..(server + 31) /\ x >= 0 /\ Weeks!Label("month", x) = <<y, m>>
    <3>1. x \in Nat /\ a <= x /\ x < e /\ x \in (server - 31)..(server + 31)
      BY <1>3, <1>7, <2>1
    <3> QED BY <1>5, <3>1
  <2>2. ASSUME NEW x, x \in (server - 31)..(server + 31), x >= 0, Weeks!Label("month", x) = <<y, m>>
        PROVE  x \in a..(e - 1)
    <3>1. x \in Nat
      BY <2>2
    <3> QED BY <1>3, <1>5, <2>2, <3>1
  <2> QED BY <2>1, <2>2
<1>9. a..(e - 1) = {x \in (server - 31)..(server + 31) : x >= 0 /\ Weeks!Label("month", x) = <<y, m>>}
  BY <1>8
<1> QED BY <1>3, <1>4, <1>6, <1>9 DEF BoundsFit

PeriodIInv ==
  /\ part \in {"day", "week", "month"} /\ server \in Nat /\ sight \in Int
  /\ fields \in Nat \cup {None} /\ window \in Nat \cup {None}

\* A period is partial if its first or its last day is not counted or not over.
LEMMA PeriodsFollow == PeriodIInv => Weeks!PeriodsAreWhole
<1> SUFFICES ASSUME PeriodIInv PROVE Weeks!PeriodsAreWhole
  OBVIOUS
<1> USE DEF PeriodIInv
<1> DEFINE label == Weeks!Label(part, server)
           bounds == Weeks!Bounds(part, label)
           alike == {x \in (server - 31)..(server + 31) : x >= 0 /\ Weeks!Label(part, x) = label}
<1>1. BoundsFit(part)
  BY DaysFit, WeeksFit, MonthsFit
<1>2. bounds.start \in Nat /\ bounds.end \in Nat /\ bounds.start <= bounds.end /\ bounds.start..bounds.end = alike
  BY <1>1 DEF BoundsFit
<1>3. Weeks!Partial(bounds) <=> \/ fields # None /\ bounds.start < fields
                                \/ window # None /\ bounds.end > window
                                \/ bounds.end >= sight
  BY DEF Weeks!Partial
<1> HIDE DEF bounds, alike, label
<1> DEFINE Out(x) == (fields # None /\ x < fields) \/ (window # None /\ x > window) \/ x >= sight
<1>4. Weeks!Partial(bounds) <=> \E x \in bounds.start..bounds.end : Out(x)
  <2> DEFINE a == bounds.start
             e == bounds.end
  <2>1. a \in Nat /\ e \in Nat /\ a <= e
    BY <1>2
  <2>2. a \in a..e /\ e \in a..e
    BY <2>1
  <2>3. \A x \in a..e : x \in Nat /\ a <= x /\ x <= e
    BY <2>1
  <2> HIDE DEF a, e
  <2>4. ASSUME NEW x \in a..e, Out(x) PROVE Out(a) \/ Out(e)
    <3>1. x \in Nat /\ a <= x /\ x <= e
      BY <2>3
    <3> QED BY <2>1, <2>4, <3>1
  <2>5. Weeks!Partial(bounds) <=> \/ fields # None /\ a < fields
                                  \/ window # None /\ e > window
                                  \/ e >= sight
    BY <1>3 DEF a, e
  <2>6. Weeks!Partial(bounds) => Out(a) \/ Out(e)
    BY <2>5
  <2>7. (Out(a) \/ Out(e)) => Weeks!Partial(bounds)
    BY <2>1, <2>5
  <2> HIDE DEF Out
  <2>8. Weeks!Partial(bounds) <=> \E x \in a..e : Out(x)
    BY <2>2, <2>4, <2>6, <2>7
  <2> QED BY <2>8 DEF a, e
<1>5. Weeks!Partial(bounds) <=> \E x \in alike : Out(x)
  BY <1>2, <1>4
<1> QED BY <1>2, <1>5 DEF Weeks!PeriodsAreWhole, bounds, alike, label

LEMMA PeriodsInitIInv ==
  ASSUME PeriodConstants PROVE Weeks!PeriodsInit => PeriodIInv
<1> SUFFICES ASSUME Weeks!PeriodsInit PROVE PeriodIInv
  OBVIOUS
<1>1. PICK y \in 2019..LastYear, k \in -Near..Near : server = Weeks!Jan1(y) + k
  BY DEF Weeks!PeriodsInit
<1>2. y \in Nat /\ 2019 <= y /\ k \in Int /\ k >= -365
  BY DEF PeriodConstants
<1>3. 365 * (y - 2018) <= Weeks!Jan1(y) - Weeks!Jan1(2018)
  BY <1>2, YearsGrow
<1>4. Weeks!Jan1(2018) = 0 /\ Weeks!Jan1(y) \in Int
  BY <1>2, Years DEF Weeks!Jan1, Weeks!Leaps
<1>5. Weeks!Jan1(y) + k \in Nat
  BY <1>2, <1>3, <1>4
<1> QED BY <1>1, <1>5 DEF Weeks!PeriodsInit, PeriodIInv

LEMMA PeriodsStep == PeriodIInv /\ [Weeks!PeriodsNext]_(Weeks!periodVars) => PeriodIInv'
BY DEF PeriodIInv, Weeks!PeriodsNext, Weeks!SelectUnit, Weeks!SelectDates, Weeks!Overnight, Weeks!periodVars

-----------------------------------------------------------------------------
(* The monitoring.                                                        *)

\* The numbers of the requests tell the runs apart; there is a last day.
MonitorConstants ==
  /\ IsFiniteSet(Refreshes)
  /\ BeganAt \in [Refreshes -> Nat] /\ RunNumber \in [Refreshes -> Nat]
  /\ \A i, j \in Refreshes : RunNumber[i] = RunNumber[j] => i = j
  /\ FirstStatus \in [Refreshes -> Monitor!Statuses \cup {None}]
  /\ \E x \in RefreshDays : \A y \in RefreshDays : y <= x
  /\ All # "failed" /\ Asked # None
  /\ None \notin Monitor!Statuses /\ None \notin Monitor!Answers /\ Asked \notin Monitor!Answers

Filter == [day : RefreshDays, status : {All, "failed"}, excluded : SUBSET {ReportOf[i] : i \in Refreshes},
           ready : BOOLEAN]

\* An answer to a question of the server: runs of the day and of the status, each once.
AnswersTo(s, A) ==
  /\ A \in SUBSET (Refreshes \X Monitor!Statuses)
  /\ \A x, y \in A : x[1] = y[1] => x = y
  /\ \A x \in A : DayOf[x[1]] = s[1] /\ (s[2] = All \/ x[2] = s[2])

MonitorTyped ==
  /\ server \in [Refreshes -> Monitor!Statuses \cup {None}]
  /\ fields \in Filter
  /\ draft \in [failedOnly : BOOLEAN, rising : BOOLEAN]
  /\ DOMAIN list = Monitor!Selections

\* What is kept of a selection, and what is on its way, is an answer to it.
AnswersKept ==
  /\ \A s \in Monitor!Selections : list[s] = None \/ AnswersTo(s, list[s])
  /\ jobs \in {None, Asked} \/ AnswersTo(Monitor!Selection, jobs)
  /\ ~fields.ready => jobs = None

SlotFits == window.at # None => window.of = Monitor!Selection

\* The rows are those of the table, or have been.
RowsFit ==
  IF Monitor!Drawn THEN sight = Monitor!VisibleRows
  ELSE \A i \in DOMAIN sight : ReportOf[sight[i][1]] \notin fields.excluded

MonitorIInv == MonitorTyped /\ AnswersKept /\ SlotFits /\ RowsFit

LEMMA SelectionIs == ASSUME MonitorTyped PROVE Monitor!Selection \in Monitor!Selections
BY DEF MonitorTyped, Filter, Monitor!Selection, Monitor!Selections

LEMMA MonitorWords ==
  /\ \A S : Monitor!Cardinality(S) = Cardinality(S)
  /\ \A S, R : Monitor!InOrder(S, R) = InOrder(S, R)
<1>1. \A S : Monitor!Cardinality(S) = Cardinality(S)
  BY DEF Monitor!Cardinality, Cardinality
<1>2. \A S, R : Monitor!InOrder(S, R) = InOrder(S, R)
  BY <1>1 DEF Monitor!InOrder, InOrder
<1> QED BY <1>1, <1>2

\* The rows are runs of the answer, in order.
LEMMA RowsSorted ==
  ASSUME MonitorConstants, MonitorTyped, AnswersKept
  PROVE  \A i \in DOMAIN Monitor!VisibleRows :
           /\ Monitor!VisibleRows[i] \in Monitor!Visible
           /\ \A k \in DOMAIN Monitor!VisibleRows : i < k =>
                Monitor!Precedes(Monitor!VisibleRows[i][1], Monitor!VisibleRows[k][1])
<1> DEFINE S == {x \in Monitor!Visible : /\ window.at # None => SlotOf[x[1]] = window.at
                                         /\ draft.failedOnly => x[2] = "failed"}
           R == {e \in S \X S : Monitor!Precedes(e[1][1], e[2][1])}
<1>1. Monitor!VisibleRows = InOrder(S, R)
  <2>1. Monitor!VisibleRows = Monitor!InOrder(S, R)
    BY DEF Monitor!VisibleRows
  <2> HIDE DEF S, R
  <2>2. Monitor!InOrder(S, R) = InOrder(S, R)
    BY MonitorWords
  <2> QED BY <2>1, <2>2
<1>2. S \in SUBSET Monitor!Visible
  OBVIOUS
<1>3. Monitor!Visible \in SUBSET (Refreshes \X Monitor!Statuses) /\ \A x, y \in Monitor!Visible : x[1] = y[1] => x = y
  BY SelectionIs DEF Monitor!Visible, AnswersKept, AnswersTo
<1>4. IsFiniteSet(S)
  <2>1. IsFiniteSet(Monitor!Statuses)
    <3>1. IsFiniteSet({"failed"})
      BY FS_Singleton
    <3>2. IsFiniteSet({"failed"} \cup {"in_progress"})
      BY <3>1, FS_AddElement
    <3>3. {"failed"} \cup {"in_progress"} = Monitor!Statuses
      BY DEF Monitor!Statuses
    <3> QED BY <3>2, <3>3
  <2>2. IsFiniteSet(Refreshes \X Monitor!Statuses)
    BY <2>1, FS_Product DEF MonitorConstants
  <2> HIDE DEF S
  <2> QED BY <1>2, <1>3, <2>2, FS_Subset
<1> HIDE DEF S
<1>5. \A x \in S : x[1] \in Refreshes /\ BeganAt[x[1]] \in Nat /\ RunNumber[x[1]] \in Nat
  BY <1>2, <1>3 DEF MonitorConstants
<1>6. \A x, y \in S : x # y => RunNumber[x[1]] # RunNumber[y[1]]
  BY <1>2, <1>3, <1>5 DEF MonitorConstants
<1>7. \A x, y \in S : <<x, y>> \in R <=> Monitor!Precedes(x[1], y[1])
  OBVIOUS
<1> HIDE DEF R
<1>8. draft.rising \in BOOLEAN
  BY DEF MonitorTyped
<1>9. Orders(R, S)
  <2>1. \A x \in S : <<x, x>> \notin R
    BY <1>5, <1>7 DEF Monitor!Precedes
  <2>2. \A x, y \in S : x # y => <<x, y>> \in R \/ <<y, x>> \in R
    BY <1>5, <1>6, <1>7, <1>8 DEF Monitor!Precedes
  <2>3. \A x, y, z \in S : <<x, y>> \in R /\ <<y, z>> \in R => <<x, z>> \in R
    BY <1>5, <1>7, <1>8 DEF Monitor!Precedes
  <2> QED BY <2>1, <2>2, <2>3 DEF Orders
<1>10. Sorted(S, R, InOrder(S, R))
  BY <1>4, <1>9, InOrderSorts
<1> QED BY <1>1, <1>2, <1>7, <1>10 DEF Sorted

\* What is drawn is of the answer for the selection.
LEMMA MonitorFollows == ASSUME MonitorConstants, MonitorIInv PROVE Monitor!SelectionIsShown
<1> USE DEF MonitorIInv
<1>1. ASSUME NEW x \in Monitor!Visible
      PROVE  /\ ReportOf[x[1]] \notin fields.excluded
             /\ DayOf[x[1]] = fields.day
             /\ fields.status # All => x[2] = fields.status
  <2>1. x \in list[Monitor!Selection] /\ ReportOf[x[1]] \notin fields.excluded /\ list[Monitor!Selection] # None
    BY DEF Monitor!Visible
  <2>2. AnswersTo(Monitor!Selection, list[Monitor!Selection])
    BY <2>1, SelectionIs DEF AnswersKept
  <2>3. DayOf[x[1]] = Monitor!Selection[1] /\ (Monitor!Selection[2] = All \/ x[2] = Monitor!Selection[2])
    BY <2>1, <2>2 DEF AnswersTo
  <2>4. Monitor!Selection[1] = fields.day /\ Monitor!Selection[2] = fields.status
    BY DEF Monitor!Selection
  <2> QED BY <2>1, <2>3, <2>4
<1>2. CASE Monitor!Drawn
  <2>1. sight = Monitor!VisibleRows
    BY <1>2 DEF RowsFit
  <2>2. \A i \in DOMAIN sight : sight[i] \in Monitor!Visible
    BY <2>1, RowsSorted
  <2>3. \A i, k \in DOMAIN sight : i < k => Monitor!Precedes(sight[i][1], sight[k][1])
    BY <2>1, RowsSorted
  <2>4. \A i, k \in DOMAIN sight : i < k /\ BeganAt[sight[i][1]] # BeganAt[sight[k][1]] =>
          draft.rising = (BeganAt[sight[i][1]] < BeganAt[sight[k][1]])
    BY <2>3 DEF Monitor!Precedes
  <2> QED BY <1>1, <2>2, <2>4 DEF Monitor!SelectionIsShown, SlotFits
<1>3. CASE ~Monitor!Drawn
  BY <1>3 DEF Monitor!SelectionIsShown, RowsFit
<1> QED BY <1>2, <1>3

LEMMA MonitorInitIInv == ASSUME MonitorConstants, Monitor!MonitorInit PROVE MonitorIInv
<1> USE DEF Monitor!MonitorInit
<1>1. (CHOOSE x \in RefreshDays : \A y \in RefreshDays : y <= x) \in RefreshDays
  BY DEF MonitorConstants
<1>2. MonitorTyped
  BY <1>1 DEF MonitorTyped, MonitorConstants, Filter, Monitor!NewTable
<1>3. AnswersKept
  BY DEF AnswersKept
<1>4. SlotFits
  BY DEF SlotFits, Monitor!NoSlot
<1>5. RowsFit
  BY DEF RowsFit, Monitor!Drawn
<1> QED BY <1>2, <1>3, <1>4, <1>5 DEF MonitorIInv

\* The rows after a step that ends with drawing them.
LEMMA RowsDrawn ==
  ASSUME MonitorConstants, MonitorIInv, Monitor!Draw,
         Monitor!Drawn' \/ fields'.excluded = fields.excluded
  PROVE  RowsFit'
<1>1. CASE Monitor!Drawn'
  BY <1>1 DEF Monitor!Draw, RowsFit
<1>2. CASE ~Monitor!Drawn'
  <2>1. sight' = sight /\ fields'.excluded = fields.excluded
    BY <1>2 DEF Monitor!Draw
  <2>2. \A i \in DOMAIN sight : ReportOf[sight[i][1]] \notin fields.excluded
    BY MonitorFollows DEF Monitor!SelectionIsShown
  <2> QED BY <1>2, <2>1, <2>2 DEF RowsFit
<1> QED BY <1>1, <1>2

\* Another selection, with no half hour picked.
LEMMA SelectKeeps ==
  ASSUME MonitorConstants, MonitorIInv, NEW new \in Filter, new.excluded = fields.excluded,
         fields.ready => new.ready, Monitor!Select(new)
  PROVE  MonitorIInv'
<1> USE DEF Monitor!Select
<1>1. fields' = new /\ server' = server /\ list' = list
  OBVIOUS
<1>2. MonitorTyped'
  BY <1>1 DEF MonitorIInv, MonitorTyped, Monitor!DrawAnew, Monitor!NewTable
<1>3. AnswersKept'
  BY <1>1, <1>2 DEF MonitorIInv, MonitorTyped, AnswersKept
<1>4. SlotFits'
  BY DEF MonitorIInv, SlotFits, Monitor!ResetSlot, Monitor!NoSlot
<1>5. RowsFit'
  BY <1>1, RowsDrawn
<1> QED BY <1>2, <1>3, <1>4, <1>5 DEF MonitorIInv

\* A step that leaves the selection, and ends with drawing the rows.
LEMMA SameSelection ==
  ASSUME MonitorConstants, MonitorIInv, Monitor!Draw, fields' = fields, MonitorTyped', AnswersKept', SlotFits'
  PROVE  MonitorIInv'
BY RowsDrawn DEF MonitorIInv

LEMMA TableKeeps ==
  ASSUME MonitorConstants, MonitorIInv, NEW new \in [failedOnly : BOOLEAN, rising : BOOLEAN], Monitor!Table(new)
  PROVE  MonitorIInv'
<1> USE DEF Monitor!Table
<1>1. MonitorTyped' /\ AnswersKept' /\ SlotFits'
  BY DEF MonitorIInv, MonitorTyped, AnswersKept, SlotFits, Monitor!Selection
<1> QED BY <1>1, SameSelection

\* What the server answers is an answer to the question.
LEMMA AnswerFits ==
  ASSUME MonitorConstants, MonitorTyped, NEW s \in Monitor!Selections
  PROVE  AnswersTo(s, Monitor!Answer(s)) /\ Monitor!Answer(s) \notin {None, Asked}
<1>1. Monitor!Answer(s) \in Monitor!Answers
  BY DEF Monitor!Answer, Monitor!Answers
<1>2. \A x, y \in Monitor!Answer(s) : x[1] = y[1] => x = y
  BY DEF Monitor!Answer
<1> QED BY <1>1, <1>2 DEF MonitorConstants, AnswersTo, Monitor!Answer, Monitor!Answers

LEMMA MonitorStep ==
  ASSUME MonitorConstants, MonitorIInv, [Monitor!MonitorNext]_(Monitor!monitorVars)
  PROVE  MonitorIInv'
<1> USE DEF MonitorIInv
<1>0. fields \in Filter /\ Monitor!Selection \in Monitor!Selections
  BY SelectionIs DEF MonitorTyped
<1>1. CASE UNCHANGED Monitor!monitorVars
  BY <1>1 DEF Monitor!monitorVars, MonitorTyped, AnswersKept, SlotFits, RowsFit, Monitor!Selection, Monitor!Drawn,
              Monitor!VisibleRows, Monitor!Visible, Monitor!Precedes
<1>2. CASE Monitor!Refetch
  <2>1. MonitorTyped' /\ AnswersKept' /\ SlotFits'
    BY <1>2 DEF Monitor!Refetch, Monitor!DrawAnew, Monitor!NewTable, MonitorTyped, AnswersKept, SlotFits, Monitor!Selection
  <2> QED BY <1>2, <2>1, SameSelection DEF Monitor!Refetch
<1>3. CASE Monitor!Read
  <2>1. AnswersTo(Monitor!Selection, Monitor!Answer(Monitor!Selection))
    BY <1>0, AnswerFits
  <2>2. fields.ready
    BY <1>3 DEF Monitor!Read, AnswersKept, MonitorConstants
  <2>3. MonitorTyped' /\ AnswersKept' /\ SlotFits'
    BY <1>3, <2>1, <2>2 DEF Monitor!Read, MonitorTyped, AnswersKept, SlotFits, Monitor!Selection
  <2> QED BY <1>3, <2>3, SameSelection DEF Monitor!Read
<1>4. CASE Monitor!Arrives
  <2>1. AnswersTo(Monitor!Selection, jobs)
    BY <1>4 DEF Monitor!Arrives, AnswersKept
  <2>2. \A s \in Monitor!Selections : list'[s] = IF s = Monitor!Selection THEN jobs ELSE list[s]
    BY <1>0, <1>4 DEF Monitor!Arrives, Monitor!Kept, MonitorTyped
  <2>3. MonitorTyped' /\ SlotFits'
    BY <1>4 DEF Monitor!Arrives, Monitor!Kept, MonitorTyped, SlotFits, Monitor!Selection
  <2>4. AnswersKept'
    BY <1>4, <2>1, <2>2 DEF Monitor!Arrives, AnswersKept
  <2> QED BY <1>4, <2>3, <2>4, SameSelection DEF Monitor!Arrives
<1>5. CASE Monitor!Fails
  <2>1. MonitorTyped' /\ AnswersKept' /\ SlotFits'
    BY <1>5 DEF Monitor!Fails, MonitorTyped, AnswersKept, SlotFits, Monitor!Selection
  <2> QED BY <1>5, <2>1, SameSelection DEF Monitor!Fails
<1>6. CASE Monitor!ShowAll \/ \E i \in Refreshes : Monitor!Exclude(ReportOf[i])
  <2>1. /\ UNCHANGED <<server, window, list, jobs, draft>> /\ Monitor!Draw /\ Monitor!Drawn
        /\ fields' \in Filter /\ fields'.day = fields.day /\ fields'.status = fields.status /\ fields'.ready = fields.ready
    BY <1>0, <1>6 DEF Monitor!ShowAll, Monitor!Exclude, Filter
  <2>2. Monitor!Selection' = Monitor!Selection
    BY <2>1 DEF Monitor!Selection
  <2>3. MonitorTyped' /\ AnswersKept' /\ SlotFits'
    BY <2>1, <2>2 DEF MonitorTyped, AnswersKept, SlotFits
  <2>4. Monitor!Drawn'
    BY <2>1, <2>2 DEF Monitor!Drawn
  <2> QED BY <2>1, <2>3, <2>4, RowsDrawn
<1>7. CASE Monitor!DropSlot \/ \E i \in Refreshes : Monitor!PickSlot(SlotOf[i])
  <2>1. /\ UNCHANGED <<server, fields, list, jobs, draft>> /\ Monitor!Draw
        /\ window' = Monitor!NoSlot \/ window'.of = Monitor!Selection
    BY <1>7 DEF Monitor!DropSlot, Monitor!PickSlot
  <2>2. Monitor!Selection' = Monitor!Selection
    BY <2>1 DEF Monitor!Selection
  <2>3. MonitorTyped' /\ AnswersKept' /\ SlotFits'
    BY <2>1, <2>2 DEF MonitorTyped, AnswersKept, SlotFits, Monitor!NoSlot
  <2> QED BY <2>1, <2>3, SameSelection
<1>8. CASE Monitor!FailedOnly \/ Monitor!SortBy
  <2>1. [draft EXCEPT !.failedOnly = ~@] \in [failedOnly : BOOLEAN, rising : BOOLEAN]
        /\ [draft EXCEPT !.rising = ~@] \in [failedOnly : BOOLEAN, rising : BOOLEAN]
    BY DEF MonitorTyped
  <2> QED BY <1>8, <2>1, TableKeeps DEF Monitor!FailedOnly, Monitor!SortBy
<1>9. CASE Monitor!Reopen
  <2>1. UNCHANGED <<server, fields, list>> /\ window' = Monitor!NoSlot /\ draft' = Monitor!NewTable
        /\ (fields.ready => jobs' \in {Asked, None}) /\ (~fields.ready => jobs' = jobs)
        /\ sight' = IF Monitor!Drawn' THEN Monitor!VisibleRows' ELSE <<>>
    BY <1>9 DEF Monitor!Reopen
  <2>2. Monitor!Selection' = Monitor!Selection
    BY <2>1 DEF Monitor!Selection
  <2>3. MonitorTyped' /\ AnswersKept' /\ SlotFits'
    BY <2>1, <2>2 DEF MonitorTyped, AnswersKept, SlotFits, Monitor!NoSlot, Monitor!NewTable
  <2>4. RowsFit'
    BY <2>1 DEF RowsFit
  <2> QED BY <2>3, <2>4
<1>10. CASE \E x \in RefreshDays : Monitor!ChooseDay(x)
  <2>1. PICK x \in RefreshDays : Monitor!Select([fields EXCEPT !.day = x])
    BY <1>10 DEF Monitor!ChooseDay
  <2>2. [fields EXCEPT !.day = x] \in Filter /\ [fields EXCEPT !.day = x].excluded = fields.excluded
        /\ [fields EXCEPT !.day = x].ready = fields.ready
    BY <1>0 DEF Filter
  <2> QED BY <2>1, <2>2, SelectKeeps
<1>11. CASE \E s \in {All, "failed"} : Monitor!ChooseStatus(s)
  <2>1. PICK s \in {All, "failed"} : Monitor!Select([fields EXCEPT !.status = s])
    BY <1>11 DEF Monitor!ChooseStatus
  <2>2. [fields EXCEPT !.status = s] \in Filter /\ [fields EXCEPT !.status = s].excluded = fields.excluded
        /\ [fields EXCEPT !.status = s].ready = fields.ready
    BY <1>0 DEF Filter
  <2> QED BY <2>1, <2>2, SelectKeeps
<1>12. CASE \E x \in RefreshDays \cup {None} : Monitor!LatestDate(x)
  <2>1. PICK x \in RefreshDays \cup {None} :
          Monitor!Select([fields EXCEPT !.day = IF x = None THEN @ ELSE x, !.ready = TRUE])
    BY <1>12 DEF Monitor!LatestDate
  <2> DEFINE new == [fields EXCEPT !.day = IF x = None THEN @ ELSE x, !.ready = TRUE]
  <2>2. new \in Filter /\ new.excluded = fields.excluded /\ new.ready
    BY <1>0 DEF Filter
  <2>3. Monitor!Select(new)
    BY <2>1
  <2> HIDE DEF new
  <2> QED BY <2>2, <2>3, SelectKeeps
<1>13. CASE \E i \in Refreshes : Monitor!Collected(i)
  <2>1. UNCHANGED <<fields, window, list, jobs, draft>> /\ Monitor!Draw
        /\ server' \in [Refreshes -> Monitor!Statuses \cup {None}]
    BY <1>13 DEF Monitor!Collected, MonitorTyped, Monitor!Statuses
  <2>2. MonitorTyped' /\ AnswersKept' /\ SlotFits'
    BY <2>1 DEF MonitorTyped, AnswersKept, SlotFits, Monitor!Selection
  <2> QED BY <2>1, <2>2, SameSelection
<1>14. CASE \E s \in Monitor!Selections : Monitor!Forget(s)
  <2>1. PICK s \in Monitor!Selections : Monitor!Forget(s)
    BY <1>14
  <2>2. MonitorTyped' /\ SlotFits' /\ \A t \in Monitor!Selections : list'[t] \in {list[t], None}
    BY <2>1 DEF Monitor!Forget, MonitorTyped, SlotFits, Monitor!Selection
  <2>3. AnswersKept'
    BY <2>1, <2>2 DEF Monitor!Forget, AnswersKept, Monitor!Selection
  <2> QED BY <2>1, <2>2, <2>3, SameSelection DEF Monitor!Forget
<1> QED BY <1>1, <1>2, <1>3, <1>4, <1>5, <1>6, <1>7, <1>8, <1>9, <1>10, <1>11, <1>12, <1>13, <1>14 DEF Monitor!MonitorNext

-----------------------------------------------------------------------------
(* The pages together.                                                     *)

FilterConstants == StatsConstants /\ PeriodConstants /\ MonitorConstants /\ TimelineConstants

FilterIInv ==
  /\ page = "stats"    => StatsIInv
  /\ page = "periods"  => PeriodIInv
  /\ page = "monitor"  => MonitorIInv
  /\ page = "timeline" => TimelineIInv

LEMMA FilterInit == ASSUME FilterConstants, PagesInit PROVE FilterIInv
<1>1. /\ page = "stats"    => Stats!StatsInit
      /\ page = "periods"  => Weeks!PeriodsInit
      /\ page = "monitor"  => Monitor!MonitorInit
      /\ page = "timeline" => Timeline!TimelineInit
  BY DEF PagesInit
<1> QED BY <1>1, StatsInitIInv, PeriodsInitIInv, MonitorInitIInv, TimelineInitIInv DEF FilterConstants, FilterIInv

LEMMA FilterStep == ASSUME FilterConstants, FilterIInv, [PagesNext]_<<page, partVars, slotVars>> PROVE FilterIInv'
<1>1. /\ page' = page
      /\ page = "stats"    => [Stats!StatsNext]_(Stats!statsVars)
      /\ page = "periods"  => [Weeks!PeriodsNext]_(Weeks!periodVars)
      /\ page = "monitor"  => [Monitor!MonitorNext]_(Monitor!monitorVars)
      /\ page = "timeline" => [Timeline!TimelineNext]_(Timeline!timelineVars)
  BY DEF PagesNext, slotVars, Stats!statsVars, Weeks!periodVars, Monitor!monitorVars, Timeline!timelineVars
<1> QED BY <1>1, StatsStep, PeriodsStep, MonitorStep, TimelineStep DEF FilterConstants, FilterIInv

\* What the statistics, the monitoring and the timeline draw fits the filters, the day
\* and the clock, and a period of the trends is made of the days that are counted in
\* it, for any reports, people, runs and days, and from 2018 on in any year.
THEOREM FiltersHold == ASSUME FilterConstants PROVE PagesSpec => []FiltersAreShown
<1>1. FilterIInv => FiltersAreShown
  BY StatsFollow, PeriodsFollow, MonitorFollows, TimelineFollows DEF FilterIInv, FiltersAreShown, FilterConstants
<1>2. FilterIInv /\ [PagesNext]_<<page, partVars, slotVars>> => FilterIInv'
  BY FilterStep
<1> QED BY <1>1, <1>2, FilterInit, PTL DEF PagesSpec

-----------------------------------------------------------------------------
(* Definitions by recursion, and by walks.                                 *)

Local(D, V, depth, E) ==
  \A g, h \in [D -> V], f \in D : (\A x \in D : depth[x] < depth[f] => g[x] = h[x]) => E[g][f] = E[h][f]

\* What an expression says at a place depends on the values that are less deep.
Determined(D, V, depth, E) ==
  V # {} /\ depth \in [D -> Nat] /\ E \in [[D -> V] -> [D -> V]] /\ Local(D, V, depth, E)

\* A definition by recursion along a depth has a value.
LEMMA DepthRecursion ==
  ASSUME NEW D, NEW V, NEW depth, NEW E, Determined(D, V, depth, E)
  PROVE  \E g \in [D -> V] : g = E[g]
<1>0. PICK v \in V : TRUE
  BY DEF Determined
<1>10. depth \in [D -> Nat] /\ E \in [[D -> V] -> [D -> V]] /\ Local(D, V, depth, E)
  BY DEF Determined
<1> DEFINE S == [D -> V]
           F == [x \in Nat \X S |-> E[x[2]]]
           b == [f \in D |-> v]
<1>1. b \in S /\ F \in Steps(S) /\ \A n \in Nat, g \in S : F[<<n, g>>] = E[g]
  BY <1>10 DEF Steps
<1>2. PICK h \in [Nat -> S] : Follows(h, b, F)
  <2> HIDE DEF b, F, S
  <2> QED BY <1>1, Recursion
<1> USE <1>10
<1> HIDE DEF F, b
<1>3. \A n \in Nat : h[n] \in S /\ h[n + 1] = E[h[n]]
  BY <1>1, <1>2 DEF Follows
<1>4. \A n \in Nat, f \in D : depth[f] < n => h[n + 1][f] = h[n][f]
  <2> DEFINE T == {n \in Nat : \E f \in D : depth[f] < n /\ h[n + 1][f] # h[n][f]}
  <2>1. SUFFICES ASSUME T # {} PROVE FALSE
    OBVIOUS
  <2>2. PICK n \in T : \A m \in T : n <= m
    <3>1. T \in SUBSET Nat
      OBVIOUS
    <3> HIDE DEF T
    <3> QED BY <2>1, <3>1, LeastNumber
  <2>3. PICK f \in D : depth[f] < n /\ h[n + 1][f] # h[n][f]
    BY <2>2
  <2>4. n \in Nat /\ depth[f] \in Nat /\ n - 1 \in Nat /\ (n - 1) + 1 = n /\ n - 1 \notin T
    <3>1. n \in Nat /\ depth[f] \in Nat
      OBVIOUS
    <3> HIDE DEF T
    <3> QED BY <2>2, <2>3, <3>1
  <2>5. \A x \in D : depth[x] < n - 1 => h[n][x] = h[n - 1][x]
    BY <2>4
  <2>6. \A x \in D : depth[x] < depth[f] => h[n][x] = h[n - 1][x]
    <3>1. \A x \in D : depth[x] \in Nat
      OBVIOUS
    <3> HIDE DEF T
    <3> QED BY <2>3, <2>4, <2>5, <3>1
  <2>7. h[n + 1] = E[h[n]] /\ h[n] = E[h[n - 1]] /\ h[n] \in S /\ h[n - 1] \in S
    BY <1>3, <2>4
  <2>8. E[h[n]][f] = E[h[n - 1]][f]
    BY <2>6, <2>7 DEF Local
  <2> QED BY <2>3, <2>7, <2>8
<1>5. ASSUME NEW x \in D, NEW n \in Nat, depth[x] < n PROVE h[n][x] = h[depth[x] + 1][x]
  <2> DEFINE d == depth[x] + 1
             T == {k \in Nat : h[d + k][x] = h[d][x]}
  <2>1. d \in Nat
    OBVIOUS
  <2>2. 0 \in T
    BY <2>1
  <2>3. ASSUME NEW k \in T PROVE k + 1 \in T
    <3>1. d + k \in Nat /\ depth[x] < d + k /\ (d + k) + 1 = d + (k + 1)
      BY <2>1
    <3>2. h[(d + k) + 1][x] = h[d + k][x]
      BY <1>4, <3>1
    <3> QED BY <3>1, <3>2
  <2>4. T = Nat
    <3>1. T \in SUBSET Nat
      OBVIOUS
    <3> HIDE DEF T
    <3> QED BY <2>2, <2>3, <3>1, AllNumbers
  <2>5. n - d \in Nat /\ d + (n - d) = n
    BY <1>5, <2>1
  <2> QED BY <2>4, <2>5
<1> DEFINE g == [f \in D |-> h[depth[f] + 1][f]]
<1>6. g \in S
  <2>1. \A f \in D : depth[f] + 1 \in Nat
    OBVIOUS
  <2> QED BY <1>3, <2>1
<1>7. ASSUME NEW f \in D PROVE g[f] = E[g][f]
  <2>1. depth[f] \in Nat
    OBVIOUS
  <2>2. g[f] = E[h[depth[f]]][f]
    BY <1>3, <2>1
  <2>3. \A x \in D : depth[x] < depth[f] => g[x] = h[depth[f]][x]
    BY <1>5, <2>1
  <2>4. h[depth[f]] \in S
    BY <1>3, <2>1
  <2> HIDE DEF g
  <2>5. E[g][f] = E[h[depth[f]]][f]
    BY <1>6, <2>3, <2>4 DEF Local
  <2> QED BY <2>2, <2>5
<1> HIDE DEF g
<1>8. E[g] \in S
  BY <1>6
<1>9. g = E[g]
  BY <1>6, <1>7, <1>8
<1> QED BY <1>6, <1>9

-----------------------------------------------------------------------------
(* Folders.                                                                *)

\* Each folder lies in another one, or in none, and none in itself.
Forest(D, P, depth) ==
  /\ None \notin D /\ P \in [D -> D \cup {None}] /\ depth \in [D -> Nat]
  /\ \A f \in D : P[f] # None => depth[P[f]] < depth[f]

\* The folders on the way up from each one, as the pages define Above.
IsAbove(D, P, A) == A = [f \in D |-> {f} \cup (IF P[f] = None THEN {} ELSE A[P[f]])]

LEMMA AboveExists ==
  ASSUME NEW D, NEW P, NEW depth, Forest(D, P, depth)
  PROVE  \E A : IsAbove(D, P, A)
<1> DEFINE V == SUBSET D
           E == [g \in [D -> V] |-> [f \in D |-> {f} \cup (IF P[f] = None THEN {} ELSE g[P[f]])]]
<1>1. E \in [[D -> V] -> [D -> V]]
  <2> SUFFICES ASSUME NEW g \in [D -> V] PROVE [f \in D |-> {f} \cup (IF P[f] = None THEN {} ELSE g[P[f]])] \in [D -> V]
    OBVIOUS
  <2>1. ASSUME NEW f \in D PROVE {f} \cup (IF P[f] = None THEN {} ELSE g[P[f]]) \in SUBSET D
    <3>1. CASE P[f] = None
      BY <3>1
    <3>2. CASE P[f] # None
      <4>1. P[f] \in D
        BY <3>2 DEF Forest
      <4>2. g[P[f]] \in SUBSET D
        BY <4>1
      <4> QED BY <3>2, <4>2
    <3> QED BY <3>1, <3>2
  <2> QED BY <2>1
<1>2. Local(D, V, depth, E)
  <2> SUFFICES ASSUME NEW g \in [D -> V], NEW h \in [D -> V], NEW f \in D, \A x \in D : depth[x] < depth[f] => g[x] = h[x]
               PROVE  E[g][f] = E[h][f]
    BY DEF Local
  <2>1. P[f] # None => P[f] \in D /\ g[P[f]] = h[P[f]]
    BY DEF Forest
  <2> QED BY <2>1
<1>3. \A g \in [D -> V] : E[g] = [f \in D |-> {f} \cup (IF P[f] = None THEN {} ELSE g[P[f]])]
  OBVIOUS
<1>4. {} \in V
  OBVIOUS
<1>5. depth \in [D -> Nat]
  BY DEF Forest
<1>8. V # {}
  BY <1>4
<1> HIDE DEF E, V
<1>9. Determined(D, V, depth, E)
  BY <1>1, <1>2, <1>5, <1>8 DEF Determined
<1>6. PICK g \in [D -> V] : g = E[g]
  BY <1>9, DepthRecursion
<1>7. IsAbove(D, P, g)
  BY <1>3, <1>6 DEF IsAbove
<1> QED BY <1>7

\* What holds of a folder if it holds of the one it lies in holds of all.
LEMMA AllFolders ==
  ASSUME NEW D, NEW P, NEW depth, Forest(D, P, depth), NEW T,
         \A f \in D : (P[f] # None => P[f] \in T) => f \in T
  PROVE  \A f \in D : f \in T
<1> DEFINE U == {n \in Nat : \E f \in D : depth[f] = n /\ f \notin T}
<1>1. SUFFICES ASSUME U # {} PROVE FALSE
  BY DEF Forest
<1>2. PICK n \in U : \A m \in U : n <= m
  <2>1. U \in SUBSET Nat
    OBVIOUS
  <2> HIDE DEF U
  <2> QED BY <1>1, <2>1, LeastNumber
<1>3. PICK f \in D : depth[f] = n /\ f \notin T
  BY <1>2
<1>4. P[f] # None /\ P[f] \in D /\ P[f] \notin T /\ depth[P[f]] < n /\ depth[P[f]] \in Nat
  BY <1>3 DEF Forest
<1>5. depth[P[f]] \in U
  BY <1>4
<1> QED BY <1>2, <1>4, <1>5

\* To be above a folder is an order, in which those above one are in line.
Line(D, P, A) ==
  /\ \A f \in D : f \in A[f] /\ A[f] \in SUBSET D
  /\ \A f \in D : A[f] = {f} \cup (IF P[f] = None THEN {} ELSE A[P[f]])
  /\ \A f \in D : \A g \in A[f] : A[g] \in SUBSET A[f]
  /\ \A f, g \in D : f \in A[g] /\ g \in A[f] => f = g
  /\ \A f \in D : \A g, h \in A[f] : g \in A[h] \/ h \in A[g]
  /\ \A f \in D : \E g \in A[f] : P[g] = None

LEMMA InLine ==
  ASSUME NEW D, NEW P, NEW depth, Forest(D, P, depth), NEW A, IsAbove(D, P, A)
  PROVE  Line(D, P, A)
<1>0. \A f \in D : A[f] = {f} \cup (IF P[f] = None THEN {} ELSE A[P[f]])
  BY DEF IsAbove
<1>1. \A f \in D : P[f] # None => P[f] \in D
  BY DEF Forest
<1>2. \A f \in D : A[f] \in SUBSET D
  <2> DEFINE T == {f \in D : A[f] \in SUBSET D}
  <2>1. ASSUME NEW f \in D, P[f] # None => P[f] \in T PROVE f \in T
    BY <1>0, <1>1, <2>1
  <2> HIDE DEF T
  <2>2. \A f \in D : f \in T
    BY <2>1, AllFolders
  <2> QED BY <2>2 DEF T
<1>3. \A f \in D : \A g \in A[f] : A[g] \in SUBSET A[f]
  <2> DEFINE T == {f \in D : \A g \in A[f] : A[g] \in SUBSET A[f]}
  <2>1. ASSUME NEW f \in D, P[f] # None => P[f] \in T PROVE f \in T
    <3> SUFFICES ASSUME NEW g \in A[f] PROVE A[g] \in SUBSET A[f]
      OBVIOUS
    <3>1. CASE g = f
      BY <3>1
    <3>2. CASE g # f
      <4>1. P[f] # None /\ g \in A[P[f]] /\ A[P[f]] \in SUBSET A[f]
        BY <1>0, <3>2
      <4>2. A[g] \in SUBSET A[P[f]]
        BY <2>1, <4>1
      <4> QED BY <4>1, <4>2
    <3> QED BY <3>1, <3>2
  <2> HIDE DEF T
  <2>2. \A f \in D : f \in T
    BY <2>1, AllFolders
  <2> QED BY <2>2 DEF T
<1>4. \A f \in D : \A g \in A[f] : g = f \/ depth[g] < depth[f]
  <2> DEFINE T == {f \in D : \A g \in A[f] : g = f \/ depth[g] < depth[f]}
  <2>1. ASSUME NEW f \in D, P[f] # None => P[f] \in T PROVE f \in T
    <3> SUFFICES ASSUME NEW g \in A[f], g # f PROVE depth[g] < depth[f]
      OBVIOUS
    <3>1. P[f] # None /\ g \in A[P[f]] /\ P[f] \in D
      BY <1>0, <1>1
    <3>2. depth[P[f]] < depth[f] /\ g \in D
      BY <1>2, <3>1 DEF Forest
    <3>3. g = P[f] \/ depth[g] < depth[P[f]]
      BY <2>1, <3>1
    <3>4. depth[g] \in Nat /\ depth[f] \in Nat /\ depth[P[f]] \in Nat
      BY <3>1, <3>2 DEF Forest
    <3> QED BY <3>2, <3>3, <3>4
  <2> HIDE DEF T
  <2>2. \A f \in D : f \in T
    BY <2>1, AllFolders
  <2> QED BY <2>2 DEF T
<1>5. \A f, g \in D : f \in A[g] /\ g \in A[f] => f = g
  <2> SUFFICES ASSUME NEW f \in D, NEW g \in D, f \in A[g], g \in A[f], f # g PROVE FALSE
    OBVIOUS
  <2>1. depth[g] < depth[f] /\ depth[f] < depth[g] /\ depth[f] \in Nat /\ depth[g] \in Nat
    BY <1>4 DEF Forest
  <2> QED BY <2>1
<1>6. \A f \in D : \A g, h \in A[f] : g \in A[h] \/ h \in A[g]
  <2> DEFINE T == {f \in D : \A g, h \in A[f] : g \in A[h] \/ h \in A[g]}
  <2>1. ASSUME NEW f \in D, P[f] # None => P[f] \in T PROVE f \in T
    <3> SUFFICES ASSUME NEW g \in A[f], NEW h \in A[f] PROVE g \in A[h] \/ h \in A[g]
      OBVIOUS
    <3>1. CASE g = f \/ h = f
      BY <3>1
    <3>2. CASE g # f /\ h # f
      <4>1. P[f] # None /\ g \in A[P[f]] /\ h \in A[P[f]]
        BY <1>0, <3>2
      <4> QED BY <2>1, <4>1
    <3> QED BY <3>1, <3>2
  <2> HIDE DEF T
  <2>2. \A f \in D : f \in T
    BY <2>1, AllFolders
  <2> QED BY <2>2 DEF T
<1>7. \A f \in D : \E g \in A[f] : P[g] = None
  <2> DEFINE T == {f \in D : \E g \in A[f] : P[g] = None}
  <2>1. ASSUME NEW f \in D, P[f] # None => P[f] \in T PROVE f \in T
    <3>1. CASE P[f] = None
      BY <1>0, <3>1
    <3>2. CASE P[f] # None
      <4>1. A[P[f]] \in SUBSET A[f]
        BY <1>0, <3>2
      <4> QED BY <2>1, <3>2, <4>1
    <3> QED BY <3>1, <3>2
  <2> HIDE DEF T
  <2>2. \A f \in D : f \in T
    BY <2>1, AllFolders
  <2> QED BY <2>2 DEF T
<1>8. \A f \in D : f \in A[f]
  BY <1>0
<1> QED BY <1>0, <1>2, <1>3, <1>5, <1>6, <1>7, <1>8 DEF Line

Treed(D, P) == \E depth : Forest(D, P, depth)

\* The pages all define it so.
LEMMA AboveWords ==
  /\ Treed(Branches, BranchOf) =>
       /\ IsAbove(Branches, BranchOf, Picker!Above)
       /\ IsAbove(Branches, BranchOf, Trees!Above)
       /\ IsAbove(Branches, BranchOf, Hub!Above)
  /\ Treed(Shelves, ParentOf) => IsAbove(Shelves, ParentOf, ReportAdmin!Above)
<1>1. ASSUME Treed(Branches, BranchOf)
      PROVE  /\ IsAbove(Branches, BranchOf, Picker!Above)
             /\ IsAbove(Branches, BranchOf, Trees!Above)
             /\ IsAbove(Branches, BranchOf, Hub!Above)
  <2>1. PICK A : IsAbove(Branches, BranchOf, A)
    BY <1>1, AboveExists DEF Treed
  <2>2. Picker!Above = CHOOSE B : IsAbove(Branches, BranchOf, B)
    BY DEF Picker!Above, IsAbove
  <2>3. Trees!Above = CHOOSE B : IsAbove(Branches, BranchOf, B)
    BY DEF Trees!Above, IsAbove
  <2>4. Hub!Above = CHOOSE B : IsAbove(Branches, BranchOf, B)
    BY DEF Hub!Above, IsAbove
  <2> QED BY <2>1, <2>2, <2>3, <2>4
<1>2. ASSUME Treed(Shelves, ParentOf) PROVE IsAbove(Shelves, ParentOf, ReportAdmin!Above)
  <2>1. PICK A : IsAbove(Shelves, ParentOf, A)
    BY <1>2, AboveExists DEF Treed
  <2>2. ReportAdmin!Above = CHOOSE B : IsAbove(Shelves, ParentOf, B)
    BY DEF ReportAdmin!Above, IsAbove
  <2> QED BY <2>1, <2>2
<1> QED BY <1>1, <1>2

\* What is defined along the folders above, as PathMatches is.
IsBelow(D, P, S, M) == M = [f \in D |-> f \in S \/ (P[f] # None /\ M[P[f]])]

LEMMA MatchesExist ==
  ASSUME NEW D, NEW P, Treed(D, P), NEW S
  PROVE  \E M : IsBelow(D, P, S, M)
<1>1. PICK depth : Forest(D, P, depth)
  BY DEF Treed
<1> DEFINE E == [g \in [D -> BOOLEAN] |-> [f \in D |-> f \in S \/ (P[f] # None /\ g[P[f]])]]
<1>2. E \in [[D -> BOOLEAN] -> [D -> BOOLEAN]]
  <2> SUFFICES ASSUME NEW g \in [D -> BOOLEAN] PROVE [f \in D |-> f \in S \/ (P[f] # None /\ g[P[f]])] \in [D -> BOOLEAN]
    OBVIOUS
  <2>1. ASSUME NEW f \in D PROVE (f \in S \/ (P[f] # None /\ g[P[f]])) \in BOOLEAN
    OBVIOUS
  <2> QED BY <2>1
<1>3. Local(D, BOOLEAN, depth, E)
  <2> SUFFICES ASSUME NEW g \in [D -> BOOLEAN], NEW h \in [D -> BOOLEAN], NEW f \in D, \A x \in D : depth[x] < depth[f] => g[x] = h[x]
               PROVE  E[g][f] = E[h][f]
    BY DEF Local
  <2>1. P[f] # None => P[f] \in D /\ g[P[f]] = h[P[f]]
    BY <1>1 DEF Forest
  <2> QED BY <2>1
<1>4. \A g \in [D -> BOOLEAN] : E[g] = [f \in D |-> f \in S \/ (P[f] # None /\ g[P[f]])]
  OBVIOUS
<1>5. depth \in [D -> Nat]
  BY <1>1 DEF Forest
<1> DEFINE V == BOOLEAN
<1>8. V # {}
  OBVIOUS
<1>9. E \in [[D -> V] -> [D -> V]]
  BY <1>2
<1>10. Local(D, V, depth, E)
  BY <1>3
<1>11. \A g \in [D -> V] : E[g] = [f \in D |-> f \in S \/ (P[f] # None /\ g[P[f]])]
  BY <1>4
<1> HIDE DEF E, V
<1>12. Determined(D, V, depth, E)
  BY <1>5, <1>8, <1>9, <1>10 DEF Determined
<1>6. PICK g \in [D -> V] : g = E[g]
  BY <1>12, DepthRecursion
<1>7. IsBelow(D, P, S, g)
  BY <1>6, <1>11 DEF IsBelow
<1> QED BY <1>7

\* A folder matches if one above it does.
LEMMA MatchesAbove ==
  ASSUME NEW D, NEW P, Treed(D, P), NEW S, NEW M, IsBelow(D, P, S, M), NEW A, IsAbove(D, P, A)
  PROVE  \A f \in D : M[f] <=> A[f] \cap S # {}
<1>1. PICK depth : Forest(D, P, depth)
  BY DEF Treed
<1> DEFINE T == {f \in D : M[f] <=> A[f] \cap S # {}}
<1>2. ASSUME NEW f \in D, P[f] # None => P[f] \in T PROVE f \in T
  <2>1. M[f] <=> f \in S \/ (P[f] # None /\ M[P[f]])
    BY DEF IsBelow
  <2>2. A[f] = {f} \cup (IF P[f] = None THEN {} ELSE A[P[f]])
    BY DEF IsAbove
  <2>3. CASE P[f] = None
    BY <2>1, <2>2, <2>3
  <2>4. CASE P[f] # None
    BY <1>2, <2>1, <2>2, <2>4
  <2> QED BY <2>3, <2>4
<1> HIDE DEF T
<1>3. \A f \in D : f \in T
  BY <1>1, <1>2, AllFolders
<1> QED BY <1>3 DEF T

LEMMA TreedInLine == ASSUME NEW D, NEW P, Treed(D, P), NEW A, IsAbove(D, P, A) PROVE Line(D, P, A)
BY InLine DEF Treed

\* With a folder, a set that holds the parents of its members holds all above it.
LEMMA ClosedAbove ==
  ASSUME NEW D, NEW P, Treed(D, P), NEW A, IsAbove(D, P, A), NEW K \in SUBSET D, \A f \in K : P[f] \in K \cup {None}
  PROVE  \A f \in K : A[f] \in SUBSET K
<1>1. PICK depth : Forest(D, P, depth)
  BY DEF Treed
<1> DEFINE T == {f \in D : f \in K => A[f] \in SUBSET K}
<1>2. ASSUME NEW f \in D, P[f] # None => P[f] \in T PROVE f \in T
  <2>1. A[f] = {f} \cup (IF P[f] = None THEN {} ELSE A[P[f]])
    BY DEF IsAbove
  <2>2. CASE P[f] = None
    BY <2>1, <2>2
  <2>3. CASE P[f] # None
    BY <1>2, <2>1, <2>3
  <2> QED BY <2>2, <2>3
<1> HIDE DEF T
<1>3. \A f \in D : f \in T
  BY <1>1, <1>2, AllFolders
<1> QED BY <1>3 DEF T

\* What holds of all that is nearer holds of all.
LEMMA DepthInduction ==
  ASSUME NEW D, NEW depth \in [D -> Nat], NEW T,
         \A f \in D : (\A x \in D : depth[x] < depth[f] => x \in T) => f \in T
  PROVE  \A f \in D : f \in T
<1> DEFINE U == {n \in Nat : \E f \in D : depth[f] = n /\ f \notin T}
<1>1. SUFFICES ASSUME U # {} PROVE FALSE
  OBVIOUS
<1>2. PICK n \in U : \A m \in U : n <= m
  <2>1. U \in SUBSET Nat
    OBVIOUS
  <2> HIDE DEF U
  <2> QED BY <1>1, <2>1, LeastNumber
<1>3. PICK f \in D : depth[f] = n /\ f \notin T
  BY <1>2
<1>4. PICK x \in D : depth[x] < depth[f] /\ x \notin T
  BY <1>3
<1>5. depth[x] \in U /\ depth[x] \in Nat /\ n \in Nat
  BY <1>4
<1> QED BY <1>2, <1>3, <1>4, <1>5

\* The way from a folder down to one below it.
LEMMA WayDown ==
  ASSUME NEW D, NEW P, Treed(D, P), NEW A, IsAbove(D, P, A), NEW g \in D, NEW f \in A[g], f # g
  PROVE  \E c \in A[g] : P[c] = f
<1>1. PICK depth : Forest(D, P, depth)
  BY DEF Treed
<1> DEFINE T == {h \in D : \A x \in A[h] : x # h => \E c \in A[h] : P[c] = x}
<1>2. ASSUME NEW h \in D, P[h] # None => P[h] \in T PROVE h \in T
  <2>1. A[h] = {h} \cup (IF P[h] = None THEN {} ELSE A[P[h]])
    BY DEF IsAbove
  <2>2. CASE P[h] = None
    BY <2>1, <2>2
  <2>3. CASE P[h] # None
    BY <1>2, <2>1, <2>3
  <2> QED BY <2>2, <2>3
<1> HIDE DEF T
<1>3. \A h \in D : h \in T
  BY <1>1, <1>2, AllFolders
<1> QED BY <1>3 DEF T

\* How many folders are below one: fewer below its children.
LEMMA FewerBelow ==
  ASSUME NEW D, NEW P, Treed(D, P), IsFiniteSet(D), NEW A, IsAbove(D, P, A)
  PROVE  \E size \in [D -> Nat] : \A c \in D : P[c] # None => P[c] \in D /\ size[c] < size[P[c]]
<1>1. PICK depth : Forest(D, P, depth)
  BY DEF Treed
<1>2. Line(D, P, A)
  BY TreedInLine
<1> DEFINE Down(f) == {g \in D : f \in A[g]}
           size == [f \in D |-> Cardinality(Down(f))]
<1>3. \A f \in D : IsFiniteSet(Down(f)) /\ Cardinality(Down(f)) \in Nat
  <2> TAKE f \in D
  <2>1. Down(f) \in SUBSET D
    OBVIOUS
  <2> HIDE DEF Down
  <2>2. IsFiniteSet(Down(f))
    BY <2>1, FS_Subset
  <2> QED BY <2>2, FS_CardinalityType
<1>4. ASSUME NEW c \in D, P[c] # None PROVE P[c] \in D /\ size[c] < size[P[c]]
  <2>1. P[c] \in D /\ depth[P[c]] < depth[c] /\ depth[c] \in Nat /\ depth[P[c]] \in Nat
    BY <1>1, <1>4 DEF Forest
  <2>2. P[c] # c
    BY <2>1
  <2>3. P[c] \in A[c] /\ A[c] \in SUBSET D
    <3>1. A[c] = {c} \cup A[P[c]] /\ P[c] \in A[P[c]] /\ A[c] \in SUBSET D
      BY <1>2, <1>4, <2>1 DEF Line
    <3> QED BY <3>1
  <2>4. Down(c) \in SUBSET Down(P[c])
    BY <1>2, <2>3 DEF Line
  <2>5. P[c] \in Down(P[c]) /\ P[c] \notin Down(c)
    <3>1. P[c] \in A[P[c]]
      BY <1>2, <2>1 DEF Line
    <3>2. c \in A[P[c]] => c = P[c]
      BY <1>2, <2>1, <2>3 DEF Line
    <3> QED BY <2>1, <2>2, <3>1, <3>2
  <2> DEFINE s == Down(c)
             t == Down(P[c])
  <2>6. IsFiniteSet(t) /\ Cardinality(s) \in Nat /\ Cardinality(t) \in Nat /\ s \in SUBSET t /\ s # t
    BY <1>3, <2>1, <2>4, <2>5
  <2>7. size[c] = Cardinality(s) /\ size[P[c]] = Cardinality(t)
    BY <2>1
  <2> HIDE DEF s, t, size
  <2>8. Cardinality(s) < Cardinality(t)
    BY <2>6, FS_Subset
  <2> QED BY <2>1, <2>7, <2>8
<1>5. size \in [D -> Nat]
  BY <1>3
<1> QED BY <1>4, <1>5

\* What is defined along the folders below, as HasMatch is.
IsOver(D, P, M, H) == H = [f \in D |-> f \in M \/ \E c \in D : P[c] = f /\ H[c]]

LEMMA OverExists ==
  ASSUME NEW D, NEW P, Treed(D, P), IsFiniteSet(D), NEW M
  PROVE  \E H : IsOver(D, P, M, H)
<1>1. PICK A : IsAbove(D, P, A)
  BY AboveExists DEF Treed
<1>2. PICK size \in [D -> Nat] : \A c \in D : P[c] # None => P[c] \in D /\ size[c] < size[P[c]]
  BY <1>1, FewerBelow
<1>3. None \notin D
  BY DEF Treed, Forest
<1> DEFINE E == [g \in [D -> BOOLEAN] |-> [f \in D |-> f \in M \/ \E c \in D : P[c] = f /\ g[c]]]
<1>4. E \in [[D -> BOOLEAN] -> [D -> BOOLEAN]]
  <2> SUFFICES ASSUME NEW g \in [D -> BOOLEAN] PROVE [f \in D |-> f \in M \/ \E c \in D : P[c] = f /\ g[c]] \in [D -> BOOLEAN]
    OBVIOUS
  <2>1. ASSUME NEW f \in D PROVE (f \in M \/ \E c \in D : P[c] = f /\ g[c]) \in BOOLEAN
    OBVIOUS
  <2> QED BY <2>1
<1>5. Local(D, BOOLEAN, size, E)
  <2> SUFFICES ASSUME NEW g \in [D -> BOOLEAN], NEW h \in [D -> BOOLEAN], NEW f \in D, \A x \in D : size[x] < size[f] => g[x] = h[x]
               PROVE  E[g][f] = E[h][f]
    BY DEF Local
  <2>1. \A c \in D : P[c] = f => g[c] = h[c]
    BY <1>2, <1>3
  <2> QED BY <2>1
<1>6. \A g \in [D -> BOOLEAN] : E[g] = [f \in D |-> f \in M \/ \E c \in D : P[c] = f /\ g[c]]
  OBVIOUS
<1> DEFINE V == BOOLEAN
<1>7. V # {}
  OBVIOUS
<1>8. E \in [[D -> V] -> [D -> V]]
  BY <1>4
<1>9. Local(D, V, size, E)
  BY <1>5
<1>10. \A g \in [D -> V] : E[g] = [f \in D |-> f \in M \/ \E c \in D : P[c] = f /\ g[c]]
  BY <1>6
<1> HIDE DEF E, V
<1>11. Determined(D, V, size, E)
  BY <1>2, <1>7, <1>8, <1>9 DEF Determined
<1>12. PICK g \in [D -> V] : g = E[g]
  BY <1>11, DepthRecursion
<1>13. IsOver(D, P, M, g)
  BY <1>10, <1>12 DEF IsOver
<1> QED BY <1>13

\* A folder has a match if one is somewhere below it.
LEMMA OverBelow ==
  ASSUME NEW D, NEW P, Treed(D, P), IsFiniteSet(D), NEW M, NEW H, IsOver(D, P, M, H), NEW A, IsAbove(D, P, A)
  PROVE  \A f \in D : H[f] <=> \E g \in D : g \in M /\ f \in A[g]
<1>1. Line(D, P, A) /\ None \notin D
  BY TreedInLine DEF Treed, Forest
<1>2. PICK size \in [D -> Nat] : \A c \in D : P[c] # None => P[c] \in D /\ size[c] < size[P[c]]
  BY FewerBelow
<1> DEFINE T == {f \in D : H[f] <=> \E g \in D : g \in M /\ f \in A[g]}
<1>3. ASSUME NEW f \in D, \A x \in D : size[x] < size[f] => x \in T PROVE f \in T
  <2>1. H[f] <=> f \in M \/ \E c \in D : P[c] = f /\ H[c]
    BY DEF IsOver
  <2>2. \A c \in D : P[c] = f => (H[c] <=> \E g \in D : g \in M /\ c \in A[g])
    BY <1>1, <1>2, <1>3
  <2>3. ASSUME H[f] PROVE \E g \in D : g \in M /\ f \in A[g]
    <3>1. CASE f \in M
      BY <1>1, <3>1 DEF Line
    <3>2. CASE \E c \in D : P[c] = f /\ H[c]
      <4>1. PICK c \in D : P[c] = f /\ H[c]
        BY <3>2
      <4>2. PICK g \in D : g \in M /\ c \in A[g]
        BY <2>2, <4>1
      <4>3. f \in A[c]
        <5>1. A[c] = {c} \cup A[f] /\ f \in A[f]
          BY <1>1, <4>1 DEF Line
        <5> QED BY <5>1
      <4> QED BY <1>1, <4>2, <4>3 DEF Line
    <3> QED BY <2>1, <2>3, <3>1, <3>2
  <2>4. ASSUME NEW g \in D, g \in M, f \in A[g] PROVE H[f]
    <3>1. CASE g = f
      BY <2>1, <2>4, <3>1
    <3>2. CASE g # f
      <4>1. PICK c \in A[g] : P[c] = f
        BY <2>4, <3>2, WayDown
      <4>2. c \in D
        BY <1>1 DEF Line
      <4> QED BY <2>1, <2>2, <2>4, <4>1, <4>2
    <3> QED BY <3>1, <3>2
  <2> QED BY <2>3, <2>4
<1> HIDE DEF T
<1>4. \A f \in D : f \in T
  BY <1>3, DepthInduction
<1> QED BY <1>4 DEF T

-----------------------------------------------------------------------------
(* The tree of the administration of the reports.                          *)

\* Nothing lies in a folder that is not there, at the server and in the list.
Closed(K) == \A f \in K : ParentOf[f] \in K \cup {None}
Placed(s, K) == \A r \in Published : s[r] # None => s[r].folder \in K \cup {None}
ShelfIInv == ReportIInv /\ Closed(sight) /\ Closed(list.folders) /\ Placed(server, sight) /\ Placed(list.reports, list.folders)

ShelfConstants == ReportConstants /\ Treed(Shelves, ParentOf)

\* The tree of the administration shows what is found, and the way to it.
LEMMA ShelfFollows == ASSUME ShelfConstants, ShelfIInv PROVE ReportAdmin!TreeShowsFound
<1> DEFINE A == ReportAdmin!Above
           K == list.folders
           S == window.found
           Spot(r) == ReportAdmin!PlaceOf(r)
           Path(f) == ReportAdmin!Path(f)
<1>1. IsAbove(Shelves, ParentOf, A) /\ Line(Shelves, ParentOf, A)
  BY AboveWords, TreedInLine DEF ShelfConstants
<1>2. K \in SUBSET Shelves /\ \A f \in K : ParentOf[f] \in K \cup {None}
  BY DEF ShelfIInv, ReportIInv, ReportsTyped, Closed
<1>3. \A f \in K : A[f] \in SUBSET K
  <2> HIDE DEF A, K
  <2> QED BY <1>1, <1>2, ClosedAbove DEF ShelfConstants
<1>4. None \notin Shelves
  BY DEF ShelfConstants, ReportConstants
<1>5. \A r \in ReportAdmin!Known : Spot(r) \in K \cup {None}
  BY DEF ShelfIInv, Placed, ReportAdmin!Known, ReportAdmin!PlaceOf
<1>6. Path(None) = {} /\ \A f \in Shelves : Path(f) = A[f]
  BY <1>4 DEF ReportAdmin!Path
<1>7. \A r \in ReportAdmin!Known : Path(Spot(r)) \in SUBSET K
  <2> HIDE DEF A, K, Spot
  <2> QED BY <1>2, <1>3, <1>5, <1>6
<1>8. CASE S = None
  <2>1. ReportAdmin!VisibleFolders = K /\ ReportAdmin!VisibleReports = ReportAdmin!Known
    BY <1>8 DEF ReportAdmin!VisibleFolders, ReportAdmin!VisibleReports
  <2>2. ReportAdmin!ShownFolders = K
    BY <1>3, <2>1 DEF ReportAdmin!ShownFolders
  <2>3. ReportAdmin!ShownReports = {r \in ReportAdmin!Known : Spot(r) \notin window.closed}
    BY <1>7, <1>8, <2>1, <2>2 DEF ReportAdmin!ShownReports
  <2> QED BY <1>8, <2>2, <2>3 DEF ReportAdmin!TreeShowsFound
<1>9. CASE S # None
  <2> DEFINE Matched == ReportAdmin!Inside
             VR == ReportAdmin!VisibleReports
             VF == ReportAdmin!VisibleFolders
             Known == ReportAdmin!Known
  <2>1. \A f \in Shelves : ReportAdmin!PathMatches[f] <=> A[f] \cap S # {}
    <3>1. ReportAdmin!PathMatches = CHOOSE M : IsBelow(Shelves, ParentOf, S, M)
      BY DEF ReportAdmin!PathMatches, IsBelow
    <3> HIDE DEF S, A
    <3>2. IsBelow(Shelves, ParentOf, S, ReportAdmin!PathMatches)
      BY <3>1, MatchesExist DEF ShelfConstants
    <3> QED BY <1>1, <3>2, MatchesAbove DEF ShelfConstants
  <2>2. Matched = {f \in K : A[f] \cap S # {}}
    BY <1>2, <2>1 DEF ReportAdmin!Inside
  <2>3. VR = {r \in Known : r \in S \/ Spot(r) \in Matched}
    BY <1>9 DEF ReportAdmin!VisibleReports
  <2>4. VF = UNION ({A[f] : f \in Matched} \cup {Path(Spot(r)) : r \in VR})
    BY <1>9 DEF ReportAdmin!VisibleFolders
  <2>5. ReportAdmin!ShownFolders = {f \in VF : A[f] \in SUBSET VF}
    BY DEF ReportAdmin!ShownFolders
  <2>6. ReportAdmin!ShownReports = {r \in VR : Path(Spot(r)) \in SUBSET VF /\ Path(Spot(r)) \in SUBSET ReportAdmin!ShownFolders}
    <3>1. ReportAdmin!ShownReports = {r \in VR : Path(Spot(r)) \in SUBSET ReportAdmin!ShownFolders}
      BY <1>9 DEF ReportAdmin!ShownReports
    <3> QED BY <2>5, <3>1
  <2>7. ReportAdmin!TreeShowsFound <=>
          /\ ReportAdmin!ShownReports = {r \in Known : r \in S \/ Path(Spot(r)) \cap S # {}}
          /\ ReportAdmin!ShownFolders = {f \in K : \/ A[f] \cap S # {}
                                                   \/ \E g \in K \cap S : f \in A[g]
                                                   \/ \E r \in ReportAdmin!ShownReports : f \in Path(Spot(r))}
    BY <1>9 DEF ReportAdmin!TreeShowsFound
  <2> HIDE DEF A, K, S, Spot, Path, Matched, VR, VF, Known
  <2>8. \A f \in Shelves : f \in A[f] /\ \A g \in A[f] : A[g] \in SUBSET A[f] /\ \A h \in A[f] : g \in A[h] \/ h \in A[g]
    BY <1>1 DEF Line
  <2>9. \A r \in Known : Spot(r) \in K \cup {None} /\ Path(Spot(r)) \in SUBSET K
    BY <1>5, <1>7 DEF Known
  <2>10. VR = {r \in Known : r \in S \/ Path(Spot(r)) \cap S # {}}
    BY <1>2, <1>4, <1>6, <2>2, <2>3, <2>9
  <2>11. \A r \in VR : Path(Spot(r)) \in SUBSET VF
    BY <2>4
  <2>12. \A f \in Matched : A[f] \in SUBSET VF /\ A[f] \in SUBSET K /\ f \in K
    BY <1>3, <2>2, <2>4
  <2>13. ASSUME NEW f \in VF PROVE A[f] \in SUBSET VF /\ f \in K
    <3>1. CASE \E g \in Matched : f \in A[g]
      BY <1>2, <2>8, <2>12, <3>1
    <3>2. CASE \E r \in VR : f \in Path(Spot(r))
      <4>1. PICK r \in VR : f \in Path(Spot(r))
        BY <3>2
      <4>2. r \in Known /\ Path(Spot(r)) \in SUBSET K
        BY <2>9, <2>10
      <4>3. Spot(r) \in K /\ Path(Spot(r)) = A[Spot(r)]
        BY <1>2, <1>6, <2>9, <4>1, <4>2
      <4>4. A[f] \in SUBSET A[Spot(r)]
        BY <1>2, <2>8, <4>1, <4>3
      <4> QED BY <2>11, <4>1, <4>2, <4>3, <4>4
    <3> QED BY <2>4, <3>1, <3>2
  <2>14. ReportAdmin!ShownFolders = VF
    BY <2>5, <2>13
  <2>15. ReportAdmin!ShownReports = VR
    BY <2>6, <2>11, <2>14
  <2>16. ASSUME NEW f \in VF
         PROVE  A[f] \cap S # {} \/ (\E g \in K \cap S : f \in A[g]) \/ \E r \in VR : f \in Path(Spot(r))
    <3>1. CASE \E g \in Matched : f \in A[g]
      <4>1. PICK g \in Matched : f \in A[g]
        BY <3>1
      <4>2. PICK x \in A[g] : x \in S
        BY <2>2
      <4>3. g \in Shelves /\ x \in K /\ (f \in A[x] \/ x \in A[f])
        BY <1>2, <2>8, <2>12, <4>1, <4>2
      <4> QED BY <4>2, <4>3
    <3> QED BY <2>4, <3>1
  <2>17. ASSUME NEW f \in K, A[f] \cap S # {} \/ (\E g \in K \cap S : f \in A[g]) \/ \E r \in VR : f \in Path(Spot(r))
         PROVE  f \in VF
    <3>1. CASE A[f] \cap S # {}
      BY <1>2, <2>2, <2>8, <2>12, <3>1
    <3>2. CASE \E g \in K \cap S : f \in A[g]
      <4>1. PICK g \in K \cap S : f \in A[g]
        BY <3>2
      <4>2. g \in Matched
        BY <1>2, <2>2, <2>8
      <4> QED BY <2>12, <4>1, <4>2
    <3> QED BY <2>11, <2>17, <3>1, <3>2
  <2>18. ReportAdmin!ShownFolders = {f \in K : \/ A[f] \cap S # {}
                                               \/ \E g \in K \cap S : f \in A[g]
                                               \/ \E r \in ReportAdmin!ShownReports : f \in Path(Spot(r))}
    BY <2>13, <2>14, <2>15, <2>16, <2>17
  <2> QED BY <2>7, <2>10, <2>15, <2>18
<1> QED BY <1>8, <1>9

LEMMA ShelfInitIInv == ASSUME ShelfConstants, ReportAdmin!AdminInit PROVE ShelfIInv
<1>1. ReportIInv
  BY ReportInitIInv DEF ShelfConstants
<1>2. sight = Shelves /\ Closed(sight)
  BY DEF ReportAdmin!AdminInit, Closed, ShelfConstants, ReportConstants
<1>3. list = [reports |-> server, folders |-> sight]
  BY DEF ReportAdmin!AdminInit
<1>4. Placed(server, sight)
  <2>1. PICK place \in [Published -> Shelves \cup {None}] :
          server = [r \in Published |-> IF part \in {"fields", "places"} /\ ReportIds[r] # 1 THEN None ELSE ReportAdmin!Made(place[r])]
    BY DEF ReportAdmin!AdminInit
  <2> QED BY <1>2, <2>1 DEF Placed, ReportAdmin!Made
<1> QED BY <1>1, <1>2, <1>3, <1>4 DEF ShelfIInv

LEMMA ShelfKeeps ==
  ASSUME ShelfIInv, ReportIInv', Closed(sight)', Placed(server, sight)',
         UNCHANGED list \/ list' = [reports |-> server', folders |-> sight']
  PROVE  ShelfIInv'
BY DEF ShelfIInv, Closed, Placed

LEMMA PlacedKeeps ==
  ASSUME Closed(sight), Placed(server, sight), sight' = sight,
         \A r \in Published : server'[r] # None /\ server'[r].folder \notin sight
           => server[r] # None /\ server'[r].folder = server[r].folder
  PROVE  Closed(sight)' /\ Placed(server, sight)'
BY DEF Closed, Placed

LEMMA ShelfStep ==
  ASSUME ShelfConstants, ShelfIInv, [ReportAdmin!AdminNext]_(ReportAdmin!adminVars)
  PROVE  ShelfIInv'
<1>0. /\ ReportConstants /\ ReportIInv /\ Closed(sight) /\ Placed(server, sight)
      /\ server \in ReportTable /\ sight \in SUBSET Shelves /\ list.folders \in SUBSET Shelves
      /\ \A w \in jobs : ReportWork(w)
  BY DEF ShelfConstants, ShelfIInv, ReportIInv, ReportsTyped
<1>1. ReportIInv'
  BY <1>0, ReportStep
<1>2. ASSUME UNCHANGED <<server, sight>>, UNCHANGED list \/ list' = [reports |-> server', folders |-> sight']
      PROVE  ShelfIInv'
  BY <1>0, <1>1, <1>2, ShelfKeeps DEF Closed, Placed
<1>3. ASSUME NEW r \in Published, NEW new, server' = [server EXCEPT ![r] = new], sight' = sight,
             UNCHANGED list \/ list' = [reports |-> server', folders |-> sight'],
             new # None => new.folder \in sight \/ (server[r] # None /\ new.folder = server[r].folder)
      PROVE  ShelfIInv'
  <2>1. \A q \in Published : server'[q] = IF q = r THEN new ELSE server[q]
    BY <1>0, <1>3 DEF ReportTable
  <2>2. \A q \in Published : server'[q] # None /\ server'[q].folder \notin sight
           => server[q] # None /\ server'[q].folder = server[q].folder
    BY <1>3, <2>1
  <2> QED BY <1>0, <1>1, <1>3, <2>2, PlacedKeeps, ShelfKeeps
<1>4. CASE UNCHANGED ReportAdmin!adminVars
  BY <1>2, <1>4 DEF ReportAdmin!adminVars
<1>5. CASE ReportAdmin!Refetch
  <2>1. UNCHANGED <<server, sight>> /\ list' = [reports |-> server, folders |-> sight]
    BY <1>5 DEF ReportAdmin!Refetch, ReportAdmin!Fetched
  <2> QED BY <1>2, <2>1
<1>6. CASE \/ \E found \in {None} \cup SUBSET (Shelves \cup Published) : ReportAdmin!Search(found)
           \/ \E f \in Shelves : ReportAdmin!Toggle(f)
           \/ \E f \in Shelves, i \in 1..ReportAdmin!Cardinality(Published) : ReportAdmin!Swap(f, i)
           \/ ReportAdmin!Cancel \/ ReportAdmin!Submit
           \/ \E w \in jobs : ReportAdmin!SaveFails(w) \/ \E x \in w.todo : ReportAdmin!RankFails(w, x)
           \/ \E r \in Published : ReportAdmin!OpenEdit(r, IF part = "fields" THEN "edit" ELSE "move")
           \/ \E t \in Texts \cup {None} : ReportAdmin!Type("name", t) \/ ReportAdmin!Type("author", t)
           \/ \E f \in list.folders : ReportAdmin!Type("folder", f) \/ ReportAdmin!Upload(f)
  BY <1>2, <1>6 DEF ReportAdmin!Search, ReportAdmin!Toggle, ReportAdmin!Swap, ReportAdmin!Cancel, ReportAdmin!Submit,
     ReportAdmin!Fetched, ReportAdmin!SaveFails, ReportAdmin!RankFails, ReportAdmin!OpenEdit, ReportAdmin!Type,
     ReportAdmin!Upload
<1>7. ASSUME NEW w \in jobs, w.kind = "order", NEW x \in w.todo, ReportAdmin!Ranked(w, x) PROVE ShelfIInv'
  <2>1. /\ server' = [server EXCEPT ![x[1]].rank = x[2]] /\ sight' = sight /\ server[x[1]] # None
        /\ UNCHANGED list \/ list' = [reports |-> server', folders |-> sight']
    BY <1>7 DEF ReportAdmin!Ranked, ReportAdmin!Fetched
  <2>2. x[1] \in Published
    BY <1>0, <1>7 DEF ReportWork, OrderWork
  <2>3. server[x[1]] \in ReportAdmin!Report
    BY <1>0, <2>1, <2>2 DEF ReportTable
  <2>4. [server[x[1]] EXCEPT !.rank = x[2]].folder = server[x[1]].folder
    BY <2>3 DEF ReportAdmin!Report
  <2>5. server' = [server EXCEPT ![x[1]] = [server[x[1]] EXCEPT !.rank = x[2]]]
    BY <2>1
  <2> QED BY <1>3, <2>1, <2>2, <2>4, <2>5
<1>8. ASSUME NEW w \in jobs, ReportAdmin!Saved(w) PROVE ShelfIInv'
  <2>1. /\ w.kind = "save" /\ server[w.id] # None
        /\ "folder" \in DOMAIN w.patch => w.patch["folder"] \in sight
        /\ server' = [server EXCEPT ![w.id] = ReportAdmin!Updated(server[w.id], w.patch)] /\ sight' = sight
        /\ list' = [reports |-> server', folders |-> sight']
    BY <1>8 DEF ReportAdmin!Saved, ReportAdmin!Accepted, ReportAdmin!Fetched
  <2>2. w.id \in Published
    BY <1>0, <2>1 DEF ReportWork, OrderWork
  <2>3. server[w.id] \in ReportAdmin!Report
    BY <1>0, <2>1, <2>2 DEF ReportTable
  <2> DEFINE new == ReportAdmin!Updated(server[w.id], w.patch)
  <2>4. new.folder = IF "folder" \in DOMAIN w.patch THEN w.patch["folder"] ELSE server[w.id].folder
    BY <2>3 DEF ReportAdmin!Updated, ReportAdmin!Report
  <2> HIDE DEF new
  <2> QED BY <1>3, <2>1, <2>2, <2>4 DEF new
<1>9. ASSUME NEW r \in Published,
             \/ \E w \in jobs : ReportAdmin!Imported(w, r)
             \/ ReportAdmin!Delete(r)
      PROVE  ShelfIInv'
  BY <1>3, <1>9 DEF ReportAdmin!Imported, ReportAdmin!Delete, ReportAdmin!Made, ReportAdmin!Fetched
<1>10. ASSUME NEW r \in Published, NEW field \in Edited, NEW value, ReportAdmin!Elsewhere(r, field, value)
       PROVE  ShelfIInv'
  <2>1. /\ server[r] # None /\ (field = "folder" => value \in sight)
        /\ server' = [server EXCEPT ![r][field] = value] /\ sight' = sight /\ list' = list
    BY <1>10 DEF ReportAdmin!Elsewhere
  <2> DEFINE new == [server[r] EXCEPT ![field] = value]
  <2>2. server[r] \in ReportAdmin!Report
    BY <1>0, <2>1 DEF ReportTable
  <2>3. new.folder = IF field = "folder" THEN value ELSE server[r].folder
    BY <2>2 DEF ReportAdmin!Report, Edited
  <2>4. server' = [server EXCEPT ![r] = new]
    BY <2>1
  <2> HIDE DEF new
  <2> QED BY <1>3, <2>1, <2>3, <2>4
<1>11. ASSUME NEW f \in Shelves, ReportAdmin!CreateFolder(f) \/ ReportAdmin!DeleteFolder(f) PROVE ShelfIInv'
  <2>1. server' = server /\ list' = [reports |-> server', folders |-> sight']
    BY <1>11 DEF ReportAdmin!CreateFolder, ReportAdmin!DeleteFolder, ReportAdmin!Fetched
  <2>2. Closed(sight)' /\ Placed(server, sight)'
    <3>1. CASE ReportAdmin!CreateFolder(f)
      BY <1>0, <2>1, <3>1 DEF ReportAdmin!CreateFolder, Closed, Placed
    <3>2. CASE ReportAdmin!DeleteFolder(f)
      <4>1. /\ sight' = sight \ {f} /\ \A g \in Shelves : ParentOf[g] = f => g \notin sight
            /\ \A r \in Published : server[r] # None => server[r].folder # f
        BY <3>2 DEF ReportAdmin!DeleteFolder, ReportAdmin!Children
      <4> QED BY <1>0, <2>1, <4>1 DEF Closed, Placed
    <3> QED BY <1>11, <3>1, <3>2
  <2> QED BY <1>0, <1>1, <2>1, <2>2, ShelfKeeps
<1> QED BY <1>4, <1>5, <1>6, <1>7, <1>8, <1>9, <1>10, <1>11 DEF ReportAdmin!AdminNext, Edited

-----------------------------------------------------------------------------
(* The trees of the permissions.                                           *)

BranchConstants == Treed(Branches, BranchOf) /\ IsFiniteSet(Branches) /\ Filed \in [Published -> Branches \cup {None}]

TreeIInv == part \in {"select", "inherited"} /\ list \in SUBSET Published

\* The folders with a match are those above a report that matches.
LEMMA MatchBelow ==
  ASSUME BranchConstants
  PROVE  \A f \in Branches :
           Trees!HasMatch[f] <=> \E r \in Trees!Listed : Trees!Matches(r) /\ Filed[r] \in Branches /\ f \in Trees!Above[Filed[r]]
<1> DEFINE Own(f) == \E r \in Trees!Own(f) : Trees!Matches(r)
           M == {f \in Branches : Own(f)}
           F(H) == [f \in Branches |-> Own(f) \/ \E c \in Branches : BranchOf[c] = f /\ H[c]]
           H == Trees!HasMatch
           A == Trees!Above
<1>1. H = CHOOSE G : G = F(G)
  BY DEF Trees!HasMatch
<1>2. PICK G : IsOver(Branches, BranchOf, M, G)
  <2> HIDE DEF M
  <2> QED BY OverExists DEF BranchConstants
<1>3. G = F(G)
  <2>1. \A f \in Branches : f \in M <=> Own(f)
    OBVIOUS
  <2> HIDE DEF M, Own
  <2> QED BY <1>2, <2>1 DEF IsOver
<1>4. H = F(H)
  <2> HIDE DEF F, H
  <2> QED BY <1>1, <1>3
<1>5. IsOver(Branches, BranchOf, M, H)
  <2>1. \A f \in Branches : f \in M <=> Own(f)
    OBVIOUS
  <2> HIDE DEF M, Own, H
  <2> QED BY <1>4, <2>1 DEF IsOver
<1>6. IsAbove(Branches, BranchOf, A)
  BY AboveWords DEF BranchConstants
<1>7. \A f \in Branches : H[f] <=> \E g \in Branches : g \in M /\ f \in A[g]
  <2> HIDE DEF M, H, A
  <2> QED BY <1>5, <1>6, OverBelow DEF BranchConstants
<1>8. \A g \in Branches : g \in M <=> \E r \in Trees!Listed : Filed[r] = g /\ Trees!Matches(r)
  BY DEF Trees!Own
<1> HIDE DEF M, H, A
<1> SUFFICES ASSUME NEW f \in Branches
             PROVE H[f] <=> \E r \in Trees!Listed : Trees!Matches(r) /\ Filed[r] \in Branches /\ f \in A[Filed[r]]
  BY DEF H, A
<1> QED BY <1>7, <1>8

LEMMA TreeFollows == ASSUME BranchConstants, TreeIInv PROVE Trees!TreeShowsMatches
<1> DEFINE A == Trees!Above
           Path(f) == Trees!Path(f)
           Listed == Trees!Listed
           Seen == Trees!ShownReports
           Fits(r) == Trees!Matches(r)
           wanted == {r \in Published : /\ draft = None \/ r \in draft
                                        /\ IF part = "select" THEN r \in Listed
                                           ELSE \E s \in Sources : window \in {All, s} /\ r \in server[s]}
<1>1. IsAbove(Branches, BranchOf, A) /\ Line(Branches, BranchOf, A)
  BY AboveWords, TreedInLine DEF BranchConstants
<1>2. \A f \in Branches : f \in A[f] /\ A[f] \in SUBSET Branches /\ \A g \in A[f] : A[g] \in SUBSET A[f]
  BY <1>1 DEF Line
<1>3. Path(None) = {} /\ \A f \in Branches : Path(f) = A[f]
  <2>1. None \notin Branches
    BY DEF BranchConstants, Treed, Forest
  <2> QED BY <2>1 DEF Trees!Path
<1>4. Listed = Published \ list /\ list \in SUBSET Published
  BY DEF Trees!Listed, TreeIInv
<1>5. \A r \in Published : Filed[r] \in Branches \cup {None}
  BY DEF BranchConstants
<1>6. \A r \in Published : Fits(r) <=> (draft = None \/ r \in draft)
         /\ (part = "inherited" => \E s \in Sources : window \in {All, s} /\ r \in server[s])
  BY DEF Trees!Matches, Trees!HasItems
<1>7. /\ \A r \in wanted : Fits(r) /\ (r \in Listed \/ part = "inherited")
      /\ \A r \in Published : Fits(r) /\ (r \in Listed \/ part = "inherited") => r \in wanted
  <2> HIDE DEF Fits
  <2> QED BY <1>4, <1>6 DEF TreeIInv
<1>8. Seen = {r \in Listed : /\ Fits(r) /\ Path(Filed[r]) \in SUBSET Trees!ShownFolders
                              /\ \A g \in Path(Filed[r]) : Trees!IsOpen(g)}
                \cup {r \in list : part = "inherited" /\ Fits(r)}
  BY DEF Trees!ShownReports
<1>9. Trees!ShownFolders = {f \in Branches : /\ \A g \in A[f] : Trees!Drawn(g)
                                             /\ \A g \in A[f] \ {f} : Trees!IsOpen(g)}
  BY DEF Trees!ShownFolders
<1>10. \A f \in Branches : Trees!HasMatch[f] <=> \E r \in Listed : Fits(r) /\ Filed[r] \in Branches /\ f \in A[Filed[r]]
  BY MatchBelow
<1>11. \A g : /\ Trees!Drawn(g) <=> (part = "inherited" \/ draft # None => Trees!HasMatch[g])
              /\ Trees!IsOpen(g) <=> (draft # None \/ g \notin sight)
  BY DEF Trees!Drawn, Trees!IsOpen
<1>12. Trees!TreeShowsMatches <=>
         /\ draft # None => Seen = wanted
         /\ part = "inherited" => \A f \in Trees!ShownFolders : \E r \in wanted \cap Listed : f \in Path(Filed[r])
         /\ \A r \in wanted \ Seen : Path(Filed[r]) \cap sight # {}
  BY DEF Trees!TreeShowsMatches
<1> HIDE DEF A, Path, Listed, Seen, Fits, wanted
\* What fits, and lies in no folder that is closed, is shown.
<1>13. ASSUME NEW r \in Listed, Fits(r), draft # None \/ Path(Filed[r]) \cap sight = {}
       PROVE  r \in Seen
  <2>1. r \in Published
    BY <1>4
  <2>2. \A g \in Path(Filed[r]) : g \in Branches /\ A[g] \in SUBSET Path(Filed[r]) /\ Trees!Drawn(g) /\ Trees!IsOpen(g)
    <3> TAKE g \in Path(Filed[r])
    <3>1. Filed[r] \in Branches /\ g \in A[Filed[r]]
      BY <1>3, <1>5, <2>1
    <3>2. g \in Branches /\ A[g] \in SUBSET A[Filed[r]]
      BY <1>2, <3>1
    <3>3. Trees!HasMatch[g]
      BY <1>10, <1>13, <3>1, <3>2
    <3> QED BY <1>3, <1>11, <1>13, <3>1, <3>2, <3>3
  <2>3. \A g \in Path(Filed[r]) : g \in Trees!ShownFolders
    BY <1>9, <2>2
  <2> QED BY <1>8, <1>13, <2>2, <2>3
<1>14. draft # None => Seen = wanted
  <2> SUFFICES ASSUME draft # None PROVE Seen = wanted
    OBVIOUS
  <2>1. \A r \in Seen : r \in Published /\ Fits(r) /\ (r \in Listed \/ part = "inherited")
    BY <1>4, <1>8
  <2>2. \A r \in wanted : r \in Published
    BY DEF wanted
  <2>3. \A r \in wanted : r \in Seen
    BY <1>4, <1>7, <1>8, <1>13, <2>2
  <2> QED BY <1>7, <2>1, <2>3
<1>15. part = "inherited" => \A f \in Trees!ShownFolders : \E r \in wanted \cap Listed : f \in Path(Filed[r])
  <2> SUFFICES ASSUME part = "inherited", NEW f \in Trees!ShownFolders PROVE \E r \in wanted \cap Listed : f \in Path(Filed[r])
    OBVIOUS
  <2>1. f \in Branches /\ Trees!HasMatch[f]
    BY <1>2, <1>9, <1>11
  <2>2. PICK r \in Listed : Fits(r) /\ Filed[r] \in Branches /\ f \in A[Filed[r]]
    BY <1>10, <2>1
  <2> QED BY <1>3, <1>4, <1>7, <2>2
<1>16. ASSUME NEW r \in wanted \ Seen PROVE Path(Filed[r]) \cap sight # {}
  <2>1. r \in Published
    BY DEF wanted
  <2> QED BY <1>4, <1>7, <1>8, <1>13, <2>1
<1> QED BY <1>12, <1>14, <1>15, <1>16

LEMMA TreeInitIInv == Trees!TreeInit => TreeIInv
BY DEF Trees!TreeInit, TreeIInv

LEMMA TreeStep == ASSUME TreeIInv, [Trees!TreeNext]_(Trees!treeVars) PROVE TreeIInv'
<1>1. UNCHANGED <<part, list>>
  BY DEF Trees!TreeNext, Trees!treeVars, Trees!Type, Trees!Filter, Trees!ToggleFolder, Trees!SelectAll, Trees!ToggleReport,
     Trees!Choose
<1> QED BY <1>1 DEF TreeIInv

-----------------------------------------------------------------------------
(* The picker, which walks from what it found.                             *)

\* A walk up from a folder, as far as nothing is met that was seen before.
Way(A, f) == IF f = None THEN {} ELSE A[f]
ClimbTo(A, f, seen) == seen \cup {g \in Way(A, f) : \A x \in Way(A, f) : g \in A[x] => x \notin seen}

\* After a walk up, what was passed has its parent among what was seen.
LEMMA ClimbUp ==
  ASSUME NEW D, NEW P, Treed(D, P), NEW A, IsAbove(D, P, A), NEW f \in D \cup {None}, NEW seen \in SUBSET D
  PROVE  /\ ClimbTo(A, f, seen) \in SUBSET D /\ seen \in SUBSET ClimbTo(A, f, seen)
         /\ \A g \in ClimbTo(A, f, seen) : g \in seen \/ (g \in Way(A, f) /\ P[g] \in ClimbTo(A, f, seen) \cup {None})
         /\ f \in ClimbTo(A, f, seen) \cup {None}
<1> DEFINE W == Way(A, f)
           N == {g \in W : \A x \in W : g \in A[x] => x \notin seen}
<1>1. ClimbTo(A, f, seen) = seen \cup N
  BY DEF ClimbTo
<1>2. Line(D, P, A) /\ None \notin D /\ \A g \in D : P[g] # None => P[g] \in D
  BY TreedInLine DEF Treed, Forest
<1>3. W \in SUBSET D /\ \A g \in W : A[g] \in SUBSET W
  BY <1>2 DEF Line, Way
<1>4. f # None => f \in W /\ \A x \in W : f \in A[x] => x = f
  <2> SUFFICES ASSUME f # None PROVE f \in W /\ \A x \in W : f \in A[x] => x = f
    OBVIOUS
  <2>1. f \in D /\ W = A[f]
    BY DEF Way
  <2> HIDE DEF W
  <2> QED BY <1>2, <2>1 DEF Line
<1>5. \A g, x \in W : g \in A[x] \/ x \in A[g]
  BY <1>2 DEF Line, Way
<1>6. ASSUME NEW g \in N PROVE P[g] \in seen \cup N \cup {None}
  <2> SUFFICES ASSUME P[g] # None, P[g] \notin N PROVE P[g] \in seen
    OBVIOUS
  <2>1. g \in W /\ \A x \in W : g \in A[x] => x \notin seen
    OBVIOUS
  <2>2. g \in D /\ P[g] \in D /\ A[g] = {g} \cup A[P[g]] /\ P[g] \in A[P[g]]
    BY <1>2, <1>3, <2>1 DEF Line
  <2>3. P[g] \in W
    BY <1>3, <2>1, <2>2
  <2>4. PICK x \in W : P[g] \in A[x] /\ x \in seen
    BY <2>3
  <2>5. g \notin A[x] /\ x \in A[g] /\ x \in D
    BY <1>3, <1>5, <2>1, <2>4
  <2>6. x \in A[x]
    BY <1>2, <2>5 DEF Line
  <2>7. x \in A[P[g]]
    BY <2>2, <2>5, <2>6
  <2>8. x = P[g]
    BY <1>2, <2>2, <2>4, <2>5, <2>7 DEF Line
  <2> QED BY <2>4, <2>8
<1>7. f \in seen \cup N \cup {None}
  BY <1>4
<1> HIDE DEF N
<1>8. N \in SUBSET W
  BY DEF N
<1> QED BY <1>1, <1>3, <1>6, <1>7, <1>8

\* One walk for each member of a set, in some order.
FoldsUp(K, G, A, b, h) ==
  h = [s \in SUBSET K |-> IF s = {} THEN b
                          ELSE ClimbTo(A, G[CHOOSE x \in s : TRUE], h[s \ {CHOOSE x \in s : TRUE}])]

\* What there is to walk: folders, where each member begins, and what was seen before.
Climbable(D, P, A, K, G, b) ==
  /\ Treed(D, P) /\ IsAbove(D, P, A) /\ IsFiniteSet(K)
  /\ \A k \in K : G[k] \in D \cup {None}
  /\ b \in SUBSET D

\* A set gets smaller by the member that is taken.
LEMMA LessOne ==
  ASSUME NEW K, IsFiniteSet(K)
  PROVE  \E size \in [SUBSET K -> Nat] :
           \A s \in SUBSET K : s # {} => /\ (CHOOSE x \in s : TRUE) \in s
                                         /\ s \ {CHOOSE x \in s : TRUE} \in SUBSET K
                                         /\ size[s \ {CHOOSE x \in s : TRUE}] < size[s]
<1> DEFINE size == [s \in SUBSET K |-> Cardinality(s)]
<1>1. \A s \in SUBSET K : IsFiniteSet(s) /\ Cardinality(s) \in Nat
  BY FS_Subset, FS_CardinalityType
<1>2. size \in [SUBSET K -> Nat]
  BY <1>1
<1>3. ASSUME NEW s \in SUBSET K, s # {}
      PROVE  /\ (CHOOSE x \in s : TRUE) \in s /\ s \ {CHOOSE x \in s : TRUE} \in SUBSET K
             /\ size[s \ {CHOOSE x \in s : TRUE}] < size[s]
  <2> DEFINE x == CHOOSE x \in s : TRUE
             t == s \ {x}
  <2>1. x \in s /\ t \in SUBSET K /\ t \in SUBSET s /\ t # s
    BY <1>3
  <2>2. size[t] = Cardinality(t) /\ size[s] = Cardinality(s)
    BY <2>1
  <2> HIDE DEF x, t, size
  <2>3. Cardinality(t) < Cardinality(s)
    BY <1>1, <2>1, FS_Subset
  <2> QED BY <2>1, <2>2, <2>3 DEF x, t
<1> QED BY <1>2, <1>3

LEMMA FoldExists ==
  ASSUME NEW D, NEW P, NEW A, NEW K, NEW G, NEW b, Climbable(D, P, A, K, G, b)
  PROVE  \E h : FoldsUp(K, G, A, b, h)
<1>0. /\ Treed(D, P) /\ IsAbove(D, P, A) /\ IsFiniteSet(K)
      /\ \A k \in K : G[k] \in D \cup {None}
      /\ b \in SUBSET D
  BY DEF Climbable
<1> USE <1>0
<1>1. PICK size \in [SUBSET K -> Nat] :
           \A s \in SUBSET K : s # {} => /\ (CHOOSE x \in s : TRUE) \in s
                                         /\ s \ {CHOOSE x \in s : TRUE} \in SUBSET K
                                         /\ size[s \ {CHOOSE x \in s : TRUE}] < size[s]
  BY LessOne
<1> DEFINE one(s) == CHOOSE x \in s : TRUE
           C == SUBSET K
           V == SUBSET D
           E == [g \in [C -> V] |-> [s \in C |-> IF s = {} THEN b ELSE ClimbTo(A, G[one(s)], g[s \ {one(s)}])]]
<1>2. \A s \in C : s # {} => one(s) \in s /\ s \ {one(s)} \in C /\ size[s \ {one(s)}] < size[s]
  BY <1>1
<1> HIDE DEF one
<1>3. E \in [[C -> V] -> [C -> V]]
  <2> SUFFICES ASSUME NEW g \in [C -> V]
               PROVE  [s \in C |-> IF s = {} THEN b ELSE ClimbTo(A, G[one(s)], g[s \ {one(s)}])] \in [C -> V]
    OBVIOUS
  <2>1. ASSUME NEW s \in C PROVE (IF s = {} THEN b ELSE ClimbTo(A, G[one(s)], g[s \ {one(s)}])) \in V
    <3>1. CASE s = {}
      BY <3>1
    <3>2. CASE s # {}
      <4>1. one(s) \in K /\ s \ {one(s)} \in C
        BY <1>2, <3>2
      <4>2. G[one(s)] \in D \cup {None} /\ g[s \ {one(s)}] \in SUBSET D
        BY <4>1
      <4>3. ClimbTo(A, G[one(s)], g[s \ {one(s)}]) \in SUBSET D
        BY <4>2, ClimbUp
      <4> QED BY <3>2, <4>3
    <3> QED BY <3>1, <3>2
  <2> QED BY <2>1
<1>4. Local(C, V, size, E)
  <2> SUFFICES ASSUME NEW g \in [C -> V], NEW h \in [C -> V], NEW s \in C, \A x \in C : size[x] < size[s] => g[x] = h[x]
               PROVE  E[g][s] = E[h][s]
    BY DEF Local
  <2>1. s # {} => g[s \ {one(s)}] = h[s \ {one(s)}]
    BY <1>2
  <2> QED BY <2>1
<1>5. \A g \in [C -> V] : E[g] = [s \in C |-> IF s = {} THEN b ELSE ClimbTo(A, G[one(s)], g[s \ {one(s)}])]
  OBVIOUS
<1>6. V # {}
  OBVIOUS
<1>7. size \in [C -> Nat]
  OBVIOUS
<1> HIDE DEF E, V, C
<1>8. Determined(C, V, size, E)
  BY <1>3, <1>4, <1>6, <1>7 DEF Determined
<1>9. PICK h \in [C -> V] : h = E[h]
  BY <1>8, DepthRecursion
<1>10. FoldsUp(K, G, A, b, h)
  BY <1>5, <1>9 DEF FoldsUp, one, C
<1> QED BY <1>9, <1>10 DEF C, V

\* After the walks all of the folders that were passed have their parents among them.
LEMMA FoldClimbs ==
  ASSUME NEW D, NEW P, NEW A, NEW K, NEW G, NEW b, NEW h, Climbable(D, P, A, K, G, b), FoldsUp(K, G, A, b, h)
  PROVE  /\ h[K] \in SUBSET D /\ b \in SUBSET h[K]
         /\ \A g \in h[K] : g \in b \/ (P[g] \in h[K] \cup {None} /\ \E k \in K : g \in Way(A, G[k]))
         /\ \A k \in K : G[k] \in h[K] \cup {None}
<1>0. /\ Treed(D, P) /\ IsAbove(D, P, A) /\ IsFiniteSet(K)
      /\ \A k \in K : G[k] \in D \cup {None}
      /\ b \in SUBSET D
  BY DEF Climbable
<1> USE <1>0
<1>1. PICK size \in [SUBSET K -> Nat] :
           \A s \in SUBSET K : s # {} => /\ (CHOOSE x \in s : TRUE) \in s
                                         /\ s \ {CHOOSE x \in s : TRUE} \in SUBSET K
                                         /\ size[s \ {CHOOSE x \in s : TRUE}] < size[s]
  BY LessOne
<1> DEFINE Good(s) == /\ h[s] \in SUBSET D /\ b \in SUBSET h[s]
                      /\ \A g \in h[s] : g \in b \/ (P[g] \in h[s] \cup {None} /\ \E k \in K : g \in Way(A, G[k]))
                      /\ \A k \in s : G[k] \in h[s] \cup {None}
           T == {s \in SUBSET K : Good(s)}
<1>2. ASSUME NEW s \in SUBSET K, \A x \in SUBSET K : size[x] < size[s] => x \in T PROVE s \in T
  <2>1. CASE s = {}
    <3>1. h[s] = b
      BY <2>1 DEF FoldsUp
    <3> QED BY <2>1, <3>1
  <2>2. CASE s # {}
    <3> DEFINE x == CHOOSE x \in s : TRUE
               t == s \ {x}
    <3>1. x \in s /\ t \in SUBSET K /\ size[t] < size[s]
      BY <1>1, <2>2
    <3>2. h[s] = ClimbTo(A, G[x], h[t])
      BY <2>2 DEF FoldsUp
    <3>3. Good(t)
      BY <1>2, <3>1
    <3>4. s = t \cup {x}
      BY <3>1
    <3> HIDE DEF x, t
    <3>5. G[x] \in D \cup {None} /\ x \in K
      BY <3>1
    <3>6. /\ h[s] \in SUBSET D /\ h[t] \in SUBSET h[s]
          /\ \A g \in h[s] : g \in h[t] \/ (g \in Way(A, G[x]) /\ P[g] \in h[s] \cup {None})
          /\ G[x] \in h[s] \cup {None}
      <4> DEFINE c == ClimbTo(A, G[x], h[t])
      <4>1. h[t] \in SUBSET D
        BY <3>3
      <4>2. /\ c \in SUBSET D /\ h[t] \in SUBSET c
            /\ \A g \in c : g \in h[t] \/ (g \in Way(A, G[x]) /\ P[g] \in c \cup {None})
            /\ G[x] \in c \cup {None}
        BY <3>5, <4>1, ClimbUp
      <4> QED BY <3>2, <4>2
    <3>7. b \in SUBSET h[s]
      BY <3>3, <3>6
    <3>8. ASSUME NEW g \in h[s] PROVE g \in b \/ (P[g] \in h[s] \cup {None} /\ \E k \in K : g \in Way(A, G[k]))
      BY <3>3, <3>5, <3>6
    <3>9. ASSUME NEW k \in s PROVE G[k] \in h[s] \cup {None}
      <4>1. k \in t \/ k = x
        BY <3>4
      <4> QED BY <3>3, <3>6, <4>1
    <3> QED BY <3>6, <3>7, <3>8, <3>9
  <2> QED BY <2>1, <2>2
<1> DEFINE C == SUBSET K
<1>3. size \in [C -> Nat] /\ \A s \in C : (\A x \in C : size[x] < size[s] => x \in T) => s \in T
  BY <1>2
<1>4. K \in C
  OBVIOUS
<1> HIDE DEF T, C
<1>5. K \in T
  BY <1>3, <1>4, DepthInduction
<1> QED BY <1>5 DEF T

PickerConstants == BranchConstants /\ IsFiniteSet(Published)
PickerIInv == fields \in Published \cup {None}

\* The two rounds of walks, from the matching folders and from the reports.
LEMMA PickerFolds ==
  ASSUME PickerConstants
  PROVE  \E start, h, k :
           /\ FoldsUp(Picker!InsideMatchedFolder, BranchOf, Picker!Above, Picker!InsideMatchedFolder, h)
           /\ start = h[Picker!InsideMatchedFolder]
           /\ FoldsUp(Picker!VisibleReports, Filed, Picker!Above, start, k)
           /\ Picker!VisibleFolders = k[Picker!VisibleReports]
<1> DEFINE Matched == Picker!InsideMatchedFolder
           VR == Picker!VisibleReports
           A == Picker!Above
           h == CHOOSE iter : FoldsUp(Matched, BranchOf, A, Matched, iter)
           start == h[Matched]
           k == CHOOSE iter : FoldsUp(VR, Filed, A, start, iter)
<1>1. \A f, seen : Picker!Climb(f, seen) = ClimbTo(A, f, seen)
  BY DEF Picker!Climb, Picker!Path, ClimbTo, Way
<1>2. Picker!FoldSet(LAMBDA f, seen : Picker!Climb(BranchOf[f], seen), Matched, Matched) = start
  BY DEF Picker!FoldSet, Picker!MapThenFoldSet, FoldsUp, Picker!Climb, Picker!Path, ClimbTo, Way
<1>3. \A b : Picker!FoldSet(LAMBDA r, seen : Picker!Climb(Filed[r], seen), b, VR)
              = (CHOOSE iter : FoldsUp(VR, Filed, A, b, iter))[VR]
  BY DEF Picker!FoldSet, Picker!MapThenFoldSet, FoldsUp, Picker!Climb, Picker!Path, ClimbTo, Way
<1>4. Picker!VisibleFolders = k[VR]
  BY <1>2, <1>3 DEF Picker!VisibleFolders
<1>5. Matched \in SUBSET Branches /\ VR \in SUBSET Published
  BY DEF Picker!InsideMatchedFolder, Picker!VisibleReports
<1>6. IsFiniteSet(Matched) /\ IsFiniteSet(VR)
  BY <1>5, FS_Subset DEF PickerConstants, BranchConstants
<1>7. IsAbove(Branches, BranchOf, A) /\ Treed(Branches, BranchOf)
  BY AboveWords DEF PickerConstants, BranchConstants
<1>8. (\A f \in Matched : BranchOf[f] \in Branches \cup {None}) /\ \A r \in VR : Filed[r] \in Branches \cup {None}
  BY <1>5 DEF PickerConstants, BranchConstants, Treed, Forest
<1> HIDE DEF Matched, VR, A
<1>9. FoldsUp(Matched, BranchOf, A, Matched, h)
  <2>1. \E iter : FoldsUp(Matched, BranchOf, A, Matched, iter)
    <3>1. Climbable(Branches, BranchOf, A, Matched, BranchOf, Matched)
      BY <1>5, <1>6, <1>7, <1>8 DEF Climbable
    <3> QED BY <3>1, FoldExists
  <2> QED BY <2>1
<1> HIDE DEF h
<1>10. start \in SUBSET Branches
  <2>1. Climbable(Branches, BranchOf, A, Matched, BranchOf, Matched)
    BY <1>5, <1>6, <1>7, <1>8 DEF Climbable
  <2> QED BY <1>9, <2>1, FoldClimbs
<1> HIDE DEF start
<1>11. FoldsUp(VR, Filed, A, start, k)
  <2>1. \E iter : FoldsUp(VR, Filed, A, start, iter)
    <3>1. Climbable(Branches, BranchOf, A, VR, Filed, start)
      BY <1>6, <1>7, <1>8, <1>10 DEF Climbable
    <3> QED BY <3>1, FoldExists
  <2> QED BY <2>1
<1> HIDE DEF k
<1>12. start = h[Matched]
  BY DEF start
<1> QED BY <1>4, <1>9, <1>11, <1>12 DEF Matched, VR, A

LEMMA PickerFollows == ASSUME PickerConstants, PickerIInv PROVE Picker!SearchShowsMatches
<1> DEFINE A == Picker!Above
           Path(f) == Picker!Path(f)
           Matched == Picker!InsideMatchedFolder
           VR == Picker!VisibleReports
           VF == Picker!VisibleFolders
           SF == Picker!ShownFolders
           SR == Picker!ShownReports
           S == window
<1>1. Treed(Branches, BranchOf) /\ IsAbove(Branches, BranchOf, A) /\ Line(Branches, BranchOf, A)
  BY AboveWords, TreedInLine DEF PickerConstants, BranchConstants
<1>2. /\ None \notin Branches /\ \A f \in Branches : BranchOf[f] \in Branches \cup {None}
      /\ \A r \in Published : Filed[r] \in Branches \cup {None}
  BY DEF PickerConstants, BranchConstants, Treed, Forest
<1>3. \A f : Path(f) = Way(A, f)
  BY DEF Picker!Path, Way
<1>4. Matched \in SUBSET Branches /\ VR \in SUBSET Published /\ IsFiniteSet(Matched) /\ IsFiniteSet(VR)
  <2>1. Matched \in SUBSET Branches /\ VR \in SUBSET Published
    BY DEF Picker!InsideMatchedFolder, Picker!VisibleReports
  <2> QED BY <2>1, FS_Subset DEF PickerConstants, BranchConstants
<1>5. Matched = {f \in Branches : A[f] \cap S # {}} /\ VR = {r \in Published : r \in S \/ Path(Filed[r]) \cap Matched # {}}
  BY DEF Picker!InsideMatchedFolder, Picker!VisibleReports
<1>6. SF = {f \in Branches : Picker!Drawn(f) /\ \A g \in Path(f) \ {f} : Picker!IsOpen(g)}
  BY DEF Picker!ShownFolders
<1>7. SR = {r \in Published : /\ Path(Filed[r]) \in SUBSET SF
                              /\ \A g \in Path(Filed[r]) : Picker!IsOpen(g)
                              /\ S # None => r \in VR}
  BY DEF Picker!ShownReports
<1>8. \A f : Picker!Drawn(f) <=> \A g \in Path(f) : S # None => g \in VF
  BY DEF Picker!Drawn
<1>9. \A f : Picker!IsOpen(f) <=> S # None \/ f \in sight.open \/ f \in Picker!SelectedFolderPath \ Picker!Closed
  BY DEF Picker!IsOpen
<1>10. \A f \in Branches : f \in A[f] /\ A[f] \in SUBSET Branches /\ \A g \in A[f] : A[g] \in SUBSET A[f]
  BY <1>1 DEF Line
<1>11. \A r \in Published : Path(Filed[r]) \in SUBSET Branches /\ \A g \in Path(Filed[r]) : A[g] \in SUBSET Path(Filed[r])
  <2> HIDE DEF Path, A
  <2> QED BY <1>2, <1>3, <1>10 DEF Way
<1>12. \A f \in Branches : Path(f) = A[f]
  <2> HIDE DEF Path, A
  <2> QED BY <1>2, <1>3 DEF Way
<1>13. CASE S = None
  <2>1. Picker!SearchShowsMatches <=>
          (fields # None /\ (sight.for # fields \/ sight.closed \cap Path(Filed[fields]) = {}) => fields \in SR)
    BY <1>13 DEF Picker!SearchShowsMatches
  <2> SUFFICES ASSUME fields # None, sight.for # fields \/ sight.closed \cap Path(Filed[fields]) = {}
               PROVE  fields \in SR
    BY <2>1
  <2>2. fields \in Published
    BY DEF PickerIInv
  <2>3. Picker!SelectedFolderPath = Path(Filed[fields]) /\ Picker!Closed \cap Path(Filed[fields]) = {}
    BY DEF Picker!SelectedFolderPath, Picker!Closed
  <2> HIDE DEF Path, A, SF, SR, S
  <2>4. \A g \in Path(Filed[fields]) : Picker!IsOpen(g)
    BY <1>9, <2>3
  <2>5. \A g \in Path(Filed[fields]) : g \in SF
    <3> TAKE g \in Path(Filed[fields])
    <3>1. g \in Branches /\ A[g] \in SUBSET Path(Filed[fields])
      BY <1>11, <2>2
    <3> QED BY <1>6, <1>8, <1>12, <1>13, <2>4, <3>1
  <2> QED BY <1>7, <1>13, <2>2, <2>4, <2>5
<1>14. CASE S # None
  <2>1. PICK start, h, k : /\ FoldsUp(Matched, BranchOf, A, Matched, h) /\ start = h[Matched]
                           /\ FoldsUp(VR, Filed, A, start, k) /\ VF = k[VR]
    BY PickerFolds
  <2> DEFINE matches(f) == Picker!Above[f] \cap window # {}
             found == {r \in Published : r \in window \/ \E f \in Path(Filed[r]) : matches(f)}
             Wanted == {f \in Branches : \/ matches(f)
                                         \/ \E g \in Branches : f \in A[g] /\ matches(g)
                                         \/ \E r \in found : f \in Path(Filed[r])}
  <2>2. Picker!SearchShowsMatches <=> SR = found /\ SF = Wanted
    BY <1>14 DEF Picker!SearchShowsMatches
  <2>3. \A f \in Branches : matches(f) <=> f \in Matched
    BY <1>5
  <2> HIDE DEF A, Path, Matched, VR, VF, SF, SR, S, matches
  <2>4. /\ start \in SUBSET Branches /\ Matched \in SUBSET start
        /\ \A g \in start : g \in Matched \/ (BranchOf[g] \in start \cup {None} /\ \E f \in Matched : g \in Way(A, BranchOf[f]))
        /\ \A f \in Matched : BranchOf[f] \in start \cup {None}
    <3>1. Climbable(Branches, BranchOf, A, Matched, BranchOf, Matched)
      BY <1>1, <1>2, <1>4 DEF Climbable
    <3> QED BY <2>1, <3>1, FoldClimbs
  <2>5. /\ VF \in SUBSET Branches /\ start \in SUBSET VF
        /\ \A g \in VF : g \in start \/ (BranchOf[g] \in VF \cup {None} /\ \E r \in VR : g \in Way(A, Filed[r]))
        /\ \A r \in VR : Filed[r] \in VF \cup {None}
    <3>1. Climbable(Branches, BranchOf, A, VR, Filed, start)
      BY <1>1, <1>2, <1>4, <2>4 DEF Climbable
    <3> QED BY <2>1, <3>1, FoldClimbs
  <2>6. \A f \in VF : BranchOf[f] \in VF \cup {None}
    BY <2>4, <2>5
  <2>7. \A f \in VF : A[f] \in SUBSET VF
    BY <1>1, <2>5, <2>6, ClosedAbove
  <2>8. \A r \in VR : Path(Filed[r]) \in SUBSET VF
    BY <1>3, <2>5, <2>7 DEF Way
  <2>9. SF = VF
    <3>1. \A f \in Branches : f \in SF <=> A[f] \in SUBSET VF
      BY <1>6, <1>8, <1>9, <1>12, <1>14
    <3>2. SF \in SUBSET Branches
      BY <1>6
    <3> QED BY <1>10, <2>5, <2>7, <3>1, <3>2
  <2>10. SR = VR
    BY <1>4, <1>7, <1>9, <1>14, <2>8, <2>9
  <2>11. VR = found
    BY <1>5, <1>11, <2>3 DEF S
  <2> HIDE DEF found
  <2>12. ASSUME NEW f \in VF PROVE f \in Wanted
    <3>1. CASE f \in Matched
      BY <1>4, <2>3, <3>1
    <3>2. CASE \E g \in Matched : f \in Way(A, BranchOf[g])
      <4>1. PICK g \in Matched : f \in Way(A, BranchOf[g])
        BY <3>2
      <4>2. g \in Branches /\ BranchOf[g] # None /\ f \in A[BranchOf[g]]
        BY <1>4, <4>1 DEF Way
      <4>3. A[g] = {g} \cup A[BranchOf[g]]
        BY <1>1, <4>2 DEF Line
      <4> QED BY <2>3, <2>5, <4>1, <4>2, <4>3
    <3>3. CASE \E r \in VR : f \in Way(A, Filed[r])
      BY <1>3, <2>5, <2>11, <3>3
    <3> QED BY <2>4, <2>5, <3>1, <3>2, <3>3
  <2>13. ASSUME NEW f \in Wanted PROVE f \in VF
    <3>1. CASE f \in Matched
      BY <2>4, <2>5, <3>1
    <3>2. CASE \E g \in Branches : f \in A[g] /\ g \in Matched
      BY <2>4, <2>5, <2>7, <3>2
    <3>3. CASE \E r \in VR : f \in Path(Filed[r])
      BY <2>8, <3>3
    <3> QED BY <2>3, <2>11, <3>1, <3>2, <3>3
  <2> QED BY <2>2, <2>9, <2>10, <2>11, <2>12, <2>13
<1> QED BY <1>13, <1>14

LEMMA PickerInitIInv == Picker!PickerInit => PickerIInv
BY DEF Picker!PickerInit, PickerIInv

LEMMA PickerStep == ASSUME PickerIInv, [Picker!PickerNext]_(Picker!pickerVars) PROVE PickerIInv'
BY DEF PickerIInv, Picker!PickerNext, Picker!pickerVars, Picker!Toggle, Picker!Type, Picker!Choose, Picker!ShownReports

-----------------------------------------------------------------------------
(* The catalogue, read page by page.                                       *)

\* A sequence that is cut into pieces.
Cut(C, s, n, at) ==
  /\ n \in Nat \ {0} /\ C \in Seq(Published) /\ at \in [0..n -> 0..Len(C)] /\ at[0] = 0
  /\ s \in [1..n -> Seq(Published)]
  /\ \A i \in 1..n : at[i - 1] <= at[i] /\ s[i] = SubSeq(C, at[i - 1] + 1, at[i])

\* What is defined along a sequence, as FlattenSeq is.
IsFlat(s, n, g) == g = [i \in 1..n |-> IF i = 1 THEN s[i] ELSE g[i - 1] \o s[i]]

LEMMA FlatExists ==
  ASSUME NEW n \in Nat \ {0}, NEW s \in [1..n -> Seq(Published)]
  PROVE  \E g : IsFlat(s, n, g)
<1> DEFINE V == Seq(Published)
           D == 1..n
           depth == [i \in D |-> i]
           E == [g \in [D -> V] |-> [i \in D |-> IF i = 1 THEN s[i] ELSE g[i - 1] \o s[i]]]
<1>1. V # {}
  <2>1. s[1] \in V
    OBVIOUS
  <2> QED BY <2>1
<1>2. E \in [[D -> V] -> [D -> V]]
  <2> SUFFICES ASSUME NEW g \in [D -> V], NEW i \in D PROVE (IF i = 1 THEN s[i] ELSE g[i - 1] \o s[i]) \in V
    OBVIOUS
  <2>1. s[i] \in Seq(Published)
    OBVIOUS
  <2>2. i # 1 => g[i - 1] \in Seq(Published)
    OBVIOUS
  <2> QED BY <2>1, <2>2
<1>3. Local(D, V, depth, E)
  <2> SUFFICES ASSUME NEW g \in [D -> V], NEW h \in [D -> V], NEW i \in D, \A x \in D : depth[x] < depth[i] => g[x] = h[x]
               PROVE  E[g][i] = E[h][i]
    BY DEF Local
  <2>1. i # 1 => i - 1 \in D /\ i - 1 < i
    OBVIOUS
  <2>2. i # 1 => g[i - 1] = h[i - 1]
    BY <2>1
  <2> QED BY <2>2
<1>4. \A g \in [D -> V] : E[g] = [i \in D |-> IF i = 1 THEN s[i] ELSE g[i - 1] \o s[i]]
  OBVIOUS
<1>5. depth \in [D -> Nat]
  OBVIOUS
<1> HIDE DEF E, V, depth, D
<1>6. Determined(D, V, depth, E)
  BY <1>1, <1>2, <1>3, <1>5 DEF Determined
<1>7. PICK g \in [D -> V] : g = E[g]
  BY <1>6, DepthRecursion
<1>8. IsFlat(s, n, g)
  BY <1>4, <1>7 DEF IsFlat, D
<1> QED BY <1>8

\* One piece after the other they are the sequence again, as far as they go.
LEMMA Pieces ==
  ASSUME NEW C, NEW s, NEW n, NEW at, Cut(C, s, n, at)
  PROVE  Hub!FlattenSeq(s) = SubSeq(C, 1, at[n])
<1>1. n \in Nat \ {0} /\ C \in Seq(Published) /\ s \in [1..n -> Seq(Published)] /\ at[0] = 0
      /\ \A i \in 0..n : at[i] \in 0..Len(C)
  BY DEF Cut
<1>2. Len(s) = n
  BY <1>1
<1> DEFINE F == CHOOSE g : IsFlat(s, n, g)
<1>3. Hub!FlattenSeq(s) = F[n]
  BY <1>1, <1>2 DEF Hub!FlattenSeq, IsFlat
<1>4. IsFlat(s, n, F)
  BY <1>1, FlatExists
<1> HIDE DEF F
<1> DEFINE T == {i \in 1..n : F[i] = SubSeq(C, 1, at[i])}
           depth == [i \in 1..n |-> i]
<1>5. ASSUME NEW i \in 1..n, \A x \in 1..n : depth[x] < depth[i] => x \in T PROVE i \in T
  <2>1. F[i] = (IF i = 1 THEN s[i] ELSE F[i - 1] \o s[i])
    BY <1>4 DEF IsFlat
  <2>2. at[i - 1] <= at[i] /\ s[i] = SubSeq(C, at[i - 1] + 1, at[i])
    BY DEF Cut
  <2>3. CASE i = 1
    <3>1. i - 1 = 0 /\ at[i - 1] + 1 = 1
      BY <1>1, <2>3
    <3>2. F[i] = SubSeq(C, 1, at[i])
      BY <2>1, <2>2, <2>3, <3>1
    <3> QED BY <3>2
  <2>4. CASE i # 1
    <3>1. i - 1 \in 1..n /\ depth[i - 1] < depth[i]
      BY <1>1, <2>4
    <3>2. F[i - 1] = SubSeq(C, 1, at[i - 1])
      BY <1>5, <3>1
    <3>3. at[i - 1] \in 0..Len(C) /\ at[i] \in at[i - 1]..Len(C)
      BY <1>1, <2>2, <3>1
    <3>4. 1 \in 1..(Len(C) + 1) /\ at[i - 1] \in (1 - 1)..Len(C)
      BY <1>1, <3>3
    <3>5. SubSeq(C, 1, at[i - 1]) \o SubSeq(C, at[i - 1] + 1, at[i]) = SubSeq(C, 1, at[i])
      BY <1>1, <3>3, <3>4, ConcatAdjacentSubSeq
    <3> QED BY <2>1, <2>2, <2>4, <3>2, <3>5
  <2> QED BY <2>3, <2>4
<1>6. depth \in [1..n -> Nat]
  BY <1>1
<1> HIDE DEF T, depth
<1>7. \A i \in 1..n : i \in T
  <2> DEFINE D == 1..n
  <2>1. depth \in [D -> Nat] /\ \A i \in D : (\A x \in D : depth[x] < depth[i] => x \in T) => i \in T
    BY <1>5, <1>6
  <2> HIDE DEF D
  <2>2. \A i \in D : i \in T
    BY <2>1, DepthInduction
  <2> QED BY <2>2 DEF D
<1>8. n \in T
  BY <1>1, <1>7
<1> QED BY <1>3, <1>8 DEF T

PageOf(C, o) ==
  [offset |-> o, total |-> Len(C),
   items |-> SubSeq(C, o + 1, IF o + HubPage < Len(C) THEN o + HubPage ELSE Len(C))]

ListPage == [offset : Nat, total : Nat, items : Seq(Published)]

\* The pages of a list: one after the other, the first one always, the others only if
\* there is something on them.
InPages(C, s) ==
  /\ s \in Seq(ListPage) /\ Len(s) > 0
  /\ \A i \in 1..Len(s) : s[i] = PageOf(C, (i - 1) * HubPage) /\ (i > 1 => (i - 1) * HubPage < Len(C))

LEMMA PageInType ==
  ASSUME NEW C, C \in Seq(Published), NEW a \in Nat, HubPage \in Nat \ {0}
  PROVE  PageOf(C, a) \in ListPage
<1> DEFINE z == IF a + HubPage < Len(C) THEN a + HubPage ELSE Len(C)
<1>1. z \in Nat /\ z <= Len(C) /\ Len(C) \in Nat
  OBVIOUS
<1> HIDE DEF z
<1>2. \A i \in (a + 1)..z : C[i] \in Published
  BY <1>1
<1>3. a + 1 \in Int /\ z \in Int
  BY <1>1
<1>4. SubSeq(C, a + 1, z) \in Seq(Published)
  BY <1>2, <1>3, SubSeqProperties
<1>5. PageOf(C, a) = [offset |-> a, total |-> Len(C), items |-> SubSeq(C, a + 1, z)]
  BY DEF PageOf, z
<1>6. PageOf(C, a) \in ListPage
  BY <1>1, <1>4, <1>5 DEF ListPage
<1> QED
  BY <1>6

\* The pages together are a beginning of the list, and "more" means that there is more.
LEMMA PagesFollow ==
  ASSUME HubPage \in Nat \ {0}, NEW C, C \in Seq(Published), NEW s, InPages(C, s)
  PROVE  /\ Hub!IsPrefix(Hub!ItemsOf(s), C)
         /\ Hub!HasNext(s) <=> Len(Hub!ItemsOf(s)) < Len(C)
         /\ Hub!HasNext(s) => Hub!NextOffset(s) = Len(s) * HubPage /\ Len(s) * HubPage < Len(C)
         /\ Len(s) > 1 => Hub!Last(s).items # <<>>
<1> DEFINE n == Len(s)
           L == Len(C)
           Off == [i \in Nat |-> i * HubPage]
           t == [i \in 1..n |-> s[i].items]
           at == [i \in 0..n |-> IF i = 0 THEN 0 ELSE IF Off[i] < L THEN Off[i] ELSE L]
<1>1. n \in Nat \ {0} /\ L \in Nat /\ s \in Seq(ListPage) /\ DOMAIN s = 1..n
  BY DEF InPages
<1>2. /\ Off[0] = 0 /\ \A i \in Nat : Off[i] \in Nat /\ Off[i + 1] = Off[i] + HubPage
      /\ \A i \in 1..n : i - 1 \in Nat /\ Off[i] = Off[i - 1] + HubPage
  <2>1. Off[0] = 0 /\ \A i \in Nat : Off[i] \in Nat
    OBVIOUS
  <2>2. \A i \in Nat : Off[i + 1] = Off[i] + HubPage
    <3>1. \A i \in Nat, h \in Nat : (i + 1) * h = i * h + h
      OBVIOUS
    <3> QED BY <3>1
  <2> HIDE DEF Off
  <2>3. ASSUME NEW i \in 1..n PROVE i - 1 \in Nat /\ Off[i] = Off[i - 1] + HubPage
    <3>1. i - 1 \in Nat /\ (i - 1) + 1 = i
      BY <1>1
    <3> QED BY <2>2, <3>1
  <2> QED BY <2>1, <2>2, <2>3
<1>3. \A i \in 1..n : s[i] = PageOf(C, Off[i - 1]) /\ (i > 1 => Off[i - 1] < L)
  BY <1>2 DEF InPages
<1>4. Off[n] = n * HubPage
  BY <1>1
<1> HIDE DEF Off, n, L
<1>5. at[0] = 0 /\ \A i \in 1..n : /\ at[i] = (IF Off[i] < L THEN Off[i] ELSE L)
                                   /\ at[i - 1] = Off[i - 1] /\ at[i - 1] <= at[i] /\ at[i] \in 0..L
                                   /\ i > 1 => at[i - 1] < at[i]
  <2>1. at[0] = 0
    BY <1>1
  <2>2. \A i \in 1..n : at[i] = (IF Off[i] < L THEN Off[i] ELSE L)
    BY <1>1
  <2> HIDE DEF at, t
  <2>3. ASSUME NEW i \in 1..n
        PROVE  /\ at[i] = (IF Off[i] < L THEN Off[i] ELSE L)
               /\ at[i - 1] = Off[i - 1] /\ at[i - 1] <= at[i] /\ at[i] \in 0..L
               /\ i > 1 => at[i - 1] < at[i]
    <3>1. at[i] = (IF Off[i] < L THEN Off[i] ELSE L)
      BY <2>2
    <3>2. at[i - 1] = Off[i - 1]
      <4>1. CASE i = 1
        <5>1. i - 1 = 0
          BY <4>1
        <5> QED BY <1>2, <2>1, <5>1
      <4>2. CASE i # 1
        <5>1. i - 1 \in 1..n /\ i > 1
          BY <1>1, <4>2
        <5>2. at[i - 1] = (IF Off[i - 1] < L THEN Off[i - 1] ELSE L)
          BY <2>2, <5>1
        <5> QED BY <1>3, <5>1, <5>2
      <4> QED BY <4>1, <4>2
    <3>3. Off[i] \in Nat /\ Off[i - 1] \in Nat /\ Off[i] = Off[i - 1] + HubPage
      <4>1. i \in Nat /\ i - 1 \in Nat
        BY <1>1
      <4> QED BY <1>2, <4>1
    <3>4. i = 1 \/ Off[i - 1] < L
      <4>1. i = 1 \/ i > 1
        BY <1>1
      <4> QED BY <1>3, <4>1
    <3>5. i = 1 => Off[i - 1] = 0
      BY <1>2
    <3> QED BY <1>1, <3>1, <3>2, <3>3, <3>4, <3>5
  <2> QED BY <2>1, <2>3
<1>6. at \in [0..n -> 0..L]
  <2>1. \A i \in 0..n : at[i] \in 0..L
    <3>1. \A i \in 0..n : i = 0 \/ i \in 1..n
      BY <1>1
    <3> HIDE DEF at
    <3> QED BY <1>1, <1>5, <3>1
  <2> QED BY <2>1
<1> HIDE DEF at
<1>7. \A i \in 1..n : /\ s[i].offset = at[i - 1] /\ s[i].total = L
                      /\ s[i].items = SubSeq(C, at[i - 1] + 1, at[i]) /\ s[i].items \in Seq(Published)
  <2> TAKE i \in 1..n
  <2>1. s[i] = PageOf(C, Off[i - 1]) /\ s[i] \in ListPage
    BY <1>1, <1>3
  <2>2. at[i] = (IF Off[i - 1] + HubPage < L THEN Off[i - 1] + HubPage ELSE L) /\ at[i - 1] = Off[i - 1]
    BY <1>2, <1>5
  <2>3. s[i] = [offset |-> at[i - 1], total |-> L, items |-> SubSeq(C, at[i - 1] + 1, at[i])]
    BY <2>1, <2>2 DEF PageOf, L
  <2>4. s[i].items \in Seq(Published)
    BY <2>1 DEF ListPage
  <2> QED BY <2>3, <2>4
<1>8. t \in [1..n -> Seq(Published)] /\ \A i \in 1..n : t[i] = SubSeq(C, at[i - 1] + 1, at[i])
  BY <1>7
<1>9. Cut(C, t, n, at)
  <2> HIDE DEF t
  <2> QED BY <1>1, <1>5, <1>6, <1>8 DEF Cut, L
<1>10. Hub!ItemsOf(s) = Hub!FlattenSeq(t)
  BY <1>1 DEF Hub!ItemsOf
<1> HIDE DEF t
<1> DEFINE k == at[n]
           items == Hub!ItemsOf(s)
<1>11. items = SubSeq(C, 1, k) /\ k \in 0..L
  BY <1>1, <1>5, <1>9, <1>10, Pieces
<1>12. Len(items) = k /\ SubSeq(items, 1, k) = SubSeq(C, 1, k)
  <2> HIDE DEF k, items
  <2>1. k \in Int /\ 1 \in Int /\ \A i \in 1..k : C[i] \in Published
    BY <1>1, <1>11 DEF L
  <2>2. items \in Seq(Published) /\ Len(items) = (IF 1 <= k THEN k - 1 + 1 ELSE 0)
    BY <1>11, <2>1, SubSeqProperties
  <2>3. Len(items) = k
    BY <1>1, <1>11, <2>2
  <2>4. SubSeq(items, 1, Len(items)) = items
    BY <2>2, SubSeqFull
  <2> QED BY <1>11, <2>3, <2>4
<1>13. Hub!IsPrefix(items, C)
  <2> HIDE DEF k, items
  <2> QED BY <1>1, <1>11, <1>12 DEF Hub!IsPrefix, L
<1>14. Hub!Last(s) = s[n]
  BY DEF Hub!Last, n
<1>15. n \in 1..n /\ n - 1 \in Nat
  BY <1>1
<1>16. Len(s[n].items) = at[n] - at[n - 1] /\ at[n - 1] \in 0..L
  <2>1. at[n - 1] \in 0..L /\ at[n - 1] <= at[n] /\ at[n] \in 0..L
    BY <1>1, <1>5, <1>6, <1>15
  <2>2. at[n - 1] + 1 \in Int /\ at[n] \in Int /\ \A i \in (at[n - 1] + 1)..at[n] : C[i] \in Published
    BY <1>1, <2>1 DEF L
  <2>3. Len(SubSeq(C, at[n - 1] + 1, at[n])) = IF at[n - 1] + 1 <= at[n] THEN at[n] - (at[n - 1] + 1) + 1 ELSE 0
    BY <2>2, SubSeqProperties
  <2>4. s[n].items = SubSeq(C, at[n - 1] + 1, at[n])
    BY <1>7, <1>15
  <2>5. \A x \in Nat, y \in Nat : x <= y => (IF x + 1 <= y THEN y - (x + 1) + 1 ELSE 0) = y - x
    OBVIOUS
  <2>6. at[n - 1] \in Nat /\ at[n] \in Nat
    BY <1>1, <2>1
  <2>7. Len(SubSeq(C, at[n - 1] + 1, at[n])) = at[n] - at[n - 1]
    BY <2>1, <2>3, <2>5, <2>6
  <2> QED BY <2>1, <2>4, <2>7
<1>17. Hub!NextOffset(s) = k
  <2>1. Hub!NextOffset(s) = s[n].offset + Len(s[n].items)
    BY <1>14 DEF Hub!NextOffset
  <2>2. s[n].offset = at[n - 1]
    BY <1>7, <1>15
  <2> QED BY <1>1, <1>11, <1>16, <2>1, <2>2
<1>18. Hub!HasNext(s) <=> k < L
  <2>1. s # <<>>
    BY <1>1 DEF n
  <2>2. s[n].total = L
    BY <1>7, <1>15
  <2> QED BY <1>14, <1>17, <2>1, <2>2 DEF Hub!HasNext
<1>19. k < L => k = n * HubPage
  <2>1. k = (IF Off[n] < L THEN Off[n] ELSE L)
    BY <1>5, <1>15
  <2> QED BY <1>1, <1>4, <2>1
<1>20. n > 1 => Hub!Last(s).items # <<>>
  <2> SUFFICES ASSUME n > 1, s[n].items = <<>> PROVE FALSE
    BY <1>14
  <2>1. at[n - 1] < at[n]
    BY <1>5, <1>15
  <2>2. Len(s[n].items) = 0
    OBVIOUS
  <2> QED BY <1>11, <1>16, <2>1, <2>2
<1> HIDE DEF k, items
<1> QED BY <1>12, <1>13, <1>17, <1>18, <1>19, <1>20 DEF n, L, items

Keys == [q : BOOLEAN, root : Branches \cup {None}, folder : Branches \cup {None}, sort : {"latest", "popular"}]

\* Each report lies in a folder, and no two are released at the same time.
HubConstants ==
  /\ Treed(Branches, BranchOf) /\ IsFiniteSet(Published) /\ Newest \in Published
  /\ Shelved \in [Published -> Branches]
  /\ Popularity \in [Published -> Nat] /\ ReleasedAt \in [Published -> Nat]
  /\ \A x, y \in Published : ReleasedAt[x] = ReleasedAt[y] => x = y
  /\ HubPage \in Nat \ {0} /\ None \notin Keys

\* What the server lists for a key, of the reports that are given.
Within(k) == {r \in Published : /\ k.q => r \in FoundByText
                                /\ k.root # None => Shelved[r] \in Hub!Below[k.root]
                                /\ k.folder # None => Shelved[r] \in Hub!Below[k.folder]}
SortPairs(S, sort) == {e \in S \X S : Hub!Before(sort, e[1], e[2])}
RowsFor(s, k) == s \cap Within(k)
Cat(s, k) == InOrder(RowsFor(s, k), SortPairs(RowsFor(s, k), k.sort))

LEMMA HubWords ==
  /\ \A S : Hub!Cardinality(S) = Cardinality(S)
  /\ \A S, R : Hub!InOrder(S, R) = InOrder(S, R)
<1>1. \A S : Hub!Cardinality(S) = Cardinality(S)
  BY DEF Hub!Cardinality, Cardinality
<1>2. \A S, R : Hub!InOrder(S, R) = InOrder(S, R)
  BY <1>1 DEF Hub!InOrder, InOrder
<1> QED BY <1>1, <1>2

LEMMA CatalogWords == ASSUME server \in SUBSET Published PROVE \A k : Hub!Catalog(k) = Cat(server, k)
<1> SUFFICES ASSUME NEW k PROVE Hub!Catalog(k) = Cat(server, k)
  OBVIOUS
<1>1. Hub!Listed(k) = RowsFor(server, k)
  BY DEF Hub!Listed, RowsFor, Within
<1>2. Hub!Catalog(k) = Hub!InOrder(RowsFor(server, k), SortPairs(RowsFor(server, k), k.sort))
  BY <1>1 DEF Hub!Catalog, SortPairs
<1> QED BY <1>2, HubWords DEF Cat

LEMMA CatSorted ==
  ASSUME HubConstants, NEW s \in SUBSET Published, NEW k
  PROVE  Cat(s, k) \in Seq(Published)
<1> DEFINE S == RowsFor(s, k)
           R == SortPairs(S, k.sort)
<1>1. S \in SUBSET Published
  BY DEF RowsFor
<1>2. IsFiniteSet(S)
  BY <1>1, FS_Subset DEF HubConstants
<1> HIDE DEF S
<1>3. \A x, y \in S : <<x, y>> \in R <=> Hub!Before(k.sort, x, y)
  BY DEF SortPairs
<1> HIDE DEF R
<1>4. \A x \in S : Popularity[x] \in Nat /\ ReleasedAt[x] \in Nat
  BY <1>1 DEF HubConstants
<1>5. \A x, y \in S : Hub!Before(k.sort, x, y) <=>
          \/ k.sort = "popular" /\ Popularity[x] > Popularity[y]
          \/ (k.sort = "popular" => Popularity[x] = Popularity[y]) /\ ReleasedAt[x] > ReleasedAt[y]
  BY DEF Hub!Before
<1>6. \A x, y \in S : x # y => ReleasedAt[x] # ReleasedAt[y]
  BY <1>1 DEF HubConstants
<1>7. \A x \in S : <<x, x>> \notin R
  <2> TAKE x \in S
  <2>1. ~(ReleasedAt[x] > ReleasedAt[x]) /\ ~(Popularity[x] > Popularity[x])
    BY <1>4
  <2> QED BY <1>3, <1>5, <2>1
<1>8. \A x, y \in S : x # y => <<x, y>> \in R \/ <<y, x>> \in R
  <2> SUFFICES ASSUME NEW x \in S, NEW y \in S, x # y PROVE <<x, y>> \in R \/ <<y, x>> \in R
    OBVIOUS
  <2>1. ReleasedAt[x] > ReleasedAt[y] \/ ReleasedAt[y] > ReleasedAt[x]
    BY <1>4, <1>6
  <2>2. Popularity[x] > Popularity[y] \/ Popularity[y] > Popularity[x] \/ Popularity[x] = Popularity[y]
    BY <1>4
  <2> QED BY <1>3, <1>5, <2>1, <2>2
<1>9. \A x, y, z \in S : <<x, y>> \in R /\ <<y, z>> \in R => <<x, z>> \in R
  <2> SUFFICES ASSUME NEW x \in S, NEW y \in S, NEW z \in S, <<x, y>> \in R, <<y, z>> \in R PROVE <<x, z>> \in R
    OBVIOUS
  <2>1. /\ Popularity[x] \in Nat /\ Popularity[y] \in Nat /\ Popularity[z] \in Nat
        /\ ReleasedAt[x] \in Nat /\ ReleasedAt[y] \in Nat /\ ReleasedAt[z] \in Nat
    BY <1>4
  <2>2. Hub!Before(k.sort, x, y) /\ Hub!Before(k.sort, y, z)
    BY <1>3
  <2>3. Hub!Before(k.sort, x, z)
    BY <2>1, <2>2 DEF Hub!Before
  <2> QED BY <1>3, <2>3
<1>10. Orders(R, S)
  BY <1>7, <1>8, <1>9 DEF Orders
<1>11. InOrder(S, R) \in [1..Cardinality(S) -> S] /\ Cardinality(S) \in Nat
  BY <1>2, <1>10, InOrderSorts, FS_CardinalityType DEF Sorted
<1>12. InOrder(S, R) \in Seq(Published)
  <2> DEFINE c == Cardinality(S)
             w == InOrder(S, R)
  <2>1. w \in [1..c -> Published] /\ c \in Nat
    BY <1>1, <1>11
  <2> HIDE DEF w, c
  <2>2. w \in Seq(Published)
    BY <2>1
  <2> QED BY <2>2 DEF w
<1> QED BY <1>12 DEF Cat, S, R

\* A page of the hub is a page of the list.
LEMMA PageWords ==
  ASSUME server \in SUBSET Published
  PROVE  \A k, a : Hub!Page(k, a) = PageOf(Cat(server, k), a)
BY CatalogWords DEF Hub!Page, PageOf

\* A list that is fetched again is read page by page, as far as there is more.
LEMMA LoadedPages ==
  ASSUME HubConstants, server \in SUBSET Published, NEW k, NEW n \in Nat \ {0}
  PROVE  InPages(Cat(server, k), Hub!Loaded(k, n))
<1> DEFINE C == Cat(server, k)
           L == Len(C)
           filled == {0} \cup {i \in 1..(n - 1) : i * HubPage < L}
           m == Cardinality(filled)
<1>1. C \in Seq(Published) /\ L \in Nat
  BY CatSorted
<1>2. Hub!Loaded(k, n) = [i \in 1..m |-> PageOf(C, (i - 1) * HubPage)]
  <2>1. Hub!Catalog(k) = C /\ \A S : Hub!Cardinality(S) = Cardinality(S)
    BY CatalogWords, HubWords
  <2>2. \A a : Hub!Page(k, a) = PageOf(C, a)
    BY PageWords
  <2> HIDE DEF C
  <2> QED BY <2>1, <2>2 DEF Hub!Loaded
<1> HIDE DEF C, L
<1>3. filled \in SUBSET (0..(n - 1)) /\ IsFiniteSet(filled)
  <2>1. filled \in SUBSET (0..(n - 1)) /\ 0 \in Int /\ n - 1 \in Int
    OBVIOUS
  <2> HIDE DEF filled
  <2> QED BY <2>1, FS_Interval, FS_Subset
<1>4. \A i \in filled : i \in Nat /\ (i > 0 => i * HubPage < L /\ i - 1 \in filled)
  <2> SUFFICES ASSUME NEW i \in filled, i > 0 PROVE i * HubPage < L /\ i - 1 \in filled
    OBVIOUS
  <2>1. i \in 1..(n - 1) /\ i * HubPage < L
    OBVIOUS
  <2>2. i - 1 = 0 \/ i - 1 \in 1..(n - 1)
    BY <2>1
  <2>3. (i - 1) * HubPage < L
    <3>1. \A x \in Nat, h \in Nat : x > 0 => (x - 1) * h = x * h - h
      OBVIOUS
    <3>2. i \in Nat /\ HubPage \in Nat
      BY <2>1 DEF HubConstants
    <3>3. (i - 1) * HubPage = i * HubPage - HubPage
      BY <3>1, <3>2
    <3>4. i * HubPage \in Nat
      BY <3>2
    <3> QED BY <1>1, <2>1, <3>2, <3>3, <3>4
  <2> QED BY <2>1, <2>2, <2>3
<1>5. 0 \in filled
  OBVIOUS
<1> HIDE DEF filled
\* What is filled is an interval.
<1>6. \E b \in Nat : filled = 0..b
  <2> DEFINE Out == {i \in Nat : i \notin filled}
  <2>1. Out # {}
    <3>1. n \in Out
      BY <1>3
    <3> QED BY <3>1
  <2>2. PICK b \in Out : \A x \in Out : b <= x
    <3>1. Out \in SUBSET Nat
      OBVIOUS
    <3> HIDE DEF Out
    <3> QED BY <2>1, <3>1, LeastNumber
  <2>3. b # 0 /\ b \in Nat
    BY <1>5
  <2>4. \A x \in Nat : x < b => x \in filled
    BY <2>2, <2>3
  <2>5. \A x \in filled : x \in Nat /\ x < b
    <3> DEFINE Far == {x \in Nat : x \in filled /\ b <= x}
    <3>1. SUFFICES ASSUME Far # {} PROVE FALSE
      BY <1>4, <2>3
    <3>2. PICK x \in Far : \A y \in Far : x <= y
      <4>1. Far \in SUBSET Nat
        OBVIOUS
      <4> HIDE DEF Far
      <4> QED BY <3>1, <4>1, LeastNumber
    <3>3. x \in Nat /\ x \in filled /\ b <= x
      BY <3>2
    <3>4. x # b
      BY <2>2, <3>3
    <3>5. x - 1 \in filled /\ x - 1 \in Nat /\ b <= x - 1
      BY <1>4, <2>3, <3>3, <3>4
    <3>6. x - 1 \in Far
      BY <3>5
    <3> QED BY <3>2, <3>3, <3>6
  <2>6. filled = 0..(b - 1) /\ b - 1 \in Nat
    <3>1. b - 1 \in Nat
      BY <2>3
    <3>2. \A x \in 0..(b - 1) : x \in filled
      BY <2>3, <2>4
    <3>3. \A x \in filled : x \in 0..(b - 1)
      BY <2>3, <2>5
    <3> QED BY <3>1, <3>2, <3>3
  <2> QED BY <2>6
<1>7. PICK b \in Nat : filled = 0..b
  BY <1>6
<1>8. m = b + 1
  <2>1. Cardinality(0..b) = IF 0 > b THEN 0 ELSE b - 0 + 1
    BY FS_Interval
  <2> QED BY <1>7, <2>1
<1> HIDE DEF m
<1>9. \A i \in 1..m : (i - 1) * HubPage \in Nat /\ (i > 1 => (i - 1) * HubPage < L)
  <2> TAKE i \in 1..m
  <2>1. i - 1 \in filled /\ i - 1 \in Nat
    BY <1>7, <1>8
  <2>2. i > 1 => (i - 1) * HubPage < L
    BY <1>4, <2>1
  <2>3. \A x \in Nat, h \in Nat : x * h \in Nat
    OBVIOUS
  <2> QED BY <2>1, <2>2, <2>3 DEF HubConstants
<1>10. \A i \in 1..m : PageOf(C, (i - 1) * HubPage) \in ListPage
  BY <1>1, <1>9, PageInType DEF HubConstants
<1> DEFINE s == [i \in 1..m |-> PageOf(C, (i - 1) * HubPage)]
<1>11. s \in Seq(ListPage) /\ Len(s) = m
  <2>1. s \in [1..m -> ListPage] /\ m \in Nat
    BY <1>8, <1>10
  <2> HIDE DEF s
  <2> QED BY <2>1
<1>12. \A i \in 1..m : s[i] = PageOf(C, (i - 1) * HubPage)
  OBVIOUS
<1> HIDE DEF s
<1>13. InPages(C, s)
  BY <1>8, <1>9, <1>11, <1>12 DEF InPages, L
<1> QED BY <1>2, <1>13 DEF s, C

\* The pages of a list followed by its next page are pages of the list.
LEMMA NextPage ==
  ASSUME HubPage \in Nat \ {0}, NEW C, C \in Seq(Published), NEW s, InPages(C, s), Hub!HasNext(s)
  PROVE  InPages(C, Append(s, PageOf(C, Hub!NextOffset(s))))
<1> DEFINE n == Len(s)
           p == PageOf(C, n * HubPage)
           t == Append(s, p)
<1>1. n \in Nat /\ n > 0 /\ s \in Seq(ListPage)
  BY DEF InPages
<1>2. Hub!NextOffset(s) = n * HubPage /\ n * HubPage < Len(C)
  BY PagesFollow
<1>3. n * HubPage \in Nat
  <2>1. \A x \in Nat, h \in Nat : x * h \in Nat
    OBVIOUS
  <2> QED BY <1>1, <2>1
<1>4. p \in ListPage
  BY <1>3, PageInType
<1> HIDE DEF n, p
<1>5. t \in Seq(ListPage) /\ Len(t) = n + 1 /\ t[n + 1] = p /\ \A i \in 1..n : t[i] = s[i]
  BY <1>1, <1>4 DEF n
<1> HIDE DEF t
<1>6. \A i \in 1..n : s[i] = PageOf(C, (i - 1) * HubPage) /\ (i > 1 => (i - 1) * HubPage < Len(C))
  BY DEF InPages, n
<1>7. \A i \in 1..(n + 1) : t[i] = PageOf(C, (i - 1) * HubPage) /\ (i > 1 => (i - 1) * HubPage < Len(C))
  <2> TAKE i \in 1..(n + 1)
  <2>1. CASE i \in 1..n
    BY <1>5, <1>6, <2>1
  <2>2. CASE i = n + 1
    <3>1. i - 1 = n
      BY <1>1, <2>2
    <3>2. t[i] = p /\ p = PageOf(C, n * HubPage)
      BY <1>5, <2>2 DEF p
    <3> QED BY <1>2, <3>1, <3>2
  <2> QED BY <1>1, <2>1, <2>2
<1>8. InPages(C, t)
  BY <1>1, <1>5, <1>7 DEF InPages
<1> QED BY <1>2, <1>8 DEF t, p

Addresses == [mode : {"home", "catalog", "other"}, q : BOOLEAN, root : Branches \cup {None},
              folder : Branches \cup {None}, sort : {"latest", "popular"}]

\* What is shown are pages of the list of their key, unless the reports have changed.
HubIInv ==
  /\ server \in SUBSET Published /\ fields \in Addresses /\ sight \in BOOLEAN /\ draft \in BOOLEAN
  /\ list \in [key : Keys \cup {None}, pages : Seq(ListPage)]
  /\ list.key # None => Len(list.pages) > 0 /\ (~draft => InPages(Cat(server, list.key), list.pages))

\* The tree holds, with a folder, all above it.
LEMMA HubTree ==
  ASSUME HubConstants, server \in SUBSET Published
  PROVE  \A q : /\ Hub!Tree(q) \in SUBSET Branches
                /\ \A f \in Hub!Tree(q) : Hub!Above[f] \in SUBSET Hub!Tree(q)
<1> TAKE q
<1> DEFINE A == Hub!Above
           F == Hub!Found(q)
<1>1. Line(Branches, BranchOf, A)
  BY AboveWords, TreedInLine DEF HubConstants
<1>2. \A r \in F : Shelved[r] \in Branches
  BY DEF Hub!Found, HubConstants
<1>3. Hub!Tree(q) = UNION {A[Shelved[r]] : r \in F}
  BY DEF Hub!Tree
<1> HIDE DEF A, F
<1>4. ASSUME NEW f \in Hub!Tree(q) PROVE f \in Branches /\ A[f] \in SUBSET Hub!Tree(q)
  <2>1. PICK r \in F : f \in A[Shelved[r]]
    BY <1>3
  <2>2. A[Shelved[r]] \in SUBSET Branches /\ A[f] \in SUBSET A[Shelved[r]]
    BY <1>1, <1>2, <2>1 DEF Line
  <2> QED BY <1>3, <2>1, <2>2
<1> QED BY <1>4 DEF A

\* A folder of the tree lies under a root.
LEMMA OwnerThere ==
  ASSUME HubConstants, server \in SUBSET Published
  PROVE  \A u : /\ sight /\ u.folder \in Hub!Tree(u.q) =>
                     Hub!Owner(u) \in Hub!Above[u.folder] /\ BranchOf[Hub!Owner(u)] = None
                /\ Hub!Owner(u) \in Branches \cup {None}
<1> TAKE u
<1>1. Line(Branches, BranchOf, Hub!Above)
  BY AboveWords, TreedInLine DEF HubConstants
<1>2. ASSUME sight, u.folder \in Hub!Tree(u.q)
      PROVE  Hub!Owner(u) \in Hub!Above[u.folder] /\ BranchOf[Hub!Owner(u)] = None /\ Hub!Owner(u) \in Branches
  <2>1. u.folder \in Branches
    BY <1>2, HubTree
  <2>2. Hub!Owner(u) = CHOOSE f \in Hub!Above[u.folder] : BranchOf[f] = None
    BY <1>2 DEF Hub!Owner
  <2>3. \E f \in Hub!Above[u.folder] : BranchOf[f] = None
    BY <1>1, <2>1 DEF Line
  <2>4. Hub!Above[u.folder] \in SUBSET Branches
    BY <1>1, <2>1 DEF Line
  <2> QED BY <2>2, <2>3, <2>4
<1>3. ~(sight /\ u.folder \in Hub!Tree(u.q)) => Hub!Owner(u) = None
  BY DEF Hub!Owner
<1> QED BY <1>2, <1>3

LEMMA KeyThere ==
  ASSUME HubConstants, HubIInv
  PROVE  Hub!Key(fields) \in Keys /\ Hub!Key(fields) # None
<1>1. Hub!RootOf(fields) \in Branches \cup {None}
  BY OwnerThere DEF Hub!RootOf, HubIInv, Addresses
<1>2. Hub!Key(fields) \in Keys
  BY <1>1 DEF Hub!Key, HubIInv, Addresses, Keys
<1> QED BY <1>2 DEF HubConstants

\* A folder of the tree that is no root is a child of a folder whose children are offered.
LEMMA LevelsShow ==
  ASSUME HubConstants, HubIInv, sight, fields.folder \in Hub!Tree(fields.q), BranchOf[fields.folder] # None
  PROVE  \E f \in Hub!Levels(fields) : fields.folder \in Hub!Children(f, fields.q)
<1> DEFINE A == Hub!Above
           x == fields.folder
           q == fields.q
           p == BranchOf[x]
           r == Hub!Owner(fields)
<1>1. Line(Branches, BranchOf, A) /\ None \notin Branches /\ BranchOf \in [Branches -> Branches \cup {None}]
  BY AboveWords, TreedInLine DEF HubConstants, Treed, Forest
<1>2. /\ Hub!Tree(q) \in SUBSET Branches
      /\ \A f \in Hub!Tree(q) : A[f] \in SUBSET Hub!Tree(q)
  BY HubTree DEF HubIInv
<1>3. r \in A[x] /\ BranchOf[r] = None
  BY OwnerThere DEF HubIInv
<1>4. \A f : f \in Hub!Below[p] /\ p \in Branches <=> p \in Branches /\ f \in Branches /\ p \in A[f]
  BY DEF Hub!Below
<1>5. Hub!Below = [f \in Branches |-> {g \in Branches : f \in A[g]}]
  BY DEF Hub!Below
<1>6. x \in Hub!Tree(q) /\ p # None
  OBVIOUS
<1>7. x \in Branches
  BY <1>2, <1>6
<1>8. r = Hub!RootOf(fields) /\ r # None
  <2>1. r \in Branches
    BY <1>1, <1>3, <1>7 DEF Line
  <2> QED BY <1>1, <2>1 DEF Hub!RootOf
<1>9. \A f : Hub!Children(f, q) = {g \in Hub!Tree(q) : BranchOf[g] = f}
  BY DEF Hub!Children
<1>10. \A f, g : Hub!Holds(f, g) <=> g \in Hub!Below[f]
  BY DEF Hub!Holds
<1>11. Hub!Levels(fields) =
         IF ~sight \/ r \notin Hub!Tree(q) \/ Hub!Children(r, q) = {} THEN {}
         ELSE {r} \cup {f \in Hub!Below[r] \ {r} :
                          x # None /\ Hub!Holds(f, x) /\ Hub!Children(f, q) # {}}
  BY <1>8 DEF Hub!Levels
<1> HIDE DEF A, x, q, p, r
<1>12. p \in Branches /\ A[x] = {x} \cup A[p] /\ p \in A[p] /\ p \in A[x]
  <2>1. p = BranchOf[x]
    BY DEF p
  <2>2. p \in Branches
    BY <1>1, <1>6, <1>7, <2>1
  <2>3. A[x] = {x} \cup A[p] /\ p \in A[p]
    BY <1>1, <1>6, <1>7, <2>1, <2>2 DEF Line
  <2> QED BY <2>2, <2>3
<1>13. r # x /\ r \in A[p]
  <2>1. BranchOf[x] # None
    BY <1>6 DEF p
  <2> QED BY <1>3, <1>12, <2>1
<1>14. r \in Hub!Tree(q) /\ r \in Branches
  BY <1>2, <1>3, <1>6
<1>15. PICK c \in A[x] : BranchOf[c] = r
  <2>1. IsAbove(Branches, BranchOf, A) /\ Treed(Branches, BranchOf)
    BY AboveWords DEF HubConstants, A
  <2> QED BY <1>3, <1>7, <1>13, <2>1, WayDown
<1>16. Hub!Children(r, q) # {}
  BY <1>2, <1>6, <1>9, <1>15
<1>17. x \in Hub!Children(p, q)
  BY <1>6, <1>9 DEF p
<1>18. p \in Hub!Levels(fields)
  <2>1. CASE p = r
    BY <1>11, <1>14, <1>16, <2>1
  <2>2. CASE p # r
    <3>1. p \in Hub!Below[r] /\ x \in Hub!Below[p]
      BY <1>5, <1>7, <1>12, <1>13, <1>14
    <3>2. x # None /\ Hub!Holds(p, x) /\ Hub!Children(p, q) # {}
      BY <1>1, <1>7, <1>10, <1>17, <3>1
    <3>3. sight
      OBVIOUS
    <3> QED BY <1>11, <1>14, <1>16, <2>2, <3>1, <3>2, <3>3
  <2> QED BY <2>1, <2>2
<1> QED BY <1>17, <1>18 DEF x, q

LEMMA RowsFollow == ASSUME HubConstants, HubIInv PROVE Hub!RowsAreCatalog
<1>1. server \in SUBSET Published
  BY DEF HubIInv
<1>2. ASSUME Hub!Current, ~draft
      PROVE  /\ Hub!IsPrefix(Hub!ItemsOf(list.pages), Hub!Catalog(list.key))
             /\ Hub!HasNext(list.pages) <=> Len(Hub!ItemsOf(list.pages)) < Len(Hub!Catalog(list.key))
             /\ Len(list.pages) > 1 => Hub!Last(list.pages).items # <<>>
  <2>1. list.key = Hub!Key(fields)
    BY <1>2 DEF Hub!Current
  <2>2. list.key # None
    BY <2>1, KeyThere
  <2> DEFINE C == Cat(server, list.key)
             s == list.pages
  <2>3. InPages(C, s)
    BY <1>2, <2>2 DEF HubIInv
  <2>4. C \in Seq(Published) /\ Hub!Catalog(list.key) = C
    BY <1>1, CatSorted, CatalogWords
  <2>5. HubPage \in Nat \ {0}
    BY DEF HubConstants
  <2> HIDE DEF C, s
  <2>6. /\ Hub!IsPrefix(Hub!ItemsOf(s), C)
        /\ Hub!HasNext(s) <=> Len(Hub!ItemsOf(s)) < Len(C)
        /\ Len(s) > 1 => Hub!Last(s).items # <<>>
    BY <2>3, <2>4, <2>5, PagesFollow
  <2> QED BY <2>4, <2>6 DEF s
<1>3. ASSUME sight, fields.folder \in Hub!Tree(fields.q)
      PROVE  \/ BranchOf[fields.folder] = None
             \/ \E f \in Hub!Levels(fields) : fields.folder \in Hub!Children(f, fields.q)
  BY <1>3, LevelsShow
<1> QED BY <1>2, <1>3 DEF Hub!RowsAreCatalog

LEMMA HubInitIInv == ASSUME HubConstants, Hub!CatalogInit PROVE HubIInv
<1>1. server \in SUBSET Published /\ sight \in BOOLEAN /\ draft \in BOOLEAN
      /\ fields = [mode |-> "home", q |-> FALSE, root |-> None, folder |-> None, sort |-> "latest"]
      /\ list = [key |-> None, pages |-> <<>>]
  BY DEF Hub!CatalogInit, Hub!NoRows
<1>2. <<>> \in Seq(ListPage)
  OBVIOUS
<1> QED BY <1>1, <1>2 DEF HubIInv, Addresses

LEMMA GoKeeps == ASSUME HubIInv, NEW u \in Addresses, Hub!Go(u) PROVE HubIInv'
<1>1. UNCHANGED <<server, list, draft>> /\ fields' = u /\ sight' \in BOOLEAN
  BY DEF Hub!Go
<1> QED BY <1>1 DEF HubIInv

LEMMA FetchKeeps ==
  ASSUME HubIInv, UNCHANGED <<server, fields, sight>>, draft' \in BOOLEAN,
         NEW k \in Keys, NEW t \in Seq(ListPage), Len(t) > 0, list' = [key |-> k, pages |-> t],
         ~draft' => InPages(Cat(server, k), t)
  PROVE  HubIInv'
<1>1. server' = server /\ list'.key = k /\ list'.pages = t /\ list' \in [key : Keys \cup {None}, pages : Seq(ListPage)]
  OBVIOUS
<1>2. ~draft' => InPages(Cat(server', list'.key), list'.pages)
  BY <1>1
<1>3. server' \in SUBSET Published /\ fields' \in Addresses /\ sight' \in BOOLEAN
  BY DEF HubIInv
<1> QED BY <1>1, <1>2, <1>3 DEF HubIInv

LEMMA AddressKept ==
  ASSUME NEW u \in Addresses
  PROVE  /\ \A f \in Branches \cup {None} :
              /\ [u EXCEPT !.root = f] \in Addresses
              /\ [u EXCEPT !.folder = f] \in Addresses
              /\ [u EXCEPT !.root = f, !.folder = None] \in Addresses
         /\ \A s \in {"latest", "popular"} : [u EXCEPT !.sort = s] \in Addresses
         /\ \A q \in BOOLEAN : [u EXCEPT !.q = q] \in Addresses
         /\ [u EXCEPT !.mode = "other"] \in Addresses
         /\ \A g, f \in Branches : [u EXCEPT !.mode = "catalog", !.root = g, !.folder = f] \in Addresses
<1>1. ASSUME NEW v \in Addresses, NEW f \in Branches \cup {None}
      PROVE  [v EXCEPT !.root = f] \in Addresses /\ [v EXCEPT !.folder = f] \in Addresses
  BY DEF Addresses
<1>2. \A f \in Branches \cup {None} : [u EXCEPT !.root = f, !.folder = None] \in Addresses
  <2> TAKE f \in Branches \cup {None}
  <2>1. [u EXCEPT !.root = f, !.folder = None] = [[u EXCEPT !.root = f] EXCEPT !.folder = None]
    OBVIOUS
  <2>2. [u EXCEPT !.root = f] \in Addresses
    BY <1>1
  <2>3. [[u EXCEPT !.root = f] EXCEPT !.folder = None] \in Addresses
    BY <1>1, <2>2
  <2> QED BY <2>1, <2>3
<1>3. \A s \in {"latest", "popular"} : [u EXCEPT !.sort = s] \in Addresses
  BY DEF Addresses
<1>4. \A q \in BOOLEAN : [u EXCEPT !.q = q] \in Addresses
  BY DEF Addresses
<1>5. [u EXCEPT !.mode = "other"] \in Addresses /\ [u EXCEPT !.mode = "catalog"] \in Addresses
  BY DEF Addresses
<1>6. \A g, f \in Branches : [u EXCEPT !.mode = "catalog", !.root = g, !.folder = f] \in Addresses
  <2> TAKE g, f \in Branches
  <2> DEFINE v == [u EXCEPT !.mode = "catalog"]
  <2>1. [u EXCEPT !.mode = "catalog", !.root = g, !.folder = f] = [[v EXCEPT !.root = g] EXCEPT !.folder = f]
    OBVIOUS
  <2> HIDE DEF v
  <2>2. v \in Addresses
    BY <1>5 DEF v
  <2>3. [v EXCEPT !.root = g] \in Addresses
    BY <1>1, <2>2
  <2>4. [[v EXCEPT !.root = g] EXCEPT !.folder = f] \in Addresses
    BY <1>1, <2>3
  <2> QED BY <2>1, <2>4
<1> QED BY <1>1, <1>2, <1>3, <1>4, <1>5, <1>6

LEMMA HubStep ==
  ASSUME HubConstants, HubIInv, [Hub!CatalogNext]_(Hub!catalogVars)
  PROVE  HubIInv'
<1>0. /\ fields \in Addresses /\ server \in SUBSET Published /\ HubPage \in Nat \ {0}
      /\ list \in [key : Keys \cup {None}, pages : Seq(ListPage)]
  BY DEF HubIInv, HubConstants
<1>1. CASE Hub!TreeArrives
  BY <1>1 DEF Hub!TreeArrives, HubIInv
<1>2. CASE Hub!NormaliseRoot
  <2>1. fields' = [fields EXCEPT !.root = Hub!Owner(fields)] /\ UNCHANGED <<server, sight, list, draft>>
    BY <1>2 DEF Hub!NormaliseRoot
  <2>2. fields' \in Addresses
    BY <1>0, <2>1, OwnerThere, AddressKept
  <2> QED BY <2>1, <2>2 DEF HubIInv
<1>3. CASE Hub!FetchFirst
  <2> DEFINE k == Hub!Key(fields)
             C == Cat(server, k)
             p == PageOf(C, 0)
  <2>1. /\ list' = [key |-> k, pages |-> <<Hub!Page(k, 0)>>] /\ draft' = FALSE /\ UNCHANGED <<server, fields, sight>>
    BY <1>3 DEF Hub!FetchFirst
  <2>2. Hub!Page(k, 0) = p
    BY <1>0, PageWords
  <2>3. k \in Keys /\ C \in Seq(Published)
    BY <1>0, KeyThere, CatSorted
  <2> HIDE DEF k, C, p
  <2>4. p \in ListPage
    <3>1. 0 \in Nat
      OBVIOUS
    <3> QED BY <1>0, <2>3, <3>1, PageInType DEF p
  <2>5. InPages(C, <<p>>)
    <3> DEFINE s == <<p>>
    <3>1. s \in Seq(ListPage) /\ Len(s) = 1 /\ s[1] = p
      BY <2>4
    <3>2. (1 - 1) * HubPage = 0
      BY <1>0
    <3> HIDE DEF s
    <3>3. \A i \in 1..Len(s) : s[i] = PageOf(C, (i - 1) * HubPage) /\ (i > 1 => (i - 1) * HubPage < Len(C))
      BY <3>1, <3>2 DEF p
    <3>4. InPages(C, s)
      BY <3>1, <3>3 DEF InPages
    <3> QED BY <3>4 DEF s
  <2>6. <<p>> \in Seq(ListPage) /\ Len(<<p>>) > 0
    BY <2>4
  <2>7. list' = [key |-> k, pages |-> <<p>>]
    BY <2>1, <2>2
  <2> QED BY <2>1, <2>3, <2>5, <2>6, <2>7, FetchKeeps DEF C
<1>4. CASE Hub!FetchNext
  <2> DEFINE k == list.key
             C == Cat(server, k)
             s == list.pages
             p == PageOf(C, Hub!NextOffset(s))
             t == Append(s, p)
  <2>1. /\ list' = [list EXCEPT !.pages = Append(@, Hub!Page(k, Hub!NextOffset(@)))]
        /\ Hub!HasNext(s) /\ Hub!Current /\ UNCHANGED <<server, fields, sight, draft>>
    BY <1>4 DEF Hub!FetchNext
  <2>2. list' = [list EXCEPT !.pages = t]
    <3>1. Hub!Page(k, Hub!NextOffset(s)) = p
      BY <1>0, PageWords
    <3> QED BY <2>1, <3>1
  <2>3. k \in Keys /\ k # None /\ C \in Seq(Published) /\ s \in Seq(ListPage)
    BY <1>0, <2>1, KeyThere, CatSorted DEF Hub!Current
  <2>4. Len(s) > 0 /\ (~draft => InPages(C, s))
    BY <2>3 DEF HubIInv
  <2> HIDE DEF k, C, s
  <2>5. p \in ListPage
    <3> DEFINE n == Len(s)
    <3>1. n \in 1..n /\ s[n] \in ListPage
      BY <2>3, <2>4
    <3>2. Hub!NextOffset(s) = s[n].offset + Len(s[n].items)
      BY DEF Hub!NextOffset, Hub!Last
    <3>3. s[n].offset \in Nat /\ s[n].items \in Seq(Published)
      BY <3>1 DEF ListPage
    <3>4. Hub!NextOffset(s) \in Nat
      BY <3>2, <3>3
    <3> QED BY <1>0, <2>3, <3>4, PageInType
  <2>6. ~draft => InPages(C, t)
    BY <1>0, <2>1, <2>3, <2>4, NextPage
  <2>7. t \in Seq(ListPage) /\ Len(t) > 0
    <3> HIDE DEF p
    <3> QED BY <2>3, <2>5
  <2> HIDE DEF t
  <2>8. list' = [key |-> k, pages |-> t]
    BY <1>0, <2>2 DEF k
  <2>9. draft' = draft /\ draft \in BOOLEAN /\ UNCHANGED <<server, fields, sight>>
    BY <2>1 DEF HubIInv
  <2>10. ~draft' => InPages(Cat(server, k), t)
    BY <2>6, <2>9 DEF C
  <2>11. draft' \in BOOLEAN
    BY <2>9
  <2> QED BY <2>3, <2>7, <2>8, <2>9, <2>10, <2>11, FetchKeeps
<1>5. CASE Hub!FetchAgain
  <2> DEFINE k == list.key
             C == Cat(server, k)
             t == Hub!Loaded(k, Len(list.pages))
  <2>1. /\ list' = [list EXCEPT !.pages = t] /\ draft' = FALSE
        /\ Hub!Current /\ UNCHANGED <<server, fields, sight>>
    BY <1>5 DEF Hub!FetchAgain
  <2>2. k \in Keys /\ k # None
    BY <1>0, <2>1, KeyThere DEF Hub!Current
  <2>3. Len(list.pages) \in Nat \ {0}
    <3>1. Len(list.pages) > 0 /\ list.pages \in Seq(ListPage)
      BY <1>0, <2>2 DEF HubIInv
    <3> QED BY <3>1
  <2>4. InPages(C, t)
    BY <1>0, <2>3, LoadedPages
  <2> HIDE DEF k, C, t
  <2>5. t \in Seq(ListPage) /\ Len(t) > 0
    BY <2>4 DEF InPages
  <2>6. list' = [key |-> k, pages |-> t]
    BY <1>0, <2>1 DEF k
  <2> QED BY <2>1, <2>2, <2>4, <2>5, <2>6, FetchKeeps DEF C
<1>6. CASE Hub!Open
  <2>1. [fields EXCEPT !.mode = "other"] \in Addresses
    BY <1>0, AddressKept
  <2> QED BY <1>6, <2>1, GoKeeps DEF Hub!Open
<1>7. CASE \E f \in Branches \cup {None} : Hub!SelectRoot(f) \/ Hub!SelectFolder(f)
  <2>1. PICK f \in Branches \cup {None} : \/ Hub!Go([fields EXCEPT !.root = f, !.folder = None])
                                          \/ Hub!Go([fields EXCEPT !.folder = f])
    BY <1>7 DEF Hub!SelectRoot, Hub!SelectFolder
  <2>2. [fields EXCEPT !.root = f, !.folder = None] \in Addresses /\ [fields EXCEPT !.folder = f] \in Addresses
    BY <1>0, AddressKept
  <2> QED BY <2>1, <2>2, GoKeeps
<1>8. CASE \E s \in {"latest", "popular"} : Hub!SelectSort(s)
  <2>1. PICK s \in {"latest", "popular"} : Hub!Go([fields EXCEPT !.sort = s])
    BY <1>8 DEF Hub!SelectSort
  <2>2. [fields EXCEPT !.sort = s] \in Addresses
    BY <1>0, AddressKept
  <2> QED BY <2>1, <2>2, GoKeeps
<1>9. CASE \E q \in BOOLEAN : Hub!Search(q)
  <2>1. PICK q \in BOOLEAN : Hub!Go([fields EXCEPT !.q = q])
    BY <1>9 DEF Hub!Search
  <2>2. [fields EXCEPT !.q = q] \in Addresses
    BY <1>0, AddressKept
  <2> QED BY <2>1, <2>2, GoKeeps
<1>10. CASE \E mode \in {"home", "catalog", "other"}, f \in Branches \cup {None} : Hub!Sidebar(mode, f)
  <2>1. PICK mode \in {"home", "catalog", "other"}, f \in Branches \cup {None} :
          Hub!Go([mode |-> mode, q |-> FALSE, root |-> f, folder |-> None, sort |-> "latest"])
    BY <1>10 DEF Hub!Sidebar
  <2>2. [mode |-> mode, q |-> FALSE, root |-> f, folder |-> None, sort |-> "latest"] \in Addresses
    BY DEF Addresses
  <2> QED BY <2>1, <2>2, GoKeeps
<1>11. CASE \E root, f \in Branches : Hub!Link([fields EXCEPT !.mode = "catalog", !.root = root, !.folder = f])
  <2>1. PICK root \in Branches, f \in Branches :
          Hub!Go([fields EXCEPT !.mode = "catalog", !.root = root, !.folder = f])
    BY <1>11 DEF Hub!Link
  <2>2. [fields EXCEPT !.mode = "catalog", !.root = root, !.folder = f] \in Addresses
    BY <1>0, AddressKept
  <2> QED BY <2>1, <2>2, GoKeeps
<1>12. CASE Hub!Publish(Newest) \/ Hub!Withdraw(Newest)
  <2>1. server' \in SUBSET Published /\ draft' = TRUE /\ UNCHANGED <<fields, sight, list>>
    BY <1>0, <1>12 DEF Hub!Publish, Hub!Withdraw, HubConstants
  <2> QED BY <2>1 DEF HubIInv
<1>13. CASE UNCHANGED Hub!catalogVars
  BY <1>13 DEF Hub!catalogVars, HubIInv
<1> QED BY <1>1, <1>2, <1>3, <1>4, <1>5, <1>6, <1>7, <1>8, <1>9, <1>10, <1>11, <1>12, <1>13 DEF Hub!CatalogNext

-----------------------------------------------------------------------------
(* The pages of the requests.                                              *)

ListConstants == RequestConstants /\ IsFiniteSet(Requests) /\ RequestPage \in Nat \ {0}

ListViews == [status : Center!Status \cup {None}, typed : BOOLEAN, applied : BOOLEAN, page : Nat \ {0}]
ListIInv == sight \in ListViews

\* The last page begins before the rows end.
LEMMA PagesOfRows ==
  ASSUME NEW c \in Nat, NEW p \in Nat \ {0}
  PROVE  /\ (c + p - 1) \div p \in Nat
         /\ c > 0 => (c + p - 1) \div p > 0 /\ ((c + p - 1) \div p - 1) * p < c
<1> DEFINE q == (c + p - 1) \div p
           r == (c + p - 1) % p
<1>1. q \in Int /\ r \in 0..(p - 1) /\ c + p - 1 = p * q + r
  OBVIOUS
<1> HIDE DEF q, r
<1>2. q \in Nat
  <2>1. ASSUME q < 0 PROVE FALSE
    <3>1. p * q <= p * (-1)
      BY <1>1, <2>1
    <3> QED BY <1>1, <3>1
  <2> QED BY <1>1, <2>1
<1>3. ASSUME c > 0 PROVE q > 0 /\ (q - 1) * p < c
  <2>1. q # 0
    <3>1. q = 0 => p * q = 0
      OBVIOUS
    <3> QED BY <1>1, <1>3, <3>1
  <2>2. (q - 1) * p = p * q - p
    BY <1>1
  <2>3. p * q \in Int
    BY <1>1
  <2> QED BY <1>1, <1>2, <2>1, <2>2, <2>3
<1> QED BY <1>2, <1>3 DEF q

LEMMA CenterWords ==
  /\ \A S : Center!Cardinality(S) = Cardinality(S)
  /\ \A S, R : Center!InOrder(S, R) = InOrder(S, R)
<1>1. \A S : Center!Cardinality(S) = Cardinality(S)
  BY DEF Center!Cardinality, Cardinality
<1>2. \A S, R : Center!InOrder(S, R) = InOrder(S, R)
  BY <1>1 DEF Center!InOrder, InOrder
<1> QED BY <1>1, <1>2

\* The pages are numbered from one on, and the one that is shown is one of them.
LEMMA PageThere ==
  ASSUME ListConstants, ListIInv
  PROVE  /\ IsFiniteSet(Center!Filtered) /\ Center!PageCount \in Nat \ {0}
         /\ Center!CurPage \in Nat \ {0} /\ Center!CurPage <= Center!PageCount
         /\ Center!Filtered # {} => (Center!PageCount - 1) * RequestPage < Cardinality(Center!Filtered)
<1>1. IsFiniteSet(Center!Filtered)
  <2>1. Center!Filtered \in SUBSET Requests
    BY DEF Center!Filtered
  <2> QED BY <2>1, FS_Subset DEF ListConstants
<1>2. Cardinality(Center!Filtered) \in Nat /\ (Center!Filtered # {} => Cardinality(Center!Filtered) > 0)
  <2>1. Cardinality(Center!Filtered) \in Nat /\ (Cardinality(Center!Filtered) = 0 <=> Center!Filtered = {})
    BY <1>1, FS_CardinalityType, FS_EmptySet
  <2> QED BY <2>1
<1>3. Center!PageCount = IF Center!Filtered = {} THEN 1
                         ELSE (Cardinality(Center!Filtered) + RequestPage - 1) \div RequestPage
  BY CenterWords DEF Center!PageCount
<1> DEFINE c == Cardinality(Center!Filtered)
           q == (c + RequestPage - 1) \div RequestPage
<1>4. q \in Nat /\ (c > 0 => q > 0 /\ (q - 1) * RequestPage < c)
  <2> HIDE DEF c
  <2> QED BY <1>2, PagesOfRows DEF ListConstants, c
<1> HIDE DEF q
<1>5. Center!PageCount \in Nat \ {0}
      /\ (Center!Filtered # {} => (Center!PageCount - 1) * RequestPage < Cardinality(Center!Filtered))
  BY <1>2, <1>3, <1>4 DEF q
<1>6. Center!CurPage = IF sight.page <= Center!PageCount THEN sight.page ELSE Center!PageCount
  BY DEF Center!CurPage
<1> QED BY <1>1, <1>5, <1>6 DEF ListIInv, ListViews

LEMMA PageFollows == ASSUME ListConstants, ListIInv PROVE Center!PageIsShown
<1> DEFINE S == Center!Filtered
           R == {e \in S \X S : e[1] > e[2]}
           rows == InOrder(S, R)
           c == Cardinality(S)
           a == (Center!CurPage - 1) * RequestPage
           b == Center!CurPage * RequestPage
           z == IF b < c THEN b ELSE c
<1>1. IsFiniteSet(S) /\ S \in SUBSET Nat /\ c \in Nat
  <2>1. S \in SUBSET Nat
    BY DEF Center!Filtered, ListConstants, RequestConstants
  <2> QED BY <2>1, PageThere, FS_CardinalityType
<1>2. Center!PageItems = SubSeq(rows, a + 1, IF b < Len(rows) THEN b ELSE Len(rows))
  <2>1. Center!InOrder(S, R) = rows
    BY CenterWords
  <2> HIDE DEF rows
  <2> QED BY <2>1 DEF Center!PageItems
<1> HIDE DEF S
<1>3. Orders(R, S)
  BY <1>1 DEF Orders
<1> HIDE DEF R
<1>4. rows \in [1..c -> S]
  BY <1>1, <1>3, InOrderSorts DEF Sorted
<1> HIDE DEF rows
<1>5. Len(rows) = c
  BY <1>1, <1>4
<1>6. a \in Nat /\ b \in Nat /\ b = a + RequestPage
  <2> DEFINE k == Center!CurPage
  <2>1. k \in Nat \ {0} /\ RequestPage \in Nat \ {0}
    BY PageThere DEF ListConstants
  <2> HIDE DEF k
  <2>2. \A x \in Nat \ {0}, y \in Nat \ {0} : (x - 1) * y \in Nat /\ x * y \in Nat /\ x * y = (x - 1) * y + y
    OBVIOUS
  <2>3. (k - 1) * RequestPage \in Nat /\ k * RequestPage \in Nat /\ k * RequestPage = (k - 1) * RequestPage + RequestPage
    BY <2>1, <2>2
  <2> QED BY <2>3 DEF k
<1>7. S # {} => a < c
  <2> SUFFICES ASSUME S # {} PROVE a < c
    OBVIOUS
  <2> DEFINE k == Center!CurPage
             n == Center!PageCount
  <2>1. k \in Nat \ {0} /\ n \in Nat \ {0} /\ k <= n /\ RequestPage \in Nat \ {0} /\ (n - 1) * RequestPage < c
    BY PageThere DEF ListConstants, S
  <2> HIDE DEF k, n, c
  <2>2. \A x \in Nat, y \in Nat, w \in Nat : x <= y => x * w <= y * w
    OBVIOUS
  <2>3. (k - 1) * RequestPage <= (n - 1) * RequestPage
    <3>1. k - 1 \in Nat /\ n - 1 \in Nat /\ k - 1 <= n - 1
      BY <2>1
    <3> QED BY <2>1, <2>2, <3>1
  <2>4. (k - 1) * RequestPage \in Int /\ (n - 1) * RequestPage \in Int
    BY <2>1
  <2> QED BY <1>1, <2>1, <2>3, <2>4 DEF k, c
<1> HIDE DEF a, b
<1>8. z \in Nat /\ z <= c /\ (S # {} => a + 1 <= z)
  BY <1>1, <1>6, <1>7 DEF ListConstants
<1> HIDE DEF z, c
<1>9. \A i \in (a + 1)..z : i \in 1..c /\ rows[i] \in S
  BY <1>1, <1>4, <1>6, <1>8
<1>10. Center!PageItems = SubSeq(rows, a + 1, z)
  BY <1>2, <1>5 DEF z
<1>11. a + 1 \in Int /\ z \in Int
  BY <1>6, <1>8
<1>12. /\ SubSeq(rows, a + 1, z) \in Seq(S)
       /\ Len(SubSeq(rows, a + 1, z)) = IF a + 1 <= z THEN z - (a + 1) + 1 ELSE 0
  BY <1>9, <1>11, SubSeqProperties
<1>13. S # {} => Len(Center!PageItems) > 0
  BY <1>6, <1>8, <1>10, <1>12
<1>14. \A i \in DOMAIN Center!PageItems : Center!PageItems[i] \in S
  BY <1>10, <1>12
<1> QED BY <1>13, <1>14 DEF Center!PageIsShown, S

LEMMA ListInitIInv == Center!ServiceInit => ListIInv
BY DEF Center!ServiceInit, ListIInv, ListViews

LEMMA ViewsKept ==
  ASSUME NEW v \in ListViews
  PROVE  /\ v.typed \in BOOLEAN /\ [v EXCEPT !.typed = ~@] \in ListViews
         /\ \A n \in Nat \ {0} : [v EXCEPT !.page = n] \in ListViews
         /\ \A s \in Center!Status \cup {None} : [v EXCEPT !.status = s, !.page = 1] \in ListViews
         /\ \A b \in BOOLEAN : [v EXCEPT !.applied = b, !.page = 1] \in ListViews
         /\ [status |-> None, typed |-> FALSE, applied |-> FALSE, page |-> 1] \in ListViews
<1>1. v.typed \in BOOLEAN /\ [v EXCEPT !.typed = ~@] \in ListViews
  BY DEF ListViews
<1>2. \A u \in ListViews, n \in Nat \ {0} : [u EXCEPT !.page = n] \in ListViews
  BY DEF ListViews
<1>3. ASSUME NEW s \in Center!Status \cup {None} PROVE [v EXCEPT !.status = s, !.page = 1] \in ListViews
  <2>1. [v EXCEPT !.status = s] \in ListViews
    BY DEF ListViews
  <2>2. [v EXCEPT !.status = s, !.page = 1] = [[v EXCEPT !.status = s] EXCEPT !.page = 1]
    OBVIOUS
  <2>3. 1 \in Nat \ {0}
    OBVIOUS
  <2> QED BY <1>2, <2>1, <2>2, <2>3
<1>4. ASSUME NEW b \in BOOLEAN PROVE [v EXCEPT !.applied = b, !.page = 1] \in ListViews
  <2>1. [v EXCEPT !.applied = b] \in ListViews
    BY DEF ListViews
  <2>2. [v EXCEPT !.applied = b, !.page = 1] = [[v EXCEPT !.applied = b] EXCEPT !.page = 1]
    OBVIOUS
  <2>3. 1 \in Nat \ {0}
    OBVIOUS
  <2> QED BY <1>2, <2>1, <2>2, <2>3
<1> QED BY <1>1, <1>2, <1>3, <1>4 DEF ListViews

\* No other step looks at another page.
LEMMA OtherwiseSeen ==
  ASSUME Center!ServiceNext, ~(Center!TypeSearch \/ Center!ApplySearch \/ Center!ResetFilters),
         ~Center!Previous, ~Center!Following, ~ \E s \in Center!Status \cup {None} : Center!FilterStatus(s)
  PROVE  UNCHANGED sight
<1>1. ASSUME NEW w, \/ Center!Read(w) \/ Center!StatusStored(w) \/ Center!Fails(w) \/ Center!Created(w)
                    \/ Center!Upload(w) \/ Center!Refused(w) \/ Center!Done(w) \/ Center!Commented(w)
      PROVE  UNCHANGED sight
  BY <1>1 DEF Center!Read, Center!StatusStored, Center!Fails, Center!Created, Center!Upload, Center!Refused,
     Center!Done, Center!Commented
<1>2. ASSUME \/ Center!OpenForm \/ Center!CloseForm \/ Center!FillForm \/ Center!Submit \/ Center!RemoveFile
             \/ \E k \in 1..MaxFiles : Center!AddFiles(k)
      PROVE  UNCHANGED sight
  BY <1>2 DEF Center!OpenForm, Center!CloseForm, Center!FillForm, Center!Submit, Center!RemoveFile,
     Center!AddFiles, Center!Form
<1>3. ASSUME NEW i, NEW s, Center!Open(i) \/ Center!ChooseStatus(s) \/ Center!OtherChanges(i, s)
      PROVE  UNCHANGED sight
  BY <1>3 DEF Center!Open, Center!ChooseStatus, Center!OtherChanges, Center!Dialog, Center!Ask
<1>4. ASSUME \/ Center!CloseDialog \/ Center!TypeReason \/ Center!TypeComment \/ Center!ChangeStatus
             \/ Center!SendComment \/ Center!Fetch
      PROVE  UNCHANGED sight
  BY <1>4 DEF Center!CloseDialog, Center!TypeReason, Center!TypeComment, Center!ChangeStatus, Center!SendComment,
     Center!Fetch, Center!Dialog, Center!Ask
<1> QED BY <1>1, <1>2, <1>3, <1>4 DEF Center!ServiceNext

LEMMA ViewStep ==
  ASSUME ListConstants, ListIInv, [Center!ServiceNext]_(Center!serviceVars)
  PROVE  ListIInv'
<1>1. CASE Center!TypeSearch \/ Center!ApplySearch \/ Center!ResetFilters
  <2>1. \/ sight' = [sight EXCEPT !.typed = ~@]
        \/ sight' = [sight EXCEPT !.applied = sight.typed, !.page = 1]
        \/ sight' = [status |-> None, typed |-> FALSE, applied |-> FALSE, page |-> 1]
    BY <1>1 DEF Center!TypeSearch, Center!ApplySearch, Center!ResetFilters, Center!View
  <2>2. /\ [sight EXCEPT !.typed = ~@] \in ListViews
        /\ [sight EXCEPT !.applied = sight.typed, !.page = 1] \in ListViews
        /\ [status |-> None, typed |-> FALSE, applied |-> FALSE, page |-> 1] \in ListViews
    BY ViewsKept DEF ListIInv
  <2> QED BY <2>1, <2>2 DEF ListIInv
<1>2. CASE Center!Previous
  <2>1. Center!CurPage - 1 \in Nat \ {0} /\ sight' = [sight EXCEPT !.page = Center!CurPage - 1]
    BY <1>2, PageThere DEF Center!Previous, Center!View
  <2> QED BY <2>1 DEF ListIInv, ListViews
<1>3. CASE Center!Following
  <2>1. Center!CurPage + 1 \in Nat \ {0} /\ sight' = [sight EXCEPT !.page = Center!CurPage + 1]
    BY <1>3, PageThere DEF Center!Following, Center!View
  <2> QED BY <2>1 DEF ListIInv, ListViews
<1>4. CASE \E s \in Center!Status \cup {None} : Center!FilterStatus(s)
  <2>1. PICK s \in Center!Status \cup {None} : sight' = [sight EXCEPT !.status = s, !.page = 1]
    BY <1>4 DEF Center!FilterStatus, Center!View
  <2>2. [sight EXCEPT !.status = s, !.page = 1] \in ListViews
    BY ViewsKept DEF ListIInv
  <2> QED BY <2>1, <2>2 DEF ListIInv
<1>5. CASE UNCHANGED sight
  BY <1>5 DEF ListIInv
<1>6. CASE Center!ServiceNext /\ ~(Center!TypeSearch \/ Center!ApplySearch \/ Center!ResetFilters)
           /\ ~Center!Previous /\ ~Center!Following /\ ~ \E s \in Center!Status \cup {None} : Center!FilterStatus(s)
  BY <1>5, <1>6, OtherwiseSeen
<1>7. CASE UNCHANGED Center!serviceVars
  BY <1>5, <1>7 DEF Center!serviceVars
<1> QED BY <1>1, <1>2, <1>3, <1>4, <1>6, <1>7

-----------------------------------------------------------------------------
(* The ways to find a report, or a request.                                *)

FoundConstants == HubConstants /\ PickerConstants /\ ShelfConstants /\ ListConstants

\* Each page keeps to its part.
FoundIInv ==
  /\ page = "catalog" => HubIInv
  /\ page = "picker"  => PickerIInv
  /\ page = "trees"   => TreeIInv
  /\ page = "reports" => ShelfIInv
  /\ page = "service" => ListIInv

LEMMA FoundInit == ASSUME FoundConstants, PagesInit PROVE FoundIInv
<1>1. /\ page = "catalog" => Hub!CatalogInit
      /\ page = "picker"  => Picker!PickerInit
      /\ page = "trees"   => Trees!TreeInit
      /\ page = "reports" => ReportAdmin!AdminInit
      /\ page = "service" => Center!ServiceInit
  BY DEF PagesInit
<1> QED BY <1>1, HubInitIInv, PickerInitIInv, TreeInitIInv, ShelfInitIInv, ListInitIInv DEF FoundConstants, FoundIInv

LEMMA FoundStep == ASSUME FoundConstants, FoundIInv, [PagesNext]_<<page, partVars, slotVars>> PROVE FoundIInv'
<1>1. /\ page' = page
      /\ page = "catalog" => [Hub!CatalogNext]_(Hub!catalogVars)
      /\ page = "picker"  => [Picker!PickerNext]_(Picker!pickerVars)
      /\ page = "trees"   => [Trees!TreeNext]_(Trees!treeVars)
      /\ page = "reports" => [ReportAdmin!AdminNext]_(ReportAdmin!adminVars)
      /\ page = "service" => [Center!ServiceNext]_(Center!serviceVars)
  BY DEF PagesNext, slotVars, Hub!catalogVars, Picker!pickerVars, Trees!treeVars, ReportAdmin!adminVars, Center!serviceVars
<1> QED BY <1>1, HubStep, PickerStep, TreeStep, ShelfStep, ViewStep DEF FoundConstants, FoundIInv

\* The list of the catalogue is a beginning of what the server lists, page by page,
\* and "more" is offered as long as there is more; a search in a tree of folders shows
\* what it finds and the way to it; and a page of the requests is none that is empty,
\* for any forest of folders, any reports and requests and any size of a page.
THEOREM FoundHolds == ASSUME FoundConstants PROVE PagesSpec => []FoundIsShown
<1>1. FoundIInv => FoundIsShown
  BY RowsFollow, PickerFollows, TreeFollows, ShelfFollows, PageFollows
     DEF FoundIInv, FoundIsShown, FoundConstants, PickerConstants
<1>2. FoundIInv /\ [PagesNext]_<<page, partVars, slotVars>> => FoundIInv'
  BY FoundStep
<1> QED BY <1>1, <1>2, FoundInit, PTL DEF PagesSpec

-----------------------------------------------------------------------------
(* The types of the pages.                                                 *)

\* A page that is open stays open, and does nothing but its own steps.
LEMMA OnePage ==
  ASSUME [PagesNext]_<<page, partVars, slotVars>>
  PROVE  /\ page' = page
         /\ page = "view"    => [ViewNext]_viewVars
         /\ page = "embed"   => [EmbedNext]_embedVars
         /\ page = "notices" => [NoticesNext]_noticeVars
         /\ page = "folders" => [FavoriteNext]_favoriteVars
         /\ page = "mails"   => [MailFormNext]_mailFormVars
<1>1. CASE UNCHANGED <<page, partVars, slotVars>>
  BY <1>1 DEF partVars
<1>2. CASE PagesNext
  BY <1>2 DEF PagesNext
<1> QED BY <1>1, <1>2

LEMMA PartsBegin ==
  ASSUME PagesInit
  PROVE  ViewInit /\ EmbedInit /\ NoticesInit /\ FavoriteInit /\ MailFormInit
BY DEF PagesInit, PartsInit

\* The page that is open.
OnView == page = "view"
OnEmbed == page = "embed"
OnNotices == page = "notices"
OnFolders == page = "folders"
OnMails == page = "mails"

\* The parts of a page that have variables of their own.
LEMMA PartsTyped ==
  ASSUME EmbedConstants, MaxRuns \in Nat, FavoriteConstants
  PROVE  PagesSpec => []/\ OnView => ViewTypeOK
                        /\ OnEmbed => EmbedTypeOK
                        /\ OnNotices => NoticesTypeOK
                        /\ OnFolders => FavoriteTypeOK
                        /\ OnMails => MailFormTypeOK
<1>1. PagesSpec => [](OnView => ViewTypeOK)
  <2>1. PagesInit => ViewInit
    BY PartsBegin
  <2>2. [PagesNext]_<<page, partVars, slotVars>> /\ OnView => OnView' /\ [ViewNext]_viewVars
    BY OnePage DEF OnView
  <2>3. [PagesNext]_<<page, partVars, slotVars>> /\ ~OnView => (~OnView)'
    BY OnePage DEF OnView
  <2>4. PagesSpec /\ OnView => []OnView /\ ViewSpec
    BY <2>1, <2>2, PTL DEF PagesSpec, ViewSpec
  <2>5. PagesSpec /\ ~OnView => []~OnView
    BY <2>3, PTL DEF PagesSpec
  <2>6. ViewSpec => []ViewTypeOK
    BY VisitTypeCorrect
  <2> QED BY <2>4, <2>5, <2>6, PTL
<1>2. PagesSpec => [](OnEmbed => EmbedTypeOK)
  <2>1. PagesInit => EmbedInit
    BY PartsBegin
  <2>2. [PagesNext]_<<page, partVars, slotVars>> /\ OnEmbed => OnEmbed' /\ [EmbedNext]_embedVars
    BY OnePage DEF OnEmbed
  <2>3. [PagesNext]_<<page, partVars, slotVars>> /\ ~OnEmbed => (~OnEmbed)'
    BY OnePage DEF OnEmbed
  <2>4. PagesSpec /\ OnEmbed => []OnEmbed /\ EmbedSpec
    BY <2>1, <2>2, PTL DEF PagesSpec, EmbedSpec
  <2>5. PagesSpec /\ ~OnEmbed => []~OnEmbed
    BY <2>3, PTL DEF PagesSpec
  <2>6. EmbedSpec => []EmbedTypeOK
    <3>1. EmbedIInv => EmbedTypeOK
      BY DEF EmbedIInv
    <3>2. EmbedSpec => []EmbedIInv
      BY EmbedInvariance
    <3> QED BY <3>1, <3>2, PTL
  <2> QED BY <2>4, <2>5, <2>6, PTL
<1>3. PagesSpec => [](OnNotices => NoticesTypeOK)
  <2>1. PagesInit => NoticesInit
    BY PartsBegin
  <2>2. [PagesNext]_<<page, partVars, slotVars>> /\ OnNotices => OnNotices' /\ [NoticesNext]_noticeVars
    BY OnePage DEF OnNotices
  <2>3. [PagesNext]_<<page, partVars, slotVars>> /\ ~OnNotices => (~OnNotices)'
    BY OnePage DEF OnNotices
  <2>4. PagesSpec /\ OnNotices => []OnNotices /\ NoticesSpec
    BY <2>1, <2>2, PTL DEF PagesSpec, NoticesSpec
  <2>5. PagesSpec /\ ~OnNotices => []~OnNotices
    BY <2>3, PTL DEF PagesSpec
  <2>6. NoticesSpec => []NoticesTypeOK
    <3>1. NoticesIInv => NoticesTypeOK
      BY DEF NoticesIInv
    <3>2. NoticesSpec => []NoticesIInv
      BY NoticesInvariance
    <3> QED BY <3>1, <3>2, PTL
  <2> QED BY <2>4, <2>5, <2>6, PTL
<1>4. PagesSpec => [](OnFolders => FavoriteTypeOK)
  <2>1. PagesInit => FavoriteInit
    BY PartsBegin
  <2>2. [PagesNext]_<<page, partVars, slotVars>> /\ OnFolders => OnFolders' /\ [FavoriteNext]_favoriteVars
    BY OnePage DEF OnFolders
  <2>3. [PagesNext]_<<page, partVars, slotVars>> /\ ~OnFolders => (~OnFolders)'
    BY OnePage DEF OnFolders
  <2>4. PagesSpec /\ OnFolders => []OnFolders /\ FavoriteSpec
    BY <2>1, <2>2, PTL DEF PagesSpec, FavoriteSpec
  <2>5. PagesSpec /\ ~OnFolders => []~OnFolders
    BY <2>3, PTL DEF PagesSpec
  <2>6. FavoriteSpec => []FavoriteTypeOK
    BY FavoriteTypeCorrect
  <2> QED BY <2>4, <2>5, <2>6, PTL
<1>5. PagesSpec => [](OnMails => MailFormTypeOK)
  <2>1. PagesInit => MailFormInit
    BY PartsBegin
  <2>2. [PagesNext]_<<page, partVars, slotVars>> /\ OnMails => OnMails' /\ [MailFormNext]_mailFormVars
    BY OnePage DEF OnMails
  <2>3. [PagesNext]_<<page, partVars, slotVars>> /\ ~OnMails => (~OnMails)'
    BY OnePage DEF OnMails
  <2>4. PagesSpec /\ OnMails => []OnMails /\ MailFormSpec
    BY <2>1, <2>2, PTL DEF PagesSpec, MailFormSpec
  <2>5. PagesSpec /\ ~OnMails => []~OnMails
    BY <2>3, PTL DEF PagesSpec
  <2>6. MailFormSpec => []MailFormTypeOK
    <3>1. MailIInv => MailFormTypeOK
      BY DEF MailIInv, MailFormTypeOK, CompleteForm, SoundForm
    <3>2. MailFormSpec => []MailIInv
      BY MailInvariance
    <3> QED BY <3>1, <3>2, PTL
  <2> QED BY <2>4, <2>5, <2>6, PTL
<1> QED BY <1>1, <1>2, <1>3, <1>4, <1>5, PTL

-----------------------------------------------------------------------------
(* What the invariants of the pages leave open of their types.             *)

LEMMA PickerTyped ==
  ASSUME Picker!PickerTypeOK, [Picker!PickerNext]_(Picker!pickerVars) PROVE Picker!PickerTypeOK'
<1> USE DEF Picker!PickerTypeOK
<1>1. CASE \E f \in Branches : Picker!Toggle(f)
  <2>1. PICK f \in Branches : Picker!Toggle(f)
    BY <1>1
  <2> DEFINE S == Picker!SelectedFolderPath
             C == Picker!Closed
  <2>2. C \in SUBSET Branches
    BY DEF Picker!Closed
  <2>3. /\ sight' = [for |-> fields,
                     open |-> IF Picker!IsOpen(f) THEN sight.open \ {f} ELSE sight.open \cup {f},
                     closed |-> IF Picker!IsOpen(f) THEN C \cup ({f} \cap S) ELSE C \ {f}]
        /\ UNCHANGED <<fields, window>>
    BY <2>1 DEF Picker!Toggle
  <2> HIDE DEF S, C
  <2>4. /\ (IF Picker!IsOpen(f) THEN sight.open \ {f} ELSE sight.open \cup {f}) \in SUBSET Branches
        /\ (IF Picker!IsOpen(f) THEN C \cup ({f} \cap S) ELSE C \ {f}) \in SUBSET Branches
    BY <2>2
  <2> QED BY <2>3, <2>4
<1>2. CASE \E found \in {None} \cup SUBSET (Branches \cup Published) : Picker!Type(found)
  BY <1>2 DEF Picker!Type
<1>3. CASE \E r \in Published : Picker!Choose(r)
  BY <1>3 DEF Picker!Choose
<1>4. CASE UNCHANGED Picker!pickerVars
  BY <1>4 DEF Picker!pickerVars
<1> QED BY <1>1, <1>2, <1>3, <1>4 DEF Picker!PickerNext

LEMMA TreesTyped ==
  ASSUME Trees!TreeTypeOK, [Trees!TreeNext]_(Trees!treeVars) PROVE Trees!TreeTypeOK'
<1> USE DEF Trees!TreeTypeOK
<1>1. CASE \E found \in {None} \cup SUBSET Published : Trees!Type(found)
  BY <1>1 DEF Trees!Type
<1>2. CASE \E s \in Sources \cup {All} : Trees!Filter(s)
  BY <1>2 DEF Trees!Filter
<1>3. CASE \E f \in Branches : Trees!ToggleFolder(f)
  BY <1>3 DEF Trees!ToggleFolder
<1>4. ASSUME NEW set \in SUBSET Published, Trees!Choose(set) PROVE Trees!TreeTypeOK'
  BY <1>4 DEF Trees!Choose
<1>5. CASE \E f \in Branches : Trees!SelectAll(f)
  <2>1. PICK f \in Branches : Trees!SelectAll(f)
    BY <1>5
  <2> DEFINE own == {r \in Trees!Own(f) : Trees!Matches(r)}
  <2>2. own \in SUBSET Published
    BY DEF Trees!Own, Trees!Listed
  <2>3. Trees!Choose(IF own \subseteq save THEN save \ own ELSE save \cup own)
    BY <2>1 DEF Trees!SelectAll
  <2> HIDE DEF own
  <2> QED BY <1>4, <2>2, <2>3
<1>6. CASE \E r \in Published : Trees!ToggleReport(r)
  BY <1>4, <1>6 DEF Trees!ToggleReport
<1>7. CASE UNCHANGED Trees!treeVars
  BY <1>7 DEF Trees!treeVars
<1> QED BY <1>1, <1>2, <1>3, <1>5, <1>6, <1>7 DEF Trees!TreeNext

\* Not more pages of records are asked for than one more than the server gives: the
\* last of them is never drawn.
LifeTyped ==
  /\ save.action \in DOMAIN Recorded /\ save.pages \in 1..(ServedPages + 1)
  /\ window = "lifecycle" /\ list # None => list.key[2][2] <= ServedPages

LEMMA LifeStep ==
  ASSUME StatsConstants, ServedPages \in Nat, StatsIInv, LifeTyped, [Stats!StatsNext]_(Stats!statsVars)
  PROVE  LifeTyped'
<1>0. FiltersTyped /\ KeptFits
  BY DEF StatsIInv
<1>1. CASE UNCHANGED <<save, list, window>>
  BY <1>1 DEF LifeTyped
<1>2. CASE Stats!LoadMore
  <2>1. window = "lifecycle" /\ list # None /\ list.key = Stats!QueryKey
        /\ save' = [save EXCEPT !.pages = @ + 1] /\ UNCHANGED <<window, list>>
    BY <1>2 DEF Stats!LoadMore, Stats!Shown
  <2>2. list.key[2][2] = save.pages
    <3>1. KeyFor(window, fields, sight, draft, save)[2] = <<save.action, save.pages>>
      BY <2>1 DEF KeyFor
    <3> QED BY <1>0, <2>1, <3>1, KeyIsQueryKey
  <2>3. save.pages <= ServedPages /\ save.pages \in 1..(ServedPages + 1) /\ save \in Lives
    BY <1>0, <2>1, <2>2 DEF LifeTyped, FiltersTyped
  <2>4. save'.action = save.action /\ save'.pages = save.pages + 1
    BY <2>1, <2>3 DEF Lives
  <2>5. save'.pages \in 1..(ServedPages + 1)
    BY <2>3, <2>4
  <2> QED BY <2>1, <2>4, <2>5 DEF LifeTyped
<1>3. CASE Stats!Fetch
  <2>1. list'.key = KeyFor(window, fields, sight, draft, save) /\ UNCHANGED <<window, save>>
        /\ (window = "lifecycle" => save.pages <= ServedPages)
    BY <1>0, <1>3, KeyIsQueryKey DEF Stats!Fetch
  <2>2. window = "lifecycle" => KeyFor(window, fields, sight, draft, save)[2] = <<save.action, save.pages>>
    BY DEF KeyFor
  <2> QED BY <2>1, <2>2 DEF LifeTyped
<1>4. CASE \E t \in Stats!Tabs : Stats!SelectTab(t)
  BY <1>4 DEF Stats!SelectTab, LifeTyped
<1>5. CASE \E x \in Stats!Actions : Stats!SelectAction(x)
  BY <1>5 DEF Stats!SelectAction, Stats!Actions, LifeTyped
<1>6. CASE \/ Stats!ListArrives
           \/ \E p \in Periods : Stats!SetPeriod(p)
           \/ \E x \in Companies \cup {All} : Stats!SetCompany(x)
           \/ \E x \in Companies : Stats!CompanyCard(x)
           \/ \E r \in CountedReports \cup {All} : Stats!PickReport(r)
           \/ \E d \in Stats!Drills : Stats!Drill(d)
           \/ \E u \in {"day", "week", "month"} : Stats!SetUnit(u)
           \/ UNCHANGED Stats!statsVars
  BY <1>1, <1>6 DEF Stats!ListArrives, Stats!SetPeriod, Stats!SetCompany, Stats!CompanyCard, Stats!PickReport,
       Stats!Drill, Stats!SetUnit, Stats!statsVars
<1> QED BY <1>2, <1>3, <1>4, <1>5, <1>6 DEF Stats!StatsNext

LEMMA StatsTyped == ASSUME StatsIInv, LifeTyped PROVE Stats!StatsTypeOK
BY DEF StatsIInv, FiltersTyped, LifeTyped, Stats!StatsTypeOK, Filters, Units, Lives, Stats!Actions

\* The rows are runs with their status, and so is what an export has of an earlier table.
RowsTyped == \A i \in DOMAIN sight : sight[i] \in Refreshes \X Monitor!Statuses

LEMMA DrawnTyped == ASSUME MonitorConstants, MonitorIInv, Monitor!Drawn \/ RowsTyped PROVE RowsTyped
<1> SUFFICES ASSUME Monitor!Drawn PROVE RowsTyped
  OBVIOUS
<1>1. sight = Monitor!VisibleRows
  BY DEF MonitorIInv, RowsFit
<1>2. \A i \in DOMAIN Monitor!VisibleRows : Monitor!VisibleRows[i] \in Monitor!Visible
  BY RowsSorted DEF MonitorIInv
<1>3. Monitor!Visible \in SUBSET (Refreshes \X Monitor!Statuses)
  BY SelectionIs DEF Monitor!Visible, AnswersKept, AnswersTo, MonitorIInv
<1> QED BY <1>1, <1>2, <1>3 DEF RowsTyped

LEMMA RowsStep ==
  ASSUME MonitorConstants, MonitorIInv, Monitor!Drawn \/ RowsTyped, [Monitor!MonitorNext]_(Monitor!monitorVars)
  PROVE  Monitor!Drawn' \/ RowsTyped'
<1>1. Monitor!Drawn' \/ sight' = sight \/ sight' = <<>>
  <2>1. CASE Monitor!Draw
    BY <2>1 DEF Monitor!Draw
  <2>2. CASE Monitor!Reopen
    BY <2>2 DEF Monitor!Reopen
  <2>3. CASE UNCHANGED Monitor!monitorVars
    BY <2>3 DEF Monitor!monitorVars
  <2> QED BY <2>1, <2>2, <2>3 DEF Monitor!MonitorNext, Monitor!Refetch, Monitor!Read, Monitor!Arrives,
       Monitor!Fails, Monitor!ShowAll, Monitor!DropSlot, Monitor!FailedOnly, Monitor!SortBy, Monitor!Table,
       Monitor!ChooseDay, Monitor!ChooseStatus, Monitor!LatestDate, Monitor!Select, Monitor!Exclude,
       Monitor!PickSlot, Monitor!Collected, Monitor!Forget
<1> QED BY <1>1, DrawnTyped DEF RowsTyped

LEMMA MonitorIsTyped == ASSUME MonitorConstants, MonitorIInv, Monitor!Drawn \/ RowsTyped PROVE Monitor!MonitorTypeOK
<1>1. /\ server \in [Refreshes -> Monitor!Statuses \cup {None}]
      /\ fields.day \in RefreshDays /\ fields.status \in {All, "failed"} /\ fields.ready \in BOOLEAN
  BY DEF MonitorIInv, MonitorTyped, Filter
<1>2. /\ \A s \in Monitor!Selections : list[s] = None \/ list[s] \in Monitor!Answers
      /\ jobs \in {None, Asked} \/ jobs \in Monitor!Answers
  BY DEF MonitorIInv, AnswersKept, AnswersTo, Monitor!Answers
<1>3. RowsTyped
  BY DrawnTyped
<1> QED BY <1>1, <1>2, <1>3 DEF Monitor!MonitorTypeOK, RowsTyped

LEMMA CatalogTyped == ASSUME HubIInv PROVE Hub!CatalogTypeOK
BY DEF HubIInv, Hub!CatalogTypeOK, Addresses

LEMMA PeriodsTyped == ASSUME PeriodIInv PROVE Weeks!PeriodsTypeOK
BY DEF PeriodIInv, Weeks!PeriodsTypeOK

LEMMA TimelineTyped == ASSUME TimelineIInv PROVE Timeline!TimelineTypeOK
BY DEF TimelineIInv, ClockTyped, RunsPast, AnswersFit, TipFits, Timeline!TimelineTypeOK

LEMMA BoardsTyped == ASSUME BoardIInv PROVE BoardAdmin!BoardTypeOK
BY DEF BoardIInv, Stock, PageTyped, BoardAdmin!BoardTypeOK

\* What is closed in the tree of the reports are folders.
ClosedTyped == window \in [found : {window.found}, closed : SUBSET Shelves]

LEMMA ClosedStep ==
  ASSUME ClosedTyped, [ReportAdmin!AdminNext]_(ReportAdmin!adminVars) PROVE ClosedTyped'
<1>1. CASE UNCHANGED window
  BY <1>1 DEF ClosedTyped
<1>2. CASE \E found \in {None} \cup SUBSET (Shelves \cup Published) : ReportAdmin!Search(found)
  BY <1>2 DEF ReportAdmin!Search, ClosedTyped
<1>3. CASE \E f \in Shelves : ReportAdmin!Toggle(f)
  BY <1>3 DEF ReportAdmin!Toggle, ClosedTyped
<1> QED BY <1>1, <1>2, <1>3 DEF ReportAdmin!AdminNext, ReportAdmin!adminVars, ReportAdmin!Refetch,
     ReportAdmin!Swap, ReportAdmin!Ranked, ReportAdmin!RankFails, ReportAdmin!Cancel, ReportAdmin!Submit,
     ReportAdmin!Saved, ReportAdmin!SaveFails, ReportAdmin!OpenEdit, ReportAdmin!Type, ReportAdmin!Delete,
     ReportAdmin!Elsewhere, ReportAdmin!Upload, ReportAdmin!Imported, ReportAdmin!CreateFolder,
     ReportAdmin!DeleteFolder

LEMMA ReportsAreTyped == ASSUME ShelfIInv, ClosedTyped PROVE ReportAdmin!AdminTypeOK
<1>1. /\ \A r \in Published : server[r] \in ReportAdmin!Report \cup {None}
                              /\ list.reports[r] \in ReportAdmin!Report \cup {None}
      /\ sight \in SUBSET Shelves /\ list.folders \in SUBSET Shelves
  BY DEF ShelfIInv, ReportIInv, ReportsTyped, ReportTable
<1>2. \A w \in jobs : w.kind \in {"order", "save", "import"}
  BY DEF ShelfIInv, ReportIInv, ReportsTyped, ReportWork, OrderWork
<1>3. \A f \in sight : ParentOf[f] \in sight \cup {None}
  BY DEF ShelfIInv, Closed
<1>4. window.closed \in SUBSET Shelves
  BY DEF ClosedTyped
<1> QED BY <1>1, <1>2, <1>3, <1>4 DEF ReportAdmin!AdminTypeOK

\* No page is chosen behind the last one there could be.
PageBounded == sight.page <= Cardinality(Requests)

LEMMA PageStep ==
  ASSUME ListConstants, ListIInv, PageBounded, [Center!ServiceNext]_(Center!serviceVars)
  PROVE  PageBounded'
<1> DEFINE n == Cardinality(Requests)
<1>1. n \in Nat /\ 1 <= n
  <2>1. n \in Nat /\ (n = 0 <=> Requests = {})
    BY FS_CardinalityType, FS_EmptySet DEF ListConstants
  <2>2. Requests # {}
    BY DEF ListConstants, RequestConstants
  <2> QED BY <2>1, <2>2
<1> HIDE DEF n
<1>2. sight.page \in Nat /\ sight.page <= n
  BY DEF ListIInv, ListViews, PageBounded, n
<1>3. ASSUME Center!Following PROVE sight'.page <= n
  <2> DEFINE c == Cardinality(Center!Filtered)
             k == Center!CurPage
             m == Center!PageCount
  <2>1. /\ IsFiniteSet(Center!Filtered) /\ m \in Nat \ {0} /\ k \in Nat \ {0}
        /\ (Center!Filtered # {} => (m - 1) * RequestPage < c)
        /\ (Center!Filtered = {} => m = 1)
    BY PageThere DEF Center!PageCount
  <2>2. k < m /\ sight' = [sight EXCEPT !.page = k + 1]
    BY <1>3 DEF Center!Following, Center!View
  <2>3. c \in Nat /\ c <= n
    <3>1. Center!Filtered \in SUBSET Requests
      BY DEF Center!Filtered
    <3> QED BY <3>1, FS_Subset, FS_CardinalityType DEF ListConstants, n
  <2> HIDE DEF c, k, m
  <2>4. Center!Filtered # {}
    BY <2>1, <2>2
  <2>5. m - 1 <= (m - 1) * RequestPage
    <3>1. \A x \in Nat, y \in Nat \ {0} : x <= x * y
      OBVIOUS
    <3>2. m - 1 \in Nat /\ RequestPage \in Nat \ {0}
      BY <2>1 DEF ListConstants
    <3> QED BY <3>1, <3>2
  <2>6. (m - 1) * RequestPage \in Int
    BY <2>1 DEF ListConstants
  <2>7. k + 1 <= n
    BY <1>1, <2>1, <2>2, <2>3, <2>4, <2>5, <2>6
  <2>8. sight'.page = k + 1
    BY <2>2 DEF ListIInv, ListViews
  <2> QED BY <2>7, <2>8
<1>4. ASSUME Center!Previous PROVE sight'.page <= n
  <2>1. /\ Center!CurPage \in Nat \ {0} /\ Center!CurPage <= sight.page
        /\ sight' = [sight EXCEPT !.page = Center!CurPage - 1]
    <3>1. Center!CurPage = IF sight.page <= Center!PageCount THEN sight.page ELSE Center!PageCount
      BY DEF Center!CurPage
    <3>2. Center!PageCount \in Nat \ {0} /\ Center!CurPage \in Nat \ {0}
      BY PageThere
    <3> QED BY <1>2, <1>4, <3>1, <3>2 DEF Center!Previous, Center!View
  <2>2. sight'.page = Center!CurPage - 1
    BY <2>1 DEF ListIInv, ListViews
  <2> QED BY <1>1, <1>2, <2>1, <2>2
<1>5. ASSUME \/ Center!TypeSearch \/ Center!ApplySearch \/ Center!ResetFilters
             \/ \E s \in Center!Status \cup {None} : Center!FilterStatus(s)
      PROVE  sight'.page \in {1, sight.page}
  <2>1. CASE Center!TypeSearch
    <3>1. sight' = [sight EXCEPT !.typed = ~@]
      BY <2>1 DEF Center!TypeSearch, Center!View
    <3> QED BY <3>1 DEF ListIInv, ListViews
  <2>2. CASE Center!ResetFilters
    BY <2>2 DEF Center!ResetFilters, Center!View
  <2>3. CASE Center!ApplySearch
    <3> DEFINE v == [sight EXCEPT !.applied = sight.typed]
    <3>1. sight' = [v EXCEPT !.page = 1]
      BY <2>3 DEF Center!ApplySearch, Center!View
    <3>2. "page" \in DOMAIN v
      BY DEF ListIInv, ListViews
    <3> HIDE DEF v
    <3> QED BY <3>1, <3>2
  <2>4. ASSUME NEW s \in Center!Status \cup {None}, Center!FilterStatus(s) PROVE sight'.page = 1
    <3> DEFINE v == [sight EXCEPT !.status = s]
    <3>1. sight' = [v EXCEPT !.page = 1]
      BY <2>4 DEF Center!FilterStatus, Center!View
    <3>2. "page" \in DOMAIN v
      BY DEF ListIInv, ListViews
    <3> HIDE DEF v
    <3> QED BY <3>1, <3>2
  <2> QED BY <1>5, <2>1, <2>2, <2>3, <2>4
<1>6. ASSUME UNCHANGED sight PROVE sight'.page <= n
  BY <1>2, <1>6
<1>7. CASE Center!ServiceNext /\ ~(Center!TypeSearch \/ Center!ApplySearch \/ Center!ResetFilters)
           /\ ~Center!Previous /\ ~Center!Following /\ ~ \E s \in Center!Status \cup {None} : Center!FilterStatus(s)
  <2>1. UNCHANGED sight
    BY <1>7, OtherwiseSeen
  <2> QED BY <1>6, <2>1 DEF PageBounded, n
<1>8. CASE UNCHANGED Center!serviceVars
  BY <1>6, <1>8 DEF Center!serviceVars, PageBounded, n
<1> QED BY <1>1, <1>2, <1>3, <1>4, <1>5, <1>7, <1>8 DEF PageBounded, n

LEMMA ServiceIsTyped == ASSUME ListConstants, CenterIInv, ListIInv, PageBounded PROVE Center!ServiceTypeOK
<1>1. /\ server \in [Requests -> Center!Request \cup {None}]
      /\ list \in [Requests -> Center!Status \cup {None}]
      /\ fields.files \in 0..MaxFiles
      /\ window.id \in Requests \cup {None} /\ window.status \in Center!Status \cup {None}
      /\ save \in [Requests -> 0..MaxFiles \cup {None}]
  BY DEF CenterIInv, CenterTyped
<1>2. sight.status \in Center!Status \cup {None} /\ sight.page \in Nat \ {0}
  BY DEF ListIInv, ListViews
<1>3. Cardinality(Requests) \in Nat /\ Center!Cardinality(Requests) = Cardinality(Requests)
  BY CenterWords, FS_CardinalityType DEF ListConstants
<1>4. sight.page \in 1..Center!Cardinality(Requests)
  BY <1>2, <1>3 DEF PageBounded
<1> QED BY <1>1, <1>2, <1>4 DEF Center!ServiceTypeOK

-----------------------------------------------------------------------------
(* The types of the pages together.                                        *)

\* There are a request and a group of the number 1, and an account has an e-mail: with
\* them the pages begin.
TypedConstants ==
  /\ FilterConstants /\ FoundConstants /\ StoredConstants /\ EmbedConstants /\ FavoriteConstants
  /\ MaxRuns \in Nat /\ ServedPages \in Nat
  /\ 1 \in GroupIds /\ Emails # {}

\* What the invariants of the pages leave open of their types.
SlotsTyped ==
  /\ page \in {"view", "embed", "notices", "folders", "mails", "catalog", "picker", "trees", "stats", "periods",
               "monitor", "timeline", "reports", "boards", "groups", "users", "service"}
  /\ page = "picker"  => Picker!PickerTypeOK
  /\ page = "trees"   => Trees!TreeTypeOK
  /\ page = "stats"   => LifeTyped
  /\ page = "monitor" => Monitor!Drawn \/ RowsTyped
  /\ page = "reports" => ClosedTyped
  /\ page = "groups"  => GroupKept
  /\ page = "users"   => UserKept
  /\ page = "service" => PageBounded

TypedIInv == FilterIInv /\ FoundIInv /\ StoredIInv /\ SlotsTyped

LEMMA SlotsBegin == ASSUME TypedConstants, PagesInit PROVE SlotsTyped
<1>1. /\ page = "picker"  => Picker!PickerInit
      /\ page = "trees"   => Trees!TreeInit
      /\ page = "stats"   => Stats!StatsInit
      /\ page = "monitor" => Monitor!MonitorInit
      /\ page = "reports" => ReportAdmin!AdminInit
      /\ page = "groups"  => TeamRights!GroupInit
      /\ page = "users"   => Accounts!UserInit
      /\ page = "service" => Center!ServiceInit
  BY DEF PagesInit
<1>2. page \in {"view", "embed", "notices", "folders", "mails", "catalog", "picker", "trees", "stats", "periods",
                "monitor", "timeline", "reports", "boards", "groups", "users", "service"}
  BY DEF PagesInit
<1>3. Picker!PickerInit => Picker!PickerTypeOK
  BY DEF Picker!PickerInit, Picker!PickerTypeOK
<1>4. Trees!TreeInit => Trees!TreeTypeOK
  <2> SUFFICES ASSUME Trees!TreeInit PROVE Trees!TreeTypeOK
    OBVIOUS
  <2>1. server \in [Sources -> SUBSET Published]
    BY DEF Trees!TreeInit
  <2>2. list \in SUBSET Published
    BY DEF Trees!TreeInit
  <2> QED BY <2>1, <2>2 DEF Trees!TreeInit, Trees!TreeTypeOK
<1>5. Stats!StatsInit => LifeTyped
  <2> SUFFICES ASSUME Stats!StatsInit PROVE LifeTyped
    OBVIOUS
  <2>1. save.action = All /\ save.pages = 1 /\ list = None
    BY DEF Stats!StatsInit
  <2>2. All \in DOMAIN Recorded /\ ServedPages \in Nat
    BY DEF TypedConstants, FilterConstants, StatsConstants
  <2>3. 1 \in 1..(ServedPages + 1)
    BY <2>2
  <2> QED BY <2>1, <2>2, <2>3 DEF LifeTyped
<1>6. Monitor!MonitorInit => RowsTyped
  BY DEF Monitor!MonitorInit, RowsTyped
<1>7. ReportAdmin!AdminInit => ClosedTyped
  BY DEF ReportAdmin!AdminInit, ClosedTyped
<1>8. Center!ServiceInit => PageBounded
  <2>1. Cardinality(Requests) \in Nat /\ (Cardinality(Requests) = 0 <=> Requests = {}) /\ Requests # {}
    BY FS_CardinalityType, FS_EmptySet DEF TypedConstants, FoundConstants, ListConstants, RequestConstants
  <2> QED BY <2>1 DEF Center!ServiceInit, PageBounded
<1> QED BY <1>1, <1>2, <1>3, <1>4, <1>5, <1>6, <1>7, <1>8, GroupInitKept, UserInitKept DEF SlotsTyped, TypedConstants

LEMMA SlotsStep ==
  ASSUME TypedConstants, TypedIInv, [PagesNext]_<<page, partVars, slotVars>> PROVE SlotsTyped'
<1>1. /\ page' = page
      /\ page = "picker"  => [Picker!PickerNext]_(Picker!pickerVars)
      /\ page = "trees"   => [Trees!TreeNext]_(Trees!treeVars)
      /\ page = "stats"   => [Stats!StatsNext]_(Stats!statsVars)
      /\ page = "monitor" => [Monitor!MonitorNext]_(Monitor!monitorVars)
  BY DEF PagesNext, slotVars, Picker!pickerVars, Trees!treeVars, Stats!statsVars, Monitor!monitorVars
<1>2. /\ page = "reports" => [ReportAdmin!AdminNext]_(ReportAdmin!adminVars)
      /\ page = "groups"  => [TeamRights!GroupNext]_(TeamRights!groupVars)
      /\ page = "users"   => [Accounts!UserNext]_(Accounts!userVars)
      /\ page = "service" => [Center!ServiceNext]_(Center!serviceVars)
  BY DEF PagesNext, slotVars, ReportAdmin!adminVars, TeamRights!groupVars, Accounts!userVars, Center!serviceVars
<1>3. /\ StatsConstants /\ MonitorConstants /\ ListConstants /\ GroupConstants /\ UserConstants
      /\ ServedPages \in Nat
  BY DEF TypedConstants, FilterConstants, FoundConstants, StoredConstants
<1>4. /\ page = "stats"   => StatsIInv /\ LifeTyped
      /\ page = "monitor" => MonitorIInv /\ (Monitor!Drawn \/ RowsTyped)
      /\ page = "groups"  => GroupIInv /\ GroupKept
      /\ page = "users"   => UserIInv /\ UserKept
      /\ page = "service" => ListIInv /\ PageBounded
      /\ page = "picker"  => Picker!PickerTypeOK
      /\ page = "trees"   => Trees!TreeTypeOK
      /\ page = "reports" => ClosedTyped
  BY DEF TypedIInv, FilterIInv, FoundIInv, StoredIInv, SlotsTyped
<1>5. /\ page = "picker"  => Picker!PickerTypeOK'
      /\ page = "trees"   => Trees!TreeTypeOK'
      /\ page = "stats"   => LifeTyped'
      /\ page = "monitor" => Monitor!Drawn' \/ RowsTyped'
  BY <1>1, <1>3, <1>4, PickerTyped, TreesTyped, LifeStep, RowsStep
<1>6. /\ page = "reports" => ClosedTyped'
      /\ page = "groups"  => GroupKept'
      /\ page = "users"   => UserKept'
      /\ page = "service" => PageBounded'
  BY <1>2, <1>3, <1>4, ClosedStep, GroupKeptStep, UserKeptStep, PageStep
<1> QED BY <1>1, <1>5, <1>6 DEF SlotsTyped, TypedIInv

LEMMA SlotsFollow ==
  ASSUME TypedConstants, TypedIInv,
         OnView => ViewTypeOK, OnEmbed => EmbedTypeOK, OnNotices => NoticesTypeOK,
         OnFolders => FavoriteTypeOK, OnMails => MailFormTypeOK
  PROVE  PagesTypeOK
<1>1. /\ page = "view"    => ViewTypeOK
      /\ page = "embed"   => EmbedTypeOK
      /\ page = "notices" => NoticesTypeOK
      /\ page = "folders" => FavoriteTypeOK
      /\ page = "mails"   => MailFormTypeOK
  BY DEF OnView, OnEmbed, OnNotices, OnFolders, OnMails
<1>2. MonitorConstants /\ ListConstants
  BY DEF TypedConstants, FilterConstants, FoundConstants
<1>3. /\ page = "stats"    => Stats!StatsTypeOK
      /\ page = "periods"  => Weeks!PeriodsTypeOK
      /\ page = "monitor"  => Monitor!MonitorTypeOK
      /\ page = "timeline" => Timeline!TimelineTypeOK
  BY <1>2, StatsTyped, PeriodsTyped, MonitorIsTyped, TimelineTyped DEF TypedIInv, FilterIInv, SlotsTyped
<1>4. /\ page = "catalog" => Hub!CatalogTypeOK
      /\ page = "picker"  => Picker!PickerTypeOK
      /\ page = "trees"   => Trees!TreeTypeOK
      /\ page = "reports" => ReportAdmin!AdminTypeOK
  BY CatalogTyped, ReportsAreTyped DEF TypedIInv, FoundIInv, SlotsTyped
<1>5. /\ page = "boards"  => BoardAdmin!BoardTypeOK
      /\ page = "groups"  => TeamRights!GroupTypeOK
      /\ page = "users"   => Accounts!UserTypeOK
      /\ page = "service" => Center!ServiceTypeOK
  BY <1>2, BoardsTyped, GroupsAreTyped, UsersAreTyped, ServiceIsTyped
     DEF TypedIInv, FoundIInv, StoredIInv, SlotsTyped
<1>6. page \in {"view", "embed", "notices", "folders", "mails", "catalog", "picker", "trees", "stats", "periods",
                "monitor", "timeline", "reports", "boards", "groups", "users", "service"}
  BY DEF TypedIInv, SlotsTyped
<1>7. CASE page \in {"view", "embed", "notices", "folders", "mails"}
  BY <1>1, <1>7 DEF PagesTypeOK
<1>8. CASE page \in {"stats", "periods", "monitor", "timeline"}
  BY <1>3, <1>8 DEF PagesTypeOK
<1>9. CASE page \in {"catalog", "picker", "trees", "reports"}
  BY <1>4, <1>9 DEF PagesTypeOK
<1>10. CASE page \in {"boards", "groups", "users", "service"}
  BY <1>5, <1>10 DEF PagesTypeOK
<1> QED BY <1>6, <1>7, <1>8, <1>9, <1>10

\* Whatever page is open, its variables keep to their types, and the variables that
\* pages share are, on each of them, of the types it names: for any reports, folders,
\* people, runs and requests there are, and any bound on what is under way.
THEOREM PagesTypeCorrect == ASSUME TypedConstants PROVE PagesSpec => []PagesTypeOK
<1>1. PagesInit => TypedIInv
  BY FilterInit, FoundInit, StoredInit, SlotsBegin DEF TypedIInv, TypedConstants
<1>2. TypedIInv /\ [PagesNext]_<<page, partVars, slotVars>> => TypedIInv'
  BY FilterStep, FoundStep, StoredStep, SlotsStep DEF TypedIInv, TypedConstants
<1>3. PagesSpec => []TypedIInv
  BY <1>1, <1>2, PTL DEF PagesSpec
<1>4. PagesSpec => []/\ OnView => ViewTypeOK
                     /\ OnEmbed => EmbedTypeOK
                     /\ OnNotices => NoticesTypeOK
                     /\ OnFolders => FavoriteTypeOK
                     /\ OnMails => MailFormTypeOK
  BY PartsTyped DEF TypedConstants
<1>5. /\ TypedIInv
      /\ OnView => ViewTypeOK
      /\ OnEmbed => EmbedTypeOK
      /\ OnNotices => NoticesTypeOK
      /\ OnFolders => FavoriteTypeOK
      /\ OnMails => MailFormTypeOK
      => PagesTypeOK
  BY SlotsFollow
<1> QED BY <1>3, <1>4, <1>5, PTL
=============================================================================
