--------------------------- MODULE StatsDashboard ---------------------------
(***************************************************************************)
(* The statistics page: filters that narrow what is counted, tabs that     *)
(* draw it, and the query cache between the two, in which an answer is     *)
(* found again by the key it was asked under.  An operator sees all        *)
(* companies; another user sees the reports granted for statistics, on one *)
(* page without tabs.                                                      *)
(***************************************************************************)
EXTENDS Naturals

CONSTANTS
  Companies, Reports, CompanyOf,   \* CompanyOf \in [Reports -> Companies]
  Departments, People, Periods,
  All, None,
  Recorded,      \* pages of lifecycle records, by action or All
  ServedPages    \* what the server gives at most: 1000 records in pages of 200

VARIABLES
  operator,   \* System_Operator
  tab,
  filters,    \* company, detailReportId and the dates
  drill,      \* detailDept or detailUser
  unit,       \* granularity
  life,       \* lifecycleAction, lifecycleLimit
  ready,      \* the reports of the company are loaded
  kept        \* an answer in the query cache, None if there is none to follow

statsVars == <<operator, tab, filters, drill, unit, life, ready, kept>>

\* The tabs of teams, users, reports and insights ask as the main one does.
Tabs == {"main", "lifecycle", "trends", "detail"}
Actions == DOMAIN Recorded
Drills == [who : {"department"}, id : Departments \cup {None}] \cup [who : {"user"}, id : People]

StatsTypeOK ==
  /\ operator \in BOOLEAN /\ ready \in BOOLEAN
  /\ tab \in IF operator THEN Tabs ELSE {"own"}
  /\ filters \in [company : Companies \cup {All}, report : Reports \cup {All}, period : Periods]
  /\ drill \in Drills \cup {None}
  /\ unit \in {"day", "week", "month"}
  /\ life \in [action : Actions, pages : 1..(ServedPages + 1)]

StatsInit ==
  /\ operator \in BOOLEAN
  /\ tab = IF operator THEN "main" ELSE "own"
  /\ filters \in [company : {All}, report : {All}, period : Periods]
  /\ drill = None /\ unit = "month" /\ life = [action |-> All, pages |-> 1]
  /\ ready = FALSE /\ kept = None

-----------------------------------------------------------------------------
(* Queries.                                                                *)

ReportsOf(x) == {r \in Reports : x = All \/ CompanyOf[r] = x}

\* Mutant: the key leaves the user out.
DepartmentKey == <<IF drill = None \/ drill.who = "user" THEN "" ELSE drill.id, "">>

\* deptFilterKey, and the user
DrillKey ==
  <<IF drill = None \/ drill.who = "user" THEN "" ELSE IF drill.id = None THEN "none" ELSE drill.id,
    IF drill = None \/ drill.who = "department" THEN "" ELSE drill.id>>

PK == IF operator THEN <<filters.report, filters.period, filters.company>> ELSE <<filters.report, filters.period>>

\* The page, its own part, and the filters; each part has a length for each page.
QueryKey ==
  <<tab, CASE tab = "lifecycle" -> <<life.action, life.pages>>
           [] tab = "trends"    -> <<unit>>
           [] tab = "detail"    -> DrillKey
           [] tab = "own"       -> IF drill = None THEN <<>> ELSE DrillKey
           [] OTHER             -> <<>>, PK>>

\* What is asked of the server: deptFilterQuery takes the department that is not
\* known to a flag.
Request ==
  [of |-> filters,
   drill |-> IF tab \in {"detail", "own"} THEN drill ELSE None,
   by |-> CASE tab = "lifecycle" -> life [] tab = "trends" -> unit [] OTHER -> None]

\* Both filters are applied to the reports that are counted.
Counted == ReportsOf(filters.company) \cap (IF filters.report = All THEN Reports ELSE {filters.report})

Shown == IF kept # None /\ kept.key = QueryKey THEN kept.asked ELSE None

\* The pages of records that an answer has brought.
Brought == IF life.pages < Recorded[life.action] THEN life.pages ELSE Recorded[life.action]

-----------------------------------------------------------------------------
(* Actions.                                                                *)

\* Mutant: it stays.
Unpruned(f, loaded) == f

\* The report is dropped when the reports of the company come without it.
Pruned(f, loaded) == IF loaded /\ f.report \notin ReportsOf(f.company) THEN [f EXCEPT !.report = All] ELSE f

\* Answers of one tab are not found under a key of another.
SelectTab(t) ==
  /\ operator /\ t # tab /\ tab' = t /\ kept' = None
  /\ UNCHANGED <<operator, filters, drill, unit, life, ready>>

SetPeriod(p) ==
  /\ p # filters.period /\ filters' = [filters EXCEPT !.period = p]
  /\ UNCHANGED <<operator, tab, drill, unit, life, ready, kept>>

\* In the filter the report is dropped; the cards of the summary leave it to the
\* list of reports, which may be in the cache.
SetCompany(x) ==
  /\ operator /\ x # filters.company
  /\ ready' \in BOOLEAN
  /\ filters' = [filters EXCEPT !.company = x, !.report = All]
  /\ UNCHANGED <<operator, tab, drill, unit, life, kept>>

CompanyCard(x) ==
  /\ operator /\ tab = "main"
  /\ ready' \in BOOLEAN
  /\ filters' = Pruned([filters EXCEPT !.company = IF x = filters.company THEN All ELSE x], ready')
  /\ UNCHANGED <<operator, tab, drill, unit, life, kept>>

ListArrives ==
  /\ ~ready /\ ready' = TRUE
  /\ filters' = Pruned(filters, TRUE)
  /\ UNCHANGED <<operator, tab, drill, unit, life, kept>>

\* The operator's choice of a department or a user stays for another report.
PickReport(r) ==
  /\ ready /\ r \in ReportsOf(filters.company) \cup {All} /\ r # filters.report
  /\ filters' = [filters EXCEPT !.report = r]
  /\ drill' = IF operator THEN drill ELSE None
  /\ UNCHANGED <<operator, tab, unit, life, ready, kept>>

\* A second click, or the button, takes the choice back.
Drill(d) ==
  /\ tab \in {"detail", "own"} /\ (tab = "own" => ready)
  /\ drill' = IF d = drill THEN None ELSE d
  /\ UNCHANGED <<operator, tab, filters, unit, life, ready, kept>>

SetUnit(u) ==
  /\ tab = "trends" /\ u # unit /\ unit' = u
  /\ UNCHANGED <<operator, tab, filters, drill, life, ready, kept>>

SelectAction(x) ==
  /\ tab = "lifecycle" /\ Shown # None /\ x # life.action
  /\ life' = [action |-> x, pages |-> 1]
  /\ UNCHANGED <<operator, tab, filters, drill, unit, ready, kept>>

\* The whole list is asked for again, with one page more.
LoadMore ==
  /\ tab = "lifecycle" /\ Shown # None /\ Brought < Recorded[life.action]
  /\ life' = [life EXCEPT !.pages = @ + 1]
  /\ UNCHANGED <<operator, tab, filters, drill, unit, ready, kept>>

\* An answer comes into the cache, or it is the one that is followed from now on.
\* More records than the server gives are refused.
Fetch ==
  /\ operator \/ ready
  /\ tab = "lifecycle" => life.pages <= ServedPages
  /\ kept' = [key |-> QueryKey, asked |-> Request]
  /\ UNCHANGED <<operator, tab, filters, drill, unit, life, ready>>

StatsNext ==
  \/ ListArrives \/ LoadMore \/ Fetch
  \/ \E t \in Tabs : SelectTab(t)
  \/ \E p \in Periods : SetPeriod(p)
  \/ \E x \in Companies \cup {All} : SetCompany(x)
  \/ \E x \in Companies : CompanyCard(x)
  \/ \E r \in Reports \cup {All} : PickReport(r)
  \/ \E d \in Drills : Drill(d)
  \/ \E u \in {"day", "week", "month"} : SetUnit(u)
  \/ \E x \in Actions : SelectAction(x)

StatsSpec == StatsInit /\ [][StatsNext]_statsVars

-----------------------------------------------------------------------------
(* Properties.                                                             *)

\* What is drawn was asked for with the filters, the department or user and the
\* unit that are on the screen, whenever it came; and the company and the report
\* that are chosen never leave nothing to count, once the reports are listed.
StatsFitFilters ==
  /\ Shown # None => Shown = Request
  /\ ready /\ filters.report # All => Counted # {}
=============================================================================
