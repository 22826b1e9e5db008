---------------------------- MODULE ReportNotices ----------------------------
(***************************************************************************)
(* What the view page says about the refreshes of the report's dataset,    *)
(* and what it lets the user do about them: the button that starts one,    *)
(* the banner that offers new data, the notice of a failure; and the       *)
(* dialog that replaces the report's file.                                 *)
(*                                                                         *)
(* The runs of the dataset are numbered; the end of run n is time n.       *)
(***************************************************************************)
EXTENDS Naturals

CONSTANTS MaxRuns  \* bounds the refreshes of the dataset

VARIABLES
  dataset,    \* the dataset at the server: the last run, and the last that completed
  live,       \* the last answer of the live status
  wasRunning, \* prevInProgress
  screen,     \* whether the report has queried its data, the run they are of,
              \* when it was rendered, and, a history, the runs that completed
              \* in between
  applied,    \* appliedEndTime: the run the user has applied or dismissed
  notice,     \* the notice of a failure, and its timers
  pending,    \* requests under way: to refresh, to upload
  dialog      \* the dialog that replaces the report

noticeVars == <<dataset, live, wasRunning, screen, applied, notice, pending, dialog>>

Statuses == {"None", "Unknown", "Completed", "Failed"}
Runs     == 0..MaxRuns

Screen == [queried : BOOLEAN, data : Runs, rendered : BOOLEAN, at : Runs, missed : SUBSET Runs]
Dialog == [open : BOOLEAN, file : BOOLEAN]

NoticesTypeOK ==
  /\ dataset \in [run : Runs, status : Statuses, data : Runs]
  /\ live \in [run : Runs, status : Statuses]
  /\ wasRunning \in BOOLEAN
  /\ screen \in Screen
  /\ applied \in Runs
  /\ notice \in [shown : BOOLEAN, show : BOOLEAN, clear : BOOLEAN]
  /\ pending \subseteq {"refresh", "upload"}
  /\ dialog \in Dialog

NoticesInit ==
  /\ dataset = [run |-> 0, status |-> "None", data |-> 0]
  /\ live = [run |-> 0, status |-> "None"]
  /\ wasRunning = FALSE
  /\ screen = [queried |-> FALSE, data |-> 0, rendered |-> FALSE, at |-> 0, missed |-> {}]
  /\ applied = 0
  /\ notice = [shown |-> FALSE, show |-> FALSE, clear |-> FALSE]
  /\ pending = {}
  /\ dialog = [open |-> FALSE, file |-> FALSE]

-----------------------------------------------------------------------------
(* What the page derives from the live status.                             *)

InProgress == live.status = "Unknown"
Refreshing == "refresh" \in pending \/ InProgress

\* The completed run the banner speaks of, 0 for none.
NewDataEnd == IF live.status = "Completed" THEN live.run ELSE 0

NewDataAvailable ==
  /\ NewDataEnd > 0 /\ ~Refreshing
  /\ screen.rendered /\ NewDataEnd > screen.at
  /\ NewDataEnd # applied

-----------------------------------------------------------------------------
(* The dataset, and the poll of its status.                                *)

RunStarts ==
  /\ dataset.status # "Unknown" /\ dataset.run < MaxRuns
  /\ dataset' = [dataset EXCEPT !.run = @ + 1, !.status = "Unknown"]
  /\ UNCHANGED <<live, wasRunning, screen, applied, notice, pending, dialog>>

RunEnds(ok) ==
  /\ dataset.status = "Unknown"
  /\ dataset' = [dataset EXCEPT !.status = IF ok THEN "Completed" ELSE "Failed",
                                !.data = IF ok THEN dataset.run ELSE @]
  /\ screen' = IF ok /\ screen.queried /\ ~screen.rendered
               THEN [screen EXCEPT !.missed = @ \cup {dataset.run}] ELSE screen
  /\ UNCHANGED <<live, wasRunning, applied, notice, pending, dialog>>

\* The effect on a status that has changed: the timers of the effect before
\* are cleared, the one that would take a notice away among them.
Announce(st) ==
  LET failed == wasRunning /\ st = "Failed" IN
  notice' = [notice EXCEPT !.show = failed, !.clear = failed]

Poll ==
  LET st == [run |-> dataset.run, status |-> dataset.status] IN
  /\ st # live
  /\ live' = st
  /\ Announce(dataset.status)
  /\ wasRunning' = (dataset.status = "Unknown")
  /\ UNCHANGED <<dataset, screen, applied, pending, dialog>>

ShowNotice ==
  /\ notice.show
  /\ notice' = [notice EXCEPT !.show = FALSE, !.shown = TRUE]
  /\ UNCHANGED <<dataset, live, wasRunning, screen, applied, pending, dialog>>

ClearNotice ==
  /\ notice.clear /\ ~notice.show
  /\ notice' = [notice EXCEPT !.clear = FALSE, !.shown = FALSE]
  /\ UNCHANGED <<dataset, live, wasRunning, screen, applied, pending, dialog>>

-----------------------------------------------------------------------------
(* The screen.                                                             *)

\* The report queries its data some time before it has rendered.
Query ==
  /\ ~screen.queried
  /\ screen' = [screen EXCEPT !.queried = TRUE, !.data = dataset.data]
  /\ UNCHANGED <<dataset, live, wasRunning, applied, notice, pending, dialog>>

\* Mutant: every rendered event, also one of a page that is turned, moves the
\* time.
RenderMoves ==
  /\ screen.queried
  /\ screen' = [screen EXCEPT !.rendered = TRUE, !.at = dataset.data]
  /\ UNCHANGED <<dataset, live, wasRunning, applied, notice, pending, dialog>>

\* The first rendered event sets the time, which is later than every run that
\* has completed by then; later ones do not move it.
Render ==
  /\ screen.queried /\ ~screen.rendered
  /\ screen' = [screen EXCEPT !.rendered = TRUE, !.at = dataset.data]
  /\ UNCHANGED <<dataset, live, wasRunning, applied, notice, pending, dialog>>

\* The report queries again; what it would read later is only newer.
ApplyNewData ==
  /\ NewDataAvailable
  /\ screen' = [screen EXCEPT !.data = dataset.data]
  /\ applied' = NewDataEnd
  /\ UNCHANGED <<dataset, live, wasRunning, notice, pending, dialog>>

DismissNewData ==
  /\ NewDataAvailable
  /\ applied' = NewDataEnd
  /\ UNCHANGED <<dataset, live, wasRunning, screen, notice, pending, dialog>>

-----------------------------------------------------------------------------
(* The refresh button, and the dialog.                                     *)

ClickRefresh ==
  /\ ~Refreshing
  /\ pending' = pending \cup {"refresh"}
  /\ UNCHANGED <<dataset, live, wasRunning, screen, applied, notice, dialog>>

\* Accepted, the run starts when a worker takes it up; or refused.
RefreshAnswered ==
  /\ "refresh" \in pending
  /\ pending' = pending \ {"refresh"}
  /\ UNCHANGED <<dataset, live, wasRunning, screen, applied, notice, dialog>>

OpenDialog ==
  /\ ~dialog.open
  /\ dialog' = [open |-> TRUE, file |-> FALSE]
  /\ UNCHANGED <<dataset, live, wasRunning, screen, applied, notice, pending>>

PickFile(file) ==
  /\ dialog.open
  /\ dialog' = [dialog EXCEPT !.file = file]
  /\ UNCHANGED <<dataset, live, wasRunning, screen, applied, notice, pending>>

CloseDialog ==
  /\ dialog.open
  /\ dialog' = [dialog EXCEPT !.open = FALSE]
  /\ UNCHANGED <<dataset, live, wasRunning, screen, applied, notice, pending>>

Upload ==
  /\ dialog.open /\ dialog.file /\ "upload" \notin pending
  /\ pending' = pending \cup {"upload"}
  /\ UNCHANGED <<dataset, live, wasRunning, screen, applied, notice, dialog>>

Uploaded(ok) ==
  /\ "upload" \in pending
  /\ pending' = pending \ {"upload"}
  /\ dialog' = IF ok THEN [open |-> FALSE, file |-> FALSE] ELSE dialog
  /\ UNCHANGED <<dataset, live, wasRunning, screen, applied, notice>>

\* Closing the tab asks the user while a file is being sent.
AsksBeforeUnload == "upload" \in pending

NoticesNext ==
  \/ RunStarts \/ Poll \/ ShowNotice \/ ClearNotice
  \/ Query \/ Render \/ ApplyNewData \/ DismissNewData
  \/ ClickRefresh \/ RefreshAnswered \/ OpenDialog \/ CloseDialog \/ Upload
  \/ \E ok \in BOOLEAN : RunEnds(ok) \/ PickFile(ok) \/ Uploaded(ok)

NoticesSpec == NoticesInit /\ [][NoticesNext]_noticeVars

-----------------------------------------------------------------------------
(* Properties.                                                             *)

\* When the page has rendered, knows a completed run, is not refreshing and
\* yet offers nothing, its data are at least as new as that run, or the user
\* has dismissed exactly that run, whatever ran and was dismissed before.  Only
\* a run that completed between the query and the rendered event is never
\* offered, although the screen lacks it.
QuietMeansFresh ==
  screen.rendered /\ NewDataEnd > 0 /\ ~Refreshing /\ ~NewDataAvailable =>
    screen.data >= NewDataEnd \/ applied = NewDataEnd \/ NewDataEnd \in screen.missed
=============================================================================
