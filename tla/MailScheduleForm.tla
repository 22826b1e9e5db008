-------------------------- MODULE MailScheduleForm --------------------------
(***************************************************************************)
(* The page of the mail schedules: the list in the query cache, the form   *)
(* in which one schedule is edited, and its save, which is answered while  *)
(* the form can be changed, closed and opened for another schedule.  Of    *)
(* the fields, the title, the report with its pages and the recipients are *)
(* kept; they do not depend on each other, and a behaviour changes one of  *)
(* them besides the report.                                                *)
(***************************************************************************)
EXTENDS Naturals, FiniteSets, SequencesExt

CONSTANTS
  Ids,        \* schedules
  Mailable,
  PagesOf,    \* [Mailable -> set of pages]
  People,     \* recipients that can be chosen
  MaxTo,      \* bounds the recipients of one schedule
  New,        \* the form makes a schedule
  Empty

VARIABLES
  focus,      \* the part of the form that is changed
  schedules,     \* at the server: [Ids -> form or Empty]
  listed,     \* the list in the query cache
  editing,    \* the schedule of the form, New, or Empty
  form,
  saving      \* the save under way

mailFormVars == <<focus, schedules, listed, editing, form, saving>>

Fields == {"to", "cc"}
AllPages == UNION {PagesOf[r] : r \in Mailable}
Place  == [page : AllPages, at : Nat]       \* page_name and sort_order
Recipient == [who : People, field : Fields]
Form == [titled : BOOLEAN, report : Mailable \cup {Empty}, pages : Seq(Place), to : Seq(Recipient)]

MailFormTypeOK ==
  /\ \A s \in Ids : schedules[s] \in Form \cup {Empty} /\ listed[s] \in Form \cup {Empty}
  /\ editing \in Ids \cup {New, Empty}
  /\ form \in Form

EmptyForm == [titled |-> FALSE, report |-> Empty, pages |-> <<>>, to |-> <<>>]

MailFormInit ==
  /\ focus \in {"pages", "to", "title"}
  /\ schedules = [s \in Ids |-> Empty] /\ listed = schedules
  /\ editing = Empty /\ form = EmptyForm
  /\ saving = Empty

-----------------------------------------------------------------------------
(* The list.                                                               *)

\* Pages come back in their order, recipients in the order of the last save.
ByOrder(pages) ==
  LET Before(i, j) == pages[i].at < pages[j].at \/ (pages[i].at = pages[j].at /\ i < j)
      Rank(i) == Cardinality({j \in DOMAIN pages : Before(j, i)}) + 1
  IN [k \in DOMAIN pages |-> pages[CHOOSE i \in DOMAIN pages : Rank(i) = k]]
Response(f) == IF f = Empty THEN Empty ELSE [f EXCEPT !.pages = ByOrder(@)]

List == listed' = [s \in Ids |-> Response(schedules[s])]

RefetchSchedules ==
  /\ List
  /\ UNCHANGED <<focus, schedules, editing, form, saving>>

OpenNew ==
  /\ editing = Empty
  /\ editing' = New /\ form' = EmptyForm
  /\ UNCHANGED <<focus, schedules, listed, saving>>

\* The form is filled from the list, which may be old.
OpenEdit(s) ==
  /\ editing = Empty /\ listed[s] # Empty
  /\ editing' = s /\ form' = listed[s]
  /\ UNCHANGED <<focus, schedules, listed, saving>>

Close ==
  /\ editing # Empty
  /\ editing' = Empty /\ form' = EmptyForm
  /\ UNCHANGED <<focus, schedules, listed, saving>>

-----------------------------------------------------------------------------
(* Changing the form, which no save under way prevents.                    *)

Change(f) ==
  /\ editing # Empty /\ form' = f
  /\ UNCHANGED <<focus, schedules, listed, editing, saving>>

\* setField, for the title and the fields that are not kept.
SetField(titled) ==
  /\ titled # form.titled /\ (titled \/ focus = "title")
  /\ Change([form EXCEPT !.titled = titled])

\* Mutant: the pages of the other report stay.
KeepPages(r) == r # form.report /\ Change([form EXCEPT !.report = r])

SelectReport(r) ==
  /\ r # form.report
  /\ focus # "pages" => r = CHOOSE x \in Mailable : TRUE
  /\ Change([form EXCEPT !.report = r, !.pages = <<>>])

\* sort_order is the position again.
Reindex(pages) == [i \in DOMAIN pages |-> [pages[i] EXCEPT !.at = i - 1]]

\* Mutant: a page keeps its number when another is taken out.
KeepNumbers(pages) == pages

\* The list below the report offers its pages that are not selected.
Choosable(f) == IF f.report = Empty THEN {} ELSE PagesOf[f.report] \ {f.pages[i].page : i \in DOMAIN f.pages}

\* A page of the report is added last; a selected page, also one that is not in
\* the list of the report any more, is taken out.  None is selected twice.
TogglePage(p) ==
  /\ focus = "pages"
  /\ \/ \E i \in DOMAIN form.pages :
          /\ form.pages[i].page = p
          /\ Change([form EXCEPT !.pages = Reindex(RemoveAt(@, i))])
     \/ /\ p \in Choosable(form)
        /\ Change([form EXCEPT !.pages = Reindex(Append(@, [page |-> p, at |-> Len(@)]))])

Exchanged(s, i, j) == [s EXCEPT ![i] = s[j], ![j] = s[i]]

MovePage(i) ==
  /\ i \in 1..(Len(form.pages) - 1)
  /\ Change([form EXCEPT !.pages = Reindex(Exchanged(ByOrder(@), i, i + 1))])

\* Somebody who is in one of the fields is not added again.
AddRecipient(who, field) ==
  /\ focus = "to" /\ Len(form.to) < MaxTo
  /\ \A i \in DOMAIN form.to : form.to[i].who # who
  /\ Change([form EXCEPT !.to = Append(@, [who |-> who, field |-> field])])

RemoveRecipient(i) == i \in DOMAIN form.to /\ Change([form EXCEPT !.to = RemoveAt(@, i)])

\* The recipients are shown by field.
Neighbours(to, i, j) ==
  /\ {i, j} \subseteq DOMAIN to /\ i < j
  /\ to[i].field = to[j].field
  /\ \A k \in (i + 1)..(j - 1) : to[k].field # to[i].field

\* Two neighbours of one field change places, whoever of the others is between.
MoveRecipient(i, j) ==
  /\ Neighbours(form.to, i, j)
  /\ Change([form EXCEPT !.to = Exchanged(@, i, j)])

-----------------------------------------------------------------------------
(* Saving and deleting.                                                    *)

CanSave == form.report # Empty /\ form.titled /\ saving = Empty

AskSave ==
  /\ editing # Empty /\ CanSave
  /\ saving' = [id |-> editing, form |-> form]
  /\ UNCHANGED <<focus, schedules, listed, editing, form>>

\* create_mail_schedule, update_mail_schedule: recipients and pages are replaced,
\* a recipient or a page that is there twice is refused.
Accepted(w) ==
  /\ w.id # New => schedules[w.id] # Empty
  /\ IsInjective([i \in DOMAIN w.form.pages |-> w.form.pages[i].page])
  /\ IsInjective([i \in DOMAIN w.form.to |-> w.form.to[i].who])

StoreForm(w) ==
  \/ w.id # New /\ schedules' = [schedules EXCEPT ![w.id] = w.form]
  \/ w.id = New /\ \E s \in Ids : schedules[s] = Empty /\ schedules' = [schedules EXCEPT ![s] = w.form]

\* The answer closes the form that is open by now, and reads the list again.
Saved ==
  /\ saving # Empty /\ Accepted(saving) /\ StoreForm(saving)
  /\ saving' = Empty
  /\ editing' = Empty /\ form' = EmptyForm
  /\ listed' = [s \in Ids |-> Response(schedules'[s])]
  /\ UNCHANGED focus

\* Refused, or carried out with the answer lost: the form stays.
SaveFails ==
  /\ saving # Empty /\ saving' = Empty
  /\ UNCHANGED schedules \/ (Accepted(saving) /\ StoreForm(saving))
  /\ UNCHANGED <<focus, listed, editing, form>>

\* Asked for and confirmed; a schedule that is gone is refused.
DeleteSchedule(s) ==
  /\ editing = Empty /\ listed[s] # Empty /\ schedules[s] # Empty
  /\ schedules' = [schedules EXCEPT ![s] = Empty]
  /\ listed' = [x \in Ids |-> Response(schedules'[x])]
  /\ UNCHANGED <<focus, editing, form, saving>>

\* Another manager deletes a schedule.
ScheduleDeleted(s) ==
  /\ schedules[s] # Empty /\ schedules' = [schedules EXCEPT ![s] = Empty]
  /\ UNCHANGED <<focus, listed, editing, form, saving>>

MailFormNext ==
  \/ RefetchSchedules \/ OpenNew \/ Close \/ AskSave \/ Saved \/ SaveFails
  \/ \E s \in Ids : OpenEdit(s) \/ DeleteSchedule(s) \/ ScheduleDeleted(s)
  \/ \E t \in BOOLEAN : SetField(t)
  \/ \E r \in Mailable : SelectReport(r)
  \/ \E p \in AllPages : TogglePage(p)
  \/ \E i \in 1..Cardinality(AllPages) : MovePage(i)
  \/ \E who \in People, f \in Fields : AddRecipient(who, f)
  \/ \E i, j \in 1..MaxTo : RemoveRecipient(i) \/ MoveRecipient(i, j)

MailFormSpec == MailFormInit /\ [][MailFormNext]_mailFormVars

-----------------------------------------------------------------------------
(* Properties.                                                             *)

\* A schedule that is stored has a title and a report, its pages are pages of
\* that report, numbered from 0 in the order in which the form showed them, each
\* once, and nobody receives it twice: after any changes of report, of pages and
\* of their order, saved from a form that came from an older list.
ScheduleFitsReport ==
  \A s \in Ids : schedules[s] # Empty =>
    LET f == schedules[s] IN
    /\ f.titled /\ f.report # Empty
    /\ \A i \in DOMAIN f.pages : f.pages[i].page \in PagesOf[f.report] /\ f.pages[i].at = i - 1
    /\ \A i, j \in DOMAIN f.pages : f.pages[i].page = f.pages[j].page => i = j
    /\ \A i, j \in DOMAIN f.to : f.to[i].who = f.to[j].who => i = j
=============================================================================
