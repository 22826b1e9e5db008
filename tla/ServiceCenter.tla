--------------------------- MODULE ServiceCenter ---------------------------
(***************************************************************************)
(* The requests of users and what operators make of them: the list with    *)
(* its filters and pages, the form of a new request with its files, which  *)
(* are uploaded one by one after it is created, and the dialog of a        *)
(* request, where it is commented and its status is changed, by more than  *)
(* one operator.  A behaviour is about the list, the form or the dialog.   *)
(***************************************************************************)
EXTENDS Sequences, Sorting

CONSTANTS
  Requests,    \* ids, 1..n; later ones have larger ids
  Matching,    \* those whose title or requester has the text
  PageSize, MaxFiles,
  MaxWork,     \* bounds the requests under way
  None

VARIABLES
  part,
  stored,      \* at the server: [Requests -> record or None]
  listed,      \* in the query cache, of the list or of the open request
  list,        \* the filters and the page
  form,        \* the form of a new request
  dialog,      \* the open request, the status and reason chosen, the comment
  work,        \* requests under way
  sent         \* [Requests -> the files of the submission that was reported done]

serviceVars == <<part, stored, listed, list, form, dialog, work, sent>>

Status == {"pending", "received", "rejected", "done"}
\* last is the status of the last row of its history.
Request == [status : Status, last : Status, reason : BOOLEAN, files : 0..MaxFiles]

NoForm == [open |-> FALSE, filled |-> FALSE, files |-> 0, creating |-> FALSE]
NoDialog == [id |-> None, status |-> None, reason |-> FALSE, text |-> FALSE]

ServiceTypeOK ==
  /\ stored \in [Requests -> Request \cup {None}]
  /\ listed \in [Requests -> Status \cup {None}]
  /\ list.status \in Status \cup {None} /\ list.page \in 1..Cardinality(Requests)
  /\ form.files \in 0..MaxFiles
  /\ dialog.id \in Requests \cup {None} /\ dialog.status \in Status \cup {None}
  /\ sent \in [Requests -> 0..MaxFiles \cup {None}]

Fresh == [status |-> "pending", last |-> "pending", reason |-> FALSE, files |-> 0]
StatusOf(i) == IF stored[i] = None THEN None ELSE stored[i].status

ServiceInit ==
  /\ part \in {"list", "form", "dialog"}
  /\ stored = [i \in Requests |-> IF part = "list" \/ i = 1 THEN Fresh ELSE None]
  /\ listed = [i \in Requests |-> StatusOf(i)]
  /\ list = [status |-> None, typed |-> FALSE, applied |-> FALSE, page |-> 1]
  /\ form = NoForm /\ dialog = NoDialog /\ work = {} /\ sent = [i \in Requests |-> None]

-----------------------------------------------------------------------------
(* The list.                                                               *)

Filtered ==
  {i \in Requests : /\ listed[i] # None
                    /\ list.status # None => listed[i] = list.status
                    /\ list.applied => i \in Matching}

PageCount == IF Filtered = {} THEN 1 ELSE (Cardinality(Filtered) + PageSize - 1) \div PageSize

\* Mutant: the page that was chosen, of a list that may have shrunk.
ChosenPage == list.page

\* curPage
CurPage == IF list.page <= PageCount THEN list.page ELSE PageCount

\* The latest first.
PageItems ==
  LET rows == InOrder(Filtered, {e \in Filtered \X Filtered : e[1] > e[2]}) IN
  SubSeq(rows, (CurPage - 1) * PageSize + 1,
         IF CurPage * PageSize < Len(rows) THEN CurPage * PageSize ELSE Len(rows))

View(new) ==
  /\ new # list /\ list' = new
  /\ UNCHANGED <<part, stored, listed, form, dialog, work, sent>>

FilterStatus(s) == View([list EXCEPT !.status = s, !.page = 1])
TypeSearch == View([list EXCEPT !.typed = ~@])
ApplySearch == View([list EXCEPT !.applied = list.typed, !.page = 1])
ResetFilters == View([status |-> None, typed |-> FALSE, applied |-> FALSE, page |-> 1])
Previous == CurPage > 1 /\ View([list EXCEPT !.page = CurPage - 1])
Following == CurPage < PageCount /\ View([list EXCEPT !.page = CurPage + 1])

Fetch ==
  LET now == [i \in Requests |-> StatusOf(i)] IN
  /\ listed # now /\ listed' = now
  /\ UNCHANGED <<part, stored, list, form, dialog, work, sent>>

-----------------------------------------------------------------------------
(* A new request; the earlier one it may refer to is left out.             *)

Form(new) ==
  /\ new # form /\ form' = new
  /\ UNCHANGED <<part, stored, listed, list, dialog, work, sent>>

OpenForm == ~form.open /\ Form([NoForm EXCEPT !.open = TRUE])

\* What a component has asked for goes on when it is gone.
Left == {[w EXCEPT !.by = IF @ = "page" THEN "left" ELSE @] : w \in work}

CloseForm ==
  /\ form.open /\ form' = NoForm /\ work' = Left
  /\ UNCHANGED <<part, stored, listed, list, dialog, sent>>

FillForm == form.open /\ Form([form EXCEPT !.filled = TRUE])

\* addFiles: those of a type and a size that are allowed, and five of them.
AddFiles(k) ==
  form.open /\ Form([form EXCEPT !.files = IF @ + k > MaxFiles THEN MaxFiles ELSE @ + k])
RemoveFile == form.open /\ form.files > 0 /\ Form([form EXCEPT !.files = @ - 1])

\* canSubmit
Submit ==
  /\ form.open /\ form.filled /\ ~form.creating
  /\ Cardinality(work) < MaxWork
  /\ work' = work \cup {[kind |-> "create", by |-> "page", files |-> form.files, id |-> None, done |-> 0]}
  /\ form' = [form EXCEPT !.creating = TRUE]
  /\ UNCHANGED <<part, stored, listed, list, dialog, sent>>

\* create_request
Created(w) ==
  LET free == {i \in Requests : stored[i] = None}
      id   == CHOOSE i \in free : \A k \in free : i <= k
  IN
  /\ w.kind = "create" /\ w.id = None /\ free # {}
  /\ stored' = [stored EXCEPT ![id] = Fresh]
  /\ work' = (work \ {w}) \cup {[w EXCEPT !.id = id]}
  /\ UNCHANGED <<part, listed, list, form, dialog, sent>>

\* Mutant: an upload that is refused is passed over.
PassOver(w) ==
  /\ work' = (work \ {w}) \cup {[w EXCEPT !.done = @ + 1]}
  /\ UNCHANGED form

\* A refusal ends the submission; the request, and what was uploaded, stay.
GiveUp(w) ==
  /\ work' = work \ {w}
  /\ form' = IF w.by = "page" THEN [form EXCEPT !.creating = FALSE] ELSE form

\* upload_attachment, of the next file; refused when the request is done by then.
Upload(w) ==
  /\ w.kind = "create" /\ w.id # None /\ w.done < w.files
  /\ \/ /\ stored[w.id].status # "done"
        /\ stored' = [stored EXCEPT ![w.id].files = @ + 1]
        /\ work' = (work \ {w}) \cup {[w EXCEPT !.done = @ + 1]} /\ UNCHANGED form
     \/ GiveUp(w) /\ UNCHANGED stored
  /\ UNCHANGED <<part, listed, list, dialog, sent>>

Refused(w) ==
  /\ w.kind = "create" /\ w.id = None /\ GiveUp(w)
  /\ UNCHANGED <<part, stored, listed, list, dialog, sent>>

\* onCreated closes the form that is open by then.
Done(w) ==
  /\ w.kind = "create" /\ w.id # None /\ w.done = w.files
  /\ sent' = [sent EXCEPT ![w.id] = w.files]
  /\ form' = NoForm /\ work' = work \ {w}
  /\ UNCHANGED <<part, stored, listed, list, dialog>>

-----------------------------------------------------------------------------
(* The dialog of a request.                                                *)

Dialog(new) ==
  /\ new # dialog /\ dialog' = new
  /\ UNCHANGED <<part, stored, listed, list, form, work, sent>>

Open(i) == dialog.id = None /\ listed[i] # None /\ Dialog([NoDialog EXCEPT !.id = i])

CloseDialog ==
  /\ dialog.id # None /\ dialog' = NoDialog /\ work' = Left
  /\ UNCHANGED <<part, stored, listed, list, form, sent>>

ChooseStatus(s) == dialog.id # None /\ Dialog([dialog EXCEPT !.status = s])
TypeReason == dialog.id # None /\ dialog.status = "rejected" /\ Dialog([dialog EXCEPT !.reason = ~@])

\* A request that is known to be done takes no comment.
TypeComment == dialog.id # None /\ listed[dialog.id] # "done" /\ Dialog([dialog EXCEPT !.text = TRUE])

Ask(w) ==
  /\ ~ \E x \in work : x.kind = w.kind /\ x.by = w.by
  /\ Cardinality(work) < MaxWork /\ work' = work \cup {w}
  /\ UNCHANGED <<part, stored, listed, list, form, dialog, sent>>

\* canChangeStatus; a reason goes with a rejection only.
ChangeStatus ==
  /\ dialog.id # None /\ dialog.status # None
  /\ dialog.status = "rejected" => dialog.reason
  /\ Ask([kind |-> "status", by |-> "page", id |-> dialog.id, status |-> dialog.status, was |-> None])

\* Another operator, in a dialog of the same kind.
OtherChanges(i, s) ==
  stored[i] # None /\ Ask([kind |-> "status", by |-> "other", id |-> i, status |-> s, was |-> None])

\* update_request reads the row, without a lock.
Read(w) ==
  /\ w.kind = "status" /\ w.was = None
  /\ work' = (work \ {w}) \cup {[w EXCEPT !.was = stored[w.id].status]}
  /\ UNCHANGED <<part, stored, listed, list, form, dialog, sent>>

\* Mutant: the status is written whether it differs from the one read or not.
WriteAlways(w) ==
  [stored[w.id] EXCEPT !.status = w.status, !.last = IF w.status = w.was THEN @ ELSE w.status,
                       !.reason = @ \/ w.status = "rejected"]

\* A column is written, and a row added to the history, when the status is another
\* than the one that was read.
Written(w) ==
  [stored[w.id] EXCEPT !.status = IF w.status = w.was THEN @ ELSE w.status,
                       !.last   = IF w.status = w.was THEN @ ELSE w.status,
                       !.reason = @ \/ w.status = "rejected"]

StatusStored(w) ==
  /\ w.kind = "status" /\ w.was # None
  /\ stored' = [stored EXCEPT ![w.id] = Written(w)]
  /\ dialog' = IF w.by = "page"
               THEN [dialog EXCEPT !.status = None, !.reason = FALSE] ELSE dialog
  /\ work' = work \ {w}
  /\ UNCHANGED <<part, listed, list, form, sent>>

SendComment ==
  /\ dialog.id # None /\ dialog.text /\ listed[dialog.id] # "done"
  /\ Ask([kind |-> "comment", by |-> "page", id |-> dialog.id])

\* add_comment: not to a request that is done.
Commented(w) ==
  /\ w.kind = "comment" /\ stored[w.id].status # "done"
  /\ dialog' = IF w.by = "page" THEN [dialog EXCEPT !.text = FALSE] ELSE dialog
  /\ work' = work \ {w}
  /\ UNCHANGED <<part, stored, listed, list, form, sent>>

Fails(w) ==
  /\ w.kind # "create" /\ work' = work \ {w}
  /\ UNCHANGED <<part, stored, listed, list, form, dialog, sent>>

ServiceNext ==
  \/ part # "form" /\ Fetch
  \/ \E w \in work : Read(w) \/ StatusStored(w) \/ Fails(w)
  \/ /\ part = "list"
     /\ \/ TypeSearch \/ ApplySearch \/ ResetFilters \/ Previous \/ Following
        \/ \E s \in Status \cup {None} : FilterStatus(s)
        \/ \E i \in Requests : OtherChanges(i, "done")
  \/ /\ part = "form"
     /\ \/ OpenForm \/ CloseForm \/ FillForm \/ Submit \/ RemoveFile
        \/ \E i \in Requests : OtherChanges(i, "done")
        \/ \E k \in 1..MaxFiles : AddFiles(k)
        \/ \E w \in work : Created(w) \/ Upload(w) \/ Refused(w) \/ Done(w)
  \/ /\ part = "dialog"
     /\ \/ CloseDialog \/ TypeReason \/ TypeComment \/ ChangeStatus \/ SendComment
        \/ \E i \in Requests : Open(i)
        \/ \E s \in {"rejected", "done"} : OtherChanges(1, s)
        \/ \E s \in {"received", "rejected", "done", None} : ChooseStatus(s)
        \/ \E w \in work : Commented(w)

ServiceSpec == ServiceInit /\ [][ServiceNext]_serviceVars

-----------------------------------------------------------------------------
(* Properties.                                                             *)

\* There is something on the page whenever a request passes the filters, however
\* the list has shrunk since the page was chosen; and only what passes them.
PageIsShown ==
  /\ Filtered # {} => Len(PageItems) > 0
  /\ \A i \in DOMAIN PageItems : PageItems[i] \in Filtered

\* The history of a request ends with its status, and a rejection has a reason,
\* whatever two operators write at once; and a submission that is reported done has
\* left all its files with the request.
RequestsAsTold ==
  \A i \in Requests : stored[i] # None =>
    /\ stored[i].last = stored[i].status
    /\ stored[i].status = "rejected" => stored[i].reason
    /\ sent[i] # None => stored[i].files = sent[i]
=============================================================================
