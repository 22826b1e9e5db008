---------------------------- MODULE RequestCenter ---------------------------
(***************************************************************************)
(* One request of the service centre at the server: operators who change   *)
(* its status, and users and operators who comment on it, attach files and *)
(* delete them, each in a transaction under READ COMMITTED that reads the  *)
(* request without a lock.  The files are in a store of their own.         *)
(*                                                                         *)
(* Titles, texts, the rights to the request and the mails that go out      *)
(* after a commit, which nothing waits for, are left out.                  *)
(***************************************************************************)
EXTENDS Naturals, Sequences, FiniteSets

CONSTANTS
  Operators,   \* calls of update_request
  Calls,       \* calls that comment, upload or delete; an upload has its file
  Original,    \* an attachment the request has at first
  Absent       \* nobody; no status

VARIABLES
  status,      \* of the request
  history,     \* its RequestStatusHistory, in the order of their ids
  comments,    \* the calls that left their comment
  rows, files, \* the attachments that have a row, and those that have a file
  patch,       \* [Operators -> the status it read, None before and Done after]
  call,        \* [Calls -> how far, and what it does to which file]
  overtaken,   \* history: who read a status that another call changed meanwhile
  closed       \* history: the calls that wrote while the request was done

requestVars == <<status, history, comments, rows, files, patch, call, overtaken, closed>>

RequestStatus == {"pending", "received", "rejected", "done"}
Done == "answered"
Attachments == Calls \cup {Original}

RequestTypeOK ==
  /\ status \in RequestStatus
  /\ \A i \in DOMAIN history : history[i] \in
       [from : RequestStatus \cup {Absent}, to : RequestStatus, by : Operators \cup {Absent}]
  /\ comments \subseteq Calls /\ closed \subseteq Calls
  /\ rows \subseteq Attachments /\ files \subseteq Attachments
  /\ patch \in [Operators -> RequestStatus \cup {Absent, Done}]
  /\ call \in [Calls -> [at : {"idle", "open", "stored", "gone", "out"},
                         does : {"comment", "upload", "delete"}, file : Attachments]]
  /\ overtaken \subseteq Operators \cup Calls

\* create_request has written the row and the first entry.
RequestInit ==
  /\ status = "pending" /\ history = <<[from |-> Absent, to |-> "pending", by |-> Absent]>>
  /\ comments = {} /\ rows = {Original} /\ files = {Original}
  /\ patch = [o \in Operators |-> Absent]
  /\ call = [c \in Calls |-> [at |-> "idle", does |-> "comment", file |-> c]]
  /\ overtaken = {} /\ closed = {}

-----------------------------------------------------------------------------
(* update_request.                                                         *)

PatchReads(o) ==
  /\ patch[o] = Absent /\ patch' = [patch EXCEPT ![o] = status]
  /\ UNCHANGED <<status, history, comments, rows, files, call, overtaken, closed>>

\* Those who have read the request before it is changed.
Readers(o) == {x \in Operators \ {o} : patch[x] \in RequestStatus}
              \cup {c \in Calls : call[c].at \in {"open", "stored", "gone"}}

\* The UPDATE waits for that of another operator, and writes over it; an entry is
\* made if the status asked for is another one than was read.  Without it only the
\* answer, the reason or the date is written.
PatchWrites(o, asked) ==
  /\ patch[o] \in RequestStatus /\ patch' = [patch EXCEPT ![o] = Done]
  /\ IF asked = patch[o] THEN UNCHANGED <<status, history, overtaken>>
     ELSE /\ status' = asked
          /\ history' = Append(history, [from |-> patch[o], to |-> asked, by |-> o])
          /\ overtaken' = overtaken \cup Readers(o)
  /\ UNCHANGED <<comments, rows, files, call, closed>>

\* A rejection without a reason, or a fault before the commit.
PatchFails(o) ==
  /\ patch[o] \in RequestStatus /\ patch' = [patch EXCEPT ![o] = Done]
  /\ UNCHANGED <<status, history, comments, rows, files, call, overtaken, closed>>

-----------------------------------------------------------------------------
(* add_comment, upload_attachment, delete_attachment.                      *)

\* Mutant: everyone may write.
OpenToAll == TRUE

\* _ensure_request_open
RequestOpen == status # "done"

\* The request, and the attachment that is to be deleted, are read.
CallReads(c, does, file) ==
  /\ call[c].at = "idle" /\ RequestOpen
  /\ IF does = "delete" THEN file \in rows ELSE file = c
  /\ call' = [call EXCEPT ![c] = [at |-> "open", does |-> does, file |-> file]]
  /\ UNCHANGED <<status, history, comments, rows, files, patch, overtaken, closed>>

\* The commit; what it writes while the request is done is noted.
Ends(c) ==
  /\ call' = [call EXCEPT ![c].at = "out"]
  /\ closed' = IF status = "done" THEN closed \cup {c} ELSE closed

Comment(c) ==
  /\ call[c].at = "open" /\ call[c].does = "comment"
  /\ comments' = comments \cup {c} /\ Ends(c)
  /\ UNCHANGED <<status, history, rows, files, patch, overtaken>>

\* The file is in the store before its row is in the database.
UploadStores(c) ==
  /\ call[c].at = "open" /\ call[c].does = "upload"
  /\ files' = files \cup {c} /\ call' = [call EXCEPT ![c].at = "stored"]
  /\ UNCHANGED <<status, history, comments, rows, patch, overtaken, closed>>
UploadCommits(c) ==
  /\ call[c].at = "stored" /\ rows' = rows \cup {c} /\ Ends(c)
  /\ UNCHANGED <<status, history, comments, files, patch, overtaken>>

\* Its file is gone before its row is; one that cannot be deleted stays.
DeleteRemoves(c) ==
  /\ call[c].at = "open" /\ call[c].does = "delete"
  /\ files' \in {files, files \ {call[c].file}} /\ call' = [call EXCEPT ![c].at = "gone"]
  /\ UNCHANGED <<status, history, comments, rows, patch, overtaken, closed>>
DeleteCommits(c) ==
  /\ call[c].at = "gone" /\ rows' = rows \ {call[c].file} /\ Ends(c)
  /\ UNCHANGED <<status, history, comments, files, patch, overtaken>>

\* A fault, or a file that is refused: what is in the store stays as it is.
CallFails(c) ==
  /\ call[c].at \in {"open", "stored", "gone"}
  /\ call' = [call EXCEPT ![c].at = "out"]
  /\ UNCHANGED <<status, history, comments, rows, files, patch, overtaken, closed>>

-----------------------------------------------------------------------------
RequestNext ==
  \/ \E o \in Operators : PatchReads(o) \/ PatchFails(o) \/ \E asked \in RequestStatus : PatchWrites(o, asked)
  \/ \E c \in Calls :
       \/ \E does \in {"comment", "upload", "delete"}, file \in Attachments : CallReads(c, does, file)
       \/ Comment(c) \/ UploadStores(c) \/ UploadCommits(c)
       \/ DeleteRemoves(c) \/ DeleteCommits(c) \/ CallFails(c)

RequestSpec == RequestInit /\ [][RequestNext]_requestVars

\* The history ends with the status, and each of its steps begins where the last one
\* ended, unless its operator had read the request before the last one was committed.
HistoryChains ==
  /\ history[Len(history)].to = status
  /\ \A i \in 2..Len(history) :
       history[i].by \notin overtaken => history[i].from = history[i - 1].to

\* A request that is done is closed, but for those who were writing by then; and an
\* attachment has its file, unless somebody removed the file and died, or has yet to
\* remove the row.
ClosedStaysClosed == closed \subseteq overtaken
AttachmentsHaveFiles ==
  \A f \in rows \ files : \E c \in Calls :
    call[c].does = "delete" /\ call[c].file = f /\ call[c].at \in {"gone", "out"}

RequestsAreWhole == HistoryChains /\ ClosedStaysClosed /\ AttachmentsHaveFiles
=============================================================================
