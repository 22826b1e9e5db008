----------------------------- MODULE ViewSession -----------------------------
(***************************************************************************)
(* How the time a user looks at a report becomes a number in the database. *)
(* The page asks for one log row per visit when Power BI has rendered, and *)
(* again when the answer does not come; then it sends the visible time so  *)
(* far, as an absolute value, at checkpoints and whenever it is hidden.    *)
(* Requests may be lost and overtake each other.                           *)
(*                                                                         *)
(* Time is counted in checkpoint intervals.                                *)
(***************************************************************************)
EXTENDS Integers, FiniteSetsExt

CONSTANTS
  MaxTime,    \* bounds the time a visit is visible
  LastAttempt,\* a request is made LastAttempt + 1 times
  MaxPosts    \* bounds the requests the server has yet to carry out

ASSUME ViewAssumption == MaxTime \in Nat /\ LastAttempt \in Nat /\ MaxPosts \in Nat

Stopped == -1

VARIABLES
  tab,        \* the page in the browser
  session,    \* the request for the log row
  posts,      \* requests for the log row the server has not carried out yet
  clock,      \* the variables of the duration effect
  sent,       \* durations on their way to the server
  acks,       \* answers on their way back
  ledger,     \* the log rows of this visit, and the duration in its row
  shown,      \* how long the report was visible since the row is known
  missing     \* the largest duration whose request was lost

viewVars == <<tab, session, posts, clock, sent, acks, ledger, shown, missing>>

ViewTypeOK ==
  /\ tab \in [open : BOOLEAN, visible : BOOLEAN]
  /\ session \in [requested : BOOLEAN, attempt : 0..LastAttempt,
                  phase : {"idle", "asked", "waits"}, known : BOOLEAN]
  /\ posts \in 0..MaxPosts
  /\ clock \in [since : {Stopped} \cup 0..MaxTime, acc : 0..MaxTime, ack : 0..MaxTime]
  /\ sent \subseteq 1..MaxTime /\ acks \subseteq 1..MaxTime
  /\ ledger \in [rows : Nat, stored : 0..MaxTime]
  /\ shown \in 0..MaxTime /\ missing \in 0..MaxTime

ViewInit ==
  /\ tab = [open |-> TRUE, visible |-> TRUE]
  /\ session = [requested |-> FALSE, attempt |-> 0, phase |-> "idle", known |-> FALSE]
  /\ posts = 0
  /\ clock = [since |-> Stopped, acc |-> 0, ack |-> 0]
  /\ sent = {} /\ acks = {}
  /\ ledger = [rows |-> 0, stored |-> 0]
  /\ shown = 0 /\ missing = 0

-----------------------------------------------------------------------------
(* The log row of the visit.                                               *)

Ask(attempt) ==
  /\ posts < MaxPosts
  /\ session' = [session EXCEPT !.requested = TRUE, !.attempt = attempt, !.phase = "asked"]
  /\ posts' = posts + 1

\* Power BI has rendered: the first time, or after all attempts have failed.
Rendered ==
  /\ tab.open /\ ~session.requested
  /\ Ask(0)
  /\ UNCHANGED <<tab, clock, sent, acks, ledger, shown, missing>>

\* The timer of a retry is not cleared when the page is left.
RetryTimer ==
  /\ session.phase = "waits"
  /\ Ask(session.attempt + 1)
  /\ UNCHANGED <<tab, clock, sent, acks, ledger, shown, missing>>

\* Mutant: without the unique event key every request makes a row.
EveryPostRecorded ==
  /\ posts > 0 /\ posts' = posts - 1
  /\ ledger' = [ledger EXCEPT !.rows = @ + 1]
  /\ UNCHANGED <<tab, session, clock, sent, acks, shown, missing>>

\* The server carries a request out, perhaps after the client has given up on
\* it: the unique key of the session lets one of them make the row.
RecordView ==
  /\ posts > 0 /\ posts' = posts - 1
  /\ ledger' = [ledger EXCEPT !.rows = IF @ = 0 THEN 1 ELSE @]
  /\ UNCHANGED <<tab, session, clock, sent, acks, shown, missing>>

\* The answer names the row: the duration effect starts.
SessionAnswered ==
  /\ session.phase = "asked" /\ ledger.rows > 0
  /\ session' = [session EXCEPT !.phase = "idle", !.known = @ \/ tab.open]
  /\ clock' = IF tab.open THEN [clock EXCEPT !.since = IF tab.visible THEN 0 ELSE Stopped] ELSE clock
  /\ UNCHANGED <<tab, posts, sent, acks, ledger, shown, missing>>

\* An error or a lost answer: retried twice, then at the next rendered event.
SessionFailed ==
  /\ session.phase = "asked"
  /\ session' = IF ~tab.open THEN [session EXCEPT !.phase = "idle"]
                ELSE IF session.attempt < LastAttempt THEN [session EXCEPT !.phase = "waits"]
                ELSE [session EXCEPT !.phase = "idle", !.requested = FALSE]
  /\ UNCHANGED <<tab, posts, clock, sent, acks, ledger, shown, missing>>

-----------------------------------------------------------------------------
(* The visible time.                                                       *)

\* Mutant: the elapsed time is sent, not the sum.
FlushDelta(stop, visible) ==
  LET acc == IF clock.since = Stopped THEN 0 ELSE clock.since IN
  /\ clock' = [clock EXCEPT !.acc = acc, !.since = IF ~stop /\ visible THEN 0 ELSE Stopped]
  /\ sent' = IF acc > clock.ack THEN sent \cup {acc} ELSE sent

\* flush: add what has passed since, and send the sum unless it is known to be
\* stored.
Flush(stop, visible) ==
  LET acc == IF clock.since = Stopped THEN clock.acc ELSE clock.acc + clock.since IN
  /\ clock' = [clock EXCEPT !.acc = acc, !.since = IF ~stop /\ visible THEN 0 ELSE Stopped]
  /\ sent' = IF acc > clock.ack THEN sent \cup {acc} ELSE sent

Tick ==
  /\ clock.since # Stopped /\ shown < MaxTime
  /\ clock' = [clock EXCEPT !.since = @ + 1]
  /\ shown' = shown + 1
  /\ UNCHANGED <<tab, session, posts, sent, acks, ledger, missing>>

Checkpoint ==
  /\ session.known /\ tab.open
  /\ Flush(FALSE, tab.visible)
  /\ UNCHANGED <<tab, session, posts, acks, ledger, shown, missing>>

Hide ==
  /\ tab.open /\ tab.visible
  /\ tab' = [tab EXCEPT !.visible = FALSE]
  /\ IF session.known THEN Flush(TRUE, FALSE) ELSE UNCHANGED <<clock, sent>>
  /\ UNCHANGED <<session, posts, acks, ledger, shown, missing>>

Show ==
  /\ tab.open /\ ~tab.visible
  /\ tab' = [tab EXCEPT !.visible = TRUE]
  /\ clock' = IF session.known /\ clock.since = Stopped THEN [clock EXCEPT !.since = 0] ELSE clock
  /\ UNCHANGED <<session, posts, sent, acks, ledger, shown, missing>>

\* The page is left (the effects are cleaned up) or the tab goes (pagehide).
Leave ==
  /\ tab.open
  /\ tab' = [tab EXCEPT !.open = FALSE]
  /\ IF session.known THEN Flush(TRUE, tab.visible) ELSE UNCHANGED <<clock, sent>>
  /\ UNCHANGED <<session, posts, acks, ledger, shown, missing>>

-----------------------------------------------------------------------------
(* The network and the server.                                             *)

\* The server keeps the larger value.
StoreDuration(v) ==
  /\ v \in sent
  /\ sent' = sent \ {v} /\ acks' = acks \cup {v}
  /\ ledger' = [ledger EXCEPT !.stored = Max({@, v})]
  /\ UNCHANGED <<tab, session, posts, clock, shown, missing>>

LoseDuration(v) ==
  /\ v \in sent
  /\ sent' = sent \ {v}
  /\ missing' = Max({missing, v})
  /\ UNCHANGED <<tab, session, posts, clock, acks, ledger, shown>>

AckArrives(v) ==
  /\ v \in acks
  /\ acks' = acks \ {v}
  /\ clock' = [clock EXCEPT !.ack = Max({@, v})]
  /\ UNCHANGED <<tab, session, posts, sent, ledger, shown, missing>>

LoseAck(v) ==
  /\ v \in acks
  /\ acks' = acks \ {v}
  /\ UNCHANGED <<tab, session, posts, clock, sent, ledger, shown, missing>>

ViewNext ==
  \/ Rendered \/ RetryTimer \/ RecordView \/ SessionAnswered \/ SessionFailed
  \/ Tick \/ Checkpoint \/ Hide \/ Show \/ Leave
  \/ \E v \in sent : StoreDuration(v) \/ LoseDuration(v)
  \/ \E v \in acks : AckArrives(v) \/ LoseAck(v)

ViewSpec == ViewInit /\ [][ViewNext]_viewVars

-----------------------------------------------------------------------------
(* Properties.                                                             *)

\* A visit is counted once, however often its request is made and answered;
\* its stored duration is never more than the report was visible, an answer
\* never claims more than is stored, and once the clock is stopped and nothing
\* is on its way the whole visible time is stored unless a request for that
\* much was lost.
VisitIsStored ==
  /\ ledger.rows <= 1
  /\ ledger.stored <= shown
  /\ \A v \in acks \cup {clock.ack} : v <= ledger.stored
  /\ clock.since = Stopped /\ sent = {} /\ missing < shown => ledger.stored = shown
=============================================================================
