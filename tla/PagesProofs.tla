---------------------------- MODULE PagesProofs ----------------------------
(***************************************************************************)
(* Three parts of the page that shows one report, the folders of           *)
(* favourites and the form of a mail schedule.  Of the log of a visit:     *)
(* what the database says about it is true, for any length of visit, any   *)
(* number of attempts and any requests on their way, by following the sum  *)
(* of the visible time from the clock of the page to its row.  Of the      *)
(* header: no export names a hidden page, because the page the header      *)
(* calls the current one is never a hidden one.  Of the notices: silence   *)
(* means fresh data, because the screen's data are never older than the    *)
(* time it is said to be rendered at.  Of the favourites: the browser ends *)
(* up showing what is stored, because an answer on its way is the last     *)
(* word unless the browser could not have learnt of a change, and no       *)
(* report is filed in a folder that is gone.  Of the form: a schedule fits *)
(* its report, by following lists that are edited in place.                *)
(***************************************************************************)
EXTENDS ViewSession, ReportEmbed, ReportNotices, FavoriteFolders, MailScheduleForm,
        FiniteSetTheorems, FunctionTheorems, SequenceTheorems, TLAPS

\* What the clock has counted since the last flush.
Elapsed == IF clock.since = Stopped THEN 0 ELSE clock.since

\* A row that is known is not asked for again; a retry is left to make.
AskedOnce ==
  /\ session.phase = "waits" => session.attempt < LastAttempt
  /\ session.phase # "idle" => session.requested
  /\ session.known => session.phase = "idle" /\ session.requested

\* The clock starts with the row, and counts what is visible.
ClockTells ==
  /\ ~session.known => clock.since = Stopped /\ shown = 0
  /\ clock.acc + Elapsed = shown

\* No request and no answer claims more than there is.
NothingInvented ==
  /\ ledger.rows \in {0, 1}
  /\ ledger.stored <= shown
  /\ \A v \in sent : v <= shown
  /\ clock.ack <= ledger.stored
  /\ \A v \in acks : v <= ledger.stored

\* What was flushed is on its way, stored, or in a request that was lost, or
\* less than what was.
NothingForgotten ==
  clock.acc \in sent \/ clock.acc <= ledger.stored \/ clock.acc <= missing

VisitIInv ==
  /\ ViewTypeOK
  /\ AskedOnce /\ ClockTells /\ NothingInvented /\ NothingForgotten

-----------------------------------------------------------------------------
\* The server keeps the larger value, and so does the page.
LEMMA MaxOfTwo ==
  ASSUME NEW x \in Nat, NEW y \in Nat
  PROVE  Max({x, y}) = IF x >= y THEN x ELSE y
BY DEF Max

\* The parts of ViewTypeOK one by one, with the fields of its records.
LEMMA TypeParts ==
  ASSUME ViewTypeOK
  PROVE  /\ session \in [requested : BOOLEAN, attempt : 0..LastAttempt,
                         phase : {"idle", "asked", "waits"}, known : BOOLEAN]
         /\ clock \in [since : {Stopped} \cup 0..MaxTime, acc : 0..MaxTime, ack : 0..MaxTime]
         /\ ledger \in [rows : Nat, stored : 0..MaxTime]
         /\ session.attempt \in 0..LastAttempt
         /\ clock.since \in {Stopped} \cup 0..MaxTime
         /\ clock.acc \in 0..MaxTime /\ clock.ack \in 0..MaxTime
         /\ ledger.rows \in Nat /\ ledger.stored \in 0..MaxTime
         /\ shown \in 0..MaxTime /\ missing \in 0..MaxTime
         /\ posts \in 0..MaxPosts
BY DEF ViewTypeOK

\* A flush, at whatever moment: the sum moves into acc, and is sent unless the
\* page knows it to be stored.
LEMMA FlushKeeps ==
  ASSUME VisitIInv, session.known, NEW stop \in BOOLEAN, NEW visible \in BOOLEAN,
         Flush(stop, visible), tab' \in [open : BOOLEAN, visible : BOOLEAN],
         UNCHANGED <<session, posts, acks, ledger, shown, missing>>
  PROVE  VisitIInv'
<1> USE ViewAssumption DEF ViewAssumption
<1> DEFINE sum == clock.acc + Elapsed
           since2 == IF ~stop /\ visible THEN 0 ELSE Stopped
<1>0. ViewTypeOK /\ AskedOnce /\ ClockTells /\ NothingInvented /\ NothingForgotten
  BY DEF VisitIInv
<1>1. /\ clock' = [clock EXCEPT !.acc = shown, !.since = since2]
      /\ sent' = IF shown > clock.ack THEN sent \cup {shown} ELSE sent
  <2>1. sum = IF clock.since = Stopped THEN clock.acc ELSE clock.acc + clock.since
    BY <1>0, TypeParts DEF Elapsed
  <2>2. sum = shown
    BY <1>0 DEF ClockTells
  <2> HIDE DEF sum
  <2>3. QED
    BY <2>1, <2>2 DEF Flush
<1>2. /\ shown \in 0..MaxTime /\ clock.ack \in 0..MaxTime
      /\ since2 \in {Stopped, 0} /\ since2 \in {Stopped} \cup 0..MaxTime
  BY <1>0, TypeParts
<1> HIDE DEF sum, since2
<1>3. /\ clock' \in [since : {Stopped} \cup 0..MaxTime, acc : 0..MaxTime, ack : 0..MaxTime]
      /\ clock'.acc = shown /\ clock'.ack = clock.ack /\ clock'.since \in {Stopped, 0}
  BY <1>0, <1>1, <1>2, TypeParts
<1>4. sent' \subseteq 1..MaxTime
  BY <1>0, <1>1, <1>2 DEF ViewTypeOK
<1>5. ViewTypeOK' /\ AskedOnce'
  BY <1>0, <1>3, <1>4 DEF ViewTypeOK, AskedOnce
<1>6. ClockTells'
  BY <1>2, <1>3 DEF ClockTells, Elapsed, Stopped
<1>7. NothingInvented'
  BY <1>0, <1>1, <1>2, <1>3 DEF NothingInvented
<1>8. NothingForgotten'
  BY <1>0, <1>1, <1>2, <1>3, TypeParts DEF NothingInvented, NothingForgotten
<1>9. QED
  BY <1>5, <1>6, <1>7, <1>8 DEF VisitIInv

-----------------------------------------------------------------------------
\* Asking for the row changes neither clock nor ledger.
LEMMA AskIInv ==
  ASSUME VisitIInv, Rendered \/ RetryTimer \/ SessionFailed
  PROVE  VisitIInv'
<1> USE ViewAssumption DEF ViewAssumption
<1>0. /\ ViewTypeOK /\ AskedOnce /\ ClockTells /\ NothingInvented /\ NothingForgotten
      /\ UNCHANGED <<tab, clock, sent, acks, ledger, shown, missing>>
      /\ ~session.known
  BY DEF VisitIInv, AskedOnce, Rendered, RetryTimer, SessionFailed
<1>1. /\ session' \in [requested : BOOLEAN, attempt : 0..LastAttempt,
                       phase : {"idle", "asked", "waits"}, known : BOOLEAN]
      /\ posts' \in 0..MaxPosts
      /\ session'.known = session.known
      /\ session'.phase = "waits" => session'.attempt < LastAttempt
      /\ session'.phase # "idle" => session'.requested
  <2>1. CASE \E n \in 0..LastAttempt : Ask(n)
    <3>1. PICK n \in 0..LastAttempt : Ask(n)
      BY <2>1
    <3>2. /\ session' = [session EXCEPT !.requested = TRUE, !.attempt = n, !.phase = "asked"]
          /\ posts < MaxPosts /\ posts' = posts + 1
      BY <3>1 DEF Ask
    <3>3. posts' \in 0..MaxPosts
      BY <1>0, <3>2, TypeParts
    <3>4. /\ session' \in [requested : BOOLEAN, attempt : 0..LastAttempt,
                           phase : {"idle", "asked", "waits"}, known : BOOLEAN]
          /\ session'.known = session.known /\ session'.phase = "asked"
          /\ session'.requested
      BY <1>0, <3>1, <3>2, TypeParts
    <3>5. QED
      BY <3>3, <3>4
  <2>2. CASE SessionFailed
    BY <1>0, <2>2, TypeParts DEF SessionFailed, AskedOnce
  <2>3. QED
    BY <1>0, <2>1, <2>2, TypeParts DEF Rendered, RetryTimer, AskedOnce
<1>2. ViewTypeOK' /\ AskedOnce'
  BY <1>0, <1>1 DEF ViewTypeOK, AskedOnce
<1>3. ClockTells' /\ NothingInvented' /\ NothingForgotten'
  BY <1>0, <1>1 DEF ClockTells, Elapsed, NothingInvented, NothingForgotten
<1>4. QED
  BY <1>2, <1>3 DEF VisitIInv

\* The row is made once.
LEMMA RecordViewIInv ==
  ASSUME VisitIInv, RecordView PROVE VisitIInv'
<1> USE ViewAssumption DEF ViewAssumption
<1>0. /\ ViewTypeOK /\ AskedOnce /\ ClockTells /\ NothingInvented /\ NothingForgotten
      /\ UNCHANGED <<tab, session, clock, sent, acks, shown, missing>>
  BY DEF VisitIInv, RecordView
<1>1. /\ ledger' \in [rows : Nat, stored : 0..MaxTime] /\ posts' \in 0..MaxPosts
      /\ ledger'.stored = ledger.stored /\ ledger'.rows \in {0, 1}
  BY <1>0, TypeParts DEF RecordView, NothingInvented
<1>2. ViewTypeOK' /\ AskedOnce'
  BY <1>0, <1>1 DEF ViewTypeOK, AskedOnce
<1>3. ClockTells' /\ NothingInvented' /\ NothingForgotten'
  BY <1>0, <1>1 DEF ClockTells, Elapsed, NothingInvented, NothingForgotten
<1>4. QED
  BY <1>2, <1>3 DEF VisitIInv

\* The answer starts the clock, which has not run before.
LEMMA SessionAnsweredIInv ==
  ASSUME VisitIInv, SessionAnswered PROVE VisitIInv'
<1> USE ViewAssumption DEF ViewAssumption
<1>0. /\ ViewTypeOK /\ AskedOnce /\ ClockTells /\ NothingInvented /\ NothingForgotten
      /\ UNCHANGED <<tab, posts, sent, acks, ledger, shown, missing>>
      /\ session.phase = "asked" /\ ~session.known
      /\ session' = [session EXCEPT !.phase = "idle", !.known = @ \/ tab.open]
      /\ session.requested
  BY DEF VisitIInv, AskedOnce, SessionAnswered
<1>1. /\ session' \in [requested : BOOLEAN, attempt : 0..LastAttempt,
                       phase : {"idle", "asked", "waits"}, known : BOOLEAN]
      /\ session'.phase = "idle" /\ session'.requested /\ session'.known = tab.open
  BY <1>0, TypeParts DEF ViewTypeOK
<1>2. /\ clock' \in [since : {Stopped} \cup 0..MaxTime, acc : 0..MaxTime, ack : 0..MaxTime]
      /\ clock'.acc = clock.acc /\ clock'.ack = clock.ack
      /\ clock'.since \in {Stopped, 0} /\ (~tab.open => clock' = clock)
  BY <1>0, TypeParts DEF SessionAnswered, ClockTells
<1>3. ViewTypeOK' /\ AskedOnce'
  BY <1>0, <1>1, <1>2 DEF ViewTypeOK, AskedOnce
<1>4. ClockTells'
  BY <1>0, <1>1, <1>2, TypeParts DEF ClockTells, Elapsed
<1>5. NothingInvented' /\ NothingForgotten'
  BY <1>0, <1>2 DEF NothingInvented, NothingForgotten
<1>6. QED
  BY <1>3, <1>4, <1>5 DEF VisitIInv

-----------------------------------------------------------------------------
\* The clock counts.
LEMMA TickIInv ==
  ASSUME VisitIInv, Tick PROVE VisitIInv'
<1> USE ViewAssumption DEF ViewAssumption
<1>0. /\ ViewTypeOK /\ AskedOnce /\ ClockTells /\ NothingInvented /\ NothingForgotten
      /\ UNCHANGED <<tab, session, posts, sent, acks, ledger, missing>>
      /\ clock.since # Stopped /\ shown < MaxTime /\ shown' = shown + 1
      /\ clock' = [clock EXCEPT !.since = @ + 1]
      /\ session.known
  BY DEF VisitIInv, Tick, ClockTells
<1>1. /\ clock.since \in 0..MaxTime /\ clock.acc \in 0..MaxTime /\ shown \in 0..MaxTime
      /\ clock.acc + clock.since = shown
  BY <1>0, TypeParts DEF ClockTells, Elapsed
<1>2. /\ clock' \in [since : {Stopped} \cup 0..MaxTime, acc : 0..MaxTime, ack : 0..MaxTime]
      /\ clock'.acc = clock.acc /\ clock'.ack = clock.ack
      /\ clock'.since = clock.since + 1
  BY <1>0, <1>1, TypeParts
<1>3. ViewTypeOK' /\ AskedOnce'
  BY <1>0, <1>1, <1>2 DEF ViewTypeOK, AskedOnce
<1>4. ClockTells'
  BY <1>0, <1>1, <1>2 DEF ClockTells, Elapsed, Stopped
<1>5. NothingInvented'
  <2>1. \A v \in sent : v \in Nat
    BY <1>0 DEF ViewTypeOK
  <2>2. QED
    BY <1>0, <1>1, <1>2, <2>1, TypeParts DEF NothingInvented
<1>6. NothingForgotten'
  BY <1>0, <1>2 DEF NothingForgotten
<1>7. QED
  BY <1>3, <1>4, <1>5, <1>6 DEF VisitIInv

\* Checkpoints, and the tab that is hidden, shown again and left.
LEMMA TabIInv ==
  ASSUME VisitIInv, Checkpoint \/ Hide \/ Show \/ Leave PROVE VisitIInv'
<1> USE ViewAssumption DEF ViewAssumption
<1>0. /\ ViewTypeOK /\ AskedOnce /\ ClockTells /\ NothingInvented /\ NothingForgotten
      /\ UNCHANGED <<session, posts, acks, ledger, shown, missing>>
      /\ tab.open \in BOOLEAN /\ tab.visible \in BOOLEAN
      /\ tab' \in [open : BOOLEAN, visible : BOOLEAN]
  BY DEF VisitIInv, ViewTypeOK, Checkpoint, Hide, Show, Leave
<1>1. ASSUME UNCHANGED <<clock, sent>> PROVE VisitIInv'
  BY <1>0, <1>1 DEF VisitIInv, ViewTypeOK, AskedOnce, ClockTells, Elapsed,
     NothingInvented, NothingForgotten
<1>2. CASE Checkpoint \/ Hide \/ Leave
  BY <1>0, <1>1, <1>2, FlushKeeps DEF Checkpoint, Hide, Leave
<1>3. CASE Show
  <2>1. UNCHANGED sent
    BY <1>3 DEF Show
  <2>2. CASE ~(session.known /\ clock.since = Stopped)
    BY <1>1, <1>3, <2>1, <2>2 DEF Show
  <2>3. CASE session.known /\ clock.since = Stopped
    <3>1. clock' = [clock EXCEPT !.since = 0]
      BY <1>3, <2>3 DEF Show
    <3>2. /\ clock' \in [since : {Stopped} \cup 0..MaxTime, acc : 0..MaxTime, ack : 0..MaxTime]
          /\ clock'.acc = clock.acc /\ clock'.ack = clock.ack /\ clock'.since = 0
      BY <1>0, <3>1, TypeParts
    <3>3. ViewTypeOK' /\ AskedOnce'
      BY <1>0, <2>1, <3>2 DEF ViewTypeOK, AskedOnce
    <3>4. ClockTells' /\ NothingInvented' /\ NothingForgotten'
      BY <1>0, <2>1, <2>3, <3>2, TypeParts
         DEF ClockTells, Elapsed, NothingInvented, NothingForgotten, Stopped
    <3>5. QED
      BY <3>3, <3>4 DEF VisitIInv
  <2>4. QED
    BY <2>2, <2>3
<1>4. QED
  BY <1>2, <1>3

-----------------------------------------------------------------------------
\* A duration is stored, or lost.
LEMMA DurationIInv ==
  ASSUME VisitIInv, NEW v \in sent, StoreDuration(v) \/ LoseDuration(v)
  PROVE  VisitIInv'
<1> USE ViewAssumption DEF ViewAssumption
<1>0. /\ ViewTypeOK /\ AskedOnce /\ ClockTells /\ NothingInvented /\ NothingForgotten
      /\ UNCHANGED <<tab, session, posts, clock, shown>> /\ sent' = sent \ {v}
      /\ v \in 1..MaxTime /\ v <= shown /\ \A w \in acks : w \in Nat
  BY DEF VisitIInv, ViewTypeOK, StoreDuration, LoseDuration, NothingInvented
<1>1. /\ shown \in 0..MaxTime /\ ledger.stored \in 0..MaxTime /\ missing \in 0..MaxTime
      /\ clock.acc \in Nat /\ clock.ack \in Nat
  BY <1>0, TypeParts
<1>2. /\ AskedOnce' /\ ClockTells'
      /\ \A w \in sent' : w <= shown'
  BY <1>0 DEF AskedOnce, ClockTells, Elapsed, NothingInvented
<1>3. CASE StoreDuration(v)
  <2> DEFINE new == Max({ledger.stored, v})
  <2>1. /\ new \in 0..MaxTime /\ new <= shown /\ new >= v /\ new >= ledger.stored
    <3>1. ledger.stored \in Nat /\ v \in Nat
      BY <1>0, <1>1
    <3>2. new = IF ledger.stored >= v THEN ledger.stored ELSE v
      BY <3>1, MaxOfTwo
    <3>3. v \in 0..MaxTime /\ v <= shown /\ ledger.stored <= shown
      BY <1>0 DEF NothingInvented
    <3> HIDE DEF new
    <3>4. QED
      BY <1>1, <3>2, <3>3
  <2>2. /\ ledger' = [ledger EXCEPT !.stored = new] /\ acks' = acks \cup {v}
        /\ UNCHANGED missing
    BY <1>3 DEF StoreDuration
  <2> HIDE DEF new
  <2>3. /\ ledger' \in [rows : Nat, stored : 0..MaxTime]
        /\ ledger'.stored = new /\ ledger'.rows = ledger.rows
    BY <1>0, <2>1, <2>2, TypeParts
  <2>4. ViewTypeOK'
    BY <1>0, <2>2, <2>3 DEF ViewTypeOK
  <2>5. NothingInvented'
    BY <1>0, <1>1, <1>2, <2>1, <2>2, <2>3 DEF NothingInvented
  <2>6. NothingForgotten'
    BY <1>0, <1>1, <2>1, <2>2, <2>3 DEF NothingForgotten
  <2>7. QED
    BY <1>2, <2>4, <2>5, <2>6 DEF VisitIInv
<1>4. CASE LoseDuration(v)
  <2>1. /\ missing' = Max({missing, v}) /\ UNCHANGED <<acks, ledger>>
    BY <1>4 DEF LoseDuration
  <2>2. missing' \in 0..MaxTime /\ missing' >= v /\ missing' >= missing
    BY <1>0, <1>1, <2>1, MaxOfTwo
  <2>3. ViewTypeOK'
    BY <1>0, <2>1, <2>2 DEF ViewTypeOK
  <2>4. NothingInvented'
    BY <1>0, <1>2, <2>1 DEF NothingInvented
  <2>5. NothingForgotten'
    BY <1>0, <1>1, <2>1, <2>2 DEF NothingForgotten
  <2>6. QED
    BY <1>2, <2>3, <2>4, <2>5 DEF VisitIInv
<1>5. QED
  BY <1>3, <1>4

\* An answer arrives, or is lost.
LEMMA AckIInv ==
  ASSUME VisitIInv, NEW v \in acks, AckArrives(v) \/ LoseAck(v)
  PROVE  VisitIInv'
<1> USE ViewAssumption DEF ViewAssumption
<1>0. /\ ViewTypeOK /\ AskedOnce /\ ClockTells /\ NothingInvented /\ NothingForgotten
      /\ UNCHANGED <<tab, session, posts, sent, ledger, shown, missing>>
      /\ acks' = acks \ {v} /\ v \in 1..MaxTime /\ v <= ledger.stored
  BY DEF VisitIInv, ViewTypeOK, AckArrives, LoseAck, NothingInvented
<1>1. /\ clock' \in [since : {Stopped} \cup 0..MaxTime, acc : 0..MaxTime, ack : 0..MaxTime]
      /\ clock'.acc = clock.acc /\ clock'.since = clock.since
      /\ clock'.ack \in {clock.ack, v}
  <2>1. CASE AckArrives(v)
    <3>1. Max({clock.ack, v}) \in {clock.ack, v}
      BY <1>0, TypeParts, MaxOfTwo
    <3> DEFINE new == Max({clock.ack, v})
    <3>2. clock' = [clock EXCEPT !.ack = new]
      BY <2>1 DEF AckArrives
    <3>3. new \in {clock.ack, v} /\ new \in 0..MaxTime
      BY <1>0, <3>1, TypeParts
    <3> HIDE DEF new
    <3>4. QED
      BY <1>0, <3>2, <3>3, TypeParts
  <2>2. CASE LoseAck(v)
    BY <1>0, <2>2, TypeParts DEF LoseAck
  <2>3. QED
    BY <2>1, <2>2
<1>2. ViewTypeOK' /\ AskedOnce' /\ ClockTells'
  BY <1>0, <1>1 DEF ViewTypeOK, AskedOnce, ClockTells, Elapsed
<1>3. NothingInvented' /\ NothingForgotten'
  BY <1>0, <1>1 DEF NothingInvented, NothingForgotten
<1>4. QED
  BY <1>2, <1>3 DEF VisitIInv

-----------------------------------------------------------------------------
\* At first nothing is asked for, sent or stored.
LEMMA VisitInitIInv ==
  ASSUME ViewInit PROVE VisitIInv
BY ViewAssumption DEF ViewAssumption, ViewInit, VisitIInv, ViewTypeOK, AskedOnce, ClockTells, Elapsed,
   NothingInvented, NothingForgotten, Stopped

\* One case per action.
LEMMA VisitStepIInv ==
  ASSUME VisitIInv, [ViewNext]_viewVars PROVE VisitIInv'
<1>1. CASE UNCHANGED viewVars
  BY <1>1 DEF viewVars, VisitIInv, ViewTypeOK, AskedOnce, ClockTells, Elapsed,
     NothingInvented, NothingForgotten
<1>2. CASE Rendered \/ RetryTimer \/ SessionFailed
  BY <1>2, AskIInv
<1>3. CASE RecordView
  BY <1>3, RecordViewIInv
<1>4. CASE SessionAnswered
  BY <1>4, SessionAnsweredIInv
<1>5. CASE Tick
  BY <1>5, TickIInv
<1>6. CASE Checkpoint \/ Hide \/ Show \/ Leave
  BY <1>6, TabIInv
<1>7. CASE \E v \in sent : StoreDuration(v) \/ LoseDuration(v)
  BY <1>7, DurationIInv
<1>8. CASE \E v \in acks : AckArrives(v) \/ LoseAck(v)
  BY <1>8, AckIInv
<1>9. QED
  BY <1>1, <1>2, <1>3, <1>4, <1>5, <1>6, <1>7, <1>8 DEF ViewNext

\* The inductive invariant holds in every state of a visit.
THEOREM VisitInvariance == ViewSpec => []VisitIInv
<1>1. ViewInit => VisitIInv
  BY VisitInitIInv
<1>2. VisitIInv /\ [ViewNext]_viewVars => VisitIInv'
  BY VisitStepIInv
<1>3. QED
  BY <1>1, <1>2, PTL DEF ViewSpec

\* The state of a visit keeps its types.
THEOREM VisitTypeCorrect == ViewSpec => []ViewTypeOK
<1>1. VisitIInv => ViewTypeOK
  BY DEF VisitIInv
<1>2. QED
  BY <1>1, VisitInvariance, PTL

\* A visit is counted once, with no more than the visible time, and with all of
\* it when nothing is on its way any more and no request for as much was lost
\* (_record_report_view_session and report_view_duration against flush).
THEOREM VisitsAreStored == ViewSpec => []VisitIsStored
<1>1. VisitIInv => VisitIsStored
  <2> SUFFICES ASSUME VisitIInv PROVE VisitIsStored
    OBVIOUS
  <2>1. /\ ViewTypeOK /\ ClockTells /\ NothingInvented /\ NothingForgotten
        /\ ledger.rows \in {0, 1}
    BY DEF VisitIInv, NothingInvented
  <2>2. ledger.rows <= 1 /\ ledger.stored <= shown
    BY <2>1 DEF NothingInvented
  <2>3. \A v \in acks \cup {clock.ack} : v <= ledger.stored
    BY <2>1 DEF NothingInvented
  <2>4. ASSUME clock.since = Stopped, sent = {}, missing < shown
        PROVE  ledger.stored = shown
    BY <2>1, <2>2, <2>4, TypeParts DEF ClockTells, Elapsed, NothingForgotten
  <2>5. QED
    BY <2>2, <2>3, <2>4 DEF VisitIsStored
<1>2. QED
  BY <1>1, VisitInvariance, PTL

-----------------------------------------------------------------------------
(* The header of the page and its exports.                                 *)

\* The report has a visible first page, and nothing is called like a page or a
\* view that is not there.
EmbedConstants ==
  /\ Hidden \subseteq Pages /\ First \in Visible
  /\ Nothing \notin Pages \cup Jobs
  /\ MaxExports \in Nat

\* What is exported, and where the names of pages in a request come from: the
\* page of the header and the one a capture has taken from it.
EmbedIInv ==
  /\ EmbedTypeOK
  /\ IsFiniteSet(exports)
  /\ capture # NoCapture => Cardinality(exports) < MaxExports
  /\ names.active \notin Hidden /\ capture.page \notin Hidden
  /\ NoHiddenPageExported

\* The parts of EmbedTypeOK, with the fields of its records.
LEMMA EmbedParts ==
  ASSUME EmbedTypeOK
  PROVE  /\ frame \in Frame /\ lists \subseteq Pages
         /\ frame.page \in Pages /\ frame.view \in Views
         /\ frame.going \in Pages \cup {Nothing} /\ frame.ready \in BOOLEAN
         /\ names \in [listed : BOOLEAN, active : Pages \cup {Nothing}]
         /\ names.active \in Pages \cup {Nothing}
         /\ menu \in {"none", "view", "download"}
         /\ default \in [stored : Views \cup {Nothing}, known : Views \cup {Nothing}, saving : BOOLEAN]
         /\ default.stored \in Views \cup {Nothing} /\ default.known \in Views \cup {Nothing}
         /\ capture \in [for : Jobs \cup {Nothing}, page : Pages \cup {Nothing}]
         /\ capture.page \in Pages \cup {Nothing}
BY DEF EmbedTypeOK, Frame

\* What the report does in its frame is nothing to the header.
LEMMA FrameEmbedIInv ==
  ASSUME EmbedConstants, EmbedIInv,
         UNCHANGED <<capture, exports>>,
         names' \in [listed : BOOLEAN, active : Pages \cup {Nothing}], names'.active \notin Hidden,
         frame' \in Frame, lists' \in SUBSET Pages,
         menu' \in {"none", "view", "download"},
         default' \in [stored : Views \cup {Nothing}, known : Views \cup {Nothing}, saving : BOOLEAN]
  PROVE  EmbedIInv'
BY DEF EmbedIInv, EmbedTypeOK, NoHiddenPageExported, NoCapture

\* The report announces itself, lists its pages, is turned and filtered.
LEMMA ReportEmbedIInv ==
  ASSUME EmbedConstants, EmbedIInv,
         \/ HandleReport \/ Loaded \/ LeaveFullscreen
         \/ \E ok \in BOOLEAN : DefaultApplied(ok) \/ PageTurned(ok)
         \/ \E p \in Pages : PagesArrive(p) \/ PagesFail(p) \/ SelectPage(p) \/ Navigate(p)
         \/ \E v \in Views : Slice(v)
  PROVE  EmbedIInv'
<1>0. EmbedTypeOK /\ names.active \notin Hidden
  BY DEF EmbedIInv
<1> USE <1>0, EmbedParts
<1>1. CASE HandleReport \/ Loaded \/ LeaveFullscreen
  <2>1. frame' \in Frame
    BY <1>1 DEF HandleReport, Loaded, LeaveFullscreen, Frame
  <2>2. lists' \in SUBSET Pages /\ UNCHANGED <<names, menu, default, capture, exports>>
    BY <1>1 DEF HandleReport, Loaded, LeaveFullscreen, LoadPages
  <2>3. QED
    BY <2>1, <2>2, FrameEmbedIInv
<1>2. CASE \E ok \in BOOLEAN : DefaultApplied(ok) \/ PageTurned(ok)
  <2>1. PICK ok \in BOOLEAN : DefaultApplied(ok) \/ PageTurned(ok)
    BY <1>2
  <2>2. frame' \in Frame
    <3>1. CASE DefaultApplied(ok)
      BY <3>1 DEF DefaultApplied, Frame
    <3>2. CASE PageTurned(ok)
      BY <3>2 DEF PageTurned, Frame
    <3>3. QED
      BY <2>1, <3>1, <3>2
  <2>3. lists' \in SUBSET Pages /\ UNCHANGED <<names, menu, default, capture, exports>>
    BY <2>1 DEF DefaultApplied, PageTurned, LoadPages
  <2>4. QED
    BY <2>2, <2>3, FrameEmbedIInv
<1>3. CASE \E p \in Pages : PagesArrive(p) \/ PagesFail(p) \/ SelectPage(p) \/ Navigate(p)
  <2>1. PICK p \in Pages : PagesArrive(p) \/ PagesFail(p) \/ SelectPage(p) \/ Navigate(p)
    BY <1>3
  <2>2. frame' \in Frame
    BY <2>1 DEF PagesArrive, PagesFail, SelectPage, Navigate, Frame
  <2>3. lists' \in SUBSET Pages /\ UNCHANGED <<menu, default, capture, exports>>
    BY <2>1 DEF PagesArrive, PagesFail, SelectPage, Navigate
  <2>4. Initial(p) \in Visible
    BY DEF Initial, Visible, EmbedConstants
  <2>5. /\ names' \in [listed : BOOLEAN, active : Pages \cup {Nothing}]
        /\ names'.active \notin Hidden
    <3>1. CASE PagesArrive(p)
      BY <3>1, <2>4 DEF PagesArrive, Visible
    <3>2. CASE SelectPage(p)
      BY <3>2 DEF SelectPage, Visible
    <3>3. CASE UNCHANGED names
      BY <3>3
    <3>4. QED
      BY <2>1, <3>1, <3>2, <3>3 DEF PagesFail, Navigate
  <2>6. QED
    BY <2>2, <2>3, <2>5, FrameEmbedIInv
<1>4. CASE \E v \in Views : Slice(v)
  <2>1. frame' \in Frame /\ UNCHANGED <<lists, names, menu, default, capture, exports>>
    BY <1>4 DEF Slice, Frame
  <2>2. QED
    BY <2>1, FrameEmbedIInv
<1>5. QED
  BY <1>1, <1>2, <1>3, <1>4

\* The menus, the display options and the common default view.
LEMMA MenuEmbedIInv ==
  ASSUME EmbedConstants, EmbedIInv,
         \/ ClearDefault
         \/ \E ok \in BOOLEAN : DefaultSaved(ok)
         \/ \E m \in {"view", "download"} : ToggleMenu(m)
         \/ \E d \in {"fit", "actual", "full"} : Display(d)
  PROVE  EmbedIInv'
<1>0. EmbedTypeOK /\ names.active \notin Hidden
  BY DEF EmbedIInv
<1> USE <1>0, EmbedParts
<1>1. CASE ClearDefault \/ \E ok \in BOOLEAN : DefaultSaved(ok)
  <2>1. default' \in [stored : Views \cup {Nothing}, known : Views \cup {Nothing}, saving : BOOLEAN]
    BY <1>1 DEF ClearDefault, Mutate, DefaultSaved
  <2>2. menu' \in {"none", "view", "download"} /\ UNCHANGED <<frame, lists, names, capture, exports>>
    BY <1>1 DEF ClearDefault, DefaultSaved
  <2>3. QED
    BY <2>1, <2>2, FrameEmbedIInv
<1>2. CASE \E m \in {"view", "download"} : ToggleMenu(m)
  <2>1. menu' \in {"none", "view", "download"}
        /\ UNCHANGED <<frame, lists, names, default, capture, exports>>
    BY <1>2 DEF ToggleMenu
  <2>2. QED
    BY <2>1, FrameEmbedIInv
<1>3. CASE \E d \in {"fit", "actual", "full"} : Display(d)
  <2>1. frame' \in Frame
    BY <1>3 DEF Display, Frame
  <2>2. menu' \in {"none", "view", "download"}
        /\ UNCHANGED <<lists, names, default, capture, exports>>
    BY <1>3 DEF Display
  <2>3. QED
    BY <2>1, <2>2, FrameEmbedIInv
<1>4. QED
  BY <1>1, <1>2, <1>3

\* A click takes the page of the header along.
LEMMA ClickEmbedIInv ==
  ASSUME EmbedConstants, EmbedIInv, NEW job \in Jobs, Click(job) PROVE EmbedIInv'
<1>1. /\ UNCHANGED <<frame, lists, names, default, exports>> /\ menu' = "none"
      /\ capture' = [for |-> job, page |-> names.active]
      /\ Cardinality(exports) < MaxExports
  BY DEF Click
<1>2. capture' \in [for : Jobs \cup {Nothing}, page : Pages \cup {Nothing}]
  BY <1>1, EmbedParts DEF EmbedIInv
<1>3. QED
  BY <1>1, <1>2 DEF EmbedIInv, EmbedTypeOK, NoHiddenPageExported

\* The request names the page of the capture, or the visible ones.
LEMMA CapturedEmbedIInv ==
  ASSUME EmbedConstants, EmbedIInv, NEW ok \in BOOLEAN, Captured(ok) PROVE EmbedIInv'
<1>0. EmbedTypeOK /\ IsFiniteSet(exports) /\ Cardinality(exports) < MaxExports
      /\ NoHiddenPageExported /\ names.active \notin Hidden /\ capture.page \notin Hidden
  BY DEF EmbedIInv, Captured
<1>1. PICK view : view \in Views \cup {Nothing} /\
        IF capture.for = "save"
        THEN (IF ok THEN Mutate(view) ELSE UNCHANGED default) /\ UNCHANGED exports
        ELSE exports' = exports \cup {Request(view)} /\ UNCHANGED default
  BY <1>0, EmbedParts DEF Captured
<1>2. capture' = NoCapture /\ UNCHANGED <<frame, lists, names, menu>>
  BY DEF Captured
<1>3. default' \in [stored : Views \cup {Nothing}, known : Views \cup {Nothing}, saving : BOOLEAN]
  BY <1>0, <1>1, EmbedParts DEF Mutate
<1>4. Request(view).page \notin Hidden /\ Request(view).pages \cap Hidden = {}
  BY <1>0 DEF Request, Visible, EmbedConstants
<1>5. exports' = exports \/ exports' = exports \cup {Request(view)}
  BY <1>1
<1>6. IsFiniteSet(exports') /\ Cardinality(exports') <= MaxExports
  <2>1. Cardinality(exports) \in Nat
    BY <1>0, FS_CardinalityType
  <2>2. CASE exports' = exports \cup {Request(view)}
    <3>1. /\ IsFiniteSet(exports')
          /\ Cardinality(exports') \in {Cardinality(exports), Cardinality(exports) + 1}
      BY <1>0, <2>2, FS_AddElement
    <3>2. QED
      BY <1>0, <2>1, <3>1 DEF EmbedConstants
  <2>3. QED
    BY <1>0, <1>5, <2>1, <2>2 DEF EmbedConstants
<1>7. NoHiddenPageExported'
  BY <1>0, <1>4, <1>5 DEF NoHiddenPageExported
<1>8. capture' \in [for : Jobs \cup {Nothing}, page : Pages \cup {Nothing}] /\ capture'.page \notin Hidden
  BY <1>2 DEF NoCapture, EmbedConstants
<1>9. EmbedTypeOK'
  BY <1>0, <1>2, <1>3, <1>6, <1>8 DEF EmbedTypeOK
<1>10. QED
  BY <1>0, <1>2, <1>6, <1>7, <1>8, <1>9 DEF EmbedIInv, NoCapture

\* Whatever the user does in the header or in the report, and in whatever order
\* the report answers.
THEOREM EmbedInvariance ==
  ASSUME EmbedConstants PROVE EmbedSpec => []EmbedIInv
<1>1. EmbedInit => EmbedIInv
  <2> SUFFICES ASSUME EmbedInit PROVE EmbedIInv
    OBVIOUS
  <2>1. First \in Pages /\ Nothing \notin Hidden
    BY DEF EmbedConstants, Visible
  <2>2. frame \in Frame
    BY <2>1 DEF EmbedInit, Frame
  <2>3. IsFiniteSet(exports) /\ Cardinality(exports) = 0
    BY FS_EmptySet DEF EmbedInit
  <2>4. names \in [listed : BOOLEAN, active : Pages \cup {Nothing}] /\ names.active = Nothing
    BY DEF EmbedInit
  <2>5. default \in [stored : Views \cup {Nothing}, known : Views \cup {Nothing}, saving : BOOLEAN]
    BY DEF EmbedInit
  <2>6. EmbedTypeOK
    BY <2>2, <2>3, <2>4, <2>5 DEF EmbedInit, EmbedTypeOK, NoCapture, EmbedConstants
  <2>7. QED
    BY <2>1, <2>3, <2>4, <2>6 DEF EmbedInit, EmbedIInv, NoCapture, NoHiddenPageExported
<1>2. EmbedIInv /\ [EmbedNext]_embedVars => EmbedIInv'
  <2> SUFFICES ASSUME EmbedIInv, [EmbedNext]_embedVars PROVE EmbedIInv'
    OBVIOUS
  <2>1. CASE UNCHANGED embedVars
    BY <2>1 DEF embedVars, EmbedIInv, EmbedTypeOK, NoHiddenPageExported
  <2>2. CASE EmbedNext
    BY <2>2, ReportEmbedIInv, MenuEmbedIInv, ClickEmbedIInv, CapturedEmbedIInv DEF EmbedNext
  <2>3. QED
    BY <2>1, <2>2
<1>3. QED
  BY <1>1, <1>2, PTL DEF EmbedSpec

\* No export names a page that the report hides, although the user may be on one
\* inside the report when the list of pages arrives (getPages, setActivePageName and
\* the export payload of the header).
THEOREM ExportsHideHiddenPages ==
  ASSUME EmbedConstants PROVE EmbedSpec => []NoHiddenPageExported
<1>1. EmbedIInv => NoHiddenPageExported
  BY DEF EmbedIInv
<1>2. QED
  BY <1>1, EmbedInvariance, PTL

-----------------------------------------------------------------------------
(* The notices of the page.                                                *)

\* A completed run is drawn, or was missed, or ended after the time at which the
\* page says it was rendered.
Settled(n) ==
  screen.queried => \/ n <= screen.data \/ n \in screen.missed
                    \/ (screen.rendered /\ n > screen.at)

\* What the server has, what the page knows of it and what is drawn are in step:
\* the last completed run has the data, and the page knows of no later one.
NoticesIInv ==
  /\ NoticesTypeOK
  /\ dataset.data <= dataset.run
  /\ dataset.status = "Unknown" => dataset.data < dataset.run
  /\ dataset.status = "Completed" => dataset.data = dataset.run
  /\ live.status = "Completed" => live.run <= dataset.data
  /\ screen.data <= dataset.data
  /\ screen.rendered => screen.queried /\ screen.at <= dataset.data
  /\ Settled(dataset.data)
  /\ live.status = "Completed" => Settled(live.run)

\* The fields of the records of NoticesTypeOK.
LEMMA NoticesParts ==
  ASSUME NoticesTypeOK
  PROVE  /\ dataset \in [run : Runs, status : Statuses, data : Runs]
         /\ dataset.run \in Runs /\ dataset.data \in Runs /\ dataset.status \in Statuses
         /\ screen \in Screen /\ screen.data \in Runs /\ screen.at \in Runs
         /\ screen.missed \in SUBSET Runs
         /\ live \in [run : Runs, status : Statuses] /\ live.run \in Runs
         /\ applied \in Runs /\ pending \in SUBSET {"refresh", "upload"}
         /\ notice \in [shown : BOOLEAN, show : BOOLEAN, clear : BOOLEAN]
         /\ dialog \in Dialog /\ wasRunning \in BOOLEAN
BY DEF NoticesTypeOK, Screen

\* The state of the notices keeps its types.
LEMMA NoticesTyped ==
  ASSUME MaxRuns \in Nat, NoticesTypeOK, NoticesNext PROVE NoticesTypeOK'
<1> USE NoticesParts
<1>0. 0 \in Runs /\ Runs \subseteq Nat
  BY DEF Runs
<1>1. CASE RunStarts \/ \E ok \in BOOLEAN : RunEnds(ok)
  <2>1. dataset' \in [run : Runs, status : Statuses, data : Runs]
    <3>1. CASE RunStarts
      <4>1. dataset.run + 1 \in Runs
        BY <3>1 DEF RunStarts, Runs
      <4>2. QED
        BY <3>1, <4>1 DEF RunStarts, Statuses
    <3>2. CASE \E ok \in BOOLEAN : RunEnds(ok)
      BY <3>2 DEF RunEnds, Statuses
    <3>3. QED
      BY <1>1, <3>1, <3>2
  <2>2. screen' \in Screen
    <3>1. CASE RunStarts
      BY <3>1 DEF RunStarts
    <3>2. ASSUME NEW ok \in BOOLEAN, RunEnds(ok) PROVE screen' \in Screen
      <4>1. screen.missed \cup {dataset.run} \in SUBSET Runs
        OBVIOUS
      <4>2. [screen EXCEPT !.missed = @ \cup {dataset.run}] \in Screen
        BY <4>1 DEF Screen
      <4>3. QED
        BY <3>2, <4>2 DEF RunEnds
    <3>3. QED
      BY <1>1, <3>1, <3>2
  <2>3. UNCHANGED <<live, applied, notice, pending, dialog>>
    <3>1. ASSUME RunStarts PROVE UNCHANGED <<live, applied, notice, pending, dialog>>
      BY <3>1 DEF RunStarts
    <3>2. ASSUME NEW ok \in BOOLEAN, RunEnds(ok)
          PROVE  UNCHANGED <<live, applied, notice, pending, dialog>>
      BY <3>2 DEF RunEnds
    <3>3. QED
      BY <1>1, <3>1, <3>2
  <2>4. UNCHANGED wasRunning
    <3>1. ASSUME RunStarts PROVE UNCHANGED wasRunning
      BY <3>1 DEF RunStarts
    <3>2. ASSUME NEW ok \in BOOLEAN, RunEnds(ok) PROVE UNCHANGED wasRunning
      BY <3>2 DEF RunEnds
    <3>3. QED
      BY <1>1, <3>1, <3>2
  <2>5. wasRunning' \in BOOLEAN
    BY <2>4
  <2>6. applied' \in Runs /\ pending' \subseteq {"refresh", "upload"} /\ live' \in [run : Runs, status : Statuses]
    BY <2>3
  <2>7. notice' \in [shown : BOOLEAN, show : BOOLEAN, clear : BOOLEAN] /\ dialog' \in Dialog
    BY <2>3
  <2>8. QED
    BY <2>1, <2>2, <2>5, <2>6, <2>7 DEF NoticesTypeOK
<1>2. CASE Poll
  <2>1. live' \in [run : Runs, status : Statuses]
    BY <1>2 DEF Poll
  <2>2. wasRunning' \in BOOLEAN
    BY <1>2 DEF Poll
  <2>3. (wasRunning /\ dataset.status = "Failed") \in BOOLEAN
    OBVIOUS
  <2>4. notice' \in [shown : BOOLEAN, show : BOOLEAN, clear : BOOLEAN]
    BY <1>2, <2>3 DEF Poll, Announce
  <2>5. QED
    BY <1>2, <2>1, <2>2, <2>4 DEF Poll, NoticesTypeOK
<1>3. CASE ShowNotice \/ ClearNotice
  <2>1. notice' \in [shown : BOOLEAN, show : BOOLEAN, clear : BOOLEAN]
    BY <1>3 DEF ShowNotice, ClearNotice
  <2>2. QED
    BY <1>3, <2>1 DEF ShowNotice, ClearNotice, NoticesTypeOK
<1>4. CASE Query \/ Render \/ ApplyNewData \/ DismissNewData
  <2>1. screen' \in Screen
    BY <1>4 DEF Query, Render, ApplyNewData, DismissNewData, Screen
  <2>2. applied' \in Runs
    BY <1>0, <1>4 DEF Query, Render, ApplyNewData, DismissNewData, NewDataEnd
  <2>3. QED
    BY <1>4, <2>1, <2>2 DEF Query, Render, ApplyNewData, DismissNewData, NoticesTypeOK
<1>5. CASE ClickRefresh \/ RefreshAnswered \/ Upload
  BY <1>5 DEF ClickRefresh, RefreshAnswered, Upload, NoticesTypeOK
<1>6. CASE OpenDialog \/ CloseDialog \/ \E ok \in BOOLEAN : PickFile(ok) \/ Uploaded(ok)
  <2>1. \A open, file \in BOOLEAN : [open |-> open, file |-> file] \in Dialog
    BY DEF Dialog
  <2>2. CASE OpenDialog \/ CloseDialog
    <3>1. dialog' \in Dialog
      BY <2>1, <2>2 DEF OpenDialog, CloseDialog, Dialog
    <3>2. QED
      BY <2>2, <3>1 DEF OpenDialog, CloseDialog, NoticesTypeOK
  <2>3. CASE \E ok \in BOOLEAN : PickFile(ok) \/ Uploaded(ok)
    <3>1. PICK ok \in BOOLEAN : PickFile(ok) \/ Uploaded(ok)
      BY <2>3
    <3>2. dialog' \in Dialog
      <4>1. CASE PickFile(ok)
        BY <4>1 DEF PickFile, Dialog
      <4>2. CASE Uploaded(ok)
        BY <2>1, <4>2 DEF Uploaded
      <4>3. QED
        BY <3>1, <4>1, <4>2
    <3>3. QED
      BY <3>1, <3>2 DEF PickFile, Uploaded, NoticesTypeOK
  <2>4. QED
    BY <1>6, <2>2, <2>3
<1>7. QED
  BY <1>1, <1>2, <1>3, <1>4, <1>5, <1>6 DEF NoticesNext

\* The numbers that NoticesIInv relates, and the fields that a step writes.
LEMMA NoticesNumbers ==
  ASSUME MaxRuns \in Nat, NoticesTypeOK
  PROVE  /\ dataset.run \in Nat /\ dataset.data \in Nat /\ live.run \in Nat
         /\ screen.data \in Nat /\ screen.at \in Nat
BY NoticesParts DEF Runs

\* A run that starts only has a new number.
LEMMA RunStartsKeeps ==
  ASSUME MaxRuns \in Nat, NoticesIInv, RunStarts, NoticesTypeOK'
  PROVE  NoticesIInv'
<1>1. /\ dataset'.run = dataset.run + 1 /\ dataset'.status = "Unknown"
      /\ dataset'.data = dataset.data /\ UNCHANGED <<live, screen>>
  BY NoticesParts DEF NoticesIInv, RunStarts
<1>2. QED
  BY <1>1, NoticesNumbers DEF NoticesIInv, Settled

\* A run that completes was missed, or is later than the rendered event.
LEMMA RunEndsKeeps ==
  ASSUME MaxRuns \in Nat, NoticesIInv, NEW ok \in BOOLEAN, RunEnds(ok), NoticesTypeOK'
  PROVE  NoticesIInv'
<1>1. /\ dataset.status = "Unknown" /\ dataset'.run = dataset.run
      /\ dataset'.status = IF ok THEN "Completed" ELSE "Failed"
      /\ dataset'.data = IF ok THEN dataset.run ELSE dataset.data
      /\ UNCHANGED live
  BY NoticesParts DEF NoticesIInv, RunEnds
<1>2. /\ screen'.queried = screen.queried /\ screen'.rendered = screen.rendered
      /\ screen'.data = screen.data /\ screen'.at = screen.at
      /\ screen'.missed = IF ok /\ screen.queried /\ ~screen.rendered
                         THEN screen.missed \cup {dataset.run} ELSE screen.missed
  BY NoticesParts DEF NoticesIInv, RunEnds, Screen
<1>3. ASSUME NEW k \in Nat, Settled(k) PROVE Settled(k)'
  BY <1>2, <1>3 DEF Settled
<1>4. CASE ok
  <2>1. dataset'.data = dataset.run /\ dataset.data < dataset.run
    BY <1>1, <1>4 DEF NoticesIInv
  <2>2. Settled(dataset.run)'
    <3>1. screen.rendered => screen.at <= dataset.data
      BY DEF NoticesIInv
    <3>2. screen.queried /\ ~screen.rendered => dataset.run \in screen'.missed
      BY <1>2, <1>4
    <3>3. screen.rendered => dataset.run > screen.at
      BY <2>1, <3>1, NoticesNumbers DEF NoticesIInv
    <3>4. dataset'.run = dataset.run
      BY <1>1
    <3>5. QED
      BY <1>2, <3>2, <3>3, <3>4 DEF Settled
  <2>3. Settled(dataset.data)'
    BY <1>1, <2>1, <2>2 DEF Settled
  <2>4. live.status = "Completed" => Settled(live.run)'
    BY <1>1, <1>3, NoticesNumbers DEF NoticesIInv
  <2>5. QED
    BY <1>1, <1>2, <1>4, <2>1, <2>3, <2>4, NoticesNumbers DEF NoticesIInv
<1>5. CASE ~ok
  <2>1. dataset'.data = dataset.data /\ dataset'.status = "Failed"
    BY <1>1, <1>5
  <2>2. Settled(dataset.data)' /\ (live.status = "Completed" => Settled(live.run)')
    BY <1>1, <1>2, <1>5, <2>1 DEF NoticesIInv, Settled
  <2>3. QED
    BY <1>1, <1>2, <2>1, <2>2, NoticesNumbers DEF NoticesIInv
<1>6. QED
  BY <1>4, <1>5

\* What the page learns is what the server has.
LEMMA PollKeeps ==
  ASSUME MaxRuns \in Nat, NoticesIInv, Poll, NoticesTypeOK'
  PROVE  NoticesIInv'
<1>1. /\ live'.run = dataset.run /\ live'.status = dataset.status
      /\ UNCHANGED <<dataset, screen>>
  BY DEF Poll
<1>2. QED
  BY <1>1, NoticesNumbers DEF NoticesIInv, Settled

\* The screen takes what the server has, and the time of it.
LEMMA ScreenKeeps ==
  ASSUME MaxRuns \in Nat, NoticesIInv, Query \/ Render \/ ApplyNewData, NoticesTypeOK'
  PROVE  NoticesIInv'
<1>0. screen \in Screen /\ UNCHANGED <<dataset, live>>
  BY NoticesParts DEF NoticesIInv, Query, Render, ApplyNewData
<1>1. ASSUME screen'.queried, screen'.data = dataset.data, screen'.at = screen.at,
             screen'.rendered = screen.rendered
      PROVE  NoticesIInv'
  BY <1>0, <1>1, NoticesNumbers DEF NoticesIInv, Settled
<1>2. CASE Query
  BY <1>0, <1>1, <1>2 DEF Query, Screen
<1>3. CASE ApplyNewData
  <2>1. screen.queried
    BY <1>3 DEF ApplyNewData, NewDataAvailable, NoticesIInv
  <2>2. QED
    BY <1>0, <1>1, <1>3, <2>1 DEF ApplyNewData, Screen
<1>4. CASE Render
  <2>1. /\ screen.queried /\ ~screen.rendered /\ screen'.queried
        /\ screen'.data = screen.data /\ screen'.missed = screen.missed
        /\ screen'.at = dataset.data
    BY <1>0, <1>4 DEF Render, Screen
  <2>2. QED
    BY <1>0, <2>1, NoticesNumbers DEF NoticesIInv, Settled
<1>5. QED
  BY <1>2, <1>3, <1>4

\* However runs, polls, refreshes and answers interleave.
THEOREM NoticesInvariance ==
  ASSUME MaxRuns \in Nat PROVE NoticesSpec => []NoticesIInv
<1>1. NoticesInit => NoticesIInv
  <2> SUFFICES ASSUME NoticesInit PROVE NoticesIInv
    OBVIOUS
  <2>1. 0 \in Runs
    BY DEF Runs
  <2>2. /\ dataset \in [run : Runs, status : Statuses, data : Runs]
        /\ live \in [run : Runs, status : Statuses]
    BY <2>1 DEF NoticesInit, Statuses
  <2>3. screen \in Screen /\ dialog \in Dialog
    BY <2>1 DEF NoticesInit, Screen, Dialog
  <2>4. notice \in [shown : BOOLEAN, show : BOOLEAN, clear : BOOLEAN] /\ wasRunning \in BOOLEAN
    BY DEF NoticesInit
  <2>5. QED
    BY <2>1, <2>2, <2>3, <2>4 DEF NoticesInit, NoticesIInv, NoticesTypeOK, Settled
<1>2. NoticesIInv /\ [NoticesNext]_noticeVars => NoticesIInv'
  <2> SUFFICES ASSUME NoticesIInv, [NoticesNext]_noticeVars PROVE NoticesIInv'
    OBVIOUS
  <2>1. NoticesTypeOK'
    <3>1. CASE UNCHANGED noticeVars
      BY <3>1 DEF noticeVars, NoticesIInv, NoticesTypeOK
    <3>2. QED
      BY <3>1, NoticesTyped DEF NoticesIInv
  <2>2. CASE UNCHANGED <<dataset, live, screen>>
    BY <2>1, <2>2 DEF NoticesIInv, Settled
  <2>3. CASE RunStarts \/ Poll \/ \E ok \in BOOLEAN : RunEnds(ok)
    BY <2>1, <2>3, RunStartsKeeps, PollKeeps, RunEndsKeeps
  <2>4. CASE Query \/ Render \/ ApplyNewData
    BY <2>1, <2>4, ScreenKeeps
  <2>5. QED
    BY <2>2, <2>3, <2>4
       DEF noticeVars, NoticesNext, ShowNotice, ClearNotice, DismissNewData, ClickRefresh,
           RefreshAnswered, OpenDialog, CloseDialog, Upload, PickFile, Uploaded
<1>3. QED
  BY <1>1, <1>2, PTL DEF NoticesSpec

\* A page that offers no new data shows them or was told not to, but for a run
\* that completed while it was being rendered (newDataEndTime against renderedAt
\* and appliedEndTime).
THEOREM SilenceMeansFresh ==
  ASSUME MaxRuns \in Nat PROVE NoticesSpec => []QuietMeansFresh
<1>1. NoticesIInv => QuietMeansFresh
  <2> SUFFICES ASSUME NoticesIInv, screen.rendered, NewDataEnd > 0, ~Refreshing,
                      ~NewDataAvailable, applied # NewDataEnd
               PROVE  screen.data >= NewDataEnd \/ NewDataEnd \in screen.missed
    BY DEF QuietMeansFresh
  <2>1. live.status = "Completed" /\ NewDataEnd = live.run
    BY DEF NewDataEnd
  <2>2. ~(live.run > screen.at)
    BY <2>1 DEF NewDataAvailable
  <2>3. screen.queried /\ Settled(live.run) /\ NoticesTypeOK
    BY <2>1 DEF NoticesIInv
  <2>4. QED
    BY <2>1, <2>2, <2>3, NoticesNumbers DEF Settled
<1>2. QED
  BY <1>1, NoticesInvariance, PTL

-----------------------------------------------------------------------------
(* The folders of favourites, at the server and in the browser.            *)

\* A folder number is what it is called by; no answer and no mutation is the
\* same as none.
FavoriteConstants ==
  /\ MaxId \in Nat
  /\ None # Asked
  /\ {None, Asked} \cap (Seq(Folder) \cup [Reports -> Places]) = {}
  /\ None \notin [kind : {"reorder"}, ids : Seq(Folders)]

\* What the two queries answer.
Answers(q) == IF q = "list" THEN Seq(Folder) ELSE [Reports -> Places]

FavoriteTyped ==
  /\ stored \in [list : Seq(Folder), place : [Reports -> Places]]
  /\ cached \in [list : Seq(Folder), place : [Reports -> Places]]
  /\ nextId \in 1..(MaxId + 1)
  /\ DOMAIN fetch = Queries /\ \A q \in Queries : fetch[q] \in {None, Asked} \cup Answers(q)
  /\ prompt \in Reports \cup {None}
  /\ unaware \in [Queries -> BOOLEAN]

\* A mutation names folders that there were.
MutationTyped == work # None =>
  /\ work.kind \in {"create", "rename", "delete", "reorder"}
  /\ work.kind \in {"create", "rename"} => work.name \in Names
  /\ work.kind \in {"rename", "delete"} => work.id \in Folders
  /\ work.kind = "reorder" => work.ids \in Seq(Folders)

\* The new order is shown before it is stored.
Reordering(q) == q = "list" /\ work # None /\ work.kind = "reorder"

\* An answer that is on its way is the last word, and so is what is shown when
\* none is, unless a change was made where the browser could not learn it.
BrowserKnows == \A q \in Queries : ~unaware[q] =>
  /\ fetch[q] \notin {None, Asked} => fetch[q] = stored[q]
  /\ fetch[q] = None /\ ~Reordering(q) => cached[q] = stored[q]

FavoriteIInv ==
  /\ FavoriteTyped /\ MutationTyped
  /\ IdsIn(stored.list) \subseteq 1..(nextId - 1)
  /\ selected \in {All, Unfiled} \cup IdsIn(cached.list)
  /\ BrowserKnows

-----------------------------------------------------------------------------
(* Lists of folders.                                                       *)

\* A folder of a list has a position there.
LEMMA PositionFound ==
  ASSUME NEW list \in Seq(Folder), NEW f \in IdsIn(list)
  PROVE  Position(list, f) \in 1..Len(list) /\ list[Position(list, f)].id = f
BY LenProperties DEF IdsIn, Position

\* The folders of a list are numbered.
LEMMA IdsAreFolders ==
  ASSUME NEW list \in Seq(Folder)
  PROVE  IdsIn(list) \subseteq Folders
<1> SUFFICES ASSUME NEW i \in DOMAIN list PROVE list[i].id \in Folders
  BY DEF IdsIn
<1>1. list[i] \in Folder
  BY LenProperties, ElementOfSeq
<1>2. QED
  BY <1>1 DEF Folder

\* A folder is added.
LEMMA AppendKeeps ==
  ASSUME NEW list \in Seq(Folder), NEW x \in Folder
  PROVE  /\ Append(list, x) \in Seq(Folder)
         /\ IdsIn(Append(list, x)) = IdsIn(list) \cup {x.id}
<1>1. /\ Append(list, x) \in Seq(Folder) /\ Len(Append(list, x)) = Len(list) + 1
      /\ \A i \in 1..Len(list) : Append(list, x)[i] = list[i]
      /\ Append(list, x)[Len(list) + 1] = x
  BY AppendProperties
<1>2. /\ Len(list) \in Nat /\ DOMAIN list = 1..Len(list)
      /\ DOMAIN Append(list, x) = 1..(Len(list) + 1)
  BY <1>1, LenProperties
<1>3. IdsIn(Append(list, x)) \subseteq IdsIn(list) \cup {x.id}
  BY <1>1, <1>2 DEF IdsIn
<1>4. \A i \in 1..Len(list) : list[i].id \in IdsIn(Append(list, x))
  BY <1>1, <1>2 DEF IdsIn
<1>5. x.id \in IdsIn(Append(list, x))
  BY <1>1, <1>2 DEF IdsIn
<1>6. QED
  BY <1>1, <1>2, <1>3, <1>4, <1>5 DEF IdsIn

\* A folder is taken out, and no other one.
LEMMA WithoutKeeps ==
  ASSUME NEW list \in Seq(Folder), NEW f
  PROVE  /\ Without(list, f) \in Seq(Folder)
         /\ IdsIn(list) \ {f} \subseteq IdsIn(Without(list, f))
         /\ IdsIn(Without(list, f)) \subseteq IdsIn(list)
         /\ f \notin IdsIn(list) => Without(list, f) = list
<1>1. CASE f \notin IdsIn(list)
  BY <1>1 DEF Without
<1>2. CASE f \in IdsIn(list)
  <2> DEFINE p == Position(list, f)
             n == Len(list)
             a == SubSeq(list, 1, p - 1)
             b == SubSeq(list, p + 1, n)
  <2>1. p \in 1..n /\ list[p].id = f /\ n \in Nat /\ DOMAIN list = 1..n
    BY <1>2, PositionFound, LenProperties
  <2>2. \A i \in 1..n : list[i] \in Folder
    BY ElementOfSeq
  <2>3. Without(list, f) = a \o b
    BY <1>2 DEF Without, RemoveAt
  <2> HIDE DEF p, n
  <2>4. /\ a \in Seq(Folder) /\ Len(a) = p - 1
        /\ \A i \in 1..(p - 1) : a[i] = list[i]
    <3>1. /\ a \in Seq(Folder) /\ Len(a) = IF 1 <= p - 1 THEN p - 1 - 1 + 1 ELSE 0
          /\ \A i \in 1..(p - 1 - 1 + 1) : a[i] = list[1 + i - 1]
      BY <2>1, <2>2, SubSeqProperties
    <3> HIDE DEF a
    <3>2. QED
      BY <2>1, <3>1
  <2>5. /\ b \in Seq(Folder) /\ Len(b) = n - p
        /\ \A i \in 1..(n - p) : b[i] = list[p + i]
    <3>1. /\ b \in Seq(Folder) /\ Len(b) = IF p + 1 <= n THEN n - (p + 1) + 1 ELSE 0
          /\ \A i \in 1..(n - (p + 1) + 1) : b[i] = list[p + 1 + i - 1]
      BY <2>1, <2>2, SubSeqProperties
    <3> HIDE DEF a, b
    <3>2. n - (p + 1) + 1 = n - p /\ (p + 1 <= n \/ n - p = 0)
      BY <2>1
    <3>3. ASSUME NEW i \in 1..(n - p) PROVE b[i] = list[p + i]
      <4>1. p + 1 + i - 1 = p + i
        BY <2>1
      <4>2. QED
        BY <3>1, <3>2, <4>1
    <3>4. QED
      BY <3>1, <3>2, <3>3
  <2> HIDE DEF a, b
  <2> DEFINE w == a \o b
  <2>6. /\ w \in Seq(Folder) /\ Len(w) = n - 1
        /\ \A i \in 1..(n - 1) : w[i] = IF i < p THEN list[i] ELSE list[i + 1]
    <3>1. /\ w \in Seq(Folder) /\ Len(w) = Len(a) + Len(b)
          /\ \A i \in 1..(Len(a) + Len(b)) : w[i] = IF i <= Len(a) THEN a[i] ELSE b[i - Len(a)]
      BY <2>4, <2>5, ConcatProperties
    <3> HIDE DEF w
    <3>2. Len(a) + Len(b) = n - 1
      BY <2>1, <2>4, <2>5
    <3>3. ASSUME NEW i \in 1..(n - 1) PROVE w[i] = IF i < p THEN list[i] ELSE list[i + 1]
      <4>1. CASE i < p
        BY <2>1, <2>4, <3>1, <3>2, <4>1
      <4>2. CASE i >= p
        <5>1. w[i] = b[i - (p - 1)] /\ i - (p - 1) \in 1..(n - p)
          <6>1. ~(i <= Len(a)) /\ i \in 1..(Len(a) + Len(b)) /\ Len(a) = p - 1
            BY <2>1, <2>4, <3>2, <4>2
          <6>2. w[i] = b[i - Len(a)]
            BY <3>1, <6>1
          <6>3. QED
            BY <2>1, <4>2, <6>1, <6>2
        <5>2. b[i - (p - 1)] = list[p + (i - (p - 1))] /\ p + (i - (p - 1)) = i + 1
          BY <2>1, <2>5, <5>1
        <5>3. QED
          BY <2>1, <4>2, <5>1, <5>2
      <4>3. QED
        BY <2>1, <4>1, <4>2
    <3>4. QED
      BY <3>1, <3>2, <3>3
  <2> HIDE DEF w
  <2>7. DOMAIN w = 1..(n - 1)
    BY <2>1, <2>6, LenProperties
  <2>8. ASSUME NEW i \in 1..n, list[i].id # f PROVE list[i].id \in IdsIn(w)
    <3>1. CASE i < p
      <4>1. i \in 1..(n - 1)
        BY <2>1, <3>1
      <4>2. w[i] = list[i]
        BY <2>6, <3>1, <4>1
      <4>3. QED
        BY <2>7, <4>1, <4>2 DEF IdsIn
    <3>2. CASE i > p
      <4>1. i - 1 \in 1..(n - 1) /\ ~(i - 1 < p) /\ (i - 1) + 1 = i
        BY <2>1, <3>2
      <4>2. w[i - 1] = list[i]
        BY <2>6, <4>1
      <4>3. QED
        BY <2>7, <4>1, <4>2 DEF IdsIn
    <3>3. QED
      BY <2>1, <2>8, <3>1, <3>2
  <2>9. ASSUME NEW i \in 1..(n - 1) PROVE w[i].id \in IdsIn(list)
    <3>1. i \in 1..n /\ i + 1 \in 1..n
      BY <2>1
    <3>2. QED
      BY <2>1, <2>6, <3>1 DEF IdsIn
  <2>10. IdsIn(list) \ {f} \subseteq IdsIn(w)
    BY <2>1, <2>8 DEF IdsIn
  <2>11. IdsIn(w) \subseteq IdsIn(list)
    <3> SUFFICES ASSUME NEW x \in IdsIn(w) PROVE x \in IdsIn(list)
      OBVIOUS
    <3>1. PICK i \in 1..(n - 1) : x = w[i].id
      BY <2>7 DEF IdsIn
    <3>2. QED
      BY <2>9, <3>1
  <2>12. Without(list, f) = w
    BY <2>3 DEF w
  <2>13. QED
    BY <1>2, <2>6, <2>10, <2>11, <2>12
<1>3. QED
  BY <1>1, <1>2

\* A folder is renamed.
LEMMA RenamedKeeps ==
  ASSUME NEW list \in Seq(Folder), NEW f, NEW n \in Names
  PROVE  Renamed(list, f, n) \in Seq(Folder) /\ IdsIn(Renamed(list, f, n)) = IdsIn(list)
<1>1. Len(list) \in Nat /\ DOMAIN list = 1..Len(list) /\ \A i \in 1..Len(list) : list[i] \in Folder
  BY LenProperties, ElementOfSeq
<1> DEFINE e(i) == IF list[i].id = f THEN [list[i] EXCEPT !.name = n] ELSE list[i]
<1>2. \A i \in 1..Len(list) : e(i) \in Folder /\ e(i).id = list[i].id
  BY <1>1 DEF Folder
<1>3. Renamed(list, f, n) = [i \in 1..Len(list) |-> e(i)]
  BY <1>1 DEF Renamed
<1> HIDE DEF e
<1>4. [i \in 1..Len(list) |-> e(i)] \in Seq(Folder)
  BY <1>1, <1>2, IsASeq
<1>5. QED
  BY <1>1, <1>2, <1>3, <1>4 DEF IdsIn

\* Two neighbours change places.
LEMMA SwappedKeeps ==
  ASSUME NEW list \in Seq(Folder), NEW i \in 1..(Len(list) - 1)
  PROVE  Swapped(list, i) \in Seq(Folder) /\ IdsIn(Swapped(list, i)) = IdsIn(list)
<1>1. Len(list) \in Nat /\ DOMAIN list = 1..Len(list) /\ \A j \in 1..Len(list) : list[j] \in Folder
  BY LenProperties, ElementOfSeq
<1> DEFINE e(j) == IF j = i THEN list[i + 1] ELSE IF j = i + 1 THEN list[i] ELSE list[j]
<1>2. i \in 1..Len(list) /\ i + 1 \in 1..Len(list) /\ i # i + 1
  BY <1>1
<1>3. Swapped(list, i) = [j \in 1..Len(list) |-> e(j)]
  BY <1>1, <1>2 DEF Swapped
<1>4. \A j \in 1..Len(list) : e(j) \in Folder
  BY <1>1, <1>2
<1>5. \A j \in 1..Len(list) : \E k \in 1..Len(list) : e(j) = list[k]
  BY <1>2
<1>6. \A j \in 1..Len(list) : \E k \in 1..Len(list) : e(k) = list[j]
  BY <1>2
<1> HIDE DEF e
<1>7. [j \in 1..Len(list) |-> e(j)] \in Seq(Folder)
  BY <1>1, <1>4, IsASeq
<1> DEFINE l == [j \in 1..Len(list) |-> e(j)]
<1>8. IdsIn(l) = {e(j).id : j \in 1..Len(list)}
  BY DEF IdsIn
<1>9. IdsIn(list) = {list[j].id : j \in 1..Len(list)}
  BY <1>1 DEF IdsIn
<1> HIDE DEF l
<1>10. IdsIn(l) = IdsIn(list)
  <2>1. ASSUME NEW x \in IdsIn(l) PROVE x \in IdsIn(list)
    BY <1>5, <1>8, <1>9, <2>1
  <2>2. ASSUME NEW x \in IdsIn(list) PROVE x \in IdsIn(l)
    BY <1>6, <1>8, <1>9, <2>2
  <2>3. QED
    BY <2>1, <2>2
<1>11. QED
  BY <1>3, <1>7, <1>10 DEF l

\* The folders of a list in the order of their numbers in ids.
Ordered(list, ids) == [i \in DOMAIN ids |-> list[Position(list, ids[i])]]

\* An order that names the stored folders leaves folders that were stored.
LEMMA ReorderKeeps ==
  ASSUME NEW list \in Seq(Folder), NEW ids \in Seq(Folders), Range(ids) = IdsIn(list)
  PROVE  Ordered(list, ids) \in Seq(Folder) /\ IdsIn(Ordered(list, ids)) \subseteq IdsIn(list)
<1>1. Len(ids) \in Nat /\ DOMAIN ids = 1..Len(ids) /\ DOMAIN list = 1..Len(list)
  BY LenProperties
<1> DEFINE e(i) == list[Position(list, ids[i])]
<1>2. \A i \in 1..Len(ids) : ids[i] \in IdsIn(list)
  BY <1>1 DEF Range
<1>3. \A i \in 1..Len(ids) : e(i) \in Folder /\ e(i).id \in IdsIn(list)
  BY <1>1, <1>2, PositionFound, ElementOfSeq
<1> HIDE DEF e
<1>4. [i \in 1..Len(ids) |-> e(i)] \in Seq(Folder)
  BY <1>1, <1>3, IsASeq
<1>5. QED
  BY <1>1, <1>3, <1>4 DEF IdsIn, Ordered, e

-----------------------------------------------------------------------------
(* The favourites at the server and in the browser.                        *)

\* The parts of FavoriteIInv, with the two queries written out.
LEMMA FavoriteParts ==
  ASSUME FavoriteConstants, FavoriteIInv
  PROVE  /\ FavoriteTyped /\ MutationTyped /\ BrowserKnows
         /\ stored.list \in Seq(Folder) /\ stored.place \in [Reports -> Places]
         /\ cached.list \in Seq(Folder) /\ cached.place \in [Reports -> Places]
         /\ nextId \in 1..(MaxId + 1) /\ MaxId \in Nat
         /\ IdsIn(stored.list) \subseteq 1..(nextId - 1)
         /\ IdsIn(stored.list) \subseteq Folders /\ IdsIn(cached.list) \subseteq Folders
         /\ selected \in {All, Unfiled} \cup IdsIn(cached.list)
         /\ "list" \in Queries /\ "place" \in Queries
         /\ \A q \in Queries : q = "list" \/ q = "place"
         /\ \A q \in Queries : unaware[q] \in BOOLEAN
BY IdsAreFolders DEF FavoriteConstants, FavoriteIInv, FavoriteTyped, Queries

\* A fetch that is asked for anew, or fails, tells nothing wrong.
LEMMA FavoriteFetchIInv ==
  ASSUME FavoriteConstants, FavoriteIInv, NEW q \in Queries,
         Refetch(q) \/ FetchFails(q) \/ FetchRead(q)
  PROVE  FavoriteIInv'
<1>0. FavoriteTyped /\ MutationTyped /\ BrowserKnows
  BY FavoriteParts
<1>1. UNCHANGED <<stored, nextId, cached, work, prompt, selected>>
  BY DEF Refetch, FetchFails, FetchRead
<1>3. stored[q] \in Answers(q) /\ stored[q] \notin {None, Asked} /\ None # Asked
  BY FavoriteParts DEF Answers, FavoriteConstants
<1>2. /\ DOMAIN fetch' = Queries /\ fetch'[q] \in {None, Asked, stored[q]}
      /\ \A x \in Queries \ {q} : fetch'[x] = fetch[x] /\ unaware'[x] = unaware[x]
      /\ fetch'[q] = None => unaware'[q]
      /\ fetch'[q] = stored[q] => ~unaware'[q]
      /\ unaware' \in [Queries -> BOOLEAN]
  <2>0. DOMAIN fetch = Queries /\ unaware \in [Queries -> BOOLEAN]
    BY <1>0 DEF FavoriteTyped
  <2>1. CASE Refetch(q)
    <3>1. /\ fetch' = [x \in Queries |-> IF x \in {q} THEN Asked ELSE fetch[x]]
          /\ unaware' = unaware
      BY <2>1 DEF Refetch, Invalidate
    <3>2. QED
      BY <1>3, <2>0, <3>1
  <2>2. CASE FetchFails(q)
    <3>1. /\ fetch' = [fetch EXCEPT ![q] = None]
          /\ unaware' = [unaware EXCEPT ![q] = TRUE]
      BY <2>2 DEF FetchFails
    <3>2. QED
      BY <1>3, <2>0, <3>1
  <2>3. CASE FetchRead(q)
    <3>1. /\ fetch' = [fetch EXCEPT ![q] = stored[q]]
          /\ unaware' = [unaware EXCEPT ![q] = FALSE]
      BY <2>3 DEF FetchRead
    <3>2. QED
      BY <1>3, <2>0, <3>1
  <2>4. QED
    BY <2>1, <2>2, <2>3
<1>4. FavoriteTyped'
  BY <1>0, <1>1, <1>2, <1>3 DEF FavoriteTyped
<1>5. BrowserKnows'
  BY <1>0, <1>1, <1>2 DEF BrowserKnows, Reordering
<1>6. QED
  BY <1>0, <1>1, <1>4, <1>5 DEF FavoriteIInv, MutationTyped

\* An answer takes the place of what was shown, and the selection fits it.
LEMMA FavoriteArrivesIInv ==
  ASSUME FavoriteConstants, FavoriteIInv, NEW q \in Queries, FetchArrives(q)
  PROVE  FavoriteIInv'
<1>0. FavoriteTyped /\ MutationTyped /\ BrowserKnows
  BY FavoriteParts
<1>1. /\ UNCHANGED <<stored, nextId, work, prompt, unaware>>
      /\ fetch[q] \notin {None, Asked}
      /\ cached' = [cached EXCEPT ![q] = fetch[q]] /\ fetch' = [fetch EXCEPT ![q] = None]
      /\ selected' = Valid(selected, cached'.list)
  BY DEF FetchArrives
<1>2. fetch[q] \in Answers(q)
  BY <1>0, <1>1 DEF FavoriteTyped
<1>3. /\ cached' \in [list : Seq(Folder), place : [Reports -> Places]]
      /\ cached'[q] = fetch[q] /\ \A x \in Queries \ {q} : cached'[x] = cached[x]
  <2>1. CASE q = "list"
    <3>1. cached' = [cached EXCEPT !["list"] = fetch[q]] /\ fetch[q] \in Seq(Folder)
      BY <1>1, <1>2, <2>1 DEF Answers
    <3>2. QED
      BY <1>0, <2>1, <3>1 DEF FavoriteTyped, Queries
  <2>2. CASE q = "place"
    <3>1. cached' = [cached EXCEPT !["place"] = fetch[q]] /\ fetch[q] \in [Reports -> Places]
      BY <1>1, <1>2, <2>2 DEF Answers
    <3>2. QED
      BY <1>0, <2>2, <3>1 DEF FavoriteTyped, Queries
  <2>3. QED
    BY <2>1, <2>2 DEF Queries
<1>4. /\ DOMAIN fetch' = Queries /\ fetch'[q] = None
      /\ \A x \in Queries \ {q} : fetch'[x] = fetch[x]
  BY <1>0, <1>1 DEF FavoriteTyped
<1>5. FavoriteTyped'
  BY <1>0, <1>1, <1>3, <1>4 DEF FavoriteTyped
<1>6. BrowserKnows'
  BY <1>0, <1>1, <1>3, <1>4 DEF BrowserKnows, Reordering
<1>7. selected' \in {All, Unfiled} \cup IdsIn(cached'.list)
  BY <1>1, FavoriteParts DEF Valid
<1>8. QED
  BY <1>0, <1>1, <1>5, <1>6, <1>7 DEF FavoriteIInv, MutationTyped

\* Asking for a mutation changes what is shown only when it is a new order.
LEMMA AskFavoriteIInv ==
  ASSUME FavoriteConstants, FavoriteIInv,
         \/ \E f \in Folders : AskDelete(f)
         \/ \E n \in Names : AskCreate(n)
         \/ \E f \in Folders, n \in Names : AskRename(f, n)
         \/ \E i \in Folders : AskReorder(i)
  PROVE  FavoriteIInv'
<1>0. FavoriteTyped /\ MutationTyped /\ BrowserKnows /\ work = None
  BY FavoriteParts DEF AskDelete, AskCreate, AskRename, AskReorder, Idle
<1>1. CASE ~\E i \in Folders : AskReorder(i)
  <2>1. UNCHANGED <<stored, nextId, cached, fetch, prompt, selected, unaware>>
    BY <1>1 DEF AskDelete, AskCreate, AskRename
  <2>2. MutationTyped'
    <3>1. CASE \E f \in Folders : AskDelete(f)
      <4>1. PICK f \in Folders : work' = [kind |-> "delete", id |-> f]
        BY <3>1 DEF AskDelete
      <4>2. QED
        BY <4>1 DEF MutationTyped
    <3>2. CASE \E n \in Names : AskCreate(n)
      <4>1. PICK n \in Names : work' = [kind |-> "create", name |-> n]
        BY <3>2 DEF AskCreate
      <4>2. QED
        BY <4>1 DEF MutationTyped
    <3>3. CASE \E f \in Folders, n \in Names : AskRename(f, n)
      <4>1. PICK f \in Folders, n \in Names : work' = [kind |-> "rename", id |-> f, name |-> n]
        BY <3>3 DEF AskRename
      <4>2. QED
        BY <4>1 DEF MutationTyped
    <3>4. QED
      BY <1>1, <3>1, <3>2, <3>3
  <2>3. BrowserKnows'
    BY <1>0, <2>1 DEF BrowserKnows, Reordering
  <2>4. QED
    BY <1>0, <2>1, <2>2, <2>3 DEF FavoriteIInv, FavoriteTyped
<1>2. CASE \E i \in Folders : AskReorder(i)
  <2> DEFINE l(i) == Swapped(cached.list, i)
             ids(i) == [j \in DOMAIN l(i) |-> l(i)[j].id]
  <2>1. PICK i \in 1..(Len(cached.list) - 1) :
          /\ cached' = [cached EXCEPT !.list = l(i)]
          /\ work' = [kind |-> "reorder", ids |-> ids(i)]
    BY <1>2 DEF AskReorder
  <2>2. UNCHANGED <<stored, nextId, fetch, prompt, selected, unaware>>
    BY <1>2 DEF AskReorder
  <2>3. l(i) \in Seq(Folder) /\ IdsIn(l(i)) = IdsIn(cached.list)
    BY SwappedKeeps, FavoriteParts
  <2>4. ids(i) \in Seq(Folders)
    <3> DEFINE e(j) == l(i)[j].id
    <3>1. Len(l(i)) \in Nat /\ DOMAIN l(i) = 1..Len(l(i))
      BY <2>3, LenProperties
    <3>2. \A j \in 1..Len(l(i)) : e(j) \in Folders
      BY <2>3, <3>1, IdsAreFolders DEF IdsIn
    <3>3. ids(i) = [j \in 1..Len(l(i)) |-> e(j)]
      BY <3>1
    <3> HIDE DEF e, ids, l
    <3>4. QED
      BY <3>1, <3>2, <3>3, IsASeq
  <2> HIDE DEF ids, l
  <2>5. /\ cached' \in [list : Seq(Folder), place : [Reports -> Places]]
        /\ cached'.list = l(i) /\ cached'.place = cached.place
    BY <1>0, <2>1, <2>3 DEF FavoriteTyped
  <2>6. MutationTyped' /\ Reordering("list")'
    <3>1. work' \in [kind : {"reorder"}, ids : Seq(Folders)]
      BY <2>1, <2>4
    <3>2. QED
      BY <2>1, <2>4, <3>1 DEF MutationTyped, Reordering, FavoriteConstants
  <2>7. BrowserKnows'
    BY <1>0, <2>2, <2>5, <2>6 DEF BrowserKnows, Reordering, Queries
  <2>8. FavoriteTyped' /\ selected' \in {All, Unfiled} \cup IdsIn(cached'.list)
    BY <1>0, <2>2, <2>3, <2>5, FavoriteParts DEF FavoriteTyped
  <2>9. QED
    BY <2>2, <2>6, <2>7, <2>8 DEF FavoriteIInv
<1>3. QED
  BY <1>1, <1>2

\* The folders and the places after a deletion.
DeleteTyped(f) ==
  /\ Delete(f) \in [list : Seq(Folder), place : [Reports -> Places]]
  /\ IdsIn(Delete(f).list) \subseteq IdsIn(stored.list)

LEMMA DeleteKeeps ==
  ASSUME stored.list \in Seq(Folder), stored.place \in [Reports -> Places], NEW f
  PROVE  DeleteTyped(f)
<1> DEFINE pl == [r \in Reports |-> IF stored.place[r] = f THEN Unfiled ELSE stored.place[r]]
<1>1. pl \in [Reports -> Places]
  BY DEF Places
<1>2. Without(stored.list, f) \in Seq(Folder) /\ IdsIn(Without(stored.list, f)) \subseteq IdsIn(stored.list)
  BY WithoutKeeps
<1>3. Delete(f) = [list |-> Without(stored.list, f), place |-> pl]
  BY DEF Delete
<1> HIDE DEF pl
<1>4. QED
  BY <1>1, <1>2, <1>3 DEF DeleteTyped

\* What the server makes of a mutation that it takes.
LEMMA CarryKeeps ==
  ASSUME FavoriteConstants, FavoriteIInv, work # None, ~Refused(work), Carry(work)
  PROVE  /\ stored' \in [list : Seq(Folder), place : [Reports -> Places]]
         /\ nextId' \in 1..(MaxId + 1) /\ nextId <= nextId'
         /\ IdsIn(stored'.list) \subseteq 1..(nextId' - 1)
         /\ work.kind = "reorder" => stored'.place = stored.place
<1>0. /\ MutationTyped /\ stored \in [list : Seq(Folder), place : [Reports -> Places]]
      /\ stored.list \in Seq(Folder) /\ stored.place \in [Reports -> Places]
      /\ nextId \in 1..(MaxId + 1) /\ MaxId \in Nat
      /\ IdsIn(stored.list) \subseteq 1..(nextId - 1)
      /\ work.kind \in {"create", "rename", "delete", "reorder"}
  BY FavoriteParts DEF MutationTyped, FavoriteTyped
<1>1. CASE work.kind = "create"
  <2> DEFINE x == [id |-> nextId, name |-> work.name]
  <2>1. nextId \in Folders /\ work.name \in Names /\ nextId' = nextId + 1
    BY <1>0, <1>1 DEF Refused, Folders, MutationTyped, Carry
  <2>2. x \in Folder /\ x.id = nextId
    BY <2>1 DEF Folder
  <2>3. stored' = [stored EXCEPT !.list = Append(stored.list, x)]
    BY <1>1 DEF Carry, Create
  <2> HIDE DEF x
  <2>4. /\ Append(stored.list, x) \in Seq(Folder)
        /\ IdsIn(Append(stored.list, x)) = IdsIn(stored.list) \cup {nextId}
    BY <1>0, <2>2, AppendKeeps
  <2>5. /\ stored' \in [list : Seq(Folder), place : [Reports -> Places]]
        /\ IdsIn(stored'.list) = IdsIn(stored.list) \cup {nextId}
    BY <1>0, <2>3, <2>4
  <2>6. nextId' \in 1..(MaxId + 1) /\ nextId <= nextId'
    BY <1>0, <2>1 DEF Folders
  <2>7. QED
    BY <1>0, <1>1, <2>1, <2>5, <2>6
<1>2. CASE work.kind = "rename"
  <2>1. stored' = [stored EXCEPT !.list = Renamed(stored.list, work.id, work.name)] /\ nextId' = nextId
    BY <1>2 DEF Carry, Rename
  <2>2. work.name \in Names
    BY <1>0, <1>2 DEF MutationTyped
  <2>3. /\ Renamed(stored.list, work.id, work.name) \in Seq(Folder)
        /\ IdsIn(Renamed(stored.list, work.id, work.name)) = IdsIn(stored.list)
    BY <1>0, <2>2, RenamedKeeps
  <2>4. QED
    BY <1>0, <1>2, <2>1, <2>3
<1>3. CASE work.kind = "delete"
  <2>1. nextId' = nextId /\ stored' = Delete(work.id)
    BY <1>3 DEF Carry
  <2>2. DeleteTyped(work.id)
    BY <1>0, DeleteKeeps
  <2>3. QED
    BY <1>0, <1>3, <2>1, <2>2 DEF DeleteTyped
<1>4. CASE work.kind = "reorder"
  <2> DEFINE l == Ordered(stored.list, work.ids)
  <2>1. nextId' = nextId /\ stored' = [stored EXCEPT !.list = l]
    BY <1>4 DEF Carry, Reorder, Ordered
  <2>2. work.ids \in Seq(Folders) /\ Range(work.ids) = IdsIn(stored.list)
    BY <1>0, <1>4 DEF MutationTyped, Refused
  <2>3. l \in Seq(Folder) /\ IdsIn(l) \subseteq IdsIn(stored.list)
    BY <1>0, <2>2, ReorderKeeps
  <2> HIDE DEF l
  <2>4. QED
    BY <1>0, <1>4, <2>1, <2>3
<1>5. QED
  BY <1>0, <1>1, <1>2, <1>3, <1>4

\* What the browser shows after the answer: the folder that was made, and not
\* the one that was deleted.
LEMMA ShownKeeps ==
  ASSUME FavoriteConstants, FavoriteIInv, work # None, ~Refused(work)
  PROVE  /\ Shown(work) \in [list : Seq(Folder), place : [Reports -> Places]]
         /\ IdsIn(cached.list) \ (IF work.kind = "delete" THEN {work.id} ELSE {}) \subseteq IdsIn(Shown(work).list)
         /\ work.kind = "create" => nextId \in IdsIn(Shown(work).list)
         /\ work.kind = "reorder" => Shown(work) = cached
<1>0. /\ MutationTyped /\ cached \in [list : Seq(Folder), place : [Reports -> Places]]
      /\ cached.list \in Seq(Folder) /\ nextId \in 1..(MaxId + 1) /\ MaxId \in Nat
      /\ work.kind \in {"create", "rename", "delete", "reorder"}
  BY FavoriteParts DEF MutationTyped, FavoriteTyped
<1>1. CASE work.kind = "create"
  <2> DEFINE x == [id |-> nextId, name |-> work.name]
             v == Without(cached.list, nextId)
             l == Append(v, x)
  <2>1. nextId \in Folders /\ work.name \in Names
    BY <1>0, <1>1 DEF Refused, Folders, MutationTyped
  <2>2. x \in Folder /\ x.id = nextId
    BY <2>1 DEF Folder
  <2>3. Shown(work) = [cached EXCEPT !.list = l]
    BY <1>1 DEF Shown
  <2> HIDE DEF x
  <2>4. v \in Seq(Folder) /\ IdsIn(cached.list) \ {nextId} \subseteq IdsIn(v)
    BY <1>0, WithoutKeeps
  <2> HIDE DEF v
  <2>5. l \in Seq(Folder) /\ IdsIn(l) = IdsIn(v) \cup {nextId}
    BY <2>2, <2>4, AppendKeeps
  <2> HIDE DEF l
  <2>6. Shown(work) \in [list : Seq(Folder), place : [Reports -> Places]] /\ Shown(work).list = l
    BY <1>0, <2>3, <2>5
  <2>7. QED
    BY <1>1, <2>4, <2>5, <2>6
<1>2. CASE work.kind = "rename"
  <2> DEFINE l == Renamed(cached.list, work.id, work.name)
  <2>1. Shown(work) = [cached EXCEPT !.list = l]
    BY <1>2 DEF Shown
  <2>2. work.name \in Names
    BY <1>0, <1>2 DEF MutationTyped
  <2>3. l \in Seq(Folder) /\ IdsIn(l) = IdsIn(cached.list)
    BY <1>0, <2>2, RenamedKeeps
  <2> HIDE DEF l
  <2>4. Shown(work) \in [list : Seq(Folder), place : [Reports -> Places]] /\ Shown(work).list = l
    BY <1>0, <2>1, <2>3
  <2>5. QED
    BY <1>2, <2>3, <2>4
<1>3. CASE work.kind = "delete"
  <2> DEFINE l == Without(cached.list, work.id)
  <2>1. Shown(work) = [cached EXCEPT !.list = l]
    BY <1>3 DEF Shown
  <2>2. l \in Seq(Folder) /\ IdsIn(cached.list) \ {work.id} \subseteq IdsIn(l)
    BY <1>0, WithoutKeeps
  <2> HIDE DEF l
  <2>3. Shown(work) \in [list : Seq(Folder), place : [Reports -> Places]] /\ Shown(work).list = l
    BY <1>0, <2>1, <2>2
  <2>4. QED
    BY <1>3, <2>2, <2>3
<1>4. CASE work.kind = "reorder"
  BY <1>0, <1>4 DEF Shown
<1>5. QED
  BY <1>0, <1>1, <1>2, <1>3, <1>4

\* A mutation is answered, or lost on its way there or back.
LEMMA MutationAnsweredIInv ==
  ASSUME FavoriteConstants, FavoriteIInv, Answered
  PROVE  FavoriteIInv'
<1>0. /\ FavoriteTyped /\ MutationTyped /\ BrowserKnows
      /\ work # None /\ work' = None /\ prompt' = prompt
      /\ work.kind \in {"create", "rename", "delete", "reorder"}
      /\ "list" \in Queries /\ "place" \in Queries /\ \A q \in Queries : q = "list" \/ q = "place"
  BY FavoriteParts DEF Answered, MutationTyped
<1>1. /\ stored' \in [list : Seq(Folder), place : [Reports -> Places]]
      /\ nextId' \in 1..(MaxId + 1)
      /\ IdsIn(stored'.list) \subseteq 1..(nextId' - 1)
      /\ work.kind = "reorder" => stored'.place = stored.place
  <2>1. CASE UNCHANGED <<stored, nextId>>
    BY <1>0, <2>1, FavoriteParts DEF FavoriteTyped
  <2>2. CASE ~Refused(work) /\ Carry(work)
    BY <1>0, <2>2, CarryKeeps
  <2>3. QED
    BY <2>1, <2>2 DEF Answered
<1>2. /\ DOMAIN fetch' = Queries /\ \A q \in Queries : fetch'[q] \in {Asked, fetch[q]}
      /\ unaware' \in [Queries -> BOOLEAN] /\ \A q \in Queries : unaware[q] => unaware'[q]
      /\ cached' \in [list : Seq(Folder), place : [Reports -> Places]]
      /\ selected' \in {All, Unfiled} \cup IdsIn(cached'.list)
      /\ \A q \in Queries :
           \/ unaware'[q] \/ fetch'[q] = Asked
           \/ /\ fetch'[q] = fetch[q] /\ cached'[q] = cached[q] /\ stored'[q] = stored[q]
              /\ ~Reordering(q)
  <2>0. /\ DOMAIN fetch = Queries /\ unaware \in [Queries -> BOOLEAN]
        /\ cached \in [list : Seq(Folder), place : [Reports -> Places]]
        /\ selected \in {All, Unfiled} \cup IdsIn(cached.list)
    BY <1>0, FavoriteParts DEF FavoriteTyped
  <2>1. CASE ~Refused(work) /\ Succeed(work)
    <3>1. /\ cached' = Shown(work) /\ unaware' = unaware
          /\ fetch' = [q \in Queries |-> IF q \in Concerned(work) THEN Asked ELSE fetch[q]]
      BY <2>1 DEF Succeed, Settle, Invalidate
    <3>2. selected' = IF work.kind = "create" THEN nextId
                      ELSE IF work.kind = "delete" /\ selected = work.id THEN Unfiled ELSE selected
      BY <1>0, <2>1 DEF Succeed
    <3>3. selected' \in {All, Unfiled} \cup IdsIn(cached'.list)
      BY <1>0, <2>0, <2>1, <3>1, <3>2, ShownKeeps
    <3>4. CASE work.kind = "reorder"
      <4>1. cached' = cached /\ Concerned(work) = {"list"}
        BY <1>0, <2>1, <3>1, <3>4, ShownKeeps DEF Concerned
      <4>2. QED
        BY <1>0, <1>1, <2>0, <3>1, <3>3, <3>4, <4>1 DEF Reordering
    <3>5. CASE work.kind # "reorder"
      <4>1. Concerned(work) = Queries /\ cached' \in [list : Seq(Folder), place : [Reports -> Places]]
        BY <1>0, <2>1, <3>1, <3>5, ShownKeeps DEF Concerned
      <4>2. QED
        BY <1>0, <2>0, <3>1, <3>3, <4>1
    <3>6. QED
      BY <3>4, <3>5
  <2>2. CASE \E carried \in BOOLEAN : Fail(work, carried) /\ (carried \/ UNCHANGED <<stored, nextId>>)
    <3>1. PICK carried \in BOOLEAN : Fail(work, carried) /\ (carried \/ UNCHANGED <<stored, nextId>>)
      BY <2>2
    <3>2. cached' = cached /\ selected' = selected
      BY <3>1 DEF Fail
    <3>3. CASE work.kind = "reorder"
      <4>1. /\ unaware' = unaware
            /\ fetch' = [q \in Queries |-> IF q \in {"list"} THEN Asked ELSE fetch[q]]
        BY <3>1, <3>3 DEF Fail, Settle, Invalidate
      <4>2. QED
        BY <1>0, <1>1, <2>0, <3>2, <3>3, <4>1 DEF Reordering
    <3>4. CASE work.kind # "reorder"
      <4>1. /\ fetch' = fetch /\ unaware' = [q \in Queries |-> unaware[q] \/ carried]
        BY <3>1, <3>4 DEF Fail
      <4>2. unaware' \in [Queries -> BOOLEAN]
        BY <4>1
      <4>3. \A q \in Queries : unaware[q] => unaware'[q]
        BY <4>1
      <4>4. CASE carried
        <5>1. \A q \in Queries : unaware'[q]
          BY <4>1, <4>4
        <5>2. QED
          BY <2>0, <3>2, <4>1, <4>2, <4>3, <5>1
      <4>5. CASE stored' = stored
        BY <2>0, <3>2, <3>4, <4>1, <4>2, <4>3, <4>5 DEF Reordering
      <4>6. QED
        BY <3>1, <4>4, <4>5
    <3>5. QED
      BY <3>3, <3>4
  <2>3. QED
    BY <2>1, <2>2 DEF Answered
<1>3. FavoriteTyped'
  BY <1>0, <1>1, <1>2 DEF FavoriteTyped
<1>4. BrowserKnows'
  <2>1. SUFFICES ASSUME NEW q \in Queries, ~unaware'[q]
                 PROVE  /\ fetch'[q] \notin {None, Asked} => fetch'[q] = stored'[q]
                        /\ fetch'[q] = None => cached'[q] = stored'[q]
    BY DEF BrowserKnows
  <2>2. ~unaware[q]
    BY <1>2, <2>1
  <2>3. Asked # None
    BY DEF FavoriteConstants
  <2>4. QED
    BY <1>0, <1>2, <2>1, <2>2, <2>3 DEF BrowserKnows
<1>5. QED
  BY <1>0, <1>1, <1>2, <1>3, <1>4 DEF FavoriteIInv, MutationTyped

\* The favourites are fetched anew after each change of a place.
LEMMA PlacesIInv ==
  ASSUME FavoriteConstants, FavoriteIInv,
         NEW pl \in [Reports -> Places], stored' = [stored EXCEPT !.place = pl],
         Settle({"place"}), prompt' \in Reports \cup {None},
         UNCHANGED <<nextId, cached, work, selected, unaware>>
  PROVE  FavoriteIInv'
<1>0. FavoriteTyped /\ MutationTyped /\ BrowserKnows /\ \A q \in Queries : q = "list" \/ q = "place"
  BY FavoriteParts
<1>1. /\ stored' \in [list : Seq(Folder), place : [Reports -> Places]]
      /\ stored'.list = stored.list
  BY <1>0 DEF FavoriteTyped
<1>2. /\ DOMAIN fetch' = Queries /\ fetch'["place"] = Asked /\ fetch'["list"] = fetch["list"]
  BY <1>0, FavoriteParts DEF Settle, Invalidate
<1>3. FavoriteTyped'
  BY <1>0, <1>1, <1>2 DEF FavoriteTyped
<1>4. BrowserKnows'
  BY <1>0, <1>1, <1>2 DEF BrowserKnows, Reordering, FavoriteConstants
<1>5. QED
  BY <1>0, <1>1, <1>3, <1>4 DEF FavoriteIInv, MutationTyped

\* The star is set or taken back.
LEMMA StarIInv ==
  ASSUME FavoriteConstants, FavoriteIInv, NEW r \in Reports, ToggleStar(r)
  PROVE  FavoriteIInv'
<1> DEFINE p == IF cached.place[r] # None THEN None
                ELSE IF stored.place[r] = None THEN Unfiled ELSE stored.place[r]
<1>1. /\ stored' = [stored EXCEPT !.place[r] = p]
      /\ Settle({"place"}) /\ UNCHANGED <<nextId, cached, work, selected, unaware>>
      /\ prompt' \in {r, None, prompt}
  BY DEF ToggleStar
<1>2. p \in Places /\ stored.place \in [Reports -> Places] /\ prompt \in Reports \cup {None}
  BY FavoriteParts DEF Places, FavoriteTyped
<1> HIDE DEF p
<1>3. /\ [stored.place EXCEPT ![r] = p] \in [Reports -> Places]
      /\ stored' = [stored EXCEPT !.place = [stored.place EXCEPT ![r] = p]]
  BY <1>1, <1>2
<1>4. QED
  BY <1>1, <1>2, <1>3, PlacesIInv

\* A favourite is moved, unless the server refuses.
LEMMA MoveIInv ==
  ASSUME FavoriteConstants, FavoriteIInv, NEW r \in Reports, NEW to \in Places, Move(r, to)
  PROVE  FavoriteIInv'
<1>1. UNCHANGED <<nextId, cached, work, selected, unaware>>
  BY DEF Move
<1>2. CASE UNCHANGED <<stored, fetch, prompt>>
  <2>1. FavoriteTyped' /\ MutationTyped' /\ BrowserKnows'
    BY <1>1, <1>2, FavoriteParts DEF FavoriteTyped, MutationTyped, BrowserKnows, Reordering
  <2>2. QED
    BY <1>1, <1>2, <2>1 DEF FavoriteIInv
<1>3. CASE /\ stored' = [stored EXCEPT !.place[r] = to] /\ prompt' \in {None, prompt}
           /\ Settle({"place"})
  <2>1. stored.place \in [Reports -> Places] /\ prompt \in Reports \cup {None}
    BY FavoriteParts DEF FavoriteTyped
  <2>2. /\ [stored.place EXCEPT ![r] = to] \in [Reports -> Places]
        /\ stored' = [stored EXCEPT !.place = [stored.place EXCEPT ![r] = to]]
    BY <1>3, <2>1
  <2>3. QED
    BY <1>1, <1>3, <2>1, <2>2, PlacesIInv
<1>4. QED
  BY <1>2, <1>3 DEF Move

\* The prompt makes a folder, shows it at the end of the list, and moves the
\* report there or fails to.
LEMMA PromptIInv ==
  ASSUME FavoriteConstants, FavoriteIInv, NEW n \in Names, NEW moved \in BOOLEAN,
         PromptCreates(n, moved)
  PROVE  FavoriteIInv'
<1> DEFINE w == [kind |-> "create", name |-> n]
           x == [id |-> nextId, name |-> n]
           new == Append(stored.list, x)
           old == Without(cached.list, nextId)
           grown == Append(old, x)
           pl == IF moved THEN [stored.place EXCEPT ![prompt] = nextId] ELSE stored.place
<1>0. /\ FavoriteTyped /\ MutationTyped /\ BrowserKnows
      /\ stored.list \in Seq(Folder) /\ cached.list \in Seq(Folder)
      /\ stored.place \in [Reports -> Places]
      /\ nextId \in 1..(MaxId + 1) /\ MaxId \in Nat
      /\ IdsIn(stored.list) \subseteq 1..(nextId - 1)
      /\ selected \in {All, Unfiled} \cup IdsIn(cached.list)
      /\ "list" \in Queries /\ "place" \in Queries /\ \A q \in Queries : q = "list" \/ q = "place"
  BY FavoriteParts
<1>1. nextId \in Folders /\ x \in Folder /\ x.id = nextId
  <2>1. ~Refused(w)
    BY DEF PromptCreates
  <2>2. nextId <= MaxId
    BY <1>0, <2>1 DEF Refused
  <2>3. nextId \in Folders
    BY <1>0, <2>2 DEF Folders
  <2>4. QED
    BY <2>3 DEF Folder
<1>2. /\ prompt # None /\ UNCHANGED <<work, selected>> /\ nextId' = nextId + 1
      /\ stored' = IF moved THEN [Create(n) EXCEPT !.place[prompt] = nextId] ELSE Create(n)
      /\ cached' = Shown(w)
      /\ IF moved THEN Settle({"place"}) /\ prompt' = None ELSE UNCHANGED <<fetch, prompt>>
      /\ unaware' = [unaware EXCEPT !["list"] = unaware["list"] \/ fetch["list"] # None]
  BY DEF PromptCreates
<1>3. cached' = [cached EXCEPT !.list = grown]
  BY <1>2 DEF Shown
<1>4. Create(n) = [stored EXCEPT !.list = new]
  BY DEF Create
<1>5. prompt \in Reports /\ pl \in [Reports -> Places]
  BY <1>0, <1>1, <1>2 DEF FavoriteTyped, Places
<1>6. /\ old \in Seq(Folder) /\ IdsIn(cached.list) \ {nextId} \subseteq IdsIn(old)
      /\ cached.list = stored.list => old = cached.list
  BY <1>0, WithoutKeeps
<1> HIDE DEF x, w
<1>7. new \in Seq(Folder) /\ IdsIn(new) = IdsIn(stored.list) \cup {nextId}
  BY <1>0, <1>1, AppendKeeps
<1>8. /\ grown \in Seq(Folder) /\ IdsIn(grown) = IdsIn(old) \cup {nextId}
      /\ cached.list = stored.list => grown = new
  BY <1>1, <1>6, AppendKeeps
<1> HIDE DEF new, old, grown
<1>9. /\ stored' \in [list : Seq(Folder), place : [Reports -> Places]]
      /\ stored'.list = new /\ stored'.place = pl
  <2>0. stored \in [list : Seq(Folder), place : [Reports -> Places]]
    BY <1>0 DEF FavoriteTyped
  <2> DEFINE c == [stored EXCEPT !.list = new]
  <2>1. c \in [list : Seq(Folder), place : [Reports -> Places]] /\ c.list = new /\ c.place = stored.place
    BY <1>7, <2>0
  <2>2. stored' = IF moved THEN [c EXCEPT !.place[prompt] = nextId] ELSE c
    BY <1>2, <1>4
  <2> HIDE DEF c
  <2>3. CASE moved
    <3>1. stored' = [c EXCEPT !.place = pl]
      BY <2>1, <2>2, <2>3
    <3> HIDE DEF pl
    <3>2. QED
      BY <1>5, <2>1, <3>1
  <2>4. CASE ~moved
    BY <2>1, <2>2, <2>4
  <2>5. QED
    BY <2>3, <2>4
<1>10. /\ cached' \in [list : Seq(Folder), place : [Reports -> Places]]
       /\ cached'.list = grown /\ cached'.place = cached.place
  BY <1>0, <1>3, <1>8 DEF FavoriteTyped
<1>11. /\ DOMAIN fetch' = Queries /\ fetch'["list"] = fetch["list"]
       /\ \/ fetch'["place"] = Asked
          \/ fetch'["place"] = fetch["place"] /\ pl = stored.place
  BY <1>0, <1>2 DEF FavoriteTyped, Settle, Invalidate
<1> HIDE DEF pl
<1>12. /\ unaware' \in [Queries -> BOOLEAN] /\ unaware'["place"] = unaware["place"]
       /\ unaware'["list"] = (unaware["list"] \/ fetch["list"] # None)
  <2>1. unaware \in [Queries -> BOOLEAN]
    BY <1>0 DEF FavoriteTyped
  <2>2. (unaware["list"] \/ fetch["list"] # None) \in BOOLEAN
    OBVIOUS
  <2>3. QED
    BY <1>0, <1>2, <2>1, <2>2
<1>13. prompt' \in Reports \cup {None}
  BY <1>2, <1>5
<1>14. nextId' \in 1..(MaxId + 1) /\ IdsIn(stored'.list) \subseteq 1..(nextId' - 1)
  <2>1. nextId' \in 1..(MaxId + 1)
    BY <1>0, <1>1, <1>2 DEF Folders
  <2>2. /\ nextId \in Nat /\ nextId >= 1 /\ nextId' - 1 = nextId
        /\ \A i \in 1..(nextId - 1) : i \in 1..nextId
    BY <1>0, <1>2
  <2>3. nextId \in 1..nextId /\ IdsIn(stored'.list) = IdsIn(stored.list) \cup {nextId}
    BY <1>7, <1>9, <2>2
  <2>4. IdsIn(stored'.list) \subseteq 1..nextId
    BY <1>0, <2>2, <2>3
  <2>5. QED
    BY <2>1, <2>2, <2>4
<1>15. FavoriteTyped'
  <2>1. ASSUME NEW q \in Queries PROVE fetch'[q] \in {None, Asked} \cup Answers(q)
    BY <1>0, <1>11 DEF FavoriteTyped
  <2>2. QED
    BY <1>9, <1>10, <1>11, <1>12, <1>13, <1>14, <2>1 DEF FavoriteTyped
<1>16. BrowserKnows'
  <2>1. ~unaware'["list"] => fetch'["list"] = None /\ (~Reordering("list")' => cached'["list"] = stored'["list"])
    BY <1>0, <1>2, <1>8, <1>9, <1>10, <1>11, <1>12 DEF BrowserKnows, Reordering
  <2>2. ~unaware'["place"] =>
          /\ fetch'["place"] \notin {None, Asked} => fetch'["place"] = stored'["place"]
          /\ fetch'["place"] = None => cached'["place"] = stored'["place"]
    BY <1>0, <1>9, <1>10, <1>11, <1>12 DEF BrowserKnows, Reordering, FavoriteConstants
  <2>3. SUFFICES ASSUME NEW q \in Queries, ~unaware'[q]
                 PROVE  /\ fetch'[q] \notin {None, Asked} => fetch'[q] = stored'[q]
                        /\ fetch'[q] = None /\ ~Reordering(q)' => cached'[q] = stored'[q]
    BY DEF BrowserKnows
  <2>4. CASE q = "list"
    BY <2>1, <2>3, <2>4
  <2>5. CASE q = "place"
    BY <2>2, <2>3, <2>5
  <2>6. QED
    BY <1>0, <2>4, <2>5
<1>17. selected' \in {All, Unfiled} \cup IdsIn(cached'.list)
  BY <1>0, <1>2, <1>6, <1>8, <1>10
<1>18. QED
  BY <1>0, <1>2, <1>14, <1>15, <1>16, <1>17 DEF FavoriteIInv, MutationTyped

\* The prompt is closed, a folder selected, or one deleted from elsewhere.
LEMMA FavoriteRestIInv ==
  ASSUME FavoriteConstants, FavoriteIInv,
         \/ ClosePrompt
         \/ \E to \in {All} \cup Folders : Select(to)
         \/ \E f \in Folders : DeletedElsewhere(f)
  PROVE  FavoriteIInv'
<1>0. FavoriteTyped /\ MutationTyped /\ BrowserKnows
  BY FavoriteParts
<1>1. CASE ClosePrompt \/ \E to \in {All} \cup Folders : Select(to)
  <2>1. /\ UNCHANGED <<stored, nextId, cached, fetch, work, unaware>>
        /\ prompt' \in {prompt, None} /\ selected' \in {All, Unfiled, selected} \cup IdsIn(cached.list)
    BY <1>1 DEF ClosePrompt, Select
  <2>2. FavoriteTyped' /\ MutationTyped' /\ BrowserKnows'
    BY <1>0, <2>1 DEF FavoriteTyped, MutationTyped, BrowserKnows, Reordering
  <2>3. QED
    BY <2>1, <2>2 DEF FavoriteIInv
<1>2. CASE \E f \in Folders : DeletedElsewhere(f)
  <2>1. PICK f \in Folders : DeletedElsewhere(f)
    BY <1>2
  <2>2. /\ UNCHANGED <<nextId, cached, fetch, work, prompt, selected>>
        /\ stored' = Delete(f) /\ unaware' = [q \in Queries |-> TRUE]
    BY <2>1 DEF DeletedElsewhere
  <2>3. DeleteTyped(f)
    BY DeleteKeeps, FavoriteParts
  <2>4. /\ stored' \in [list : Seq(Folder), place : [Reports -> Places]]
        /\ IdsIn(stored'.list) \subseteq IdsIn(stored.list)
    BY <2>2, <2>3 DEF DeleteTyped
  <2>5. FavoriteTyped' /\ BrowserKnows'
    BY <1>0, <2>2, <2>4 DEF FavoriteTyped, BrowserKnows
  <2>6. QED
    BY <1>0, <2>2, <2>4, <2>5 DEF FavoriteIInv, MutationTyped
<1>3. QED
  BY <1>1, <1>2

\* FavoriteIInv is inductive, and holds in every state of the favourites.
THEOREM FavoriteInvariance == ASSUME FavoriteConstants PROVE FavoriteSpec => []FavoriteIInv
<1>1. FavoriteInit => FavoriteIInv
  <2> SUFFICES ASSUME FavoriteInit PROVE FavoriteIInv
    OBVIOUS
  <2>1. <<>> \in Seq(Folder) /\ IdsIn(<<>>) = {}
    BY EmptySeq DEF IdsIn
  <2>2. /\ stored.list = <<>> /\ stored.place = [r \in Reports |-> None] /\ cached = stored
        /\ nextId = 1 /\ work = None /\ prompt = None /\ selected = All
        /\ unaware = [q \in Queries |-> FALSE] /\ fetch = [q \in Queries |-> None]
    BY DEF FavoriteInit
  <2>3. stored \in [list : Seq(Folder), place : [Reports -> Places]]
    BY <2>1, <2>2 DEF FavoriteInit, Places
  <2>4. 1 \in 1..(MaxId + 1)
    BY DEF FavoriteConstants
  <2>5. unaware \in [Queries -> BOOLEAN]
    BY <2>2
  <2>6. FavoriteTyped /\ MutationTyped /\ BrowserKnows
    BY <2>2, <2>3, <2>4, <2>5 DEF FavoriteTyped, MutationTyped, BrowserKnows
  <2>7. QED
    BY <2>1, <2>2, <2>6 DEF FavoriteIInv
<1>2. ASSUME FavoriteConstants, FavoriteIInv, [FavoriteNext]_favoriteVars PROVE FavoriteIInv'
  <2>1. CASE Answered
    BY <1>2, <2>1, MutationAnsweredIInv
  <2>2. CASE \E q \in Queries : Refetch(q) \/ FetchRead(q) \/ FetchFails(q)
    BY <1>2, <2>2, FavoriteFetchIInv
  <2>3. CASE \E q \in Queries : FetchArrives(q)
    BY <1>2, <2>3, FavoriteArrivesIInv
  <2>4. CASE \/ \E f \in Folders : AskDelete(f)
             \/ \E n \in Names : AskCreate(n)
             \/ \E f \in Folders, n \in Names : AskRename(f, n)
             \/ \E i \in Folders : AskReorder(i)
    BY <1>2, <2>4, AskFavoriteIInv
  <2>5. CASE \E n \in Names : PromptCreates(n, TRUE) \/ PromptCreates(n, FALSE)
    BY <1>2, <2>5, PromptIInv
  <2>6. CASE \E r \in Reports : ToggleStar(r)
    BY <1>2, <2>6, StarIInv
  <2>7. CASE \E r \in Reports, to \in Places : Move(r, to)
    BY <1>2, <2>7, MoveIInv
  <2>8. CASE \/ ClosePrompt
             \/ \E to \in {All} \cup Folders : Select(to)
             \/ \E f \in Folders : DeletedElsewhere(f)
    BY <1>2, <2>8, FavoriteRestIInv
  <2>9. CASE UNCHANGED favoriteVars
    BY <1>2, <2>9 DEF favoriteVars, FavoriteIInv, FavoriteTyped, MutationTyped, BrowserKnows, Reordering
  <2>10. QED
    BY <1>2, <2>1, <2>2, <2>3, <2>4, <2>5, <2>6, <2>7, <2>8, <2>9 DEF FavoriteNext
<1>3. QED
  BY <1>1, <1>2, PTL DEF FavoriteSpec

\* Whatever the number of folders, reports and names, and of mutations and
\* fetches between them: when no request is under way the browser shows the
\* folders and favourites that are stored, and the selected folder is one of
\* them, unless a change was made where the browser could not learn it.
THEOREM FavoritesAreCurrent == ASSUME FavoriteConstants PROVE FavoriteSpec => []ShownIsStored
<1>1. ASSUME FavoriteConstants, FavoriteIInv PROVE ShownIsStored
  <2>1. SUFFICES ASSUME NEW q \in Queries, work = None /\ fetch[q] = None /\ ~unaware[q]
                 PROVE  cached[q] = stored[q]
    BY <1>1, FavoriteParts DEF ShownIsStored
  <2>2. QED
    BY <1>1, <2>1, FavoriteParts DEF BrowserKnows, Reordering
<1>2. QED
  BY <1>1, FavoriteInvariance, PTL

-----------------------------------------------------------------------------
(* The form of a mail schedule.                                            *)

\* Pages of a report, each once; numbered as they stand; recipients, each once.
OfReport(pages, r) ==
  /\ pages \in Seq(Place)
  /\ \A i \in DOMAIN pages : pages[i].page \in PagesOf[r]
  /\ \A i, j \in DOMAIN pages : pages[i].page = pages[j].page => i = j
Numbered(pages) == \A i \in DOMAIN pages : pages[i].at = i - 1
Once(to) == to \in Seq(Recipient) /\ \A i, j \in DOMAIN to : to[i].who = to[j].who => i = j

\* What the form shows, and what is saved.
SoundForm == {f \in Form : OfReport(f.pages, f.report) /\ Numbered(f.pages) /\ Once(f.to)}
CompleteForm == {f \in SoundForm : f.titled = TRUE /\ f.report # Empty}

MailIInv ==
  /\ schedules \in [Ids -> CompleteForm \cup {Empty}]
  /\ listed \in [Ids -> CompleteForm \cup {Empty}]
  /\ editing \in Ids \cup {New, Empty}
  /\ form \in SoundForm
  /\ saving # Empty => saving \in [id : Ids \cup {New}, form : CompleteForm]

\* The list of the entries that are left when one is taken out.
LEMMA RemoveAtDrops ==
  ASSUME NEW S, NEW s \in Seq(S), NEW p \in DOMAIN s
  PROVE  /\ RemoveAt(s, p) \in Seq(S) /\ Len(RemoveAt(s, p)) = Len(s) - 1
         /\ \A i \in 1..(Len(s) - 1) : RemoveAt(s, p)[i] = IF i < p THEN s[i] ELSE s[i + 1]
<1> DEFINE n == Len(s)
           a == SubSeq(s, 1, p - 1)
           b == SubSeq(s, p + 1, n)
           w == a \o b
<1>1. p \in 1..n /\ n \in Nat /\ \A i \in 1..n : s[i] \in S
  BY LenProperties, ElementOfSeq
<1>2. RemoveAt(s, p) = w
  BY DEF RemoveAt
<1> HIDE DEF n
<1>3. /\ a \in Seq(S) /\ Len(a) = p - 1
      /\ \A i \in 1..(p - 1) : a[i] = s[i]
  <2>1. /\ a \in Seq(S) /\ Len(a) = IF 1 <= p - 1 THEN p - 1 - 1 + 1 ELSE 0
        /\ \A i \in 1..(p - 1 - 1 + 1) : a[i] = s[1 + i - 1]
    BY <1>1, SubSeqProperties
  <2> HIDE DEF a
  <2>2. QED
    BY <1>1, <2>1
<1>4. /\ b \in Seq(S) /\ Len(b) = n - p
      /\ \A i \in 1..(n - p) : b[i] = s[p + i]
  <2>1. /\ b \in Seq(S) /\ Len(b) = IF p + 1 <= n THEN n - (p + 1) + 1 ELSE 0
        /\ \A i \in 1..(n - (p + 1) + 1) : b[i] = s[p + 1 + i - 1]
    BY <1>1, SubSeqProperties
  <2> HIDE DEF b
  <2>2. QED
    BY <1>1, <2>1
<1> HIDE DEF a, b
<1>5. /\ w \in Seq(S) /\ Len(w) = Len(a) + Len(b)
      /\ \A i \in 1..(Len(a) + Len(b)) : w[i] = IF i <= Len(a) THEN a[i] ELSE b[i - Len(a)]
  BY <1>3, <1>4, ConcatProperties
<1> HIDE DEF w
<1>6. Len(w) = n - 1
  BY <1>1, <1>3, <1>4, <1>5
<1>7. ASSUME NEW i \in 1..(n - 1) PROVE w[i] = IF i < p THEN s[i] ELSE s[i + 1]
  <2>1. CASE i < p
    BY <1>1, <1>3, <1>4, <1>5, <2>1
  <2>2. CASE i >= p
    <3>1. ~(i <= Len(a)) /\ i \in 1..(Len(a) + Len(b))
      BY <1>1, <1>3, <1>4, <2>2
    <3>2. w[i] = b[i - (p - 1)] /\ i - (p - 1) \in 1..(n - p)
      BY <1>1, <1>3, <1>5, <2>2, <3>1
    <3>3. b[i - (p - 1)] = s[p + (i - (p - 1))] /\ p + (i - (p - 1)) = i + 1
      BY <1>1, <1>4, <3>2
    <3>4. QED
      BY <1>1, <2>2, <3>2, <3>3
  <2>3. QED
    BY <1>1, <2>1, <2>2
<1>8. QED
  BY <1>2, <1>5, <1>6, <1>7 DEF n

\* Two entries change places, the others stay.
LEMMA ExchangedSwaps ==
  ASSUME NEW S, NEW s \in Seq(S), NEW i \in DOMAIN s, NEW j \in DOMAIN s
  PROVE  /\ Exchanged(s, i, j) \in Seq(S) /\ DOMAIN Exchanged(s, i, j) = DOMAIN s
         /\ \A k \in DOMAIN s : Exchanged(s, i, j)[k] = IF k = j THEN s[i] ELSE IF k = i THEN s[j] ELSE s[k]
<1>1. DOMAIN s = 1..Len(s) /\ Len(s) \in Nat /\ s \in [1..Len(s) -> S]
  BY LenProperties
<1>2. Exchanged(s, i, j) \in [1..Len(s) -> S]
  BY <1>1 DEF Exchanged
<1>3. Exchanged(s, i, j) \in Seq(S)
  BY <1>1, <1>2, IsASeq
<1>4. QED
  BY <1>1, <1>2, <1>3 DEF Exchanged

\* Pages that are numbered as they stand are in their order.
LEMMA NumberedIsOrdered ==
  ASSUME NEW pages \in Seq(Place), Numbered(pages)
  PROVE  ByOrder(pages) = pages
<1> DEFINE Before(i, j) == pages[i].at < pages[j].at \/ (pages[i].at = pages[j].at /\ i < j)
           Rank(i) == Cardinality({j \in DOMAIN pages : Before(j, i)}) + 1
           n == Len(pages)
<1>1. DOMAIN pages = 1..n /\ n \in Nat /\ pages \in [1..n -> Place]
  BY LenProperties
<1> HIDE DEF n
<1>2. ASSUME NEW i \in 1..n PROVE Rank(i) = i
  <2>1. \A j \in 1..n : Before(j, i) <=> j < i
    BY <1>1 DEF Numbered
  <2> HIDE DEF Before
  <2>2. {j \in DOMAIN pages : Before(j, i)} = 1..(i - 1)
    BY <1>1, <2>1
  <2>3. Cardinality(1..(i - 1)) = i - 1
    BY <1>1, FS_Interval
  <2>4. Rank(i) = Cardinality({j \in DOMAIN pages : Before(j, i)}) + 1
    OBVIOUS
  <2> HIDE DEF Rank
  <2>5. Rank(i) = (i - 1) + 1
    BY <2>2, <2>3, <2>4
  <2>6. QED
    BY <1>1, <2>5
<1>3. ByOrder(pages) = [k \in DOMAIN pages |-> pages[CHOOSE i \in DOMAIN pages : Rank(i) = k]]
  BY DEF ByOrder
<1> HIDE DEF Rank
<1>4. ASSUME NEW k \in 1..n PROVE (CHOOSE i \in DOMAIN pages : Rank(i) = k) = k
  BY <1>1, <1>2
<1>5. QED
  BY <1>1, <1>3, <1>4

\* The list brings a schedule as it was stored.
LEMMA ResponseIsStored == ASSUME NEW f \in CompleteForm \cup {Empty} PROVE Response(f) = f
<1>1. CASE f = Empty
  BY <1>1 DEF Response
<1>2. CASE f # Empty
  <2>1. f \in Form /\ ByOrder(f.pages) = f.pages
    BY <1>2, NumberedIsOrdered DEF CompleteForm, SoundForm, OfReport
  <2>2. QED
    BY <1>2, <2>1 DEF Response, Form
<1>3. QED
  BY <1>1, <1>2

\* Numbering pages anew changes nothing else of them.
LEMMA ReindexNumbers ==
  ASSUME NEW r, NEW pages, OfReport(pages, r)
  PROVE  OfReport(Reindex(pages), r) /\ Numbered(Reindex(pages))
<1> DEFINE w == Reindex(pages)
           n == Len(pages)
<1>1. DOMAIN pages = 1..n /\ n \in Nat /\ pages \in [1..n -> Place]
  BY LenProperties DEF OfReport
<1> HIDE DEF n
<1>2. \A i \in 1..n : /\ [pages[i] EXCEPT !.at = i - 1] \in Place
                      /\ [pages[i] EXCEPT !.at = i - 1].page = pages[i].page
                      /\ [pages[i] EXCEPT !.at = i - 1].at = i - 1
  BY <1>1 DEF Place
<1>3. w = [i \in 1..n |-> [pages[i] EXCEPT !.at = i - 1]]
  BY <1>1 DEF Reindex
<1> HIDE DEF w
<1>4. /\ w \in Seq(Place) /\ DOMAIN w = 1..n
      /\ \A i \in 1..n : w[i].page = pages[i].page /\ w[i].at = i - 1
  <2>1. w \in [1..n -> Place]
    BY <1>2, <1>3
  <2>2. w \in Seq(Place) /\ DOMAIN w = 1..n
    BY <1>1, <2>1, IsASeq
  <2>3. \A i \in 1..n : w[i] = [pages[i] EXCEPT !.at = i - 1]
    BY <1>3
  <2>4. QED
    BY <1>2, <2>2, <2>3
<1>5. OfReport(w, r)
  BY <1>1, <1>4 DEF OfReport
<1>6. Numbered(w)
  BY <1>4 DEF Numbered
<1>7. QED
  BY <1>5, <1>6 DEF w

\* Taking a page out, adding one that can be chosen and exchanging two keep a
\* list of pages of the report, each once.
LEMMA PagesKeep ==
  ASSUME NEW r, NEW pages, OfReport(pages, r)
  PROVE  /\ \A p \in DOMAIN pages : OfReport(RemoveAt(pages, p), r)
         /\ \A x \in Place : x.page \in PagesOf[r] \ {pages[i].page : i \in DOMAIN pages}
              => OfReport(Append(pages, x), r)
         /\ \A i, j \in DOMAIN pages : OfReport(Exchanged(pages, i, j), r)
<1> DEFINE n == Len(pages)
<1>1. pages \in Seq(Place) /\ DOMAIN pages = 1..n /\ n \in Nat
  BY LenProperties DEF OfReport
<1> HIDE DEF n
<1>2. ASSUME NEW p \in DOMAIN pages PROVE OfReport(RemoveAt(pages, p), r)
  <2> DEFINE w == RemoveAt(pages, p)
             from(i) == IF i < p THEN i ELSE i + 1
  <2>1. /\ w \in Seq(Place) /\ Len(w) = n - 1
        /\ \A i \in 1..(n - 1) : w[i] = IF i < p THEN pages[i] ELSE pages[i + 1]
    BY <1>1, RemoveAtDrops DEF n
  <2> HIDE DEF w
  <2>2. DOMAIN w = 1..(n - 1)
    BY <2>1, LenProperties
  <2>3. \A i \in DOMAIN w : from(i) \in DOMAIN pages /\ w[i] = pages[from(i)]
    BY <1>1, <2>1, <2>2
  <2>4. \A i, j \in DOMAIN w : from(i) = from(j) => i = j
    BY <1>1, <2>2
  <2> HIDE DEF from
  <2>5. QED
    BY <2>1, <2>3, <2>4 DEF OfReport, w
<1>3. ASSUME NEW x \in Place, x.page \in PagesOf[r] \ {pages[i].page : i \in DOMAIN pages}
      PROVE  OfReport(Append(pages, x), r)
  <2> DEFINE w == Append(pages, x)
  <2>1. /\ w \in Seq(Place) /\ Len(w) = n + 1 /\ w[n + 1] = x
        /\ \A i \in 1..n : w[i] = pages[i]
    BY <1>1, AppendProperties DEF n
  <2> HIDE DEF w
  <2>2. DOMAIN w = 1..(n + 1)
    BY <2>1, LenProperties
  <2>3. \A i \in DOMAIN w : \/ i \in DOMAIN pages /\ w[i] = pages[i]
                            \/ i = n + 1 /\ w[i] = x
    BY <1>1, <2>1, <2>2
  <2>4. QED
    BY <1>3, <2>1, <2>3 DEF OfReport, w
<1>4. ASSUME NEW i \in DOMAIN pages, NEW j \in DOMAIN pages PROVE OfReport(Exchanged(pages, i, j), r)
  <2> DEFINE w == Exchanged(pages, i, j)
             from(k) == IF k = j THEN i ELSE IF k = i THEN j ELSE k
  <2>1. /\ w \in Seq(Place) /\ DOMAIN w = DOMAIN pages
        /\ \A k \in DOMAIN pages : w[k] = IF k = j THEN pages[i] ELSE IF k = i THEN pages[j] ELSE pages[k]
    <3>1. pages \in Seq(Place) /\ i \in DOMAIN pages /\ j \in DOMAIN pages
      BY <1>1
    <3> HIDE DEF w
    <3>2. w \in Seq(Place) /\ DOMAIN w = DOMAIN pages
      BY <3>1, ExchangedSwaps DEF w
    <3>3. \A k \in DOMAIN pages : w[k] = IF k = j THEN pages[i] ELSE IF k = i THEN pages[j] ELSE pages[k]
      BY <3>1, ExchangedSwaps DEF w
    <3>4. QED
      BY <3>2, <3>3
  <2> HIDE DEF w
  <2>2. \A k \in DOMAIN w : from(k) \in DOMAIN pages /\ w[k] = pages[from(k)]
    BY <2>1
  <2>3. \A k, l \in DOMAIN w : from(k) = from(l) => k = l
    OBVIOUS
  <2> HIDE DEF from
  <2>4. QED
    BY <2>1, <2>2, <2>3 DEF OfReport, w
<1>5. QED
  BY <1>2, <1>3, <1>4

\* The same of recipients.
LEMMA RecipientsKeep ==
  ASSUME NEW to, Once(to)
  PROVE  /\ \A p \in DOMAIN to : Once(RemoveAt(to, p))
         /\ \A x \in Recipient : (\A i \in DOMAIN to : to[i].who # x.who) => Once(Append(to, x))
         /\ \A i, j \in DOMAIN to : Once(Exchanged(to, i, j))
<1> DEFINE n == Len(to)
<1>1. to \in Seq(Recipient) /\ DOMAIN to = 1..n /\ n \in Nat
  BY LenProperties DEF Once
<1> HIDE DEF n
<1>2. ASSUME NEW p \in DOMAIN to PROVE Once(RemoveAt(to, p))
  <2> DEFINE w == RemoveAt(to, p)
             from(i) == IF i < p THEN i ELSE i + 1
  <2>1. /\ w \in Seq(Recipient) /\ Len(w) = n - 1
        /\ \A i \in 1..(n - 1) : w[i] = IF i < p THEN to[i] ELSE to[i + 1]
    BY <1>1, RemoveAtDrops DEF n
  <2> HIDE DEF w
  <2>2. DOMAIN w = 1..(n - 1)
    BY <2>1, LenProperties
  <2>3. \A i \in DOMAIN w : from(i) \in DOMAIN to /\ w[i] = to[from(i)]
    BY <1>1, <2>1, <2>2
  <2>4. \A i, j \in DOMAIN w : from(i) = from(j) => i = j
    BY <1>1, <2>2
  <2> HIDE DEF from
  <2>5. QED
    BY <2>1, <2>3, <2>4 DEF Once, w
<1>3. ASSUME NEW x \in Recipient, \A i \in DOMAIN to : to[i].who # x.who PROVE Once(Append(to, x))
  <2> DEFINE w == Append(to, x)
  <2>1. /\ w \in Seq(Recipient) /\ Len(w) = n + 1 /\ w[n + 1] = x
        /\ \A i \in 1..n : w[i] = to[i]
    BY <1>1, AppendProperties DEF n
  <2> HIDE DEF w
  <2>2. DOMAIN w = 1..(n + 1)
    BY <2>1, LenProperties
  <2>3. \A i \in DOMAIN w : \/ i \in DOMAIN to /\ w[i] = to[i]
                            \/ i = n + 1 /\ w[i] = x
    BY <1>1, <2>1, <2>2
  <2>4. QED
    BY <1>3, <2>1, <2>3 DEF Once, w
<1>4. ASSUME NEW i \in DOMAIN to, NEW j \in DOMAIN to PROVE Once(Exchanged(to, i, j))
  <2> DEFINE w == Exchanged(to, i, j)
             from(k) == IF k = j THEN i ELSE IF k = i THEN j ELSE k
  <2>1. /\ w \in Seq(Recipient) /\ DOMAIN w = DOMAIN to
        /\ \A k \in DOMAIN to : w[k] = IF k = j THEN to[i] ELSE IF k = i THEN to[j] ELSE to[k]
    <3>1. to \in Seq(Recipient) /\ i \in DOMAIN to /\ j \in DOMAIN to
      BY <1>1
    <3> HIDE DEF w
    <3>2. w \in Seq(Recipient) /\ DOMAIN w = DOMAIN to
      BY <3>1, ExchangedSwaps DEF w
    <3>3. \A k \in DOMAIN to : w[k] = IF k = j THEN to[i] ELSE IF k = i THEN to[j] ELSE to[k]
      BY <3>1, ExchangedSwaps DEF w
    <3>4. QED
      BY <3>2, <3>3
  <2> HIDE DEF w
  <2>2. \A k \in DOMAIN w : from(k) \in DOMAIN to /\ w[k] = to[from(k)]
    BY <2>1
  <2>3. \A k, l \in DOMAIN w : from(k) = from(l) => k = l
    OBVIOUS
  <2> HIDE DEF from
  <2>4. QED
    BY <2>1, <2>2, <2>3 DEF Once, w
<1>5. QED
  BY <1>2, <1>3, <1>4

\* The form is changed into another sound one.
LEMMA ChangeKeeps == ASSUME MailIInv, NEW f \in SoundForm, Change(f) PROVE MailIInv'
BY DEF MailIInv, Change

\* The fields of a sound form, and what makes one.
LEMMA SoundParts ==
  ASSUME NEW f \in SoundForm
  PROVE  /\ f \in Form /\ OfReport(f.pages, f.report) /\ Numbered(f.pages) /\ Once(f.to)
         /\ \A pages : OfReport(pages, f.report) => [f EXCEPT !.pages = Reindex(pages)] \in SoundForm
         /\ \A to : Once(to) => [f EXCEPT !.to = to] \in SoundForm
<1>1. f \in Form /\ OfReport(f.pages, f.report) /\ Numbered(f.pages) /\ Once(f.to)
  BY DEF SoundForm
<1>2. ASSUME NEW pages, OfReport(pages, f.report)
      PROVE  [f EXCEPT !.pages = Reindex(pages)] \in SoundForm
  <2> DEFINE w == Reindex(pages)
             g == [f EXCEPT !.pages = w]
  <2>1. OfReport(w, f.report) /\ Numbered(w)
    BY <1>2, ReindexNumbers
  <2>2. w \in Seq(Place)
    BY <2>1 DEF OfReport
  <2> HIDE DEF w
  <2>3. g \in Form /\ g.pages = w /\ g.report = f.report /\ g.to = f.to
    BY <1>1, <2>2 DEF Form
  <2> HIDE DEF g
  <2>4. g \in SoundForm
    BY <1>1, <2>1, <2>3 DEF SoundForm
  <2>5. QED
    BY <2>4 DEF g, w
<1>3. ASSUME NEW to, Once(to) PROVE [f EXCEPT !.to = to] \in SoundForm
  <2> DEFINE g == [f EXCEPT !.to = to]
  <2>1. to \in Seq(Recipient)
    BY <1>3 DEF Once
  <2>2. g \in Form /\ g.pages = f.pages /\ g.report = f.report /\ g.to = to
    BY <1>1, <2>1 DEF Form
  <2> HIDE DEF g
  <2>3. g \in SoundForm
    BY <1>1, <1>3, <2>2 DEF SoundForm
  <2>4. QED
    BY <2>3 DEF g
<1>4. QED
  BY <1>1, <1>2, <1>3

\* A form that shows nothing is sound.
LEMMA EmptyIsSound == EmptyForm \in SoundForm
<1>1. EmptyForm \in Form /\ EmptyForm.pages = <<>> /\ EmptyForm.to = <<>>
  BY DEF EmptyForm, Form
<1>2. OfReport(<<>>, EmptyForm.report) /\ Numbered(<<>>) /\ Once(<<>>)
  BY DEF OfReport, Numbered, Once
<1>3. QED
  BY <1>1, <1>2 DEF SoundForm

\* Every change of the form keeps it sound.
LEMMA FieldKeeps ==
  ASSUME MailIInv, \/ \E t \in BOOLEAN : SetField(t)
                   \/ \E r \in Mailable : SelectReport(r)
                   \/ \E who \in People, x \in Fields : AddRecipient(who, x)
                   \/ \E i \in 1..MaxTo : RemoveRecipient(i)
                   \/ \E i, j \in 1..MaxTo : MoveRecipient(i, j)
  PROVE  MailIInv'
<1>0. /\ form \in SoundForm /\ form \in Form /\ OfReport(form.pages, form.report)
      /\ Numbered(form.pages) /\ Once(form.to)
  BY SoundParts DEF MailIInv
<1>1. ASSUME NEW t \in BOOLEAN, SetField(t) PROVE MailIInv'
  <2> DEFINE g == [form EXCEPT !.titled = t]
  <2>1. g \in Form /\ g.pages = form.pages /\ g.report = form.report /\ g.to = form.to
    BY <1>0 DEF Form
  <2>2. Change(g)
    BY <1>1 DEF SetField
  <2> HIDE DEF g
  <2>3. g \in SoundForm
    BY <1>0, <2>1 DEF SoundForm
  <2>4. QED
    BY <2>2, <2>3, ChangeKeeps
<1>2. ASSUME NEW r \in Mailable, SelectReport(r) PROVE MailIInv'
  <2> DEFINE g == [form EXCEPT !.report = r, !.pages = <<>>]
  <2>1. g \in Form /\ g.pages = <<>> /\ g.report = r /\ g.to = form.to
    <3>1. <<>> \in Seq(Place)
      OBVIOUS
    <3>2. QED
      BY <1>0, <3>1 DEF Form
  <2>2. Change(g)
    BY <1>2 DEF SelectReport
  <2> HIDE DEF g
  <2>3. OfReport(<<>>, r) /\ Numbered(<<>>)
    BY DEF OfReport, Numbered
  <2>4. g \in SoundForm
    BY <1>0, <2>1, <2>3 DEF SoundForm
  <2>5. QED
    BY <2>2, <2>4, ChangeKeeps
<1>3. ASSUME NEW to, Once(to), Change([form EXCEPT !.to = to]) PROVE MailIInv'
  BY <1>0, <1>3, SoundParts, ChangeKeeps
<1>4. ASSUME NEW who \in People, NEW x \in Fields, AddRecipient(who, x) PROVE MailIInv'
  <2> DEFINE y == [who |-> who, field |-> x]
  <2>1. y \in Recipient /\ y.who = who
    BY DEF Recipient
  <2>2. (\A i \in DOMAIN form.to : form.to[i].who # who) /\ Change([form EXCEPT !.to = Append(form.to, y)])
    BY <1>4 DEF AddRecipient
  <2> HIDE DEF y
  <2>3. Once(Append(form.to, y))
    BY <1>0, <2>1, <2>2, RecipientsKeep
  <2>4. QED
    BY <1>3, <2>2, <2>3
<1>5. ASSUME NEW i, RemoveRecipient(i) PROVE MailIInv'
  <2>1. Once(RemoveAt(form.to, i)) /\ Change([form EXCEPT !.to = RemoveAt(form.to, i)])
    BY <1>0, <1>5, RecipientsKeep DEF RemoveRecipient
  <2>2. QED
    BY <1>3, <2>1
<1>6. ASSUME NEW i, NEW j, MoveRecipient(i, j) PROVE MailIInv'
  <2>1. i \in DOMAIN form.to /\ j \in DOMAIN form.to
    BY <1>6 DEF MoveRecipient, Neighbours
  <2>2. Once(Exchanged(form.to, i, j)) /\ Change([form EXCEPT !.to = Exchanged(form.to, i, j)])
    BY <1>0, <1>6, <2>1, RecipientsKeep DEF MoveRecipient
  <2>3. QED
    BY <1>3, <2>2
<1>7. QED
  BY <1>1, <1>2, <1>4, <1>5, <1>6

\* So does every change of its pages.
LEMMA PageKeeps ==
  ASSUME MailIInv, (\E p \in AllPages : TogglePage(p)) \/ \E i \in Nat : MovePage(i)
  PROVE  MailIInv'
<1>0. /\ form \in SoundForm /\ form \in Form /\ OfReport(form.pages, form.report)
      /\ Numbered(form.pages)
  BY SoundParts DEF MailIInv
<1>1. form.pages \in Seq(Place) /\ DOMAIN form.pages = 1..Len(form.pages) /\ Len(form.pages) \in Nat
  BY <1>0, LenProperties DEF OfReport
<1>2. ASSUME NEW pages, OfReport(pages, form.report), Change([form EXCEPT !.pages = Reindex(pages)])
      PROVE  MailIInv'
  BY <1>0, <1>2, SoundParts, ChangeKeeps
<1>3. ASSUME NEW p \in AllPages, TogglePage(p) PROVE MailIInv'
  <2>1. ASSUME NEW i \in DOMAIN form.pages,
               Change([form EXCEPT !.pages = Reindex(RemoveAt(form.pages, i))])
        PROVE  MailIInv'
    BY <1>0, <1>2, <2>1, PagesKeep
  <2>2. ASSUME p \in Choosable(form),
               Change([form EXCEPT !.pages = Reindex(Append(form.pages, [page |-> p, at |-> Len(form.pages)]))])
        PROVE  MailIInv'
    <3> DEFINE x == [page |-> p, at |-> Len(form.pages)]
    <3>1. x \in Place /\ x.page = p
      BY <1>1 DEF Place
    <3>2. p \in PagesOf[form.report] \ {form.pages[i].page : i \in DOMAIN form.pages}
      BY <2>2 DEF Choosable
    <3>3. Change([form EXCEPT !.pages = Reindex(Append(form.pages, x))])
      BY <2>2
    <3> HIDE DEF x
    <3>4. OfReport(Append(form.pages, x), form.report)
      BY <1>0, <3>1, <3>2, PagesKeep
    <3>5. QED
      BY <1>2, <3>3, <3>4
  <2>3. QED
    BY <1>3, <2>1, <2>2 DEF TogglePage
<1>4. ASSUME NEW i \in Nat, MovePage(i) PROVE MailIInv'
  <2>1. ByOrder(form.pages) = form.pages
    BY <1>0, <1>1, NumberedIsOrdered
  <2>2. /\ i \in 1..(Len(form.pages) - 1)
        /\ Change([form EXCEPT !.pages = Reindex(Exchanged(form.pages, i, i + 1))])
    BY <1>4, <2>1 DEF MovePage
  <2>3. i \in DOMAIN form.pages /\ i + 1 \in DOMAIN form.pages
    BY <1>1, <2>2
  <2>4. OfReport(Exchanged(form.pages, i, i + 1), form.report)
    BY <1>0, <2>3, PagesKeep
  <2>5. QED
    BY <1>2, <2>2, <2>4
<1>5. QED
  BY <1>3, <1>4

\* What is stored is a complete form, and the list shows it as it is.
LEMMA FormListKeeps ==
  ASSUME schedules \in [Ids -> CompleteForm \cup {Empty}]
  PROVE  [s \in Ids |-> Response(schedules[s])] = schedules
BY ResponseIsStored

\* A save that is carried out stores a complete form.
LEMMA StoreFormKeeps ==
  ASSUME MailIInv, saving # Empty, StoreForm(saving)
  PROVE  schedules' \in [Ids -> CompleteForm \cup {Empty}]
BY DEF MailIInv, StoreForm

\* The invariant, for any schedules, reports, pages and people.
THEOREM MailInvariance == MailFormSpec => []MailIInv
<1>1. MailFormInit => MailIInv
  BY EmptyIsSound DEF MailFormInit, MailIInv
<1>2. MailIInv /\ [MailFormNext]_mailFormVars => MailIInv'
  <2> SUFFICES ASSUME MailIInv, [MailFormNext]_mailFormVars PROVE MailIInv'
    OBVIOUS
  <2>0. /\ schedules \in [Ids -> CompleteForm \cup {Empty}] /\ form \in SoundForm
        /\ listed \in [Ids -> CompleteForm \cup {Empty}]
        /\ [s \in Ids |-> Response(schedules[s])] = schedules
    BY FormListKeeps DEF MailIInv
  <2>1. ASSUME schedules' \in [Ids -> CompleteForm \cup {Empty}],
               listed' = listed \/ listed' = schedules',
               form' \in SoundForm, editing' \in Ids \cup {New, Empty},
               saving' = saving \/ saving' = Empty
        PROVE  MailIInv'
    BY <2>0, <2>1 DEF MailIInv
  <2>2. ASSUME schedules' \in [Ids -> CompleteForm \cup {Empty}]
        PROVE  [s \in Ids |-> Response(schedules'[s])] = schedules'
    BY <2>2, ResponseIsStored
  <2>3. CASE RefetchSchedules \/ UNCHANGED mailFormVars
    BY <2>0, <2>1, <2>3 DEF RefetchSchedules, List, mailFormVars, MailIInv
  <2>4. CASE OpenNew \/ Close
    BY <2>0, <2>1, <2>4, EmptyIsSound DEF OpenNew, Close, MailIInv
  <2>5. ASSUME NEW s \in Ids, OpenEdit(s) PROVE MailIInv'
    <3>1. listed[s] \in SoundForm
      BY <2>0, <2>5 DEF OpenEdit, CompleteForm
    <3>2. QED
      BY <2>0, <2>1, <2>5, <3>1 DEF OpenEdit
  <2>6. CASE AskSave
    <3> DEFINE w == [id |-> editing, form |-> form]
    <3>1. editing \in Ids \cup {New}
      BY <2>6 DEF AskSave, MailIInv
    <3>2. form.titled = TRUE
      <4>1. form.titled /\ form.titled \in BOOLEAN
        BY <2>0, <2>6 DEF AskSave, CanSave, SoundForm, Form
      <4>2. QED
        BY <4>1
    <3>3. form \in CompleteForm
      BY <2>0, <2>6, <3>2 DEF AskSave, CanSave, CompleteForm
    <3>4. w \in [id : Ids \cup {New}, form : CompleteForm]
      BY <3>1, <3>3
    <3>5. saving' = w /\ UNCHANGED <<schedules, listed, editing, form>>
      BY <2>6 DEF AskSave
    <3>6. QED
      BY <3>4, <3>5 DEF MailIInv
  <2>7. CASE Saved
    <3>1. schedules' \in [Ids -> CompleteForm \cup {Empty}]
      BY <2>7, StoreFormKeeps DEF Saved
    <3>2. listed' = schedules' /\ form' = EmptyForm /\ editing' = Empty /\ saving' = Empty
      BY <2>2, <2>7, <3>1 DEF Saved
    <3>3. QED
      BY <2>1, <3>1, <3>2, EmptyIsSound
  <2>8. CASE SaveFails
    <3>1. schedules' \in [Ids -> CompleteForm \cup {Empty}]
      BY <2>0, <2>8, StoreFormKeeps DEF SaveFails
    <3>2. QED
      BY <2>0, <2>1, <2>8, <3>1 DEF SaveFails, MailIInv
  <2>9. ASSUME NEW s \in Ids, DeleteSchedule(s) \/ ScheduleDeleted(s) PROVE MailIInv'
    <3>1. schedules' = [schedules EXCEPT ![s] = Empty] /\ UNCHANGED <<editing, form, saving>>
      BY <2>9 DEF DeleteSchedule, ScheduleDeleted
    <3>2. schedules' \in [Ids -> CompleteForm \cup {Empty}]
      BY <2>0, <3>1
    <3>3. listed' = listed \/ listed' = schedules'
      BY <2>2, <2>9, <3>2 DEF DeleteSchedule, ScheduleDeleted
    <3>4. QED
      BY <2>0, <2>1, <3>1, <3>2, <3>3 DEF MailIInv
  <2>10. CASE \E i \in 1..Cardinality(AllPages) : MovePage(i)
    <3>1. PICK i : MovePage(i)
      BY <2>10
    <3>2. i \in 1..(Len(form.pages) - 1)
      BY <3>1 DEF MovePage
    <3>3. Len(form.pages) \in Nat
      BY <2>0, SoundParts, LenProperties DEF OfReport
    <3>4. QED
      BY <3>1, <3>2, <3>3, PageKeeps
  <2>11. QED
    BY <2>3, <2>4, <2>5, <2>6, <2>7, <2>8, <2>9, <2>10, FieldKeeps, PageKeeps DEF MailFormNext
<1>3. QED
  BY <1>1, <1>2, PTL DEF MailFormSpec

\* A stored schedule fits its report, whatever was changed in the form, saved from
\* an older list, and lost.
THEOREM SchedulesFit == MailFormSpec => []ScheduleFitsReport
<1>1. MailIInv => ScheduleFitsReport
  <2> SUFFICES ASSUME MailIInv, NEW s \in Ids, schedules[s] # Empty
               PROVE  LET f == schedules[s] IN
                      /\ f.titled /\ f.report # Empty
                      /\ \A i \in DOMAIN f.pages : /\ f.pages[i].page \in PagesOf[f.report]
                                                   /\ f.pages[i].at = i - 1
                      /\ \A i, j \in DOMAIN f.pages : f.pages[i].page = f.pages[j].page => i = j
                      /\ \A i, j \in DOMAIN f.to : f.to[i].who = f.to[j].who => i = j
    BY DEF ScheduleFitsReport
  <2>1. schedules[s] \in CompleteForm
    BY DEF MailIInv
  <2>2. QED
    BY <2>1 DEF CompleteForm, SoundForm, OfReport, Numbered, Once
<1>2. QED
  BY <1>1, MailInvariance, PTL

-----------------------------------------------------------------------------
(* The favourites at the server.                                           *)

\* No folder is twice in a list, and each report is in a folder that there is.
OnceEach(list) == \A i, j \in DOMAIN list : list[i].id = list[j].id => i = j
Whole(list, place) == OnceEach(list) /\ \A r \in Reports : place[r] \in {None, Unfiled} \cup IdsIn(list)

LEMMA OnceCounted ==
  ASSUME NEW list \in Seq(Folder), OnceEach(list)
  PROVE  Cardinality(IdsIn(list)) = Len(list)
<1> DEFINE n == Len(list)
           f == [i \in 1..n |-> list[i].id]
<1>1. n \in Nat /\ DOMAIN list = 1..n
  BY LenProperties
<1> HIDE DEF n
<1>2. f \in Bijection(1..n, IdsIn(list))
  <2>1. f \in [1..n -> IdsIn(list)] /\ \A i, j \in 1..n : f[i] = f[j] => i = j
    BY <1>1 DEF OnceEach, IdsIn
  <2>2. \A x \in IdsIn(list) : \E i \in 1..n : f[i] = x
    BY <1>1 DEF IdsIn
  <2> HIDE DEF f
  <2> QED BY <2>1, <2>2, Fun_IsBij
<1>3. ExistsBijection(1..n, IdsIn(list))
  BY <1>2 DEF ExistsBijection
<1> QED BY <1>1, <1>3, FS_CountingElements DEF n

LEMMA AppendOnce ==
  ASSUME NEW list \in Seq(Folder), OnceEach(list), NEW x \in Folder, x.id \notin IdsIn(list)
  PROVE  OnceEach(Append(list, x))
<1>1. /\ Append(list, x) \in Seq(Folder) /\ Len(Append(list, x)) = Len(list) + 1
      /\ \A i \in 1..Len(list) : Append(list, x)[i] = list[i]
      /\ Append(list, x)[Len(list) + 1] = x
  BY AppendProperties
<1>2. Len(list) \in Nat /\ DOMAIN list = 1..Len(list) /\ DOMAIN Append(list, x) = 1..(Len(list) + 1)
  BY <1>1, LenProperties
<1>3. \A i \in 1..Len(list) : Append(list, x)[i].id \in IdsIn(list)
  BY <1>1, <1>2 DEF IdsIn
<1>4. \A i \in 1..(Len(list) + 1) : i \in 1..Len(list) \/ i = Len(list) + 1
  BY <1>2
<1> QED BY <1>1, <1>2, <1>3, <1>4 DEF OnceEach

LEMMA WithoutOnce ==
  ASSUME NEW list \in Seq(Folder), OnceEach(list), NEW f
  PROVE  OnceEach(Without(list, f)) /\ IdsIn(Without(list, f)) = IdsIn(list) \ {f}
<1>1. CASE f \notin IdsIn(list)
  BY <1>1 DEF Without
<1>2. CASE f \in IdsIn(list)
  <2> DEFINE p == Position(list, f)
             n == Len(list)
             w == Without(list, f)
  <2>1. p \in 1..n /\ list[p].id = f /\ n \in Nat /\ DOMAIN list = 1..n
    BY <1>2, PositionFound, LenProperties
  <2>2. w = RemoveAt(list, p)
    BY <1>2 DEF Without
  <2> HIDE DEF p, n, w
  <2>3. /\ w \in Seq(Folder) /\ Len(w) = n - 1
        /\ \A i \in 1..(n - 1) : w[i] = IF i < p THEN list[i] ELSE list[i + 1]
    <3>1. p \in DOMAIN list
      BY <2>1
    <3> QED BY <2>2, <3>1, RemoveAtDrops DEF n
  <2>4. DOMAIN w = 1..(n - 1)
    BY <2>1, <2>3, LenProperties
  <2> DEFINE at(i) == IF i < p THEN i ELSE i + 1
  <2>5. \A i \in 1..(n - 1) : at(i) \in 1..n /\ at(i) # p /\ w[i] = list[at(i)]
    BY <2>1, <2>3
  <2>6. \A i, j \in 1..(n - 1) : at(i) = at(j) => i = j
    BY <2>1
  <2> HIDE DEF at
  <2>7. OnceEach(w)
    <3> SUFFICES ASSUME NEW i \in 1..(n - 1), NEW j \in 1..(n - 1), w[i].id = w[j].id PROVE i = j
      BY <2>4 DEF OnceEach
    <3>1. list[at(i)].id = list[at(j)].id
      BY <2>5
    <3> QED BY <2>1, <2>5, <2>6, <3>1 DEF OnceEach
  <2>8. f \notin IdsIn(w)
    <3> SUFFICES ASSUME NEW i \in 1..(n - 1), w[i].id = f PROVE FALSE
      BY <2>4 DEF IdsIn
    <3>1. list[at(i)].id = list[p].id
      BY <2>1, <2>5
    <3> QED BY <2>1, <2>5, <3>1 DEF OnceEach
  <2>9. IdsIn(list) \ {f} \subseteq IdsIn(w) /\ IdsIn(w) \subseteq IdsIn(list)
    BY WithoutKeeps DEF w
  <2> QED BY <2>7, <2>8, <2>9 DEF w
<1> QED BY <1>1, <1>2

LEMMA RenamedOnce ==
  ASSUME NEW list \in Seq(Folder), OnceEach(list), NEW f, NEW n
  PROVE  OnceEach(Renamed(list, f, n))
<1>1. \A i \in DOMAIN list : list[i] \in Folder
  BY LenProperties, ElementOfSeq
<1>2. DOMAIN Renamed(list, f, n) = DOMAIN list /\ \A i \in DOMAIN list : Renamed(list, f, n)[i].id = list[i].id
  BY <1>1 DEF Renamed, Folder
<1> QED BY <1>2 DEF OnceEach

LEMMA OrderedOnce ==
  ASSUME NEW list \in Seq(Folder), NEW ids \in Seq(Folders), Range(ids) = IdsIn(list), IsInjective(ids)
  PROVE  OnceEach(Ordered(list, ids)) /\ IdsIn(Ordered(list, ids)) = IdsIn(list)
<1>1. \A i \in DOMAIN ids : ids[i] \in IdsIn(list)
  BY DEF Range
<1>2. DOMAIN Ordered(list, ids) = DOMAIN ids /\ \A i \in DOMAIN ids : Ordered(list, ids)[i].id = ids[i]
  BY <1>1, PositionFound DEF Ordered
<1>3. OnceEach(Ordered(list, ids))
  BY <1>2 DEF OnceEach, IsInjective
<1>4. IdsIn(Ordered(list, ids)) = Range(ids)
  BY <1>2 DEF IdsIn, Range
<1> QED BY <1>3, <1>4

\* What is stored, and what a deletion and a mutation make of it.
LEMMA WholeDeleted ==
  ASSUME FavoriteConstants, FavoriteIInv, Whole(stored.list, stored.place), NEW f
  PROVE  Whole(Delete(f).list, Delete(f).place)
<1>1. stored.list \in Seq(Folder)
  BY FavoriteParts
<1>2. /\ Delete(f).list = Without(stored.list, f)
      /\ \A r \in Reports : Delete(f).place[r] = IF stored.place[r] = f THEN Unfiled ELSE stored.place[r]
  BY DEF Delete
<1> QED BY <1>1, <1>2, WithoutOnce DEF Whole

LEMMA WholeCarried ==
  ASSUME FavoriteConstants, FavoriteIInv, Whole(stored.list, stored.place),
         work # None, ~Refused(work), Carry(work)
  PROVE  Whole(stored.list, stored.place)'
<1>0. /\ MutationTyped /\ stored \in [list : Seq(Folder), place : [Reports -> Places]]
      /\ stored.list \in Seq(Folder) /\ OnceEach(stored.list) /\ nextId \in Nat
      /\ \A r \in Reports : stored.place[r] \in {None, Unfiled} \cup IdsIn(stored.list)
      /\ nextId \notin IdsIn(stored.list) /\ work.kind \in {"create", "rename", "delete", "reorder"}
  BY FavoriteParts DEF MutationTyped, FavoriteTyped, Whole
<1>1. CASE work.kind = "create"
  <2> DEFINE x == [id |-> nextId, name |-> work.name]
  <2>1. nextId \in Folders /\ work.name \in Names
    <3>1. nextId <= MaxId
      BY <1>0, <1>1, FavoriteParts DEF Refused
    <3> QED BY <1>0, <1>1, <3>1, FavoriteParts DEF Folders, MutationTyped
  <2>2. x \in Folder /\ x.id = nextId
    BY <2>1 DEF Folder
  <2>3. stored' = [stored EXCEPT !.list = Append(stored.list, x)]
    BY <1>1 DEF Carry, Create
  <2> HIDE DEF x
  <2>4. OnceEach(Append(stored.list, x)) /\ IdsIn(Append(stored.list, x)) = IdsIn(stored.list) \cup {nextId}
    BY <1>0, <2>2, AppendOnce, AppendKeeps
  <2>5. stored'.list = Append(stored.list, x) /\ stored'.place = stored.place
    BY <1>0, <2>3
  <2> QED BY <1>0, <2>4, <2>5 DEF Whole
<1>2. CASE work.kind = "rename"
  <2>1. stored'.list = Renamed(stored.list, work.id, work.name) /\ stored'.place = stored.place
    BY <1>0, <1>2 DEF Carry, Rename
  <2>2. work.name \in Names
    BY <1>0, <1>2 DEF MutationTyped
  <2> QED BY <1>0, <2>1, <2>2, RenamedOnce, RenamedKeeps DEF Whole
<1>3. CASE work.kind = "delete"
  BY <1>3, WholeDeleted DEF Carry
<1>4. CASE work.kind = "reorder"
  <2>1. stored'.list = Ordered(stored.list, work.ids) /\ stored'.place = stored.place
    BY <1>0, <1>4 DEF Carry, Reorder, Ordered
  <2>2. work.ids \in Seq(Folders) /\ Range(work.ids) = IdsIn(stored.list) /\ IsInjective(work.ids)
    BY <1>0, <1>4 DEF MutationTyped, Refused
  <2> QED BY <1>0, <2>1, <2>2, OrderedOnce DEF Whole
<1> QED BY <1>0, <1>1, <1>2, <1>3, <1>4

LEMMA WholeStep ==
  ASSUME FavoriteConstants, FavoriteIInv, Whole(stored.list, stored.place), [FavoriteNext]_favoriteVars
  PROVE  Whole(stored.list, stored.place)'
<1>0. /\ stored \in [list : Seq(Folder), place : [Reports -> Places]]
      /\ stored.list \in Seq(Folder) /\ stored.place \in [Reports -> Places] /\ OnceEach(stored.list)
      /\ \A r \in Reports : stored.place[r] \in {None, Unfiled} \cup IdsIn(stored.list)
      /\ nextId \in Nat /\ nextId \notin IdsIn(stored.list) /\ IdsIn(cached.list) \subseteq Folders
  BY FavoriteParts DEF FavoriteTyped, Whole
<1>1. CASE UNCHANGED stored
  BY <1>1 DEF Whole
<1>2. CASE Answered
  BY <1>1, <1>2, WholeCarried DEF Answered
<1>3. ASSUME NEW f \in Folders, DeletedElsewhere(f) PROVE Whole(stored.list, stored.place)'
  BY <1>3, WholeDeleted DEF DeletedElsewhere
<1>4. ASSUME NEW r \in Reports, NEW p \in {None, Unfiled} \cup IdsIn(stored.list),
             stored' = [stored EXCEPT !.place[r] = p]
      PROVE  Whole(stored.list, stored.place)'
  <2>1. stored'.list = stored.list /\ \A q \in Reports : stored'.place[q] = IF q = r THEN p ELSE stored.place[q]
    BY <1>0, <1>4
  <2> QED BY <1>0, <2>1 DEF Whole
<1>5. ASSUME NEW r \in Reports, ToggleStar(r) PROVE Whole(stored.list, stored.place)'
  BY <1>0, <1>4, <1>5 DEF ToggleStar
<1>6. ASSUME NEW r \in Reports, NEW to \in Places, Move(r, to) PROVE Whole(stored.list, stored.place)'
  <2>1. UNCHANGED stored \/ (stored' = [stored EXCEPT !.place[r] = to] /\ to \in {Unfiled} \cup IdsIn(stored.list))
    BY <1>0, <1>6 DEF Move
  <2> QED BY <1>1, <1>4, <2>1
<1>7. ASSUME NEW n \in Names, NEW moved \in BOOLEAN, PromptCreates(n, moved) PROVE Whole(stored.list, stored.place)'
  <2> DEFINE x == [id |-> nextId, name |-> n]
  <2>1. nextId \in Folders /\ prompt \in Reports
    <3>1. nextId <= MaxId /\ prompt # None
      BY <1>0, <1>7, FavoriteParts DEF PromptCreates, Refused
    <3> QED BY <3>1, FavoriteParts DEF Folders, FavoriteTyped
  <2>2. x \in Folder /\ x.id = nextId
    BY <2>1 DEF Folder
  <2>3. Create(n) = [stored EXCEPT !.list = Append(stored.list, x)]
    BY DEF Create
  <2>4. /\ stored'.list = Append(stored.list, x)
        /\ \A q \in Reports : stored'.place[q] = IF moved /\ q = prompt THEN nextId ELSE stored.place[q]
    BY <1>0, <1>7, <2>1, <2>3 DEF PromptCreates
  <2> HIDE DEF x
  <2>5. OnceEach(Append(stored.list, x)) /\ IdsIn(Append(stored.list, x)) = IdsIn(stored.list) \cup {nextId}
    BY <1>0, <2>2, AppendOnce, AppendKeeps
  <2> QED BY <1>0, <2>4, <2>5 DEF Whole
<1>8. CASE UNCHANGED favoriteVars
  BY <1>1, <1>8 DEF favoriteVars
<1>9. CASE \/ ClosePrompt
           \/ \E q \in Queries : Refetch(q) \/ FetchRead(q) \/ FetchArrives(q) \/ FetchFails(q)
           \/ \E f \in Folders : AskDelete(f) \/ AskReorder(f)
           \/ \E n \in Names : AskCreate(n) \/ \E f \in Folders : AskRename(f, n)
           \/ \E to \in {All} \cup Folders : Select(to)
  BY <1>1, <1>9 DEF ClosePrompt, Refetch, FetchRead, FetchArrives, FetchFails, AskDelete, AskReorder, AskCreate,
     AskRename, Select
<1> QED BY <1>2, <1>3, <1>5, <1>6, <1>7, <1>8, <1>9 DEF FavoriteNext

\* Whatever is made, renamed, deleted, put in order and moved, and from wherever: the
\* stored list names no folder twice, and no favourite is left in a folder that is gone.
THEOREM FavoriteTypeCorrect == ASSUME FavoriteConstants PROVE FavoriteSpec => []FavoriteTypeOK
<1>1. FavoriteInit => Whole(stored.list, stored.place)
  BY DEF FavoriteInit, Whole, OnceEach
<1>2. FavoriteIInv /\ Whole(stored.list, stored.place) => FavoriteTypeOK
  <2> SUFFICES ASSUME FavoriteIInv, Whole(stored.list, stored.place) PROVE FavoriteTypeOK
    OBVIOUS
  <2>1. Cardinality(IdsIn(stored.list)) = Len(stored.list)
    BY OnceCounted, FavoriteParts DEF Whole
  <2>2. Range(stored.place) \subseteq {None, Unfiled} \cup IdsIn(stored.list)
    BY FavoriteParts DEF Whole, Range
  <2>3. selected \in {All, Unfiled} \cup Folders /\ FavoriteTyped
    BY FavoriteParts
  <2> QED BY <2>1, <2>2, <2>3 DEF FavoriteTypeOK, FavoriteTyped
<1>3. FavoriteIInv /\ Whole(stored.list, stored.place) /\ [FavoriteNext]_favoriteVars => Whole(stored.list, stored.place)'
  BY WholeStep
<1> QED BY <1>1, <1>2, <1>3, FavoriteInvariance, PTL DEF FavoriteSpec
=============================================================================
