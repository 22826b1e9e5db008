---------------------------- MODULE DisplayPlayer ----------------------------
(***************************************************************************)
(* The KPI board player of the portal: an unattended full-screen page      *)
(* that plays the slides of a board in turn, embeds one report at a time,  *)
(* and keeps a cache of embed tokens per report.  The page is one browser  *)
(* task queue: timers, promise continuations, embed events and key presses *)
(* interleave, and each of them runs to completion with the render and the *)
(* effects it causes.                                                      *)
(*                                                                         *)
(* Time is abstracted: the dwell of a ready slide, the 30 s load limit and *)
(* the 5 min cooldown elapse nondeterministically, and so does the life of *)
(* a token, which is otherwise abstracted away.                            *)
(***************************************************************************)
EXTENDS Naturals, Sequences, FiniteSets

CONSTANTS
  Slides,          \* slide ids
  Reports,         \* reports the slides show
  ReportOf,        \* [Slides -> Reports]: DisplayBoardSlide.report_id
  Boards,          \* the playlists the server may serve: sequences of slides
  Absent,          \* no embed, no report
  MaxSlideRetry,   \* MAX_SLIDE_RETRY
  Forced,          \* bound: slots of the requests made by force
  None             \* no request

VARIABLES
  board,       \* the playlist last fetched (slidesRef)
  index,       \* the index state, 1-based; it may lie beyond a shortened board
  paused,      \* pausedRef
  ready,       \* readyAtRef is set: the dwell of the current slide runs
  frame,       \* the embedded report, or Absent before the first one
  retries,     \* retryCountRef: consecutive render errors of each slide
  cooling,     \* slides whose cooldownRef lies in the future
  cache,       \* cacheRef: the reports whose cached token is not expiring
  flights,     \* token requests under way, by slot
  inFlight     \* inFlightRef: the request a plain caller joins, or None

carousel == <<board, index, paused, ready, retries, cooling>>
tokens   == <<cache, flights, inFlight>>
vars     == <<carousel, frame, tokens>>

\* A plain request for r is in slot r.  It is made when none is registered, and
\* one that is still in the slot then has no waiter left and no registration:
\* that it is overwritten stands for one that is never answered.
Ids == Reports \cup Forced

\* Who waits for a token: the switch of slide, the expiry check, or the
\* recovery from a token error of one slide.
Waiters == {<<"switch">>, <<"check">>} \cup {<<"error", s>> : s \in Slides}
Flight  == [rep : Reports, waiters : SUBSET Waiters]
Idle    == [rep |-> Absent, waiters |-> {}]

\* rep: activeReportId, the report of renderEmbed; loaded: reportLoadedRef.
Frame == [rep : Reports, loaded : BOOLEAN]
Embed(r) == [rep |-> r, loaded |-> FALSE]

ASSUME PlayerAssumption ==
  /\ Absent \notin Reports \cup Frame
  /\ ReportOf \in [Slides -> Reports]
  /\ Boards \subseteq Seq(Slides)
  /\ MaxSlideRetry \in Nat
  /\ Reports \cap Forced = {} /\ None \notin Reports \cup Forced

TypeOK ==
  /\ board \in Boards
  /\ index \in Nat \ {0}
  /\ paused \in BOOLEAN
  /\ ready \in BOOLEAN
  /\ frame \in Frame \cup {Absent}
  /\ retries \in [Slides -> 0..MaxSlideRetry]
  /\ cooling \in SUBSET Slides
  /\ cache \in SUBSET Reports
  /\ flights \in [Ids -> Flight \cup {Idle}]
  /\ inFlight \in [Reports -> Ids \cup {None}]

-----------------------------------------------------------------------------
(* Derived values of a render.                                             *)

\* safeIndex: the index corrected for a board that has become shorter.
SafeIndex(b, i) == IF i > Len(b) THEN (IF b = <<>> THEN 1 ELSE Len(b)) ELSE i
Cur       == SafeIndex(board, index)
Slide     == board[Cur]
HasSlide  == board # <<>>

\* The page shows an embed: it has a slide, and a report to show.
Embedded  == HasSlide /\ frame # Absent

-----------------------------------------------------------------------------
(* useDisplayEmbedTokens.                                                  *)

\* A mutant of WithoutSwitch: the clean-up of the effect cancels nothing.
SwitchKept(fl) == fl

\* The waiters of a request that the change of slide does not cancel.
WithoutSwitch(fl) ==
  [f \in Ids |-> [fl[f] EXCEPT !.waiters = @ \ {<<"switch">>}]]

\* A request made by force, whose promise replaces the one callers may join.
ForceFetch(r, ws) ==
  \E f \in Forced :
    /\ flights[f] = Idle
    /\ flights' = [flights EXCEPT ![f] = [rep |-> r, waiters |-> ws]]
    /\ inFlight' = [inFlight EXCEPT ![r] = f]

\* ensureToken(r) when the cache holds no fresh token: join or fetch.
JoinOrFetch(fl, inf, r, ws) ==
  IF inf[r] # None
  THEN /\ flights' = [fl EXCEPT ![inf[r]].waiters = @ \cup ws]
       /\ inFlight' = inf
  ELSE /\ flights' = [fl EXCEPT ![r] = [rep |-> r, waiters |-> ws]]
       /\ inFlight' = [inf EXCEPT ![r] = r]

\* A mutant of Forget: there is no finally.
Remember(inf, r) == inf

\* The finally of a settled request forgets whatever request of the report
\* is registered, its own or a later one.
Forget(inf, r) == [inf EXCEPT ![r] = None]

-----------------------------------------------------------------------------
(* Entering a slide, and choosing the next one.                            *)

\* The effect on [safeIndex, signature]: b is the new board, i its index, fr,
\* ch, fl and inf the embed, the cache and the requests it starts from.
EnterSlide(b, i, fr, ch, fl, inf) ==
  LET r == ReportOf[b[i]]
      quiet == WithoutSwitch(fl)
  IN  IF fr # Absent /\ fr.rep = r /\ fr.loaded
      THEN \* setPage on the embedded report; its failure leaves ready unset
           /\ ready' \in BOOLEAN
           /\ frame' = fr
           /\ flights' = quiet
           /\ inFlight' = inf
      ELSE /\ ready' = FALSE
           /\ IF r \in ch
              THEN /\ frame' = Embed(r)
                   /\ flights' = quiet
                   /\ inFlight' = inf
              ELSE /\ frame' = fr
                   /\ JoinOrFetch(quiet, inf, r, {<<"switch">>})

\* goToIndex: an index that does not change re-runs no effect.
GoTo(i, fr, ch, fl, inf) ==
  /\ index' = i
  /\ IF i = Cur
     THEN /\ ready' = FALSE
          /\ frame' = fr
          /\ flights' = fl
          /\ inFlight' = inf
     ELSE EnterSlide(board, i, fr, ch, fl, inf)

\* The position `step' places from i around the board.
Around(i, step) == ((i - 1 + step) % Len(board)) + 1

\* advance(+1) and advance(-1): the first slide that is not cooling, or,
\* when all are, the neighbour with every cooldown and retry count cleared.
Candidates(forward, cool) ==
  {k \in 1..Len(board) :
     board[Around(Cur, IF forward THEN k ELSE Len(board) - k)] \notin cool}

Advance(forward, cool, rt, fr, ch, fl, inf) ==
  LET ks   == Candidates(forward, cool)
      k    == IF ks = {} THEN 1 ELSE CHOOSE k \in ks : \A j \in ks : k <= j
      next == Around(Cur, IF forward THEN k ELSE Len(board) - k)
  IN  /\ cooling' = IF ks = {} THEN {} ELSE cool
      /\ retries' = IF ks = {} THEN [s \in Slides |-> 0] ELSE rt
      /\ GoTo(next, fr, ch, fl, inf)

\* markSlideFailed, then advance when there is another slide to show.
SkipSlide(failed, rt, fr, ch, fl, inf) ==
  LET cool == cooling \cup failed
      rt2  == [s \in Slides |-> IF s \in failed THEN 0 ELSE rt[s]]
  IN  IF Len(board) > 1
      THEN Advance(TRUE, cool, rt2, fr, ch, fl, inf)
      ELSE /\ cooling' = cool
           /\ retries' = rt2
           /\ frame' = fr
           /\ flights' = fl
           /\ inFlight' = inf
           /\ UNCHANGED <<index, ready>>

-----------------------------------------------------------------------------
Init ==
  /\ board \in Boards
  /\ index = 1
  /\ paused = FALSE
  /\ ready = FALSE
  /\ frame = Absent
  /\ retries = [s \in Slides |-> 0]
  /\ cooling = {}
  /\ cache = {}
  /\ IF board = <<>>
     THEN /\ flights = [f \in Ids |-> Idle]
          /\ inFlight = [r \in Reports |-> None]
     ELSE LET r == ReportOf[board[1]] IN
          /\ flights = [f \in Ids |-> IF f = r THEN [rep |-> r, waiters |-> {<<"switch">>}] ELSE Idle]
          /\ inFlight = [q \in Reports |-> IF q = r THEN r ELSE None]

\* The rotation timer, while the current slide is ready and its dwell is over.
TickDwell ==
  /\ ~paused /\ HasSlide /\ ready
  /\ IF Len(board) > 1
     THEN Advance(TRUE, cooling, retries, frame, cache, flights, inFlight)
     ELSE UNCHANGED <<index, ready, frame, retries, cooling, flights, inFlight>>
  /\ UNCHANGED <<board, paused, cache>>

\* A mutant of TickTimeout: the slide is marked failed and waits once more.
TimeoutWaits ==
  /\ ~paused /\ HasSlide /\ ~ready
  /\ cooling' = cooling \cup {Slide}
  /\ retries' = [retries EXCEPT ![Slide] = 0]
  /\ UNCHANGED <<board, index, paused, ready, frame, tokens>>

\* The rotation timer, when the current slide took too long to load.
TickTimeout ==
  /\ ~paused /\ HasSlide /\ ~ready
  /\ SkipSlide({Slide}, retries, frame, cache, flights, inFlight)
  /\ UNCHANGED <<board, paused, cache>>

\* The once-a-minute check: renew the current report's token by force, and
\* fetch ahead the token of the next slide's report.
TokenCheck ==
  LET r == ReportOf[Slide]
      n == ReportOf[board[Around(Cur, 1)]]
      renew == r \notin cache
      ahead == Len(board) > 1 /\ n # r /\ n \notin cache /\ inFlight[n] = None
      plain == IF ahead THEN [flights EXCEPT ![n] = [rep |-> n, waiters |-> {}]] ELSE flights
      reg   == IF ahead THEN [inFlight EXCEPT ![n] = n] ELSE inFlight
  IN  /\ HasSlide
      /\ renew \/ ahead
      /\ IF renew
         THEN \E f \in Forced :
                /\ flights[f] = Idle
                /\ flights' = [plain EXCEPT ![f] = [rep |-> r, waiters |-> {<<"check">>}]]
                /\ inFlight' = [reg EXCEPT ![r] = f]
         ELSE flights' = plain /\ inFlight' = reg
      /\ UNCHANGED <<carousel, frame, cache>>

\* What a token for r does to the embed: the switch embeds the slide's report;
\* the recovery embeds the current report again, and so does the expiry check
\* when the silent exchange of the token fails.
Delivered(fr, r, ws, swapped) ==
  IF <<"switch">> \in ws THEN Embed(r)
  ELSE IF fr = Absent \/ ws = {} \/ (ws = {<<"check">>} /\ swapped) THEN fr
  ELSE [fr EXCEPT !.loaded = FALSE]

\* A request is answered with a token.
TokenArrives(f) ==
  LET r == flights[f].rep IN
  /\ flights[f] # Idle
  /\ cache' = cache \cup {r}
  /\ inFlight' = Forget(inFlight, r)
  /\ flights' = [flights EXCEPT ![f] = Idle]
  /\ \E swapped \in BOOLEAN : frame' = Delivered(frame, r, flights[f].waiters, swapped)
  /\ UNCHANGED carousel

\* A request is answered 403 or 404: nobody retries it.  Any other failure is
\* retried by the request itself and changes nothing modelled here.
TokenRefused(f) ==
  LET r  == flights[f].rep
      ws == flights[f].waiters
      fl == [flights EXCEPT ![f] = Idle]
      inf == Forget(inFlight, r)
      failed == {s \in Slides : <<"error", s>> \in ws}
  IN  /\ flights[f] # Idle
      /\ IF <<"switch">> \in ws
         THEN SkipSlide(failed \cup {Slide}, retries, frame, cache, fl, inf)
         ELSE /\ cooling' = cooling \cup failed
              /\ retries' = [s \in Slides |-> IF s \in failed THEN 0 ELSE retries[s]]
              /\ flights' = fl
              /\ inFlight' = inf
              /\ UNCHANGED <<index, ready, frame>>
      /\ UNCHANGED <<board, paused, cache>>

\* A cached token comes within five minutes of its expiry.
TokenAges(r) ==
  /\ r \in cache
  /\ cache' = cache \ {r}
  /\ UNCHANGED <<carousel, frame, flights, inFlight>>

\* The embed reports that it is loaded: the player now asks it for the page
\* of the current slide.
EmbedLoaded ==
  /\ Embedded /\ ~frame.loaded
  /\ frame' = [frame EXCEPT !.loaded = TRUE]
  /\ UNCHANGED <<carousel, tokens>>

\* The embed reports that it is rendered, also after a refresh of its data.
EmbedRendered ==
  /\ Embedded
  /\ frame' = [frame EXCEPT !.loaded = TRUE]
  /\ retries' = [retries EXCEPT ![Slide] = 0]
  /\ ready' = TRUE
  /\ UNCHANGED <<board, index, paused, cooling, tokens>>

\* The embed reports a token error: drop the token and force a new one.
EmbedTokenError ==
  LET r == ReportOf[Slide] IN
  /\ Embedded
  /\ cache' = cache \ {r}
  /\ ForceFetch(r, {<<"error", Slide>>})
  /\ UNCHANGED <<carousel, frame>>

\* A mutant of TooManyErrors: one attempt more.
OneErrorMore(s) == retries[s] > MaxSlideRetry

\* The error at hand is more than MaxSlideRetry in a row.
TooManyErrors(s) == retries[s] + 1 > MaxSlideRetry

\* The embed reports another error: embed it again, at most MaxSlideRetry
\* times, then skip the slide.
EmbedError ==
  /\ Embedded
  /\ IF TooManyErrors(Slide)
     THEN SkipSlide({Slide}, retries, frame, cache, flights, inFlight)
     ELSE /\ retries' = [retries EXCEPT ![Slide] = @ + 1]
          /\ ready' = FALSE
          /\ frame' = [frame EXCEPT !.loaded = FALSE]
          /\ UNCHANGED <<index, cooling, flights, inFlight>>
  /\ UNCHANGED <<board, paused, cache>>

\* The arrow keys and the two buttons that do the same.
Key(forward) ==
  /\ HasSlide
  /\ Advance(forward, cooling, retries, frame, cache, flights, inFlight)
  /\ UNCHANGED <<board, paused, cache>>

TogglePause ==
  /\ paused' = ~paused
  /\ UNCHANGED <<board, index, ready, retries, cooling, frame, tokens>>

\* The playlist is fetched again, every five minutes or when the tab becomes
\* visible; a change of it enters the current slide again.
Refetch(b) ==
  /\ board' = b
  /\ IF b = board THEN UNCHANGED <<ready, frame, flights, inFlight>>
     ELSE IF b = <<>>
     THEN /\ flights' = WithoutSwitch(flights)
          /\ UNCHANGED <<ready, frame, inFlight>>
     ELSE EnterSlide(b, SafeIndex(b, index), frame, cache, flights, inFlight)
  /\ UNCHANGED <<index, paused, retries, cooling, cache>>

\* Five minutes have passed since the slide failed.
CooldownEnds(s) ==
  /\ s \in cooling
  /\ cooling' = cooling \ {s}
  /\ UNCHANGED <<board, index, paused, ready, retries, frame, tokens>>

Tick == TickDwell \/ TickTimeout

Next ==
  \/ TickDwell \/ TickTimeout \/ TokenCheck
  \/ \E f \in Ids : TokenArrives(f) \/ TokenRefused(f)
  \/ \E r \in Reports : TokenAges(r)
  \/ EmbedLoaded \/ EmbedRendered \/ EmbedTokenError \/ EmbedError
  \/ \E forward \in BOOLEAN : Key(forward)
  \/ TogglePause
  \/ \E b \in Boards : Refetch(b)
  \/ \E s \in Slides : CooldownEnds(s)

\* The interval that rotates the slides fires as long as the page is open.
Fairness == WF_vars(Tick)

Spec     == Init /\ [][Next]_vars
LiveSpec == Spec /\ Fairness

-----------------------------------------------------------------------------
(* Properties.                                                             *)

Switching == \E f \in Ids : <<"switch">> \in flights[f].waiters

\* The embed follows the slide: a token that is still awaited for a switch is
\* for the report of the current slide, and when none is awaited, its report is
\* the one embedded.  A late answer for a slide the player has left, or a
\* change of the playlist, must not leave another report on the wall.  (On a
\* board of one slide a refused one is never entered again, so nothing is
\* claimed there.)
EmbedFollowsSlide ==
  HasSlide =>
    /\ \A f \in Ids : <<"switch">> \in flights[f].waiters => flights[f].rep = ReportOf[Slide]
    /\ Len(board) > 1 /\ ~Switching => frame # Absent /\ frame.rep = ReportOf[Slide]

\* A caller that joins a request joins one that will still answer for its
\* report: renewals by force replace the registered request, and a request
\* that settles removes the registration of whichever is registered.
JoinedRequestIsLive ==
  \A r \in Reports : inFlight[r] # None => flights[inFlight[r]].rep = r

\* A slide that stays on an unchanging board and is not cooling is shown over
\* and over while the player runs, whatever the other slides, the token
\* requests and the embed do.  Someone who keeps pressing the left arrow, or
\* a pause, is excluded.
EverySlideIsPlayed ==
  \A s \in Slides :
    ( /\ <>[](~paused /\ s \notin cooling /\ \E i \in 1..Len(board) : board[i] = s)
      /\ <>[][board' = board /\ ~Key(FALSE)]_vars )
    => []<>(Slide = s)
=============================================================================
