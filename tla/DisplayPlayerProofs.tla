------------------------- MODULE DisplayPlayerProofs -------------------------
(***************************************************************************)
(* The safety of the board player, for any slides, reports and playlists:  *)
(* the request a caller joins is live, and the embed follows the slide.    *)
(***************************************************************************)
EXTENDS DisplayPlayer, WellFoundedInduction, TLAPS

\* The requests fl and their registrations inf: the slot of a plain request
\* holds none but its own, and what is registered for a report is for it.
Wired(fl, inf) ==
  /\ fl \in [Ids -> Flight \cup {Idle}]
  /\ inf \in [Reports -> Ids \cup {None}]
  /\ \A q \in Reports : fl[q] = Idle \/ fl[q].rep = q
  /\ \A q \in Reports : inf[q] # None => fl[inf[q]].rep = q

\* A switch is awaited, and one for report r only.
Waiting(fl)    == \E f \in Ids : <<"switch">> \in fl[f].waiters
Awaited(fl, r) == \A f \in Ids : <<"switch">> \in fl[f].waiters => fl[f].rep = r

Shows(fr, r) == fr # Absent /\ fr.rep = r

Frames     == Frame \cup {Absent}
RetryCount == [Slides -> 0..MaxSlideRetry]

\* What the current slide may rely on.
Settled(fl, fr) ==
  /\ Awaited(fl, ReportOf[Slide])
  /\ Len(board) > 1 => Waiting(fl) \/ Shows(fr, ReportOf[Slide])

Followed == HasSlide => Settled(flights, frame)

IInv ==
  /\ TypeOK
  /\ Wired(flights, inFlight)
  /\ Followed
  /\ ~HasSlide => ~Waiting(flights)

-----------------------------------------------------------------------------
(* Positions on the board.                                                 *)

\* The corrected index lies on the board.
LEMMA OnBoard ==
  ASSUME NEW b \in Boards, b # <<>>, NEW i \in Nat \ {0}
  PROVE  /\ Len(b) \in Nat \ {0}
         /\ SafeIndex(b, i) \in 1..Len(b)
         /\ \A j \in 1..Len(b) : b[j] \in Slides /\ ReportOf[b[j]] \in Reports
         /\ i \in 1..Len(b) => SafeIndex(b, i) = i
<1>1. b \in Seq(Slides) /\ ReportOf \in [Slides -> Reports]
  BY PlayerAssumption
<1>2. Len(b) \in Nat \ {0}
  BY <1>1
<1>3. \A j \in 1..Len(b) : b[j] \in Slides
  BY <1>1
<1>4. QED
  BY <1>1, <1>2, <1>3 DEF SafeIndex

\* The current slide is one of the board.
LEMMA SlideTyped ==
  ASSUME TypeOK, HasSlide
  PROVE  /\ Len(board) \in Nat \ {0} /\ Cur \in 1..Len(board)
         /\ Slide \in Slides /\ ReportOf[Slide] \in Reports
BY OnBoard DEF TypeOK, HasSlide, Cur, Slide

\* Steps around a board of n slides stay on it, and one step from a position
\* leads to another one.
LEMMA AroundBoard ==
  ASSUME NEW n \in Nat \ {0}, NEW c \in 1..n
  PROVE  /\ \A k \in Nat : ((c - 1 + k) % n) + 1 \in 1..n
         /\ n > 1 => /\ ((c - 1 + 1) % n) + 1 # c
                     /\ ((c - 1 + (n - 1)) % n) + 1 # c
<1>1. ASSUME NEW k \in Nat PROVE ((c - 1 + k) % n) + 1 \in 1..n
  <2>1. c - 1 + k \in Nat
    OBVIOUS
  <2>2. (c - 1 + k) % n \in 0..n - 1
    BY <2>1
  <2>3. QED
    BY <2>2
<1>2. ASSUME n > 1 PROVE ((c - 1 + 1) % n) + 1 # c
  <2>1. CASE c < n
    <3>1. c % n = c
      BY <2>1
    <3>2. QED
      BY <3>1
  <2>2. CASE c = n
    <3>1. c % n = 0
      BY <2>2
    <3>2. QED
      BY <1>2, <3>1, <2>2
  <2>3. QED
    BY <2>1, <2>2
<1>3. ASSUME n > 1 PROVE ((c - 1 + (n - 1)) % n) + 1 # c
  <2>1. CASE c > 1
    <3>1. c - 2 \in 0..n - 1 /\ c - 1 + (n - 1) = n * 1 + (c - 2)
      BY <1>3, <2>1
    <3>2. (c - 1 + (n - 1)) % n = c - 2
      BY <3>1
    <3>3. QED
      BY <3>2
  <2>2. CASE c = 1
    <3>1. (c - 1 + (n - 1)) % n = n - 1
      BY <1>3, <2>2
    <3>2. QED
      BY <1>3, <2>2, <3>1
  <2>3. QED
    BY <2>1, <2>2
<1>4. QED
  BY <1>1, <1>2, <1>3

\* There is a first candidate, if there is one.
LEMMA LeastOf ==
  ASSUME NEW T \in SUBSET Nat, T # {}
  PROVE  \E x \in T : \A y \in T : x <= y
<1>1. PICK x \in T : \A y \in T : ~ (<<y, x>> \in OpToRel(<, Nat))
  BY WFMin, NatLessThanWellFounded
<1>2. \A y \in T : ~(y < x)
  BY <1>1 DEF OpToRel
<1>3. QED
  BY <1>2

-----------------------------------------------------------------------------
(* Requests.                                                               *)

\* The waiters are of three kinds.
LEMMA WaitersApart ==
  /\ <<"switch">> # <<"check">>
  /\ \A s : <<"switch">> # <<"error", s>>
OBVIOUS

\* A flight is not idle, and a request has a slot.
LEMMA FlightParts ==
  ASSUME NEW r \in Reports, NEW ws \in SUBSET Waiters
  PROVE  /\ [rep |-> r, waiters |-> ws] \in Flight
         /\ [rep |-> r, waiters |-> ws] # Idle
         /\ r \in Ids /\ r # None /\ r # Absent
         /\ Idle.rep = Absent /\ Idle.waiters = {} /\ Idle \notin Flight
BY PlayerAssumption DEF Flight, Idle, Ids

\* A request is made, in the slot of its report or by force in an idle one.
LEMMA FetchWired ==
  ASSUME NEW fl, NEW inf, Wired(fl, inf), NEW r \in Reports,
         NEW ws \in SUBSET Waiters, NEW f \in Ids,
         f = r \/ (f \in Forced /\ fl[f] = Idle)
  PROVE  Wired([fl EXCEPT ![f] = [rep |-> r, waiters |-> ws]], [inf EXCEPT ![r] = f])
<1> DEFINE x == [rep |-> r, waiters |-> ws]
           fl2 == [fl EXCEPT ![f] = x]
           inf2 == [inf EXCEPT ![r] = f]
<1>1. x \in Flight /\ x.rep = r /\ f # None /\ Idle.rep = Absent
  BY FlightParts, PlayerAssumption DEF Ids
<1> HIDE DEF x
<1>2. /\ fl2 \in [Ids -> Flight \cup {Idle}] /\ fl2[f] = x
      /\ \A g \in Ids \ {f} : fl2[g] = fl[g]
  BY <1>1 DEF Wired
<1>3. /\ inf2 \in [Reports -> Ids \cup {None}] /\ inf2[r] = f
      /\ \A q \in Reports \ {r} : inf2[q] = inf[q]
  BY DEF Wired
<1>4. ASSUME NEW q \in Reports PROVE fl2[q] = Idle \/ fl2[q].rep = q
  <2>1. q \in Ids /\ q \notin Forced
    BY PlayerAssumption DEF Ids
  <2>2. QED
    BY <1>1, <1>2, <2>1 DEF Wired
<1>5. ASSUME NEW q \in Reports, inf2[q] # None PROVE fl2[inf2[q]].rep = q
  <2>1. CASE q = r
    BY <1>1, <1>2, <1>3, <2>1
  <2>2. CASE q # r
    <3>1. inf2[q] = inf[q] /\ inf[q] \in Ids /\ fl[inf[q]].rep = q /\ q # Absent
      BY <1>3, <1>5, <2>2, PlayerAssumption DEF Wired
    <3>2. inf[q] # f
      BY <1>1, <2>2, <3>1 DEF Wired
    <3>3. QED
      BY <1>2, <3>1, <3>2
  <2>3. QED
    BY <2>1, <2>2
<1>6. QED
  BY <1>2, <1>3, <1>4, <1>5 DEF Wired, x

\* A request that the switch does not wait for leaves those it does.
LEMMA FetchApart ==
  ASSUME NEW fl, NEW inf, Wired(fl, inf), NEW r \in Reports,
         NEW ws \in SUBSET Waiters, NEW f \in Ids,
         <<"switch">> \notin ws, <<"switch">> \notin fl[f].waiters
  PROVE  LET fl2 == [fl EXCEPT ![f] = [rep |-> r, waiters |-> ws]] IN
         /\ \A q : Awaited(fl, q) => Awaited(fl2, q)
         /\ Waiting(fl2) <=> Waiting(fl)
<1> DEFINE x == [rep |-> r, waiters |-> ws]
           fl2 == [fl EXCEPT ![f] = x]
<1>1. x.waiters = ws
  OBVIOUS
<1> HIDE DEF x
<1>2. fl2[f] = x /\ \A g \in Ids \ {f} : fl2[g] = fl[g]
  BY DEF Wired
<1> HIDE DEF fl2
<1>3. \A q : Awaited(fl, q) => Awaited(fl2, q)
  BY <1>1, <1>2 DEF Awaited
<1>4. Waiting(fl2) <=> Waiting(fl)
  BY <1>1, <1>2 DEF Waiting
<1>5. QED
  BY <1>3, <1>4 DEF fl2, x

\* Cancelling the switch leaves the rest as it is.
LEMMA QuietWired ==
  ASSUME NEW fl, NEW inf, Wired(fl, inf)
  PROVE  Wired(WithoutSwitch(fl), inf) /\ ~Waiting(WithoutSwitch(fl))
<1> DEFINE quiet == WithoutSwitch(fl)
<1>1. ASSUME NEW f \in Ids
      PROVE  /\ quiet[f] \in Flight \cup {Idle} /\ quiet[f].rep = fl[f].rep
             /\ <<"switch">> \notin quiet[f].waiters
             /\ fl[f] = Idle => quiet[f] = Idle
  <2> DEFINE ws == fl[f].waiters \ {<<"switch">>}
  <2>1. quiet[f] = [fl[f] EXCEPT !.waiters = ws]
    BY DEF WithoutSwitch
  <2>2. CASE fl[f] \in Flight
    <3>1. ws \in SUBSET Waiters /\ fl[f].rep \in Reports
      BY <2>2 DEF Flight
    <3>2. <<"switch">> \notin ws
      OBVIOUS
    <3> HIDE DEF ws
    <3>3. quiet[f] \in Flight /\ quiet[f].rep = fl[f].rep /\ quiet[f].waiters = ws
      BY <2>1, <2>2, <3>1 DEF Flight
    <3>4. fl[f] # Idle
      BY <2>2, PlayerAssumption DEF Flight, Idle
    <3>5. QED
      BY <3>2, <3>3, <3>4
  <2>3. CASE fl[f] = Idle
    <3>1. ws = {}
      BY <2>3 DEF Idle
    <3>2. quiet[f] = Idle
      BY <2>1, <2>3, <3>1 DEF Idle
    <3>3. QED
      BY <2>3, <3>2 DEF Idle
  <2>4. QED
    BY <2>2, <2>3 DEF Wired
<1>2. quiet \in [Ids -> Flight \cup {Idle}]
  <2>1. quiet = [f \in Ids |-> quiet[f]]
    BY DEF WithoutSwitch
  <2> HIDE DEF quiet
  <2>2. QED
    BY <1>1, <2>1
<1>3. \A q \in Reports : quiet[q] = Idle \/ quiet[q].rep = q
  <2>1. \A q \in Reports : q \in Ids
    BY DEF Ids
  <2> HIDE DEF quiet
  <2>2. QED
    BY <1>1, <2>1 DEF Wired
<1> HIDE DEF quiet
<1>4. \A q \in Reports : inf[q] # None => quiet[inf[q]].rep = q
  BY <1>1 DEF Wired
<1>5. Wired(quiet, inf)
  BY <1>2, <1>3, <1>4 DEF Wired
<1>6. ~Waiting(quiet)
  BY <1>1 DEF Waiting
<1>7. QED
  BY <1>5, <1>6 DEF quiet

\* A settled request is forgotten, and so is whatever is registered instead.
LEMMA SettledWired ==
  ASSUME NEW fl, NEW inf, Wired(fl, inf), NEW f \in Ids, fl[f] # Idle
  PROVE  /\ fl[f].rep \in Reports
         /\ Wired([fl EXCEPT ![f] = Idle], Forget(inf, fl[f].rep))
         /\ ~(<<"switch">> \in fl[f].waiters) /\ Waiting(fl) =>
              Waiting([fl EXCEPT ![f] = Idle])
         /\ \A r : Awaited(fl, r) => Awaited([fl EXCEPT ![f] = Idle], r)
<1> DEFINE r == fl[f].rep
           fl2 == [fl EXCEPT ![f] = Idle]
           inf2 == Forget(inf, r)
<1>1. r \in Reports
  BY DEF Wired, Flight
<1>2. /\ fl2 \in [Ids -> Flight \cup {Idle}] /\ fl2[f] = Idle
      /\ \A g \in Ids \ {f} : fl2[g] = fl[g]
  BY DEF Wired
<1>3. /\ inf2 \in [Reports -> Ids \cup {None}] /\ inf2[r] = None
      /\ \A q \in Reports \ {r} : inf2[q] = inf[q]
  BY <1>1 DEF Wired, Forget
<1>4. Idle.waiters = {}
  BY DEF Idle
<1>5. \A q \in Reports : fl2[q] = Idle \/ fl2[q].rep = q
  <2>1. \A q \in Reports : q \in Ids
    BY DEF Ids
  <2>2. QED
    BY <1>2, <2>1 DEF Wired
<1>6. ASSUME NEW q \in Reports, inf2[q] # None PROVE fl2[inf2[q]].rep = q
  <2>1. q # r /\ inf2[q] = inf[q] /\ inf[q] \in Ids /\ fl[inf[q]].rep = q
    BY <1>3, <1>6 DEF Wired
  <2>2. inf[q] # f
    BY <2>1
  <2>3. QED
    BY <1>2, <2>1, <2>2
<1>7. Wired(fl2, inf2)
  BY <1>2, <1>3, <1>5, <1>6 DEF Wired
<1> HIDE DEF fl2
<1>8. ~(<<"switch">> \in fl[f].waiters) /\ Waiting(fl) => Waiting(fl2)
  BY <1>2 DEF Waiting
<1>9. \A q : Awaited(fl, q) => Awaited(fl2, q)
  BY <1>2, <1>4 DEF Awaited
<1>10. QED
  BY <1>1, <1>7, <1>8, <1>9 DEF fl2

\* The switch joins a request or makes one, when none was awaiting it.
LEMMA SwitchWired ==
  ASSUME NEW fl, NEW inf, Wired(fl, inf), ~Waiting(fl), NEW r \in Reports,
         JoinOrFetch(fl, inf, r, {<<"switch">>})
  PROVE  /\ Wired(flights', inFlight')
         /\ Awaited(flights', r) /\ Waiting(flights')
<1>0. {<<"switch">>} \in SUBSET Waiters /\ r \in Ids
  BY DEF Waiters, Ids
<1>1. CASE inf[r] # None
  <2> DEFINE f == inf[r]
             ws == fl[f].waiters \cup {<<"switch">>}
             x == [fl[f] EXCEPT !.waiters = ws]
  <2>1. f \in Ids /\ fl[f].rep = r /\ fl[f] \in Flight
    <3>1. f \in Ids /\ fl[f].rep = r
      BY <1>1 DEF Wired
    <3>2. QED
      BY <3>1, PlayerAssumption DEF Wired, Idle
  <2>2. ws \in SUBSET Waiters /\ <<"switch">> \in ws
    BY <1>0, <2>1 DEF Flight
  <2>3. flights' = [fl EXCEPT ![f] = x] /\ inFlight' = inf
    BY <1>1 DEF JoinOrFetch
  <2> HIDE DEF ws
  <2>4. x \in Flight /\ x.rep = r /\ x.waiters = ws
    BY <2>1, <2>2 DEF Flight
  <2> HIDE DEF x, f
  <2>5. /\ flights' \in [Ids -> Flight \cup {Idle}] /\ flights'[f] = x
        /\ \A g \in Ids \ {f} : flights'[g] = fl[g]
    BY <2>1, <2>3, <2>4 DEF Wired
  <2>6. \A q \in Reports : flights'[q] = Idle \/ flights'[q].rep = q
    <3>1. \A q \in Reports : q \in Ids
      BY DEF Ids
    <3>2. f \in Reports => f = r
      BY <2>1, PlayerAssumption DEF Wired, Idle
    <3>3. QED
      BY <2>4, <2>5, <3>1, <3>2 DEF Wired
  <2>7. \A q \in Reports : inFlight'[q] # None => flights'[inFlight'[q]].rep = q
    BY <2>1, <2>3, <2>4, <2>5 DEF Wired
  <2>8. Awaited(flights', r) /\ Waiting(flights')
    BY <2>1, <2>2, <2>4, <2>5 DEF Awaited, Waiting
  <2>9. QED
    BY <2>3, <2>5, <2>6, <2>7, <2>8 DEF Wired
<1>2. CASE inf[r] = None
  <2> DEFINE x == [rep |-> r, waiters |-> {<<"switch">>}]
  <2>1. flights' = [fl EXCEPT ![r] = x] /\ inFlight' = [inf EXCEPT ![r] = r]
    BY <1>2 DEF JoinOrFetch
  <2>2. Wired(flights', inFlight')
    BY <1>0, <2>1, FetchWired
  <2>3. x.rep = r /\ x.waiters = {<<"switch">>}
    OBVIOUS
  <2> HIDE DEF x
  <2>4. flights'[r] = x /\ \A g \in Ids \ {r} : flights'[g] = fl[g]
    BY <1>0, <2>1 DEF Wired
  <2>5. QED
    BY <1>0, <2>2, <2>3, <2>4 DEF Awaited, Waiting
<1>3. QED
  BY <1>1, <1>2

-----------------------------------------------------------------------------
(* Entering a slide, and choosing the next one.                            *)

\* A new embed shows its report.
LEMMA EmbedTyped ==
  ASSUME NEW r \in Reports
  PROVE  Embed(r) \in Frames /\ Shows(Embed(r), r)
<1>1. Embed(r) \in Frame /\ Embed(r).rep = r
  BY DEF Embed, Frame
<1>2. QED
  BY <1>1, PlayerAssumption DEF Frames, Shows

\* Entering a slide shows its report or awaits its token, and nobody else's.
LEMMA EnterKeeps ==
  ASSUME NEW fl, NEW inf, Wired(fl, inf), NEW fr \in Frames, NEW ch,
         NEW b \in Boards, NEW i \in 1..Len(b), b # <<>>,
         EnterSlide(b, i, fr, ch, fl, inf)
  PROVE  /\ Wired(flights', inFlight')
         /\ frame' \in Frames /\ ready' \in BOOLEAN
         /\ Awaited(flights', ReportOf[b[i]])
         /\ Waiting(flights') \/ Shows(frame', ReportOf[b[i]])
<1> DEFINE r == ReportOf[b[i]]
           quiet == WithoutSwitch(fl)
<1>1. r \in Reports /\ Wired(quiet, inf) /\ ~Waiting(quiet)
  BY OnBoard, QuietWired
<1>2. Awaited(quiet, r)
  BY <1>1 DEF Awaited, Waiting
<1>3. Embed(r) \in Frames /\ Shows(Embed(r), r)
  BY <1>1, EmbedTyped
<1> HIDE DEF quiet
<1>4. CASE fr # Absent /\ fr.rep = r /\ fr.loaded
  <2>1. ready' \in BOOLEAN /\ frame' = fr /\ flights' = quiet /\ inFlight' = inf
    BY <1>4 DEF EnterSlide, quiet
  <2>2. QED
    BY <1>1, <1>2, <1>4, <2>1 DEF Shows
<1>5. CASE ~(fr # Absent /\ fr.rep = r /\ fr.loaded) /\ r \in ch
  <2>1. ready' = FALSE /\ frame' = Embed(r) /\ flights' = quiet /\ inFlight' = inf
    BY <1>5 DEF EnterSlide, quiet
  <2>2. QED
    BY <1>1, <1>2, <1>3, <2>1
<1>6. CASE ~(fr # Absent /\ fr.rep = r /\ fr.loaded) /\ r \notin ch
  <2>1. ready' = FALSE /\ frame' = fr /\ JoinOrFetch(quiet, inf, r, {<<"switch">>})
    BY <1>6 DEF EnterSlide, quiet
  <2>2. QED
    BY <1>1, <2>1, SwitchWired
<1>7. QED
  BY <1>4, <1>5, <1>6

\* What a step to another slide, or none, must leave behind.
Moved ==
  /\ index' \in Nat \ {0} /\ ready' \in BOOLEAN /\ frame' \in Frames
  /\ Wired(flights', inFlight')
  /\ Followed'

\* Going to a slide: to another one, or nothing is lost by staying.
LEMMA GoToKeeps ==
  ASSUME TypeOK, HasSlide, UNCHANGED board,
         NEW fl, NEW inf, Wired(fl, inf), NEW fr \in Frames, NEW ch,
         NEW i \in 1..Len(board), GoTo(i, fr, ch, fl, inf),
         i = Cur => Settled(fl, fr)
  PROVE  Moved
<1>1. board \in Boards /\ board # <<>> /\ index' = i /\ i \in Nat \ {0}
  BY SlideTyped DEF TypeOK, HasSlide, GoTo
<1>2. Slide' = board[i]
  BY <1>1, OnBoard DEF Slide, Cur
<1>3. CASE i = Cur
  <2>1. ready' = FALSE /\ frame' = fr /\ flights' = fl /\ inFlight' = inf
    BY <1>3 DEF GoTo
  <2>2. Slide' = Slide
    BY <1>2, <1>3 DEF Slide
  <2>3. QED
    BY <1>1, <1>3, <2>1, <2>2 DEF Moved, Followed, Settled
<1>4. CASE i # Cur
  <2>1. EnterSlide(board, i, fr, ch, fl, inf)
    BY <1>4 DEF GoTo
  <2>2. /\ Wired(flights', inFlight')
        /\ frame' \in Frames /\ ready' \in BOOLEAN
        /\ Awaited(flights', ReportOf[board[i]])
        /\ Waiting(flights') \/ Shows(frame', ReportOf[board[i]])
    BY <1>1, <2>1, EnterKeeps
  <2>3. QED
    BY <1>1, <1>2, <2>2 DEF Moved, Followed, Settled
<1>5. QED
  BY <1>3, <1>4

\* Advancing: when the current slide is cooling, it is left.
LEMMA AdvanceKeeps ==
  ASSUME TypeOK, HasSlide, UNCHANGED board, NEW forward \in BOOLEAN,
         NEW cool \in SUBSET Slides, NEW rt \in RetryCount,
         NEW fl, NEW inf, Wired(fl, inf), NEW fr \in Frames, NEW ch,
         Advance(forward, cool, rt, fr, ch, fl, inf),
         Settled(fl, fr) \/ (Slide \in cool /\ Len(board) > 1)
  PROVE  Moved /\ cooling' \in SUBSET Slides /\ retries' \in RetryCount
<1> DEFINE ks == Candidates(forward, cool)
           k  == IF ks = {} THEN 1 ELSE CHOOSE j \in ks : \A l \in ks : j <= l
           step == IF forward THEN k ELSE Len(board) - k
           next == Around(Cur, step)
<1>1. Len(board) \in Nat \ {0} /\ Cur \in 1..Len(board)
  BY SlideTyped
<1>2. ks \in SUBSET (1..Len(board)) /\ ks \in SUBSET Nat
  BY <1>1 DEF Candidates
<1>3. k \in 1..Len(board) /\ (ks # {} => k \in ks)
  <2>1. CASE ks = {}
    BY <1>1, <2>1
  <2>2. CASE ks # {}
    <3>1. \E j \in ks : \A l \in ks : j <= l
      BY <1>2, <2>2, LeastOf
    <3> HIDE DEF ks
    <3>2. k \in ks
      BY <2>2, <3>1
    <3>3. QED
      BY <1>2, <3>2
  <2>3. QED
    BY <2>1, <2>2
<1>4. ks # {} => board[next] \notin cool
  BY <1>3 DEF Candidates
<1>5. ks = {} => k = 1
  OBVIOUS
<1>6. /\ GoTo(next, fr, ch, fl, inf)
      /\ cooling' = IF ks = {} THEN {} ELSE cool
      /\ retries' = IF ks = {} THEN [s \in Slides |-> 0] ELSE rt
  BY DEF Advance
<1> HIDE DEF ks, k
<1>7. step \in Nat /\ (k = 1 => step \in {1, Len(board) - 1})
  BY <1>1, <1>3
<1>8. next \in 1..Len(board)
  BY <1>1, <1>7, AroundBoard DEF Around
<1>9. next = Cur => Settled(fl, fr)
  <2>1. SUFFICES ASSUME next = Cur, Slide \in cool, Len(board) > 1 PROVE FALSE
    OBVIOUS
  <2>2. CASE ks = {}
    BY <1>1, <1>5, <1>7, <2>1, <2>2, AroundBoard DEF Around
  <2>3. CASE ks # {}
    BY <1>4, <2>1, <2>3 DEF Slide
  <2>4. QED
    BY <2>2, <2>3
<1> HIDE DEF next
<1>10. Moved
  BY <1>6, <1>8, <1>9, GoToKeeps
<1>11. cooling' \in SUBSET Slides /\ retries' \in RetryCount
  BY <1>6, PlayerAssumption DEF RetryCount
<1>12. QED
  BY <1>10, <1>11

\* Skipping a slide that failed.
LEMMA SkipKeeps ==
  ASSUME TypeOK, HasSlide, UNCHANGED board,
         NEW failed \in SUBSET Slides, Slide \in failed,
         NEW fl, NEW inf, Wired(fl, inf), Awaited(fl, ReportOf[Slide]), NEW ch,
         SkipSlide(failed, retries, frame, ch, fl, inf)
  PROVE  Moved /\ cooling' \in SUBSET Slides /\ retries' \in RetryCount
<1> DEFINE cool == cooling \cup failed
           rt2  == [s \in Slides |-> IF s \in failed THEN 0 ELSE retries[s]]
<1>1. /\ cool \in SUBSET Slides /\ rt2 \in RetryCount /\ Slide \in cool
      /\ frame \in Frames
  BY PlayerAssumption DEF TypeOK, RetryCount, Frames
<1>2. CASE Len(board) > 1
  <2>1. Advance(TRUE, cool, rt2, frame, ch, fl, inf)
    BY <1>2 DEF SkipSlide
  <2> HIDE DEF cool, rt2
  <2>2. QED
    BY <1>1, <1>2, <2>1, AdvanceKeeps
<1>3. CASE ~(Len(board) > 1)
  <2>1. /\ cooling' = cool /\ retries' = rt2 /\ frame' = frame
        /\ flights' = fl /\ inFlight' = inf /\ UNCHANGED <<index, ready>>
    BY <1>3 DEF SkipSlide
  <2>2. Slide' = Slide
    BY <2>1 DEF Slide, Cur
  <2> HIDE DEF cool, rt2
  <2>3. QED
    BY <1>1, <1>3, <2>1, <2>2 DEF Moved, Followed, Settled, TypeOK
<1>4. QED
  BY <1>2, <1>3

-----------------------------------------------------------------------------
(* The steps of the page.                                                  *)

\* A step that leaves the board alone and has moved well keeps IInv.
LEMMA MovedIInv ==
  ASSUME IInv, HasSlide, UNCHANGED board, Moved,
         cooling' \in SUBSET Slides, retries' \in RetryCount,
         paused' \in BOOLEAN, cache' \in SUBSET Reports
  PROVE  IInv'
<1>1. TypeOK'
  BY DEF IInv, TypeOK, Moved, Wired, Frames, RetryCount
<1>2. Wired(flights, inFlight)' /\ Followed' /\ HasSlide'
  BY DEF Moved, Wired, HasSlide
<1>3. QED
  BY <1>1, <1>2 DEF IInv

\* A step that leaves slides, requests and the embedded report alone.
LEMMA StillIInv ==
  ASSUME IInv, UNCHANGED <<board, index, flights, inFlight>>,
         frame' \in Frames,
         frame # Absent => frame' # Absent /\ frame'.rep = frame.rep,
         ready' \in BOOLEAN, paused' \in BOOLEAN, cache' \in SUBSET Reports,
         cooling' \in SUBSET Slides, retries' \in RetryCount
  PROVE  IInv'
<1>1. TypeOK'
  BY DEF IInv, TypeOK, Frames, RetryCount
<1>2. Wired(flights, inFlight)'
  BY DEF IInv, Wired
<1>3. Slide' = Slide /\ (HasSlide' <=> HasSlide)
  BY DEF Slide, Cur, HasSlide
<1>4. Followed' /\ (~HasSlide' => ~Waiting(flights)')
  BY <1>3 DEF IInv, Followed, Settled, Awaited, Waiting, Shows
<1>5. QED
  BY <1>1, <1>2, <1>4 DEF IInv

\* The parts of IInv that the steps use.
LEMMA Parts ==
  ASSUME IInv
  PROVE  /\ TypeOK /\ Wired(flights, inFlight) /\ Frames = Frame \cup {Absent}
         /\ frame \in Frames /\ retries \in RetryCount /\ cooling \in SUBSET Slides
         /\ paused \in BOOLEAN /\ ready \in BOOLEAN /\ cache \in SUBSET Reports
         /\ HasSlide => Settled(flights, frame) /\ Awaited(flights, ReportOf[Slide])
BY DEF IInv, TypeOK, Followed, Settled, Frames, RetryCount

\* A loaded or unloaded embed shows the same report.
LEMMA LoadedFrame ==
  ASSUME NEW l \in BOOLEAN, frame \in Frames, frame # Absent
  PROVE  LET fr == [frame EXCEPT !.loaded = l] IN
         fr \in Frames /\ fr # Absent /\ fr.rep = frame.rep
<1> DEFINE fr == [frame EXCEPT !.loaded = l]
<1>1. fr \in Frame /\ fr.rep = frame.rep
  BY DEF Frames, Frame
<1> HIDE DEF fr
<1>2. fr \in Frames /\ fr # Absent
  BY <1>1, PlayerAssumption DEF Frames
<1>3. QED
  BY <1>1, <1>2 DEF fr

\* The interval and the keys.
LEMMA RotateIInv ==
  ASSUME IInv, TickDwell \/ TickTimeout \/ \E forward \in BOOLEAN : Key(forward)
  PROVE  IInv'
<1>0. /\ HasSlide /\ UNCHANGED <<board, paused, cache>>
      /\ Slide \in Slides
  BY Parts, SlideTyped DEF TickDwell, TickTimeout, Key
<1>1. ASSUME NEW forward \in BOOLEAN,
             Advance(forward, cooling, retries, frame, cache, flights, inFlight)
      PROVE  IInv'
  <2>1. Moved /\ cooling' \in SUBSET Slides /\ retries' \in RetryCount
    BY <1>0, <1>1, Parts, AdvanceKeeps
  <2>2. QED
    BY <1>0, <2>1, Parts, MovedIInv
<1>2. CASE TickTimeout
  <2>1. SkipSlide({Slide}, retries, frame, cache, flights, inFlight)
    BY <1>2 DEF TickTimeout
  <2>2. Moved /\ cooling' \in SUBSET Slides /\ retries' \in RetryCount
    BY <1>0, <2>1, Parts, SkipKeeps
  <2>3. QED
    BY <1>0, <2>2, Parts, MovedIInv
<1>3. CASE TickDwell
  <2>1. CASE Len(board) > 1
    BY <1>1, <1>3, <2>1 DEF TickDwell
  <2>2. CASE ~(Len(board) > 1)
    <3>1. UNCHANGED <<index, ready, frame, retries, cooling, flights, inFlight>>
      BY <1>3, <2>2 DEF TickDwell
    <3>2. QED
      BY <1>0, <3>1, Parts, StillIInv
  <2>3. QED
    BY <2>1, <2>2
<1>4. CASE \E forward \in BOOLEAN : Key(forward)
  BY <1>1, <1>4 DEF Key
<1>5. QED
  BY <1>2, <1>3, <1>4

\* The embed's events.
LEMMA EmbedIInv ==
  ASSUME IInv, EmbedLoaded \/ EmbedRendered \/ EmbedError
  PROVE  IInv'
<1>0. /\ HasSlide /\ frame # Absent /\ UNCHANGED <<board, paused, cache>>
      /\ Slide \in Slides
  BY Parts, SlideTyped DEF EmbedLoaded, EmbedRendered, EmbedError, Embedded, carousel, tokens
<1>1. CASE EmbedLoaded
  BY <1>0, <1>1, Parts, LoadedFrame, StillIInv DEF EmbedLoaded, carousel, tokens
<1>2. CASE EmbedRendered
  <2>1. retries' \in RetryCount
    <3>1. 0 \in 0..MaxSlideRetry
      BY PlayerAssumption
    <3>2. retries' = [retries EXCEPT ![Slide] = 0]
      BY <1>2 DEF EmbedRendered
    <3>3. QED
      BY <3>1, <3>2, Parts DEF RetryCount
  <2>2. QED
    BY <1>0, <1>2, <2>1, Parts, LoadedFrame, StillIInv DEF EmbedRendered, tokens
<1>3. CASE EmbedError /\ TooManyErrors(Slide)
  <2>1. SkipSlide({Slide}, retries, frame, cache, flights, inFlight)
    BY <1>3 DEF EmbedError
  <2>2. Moved /\ cooling' \in SUBSET Slides /\ retries' \in RetryCount
    BY <1>0, <2>1, Parts, SkipKeeps
  <2>3. QED
    BY <1>0, <2>2, Parts, MovedIInv
<1>4. CASE EmbedError /\ ~TooManyErrors(Slide)
  <2>1. /\ retries' = [retries EXCEPT ![Slide] = @ + 1] /\ ready' = FALSE
        /\ frame' = [frame EXCEPT !.loaded = FALSE]
        /\ UNCHANGED <<index, cooling, flights, inFlight>>
    BY <1>4 DEF EmbedError
  <2>2. retries[Slide] + 1 \in 0..MaxSlideRetry
    BY <1>0, <1>4, Parts, PlayerAssumption DEF TooManyErrors, RetryCount
  <2>3. retries' \in RetryCount
    BY <2>1, <2>2, Parts DEF RetryCount
  <2>4. QED
    BY <1>0, <2>1, <2>3, Parts, LoadedFrame, StillIInv
<1>5. QED
  BY <1>1, <1>2, <1>3, <1>4

\* Time and the pause button.
LEMMA OtherIInv ==
  ASSUME IInv, \/ \E r \in Reports : TokenAges(r)
               \/ TogglePause
               \/ \E s \in Slides : CooldownEnds(s)
  PROVE  IInv'
<1>1. CASE \E r \in Reports : TokenAges(r)
  BY <1>1, Parts, StillIInv DEF TokenAges, carousel
<1>2. CASE TogglePause
  BY <1>2, Parts, StillIInv DEF TogglePause, tokens
<1>3. CASE \E s \in Slides : CooldownEnds(s)
  BY <1>3, Parts, StillIInv DEF CooldownEnds, tokens
<1>4. QED
  BY <1>1, <1>2, <1>3

\* A new playlist enters its current slide.
LEMMA RefetchIInv ==
  ASSUME IInv, NEW b \in Boards, Refetch(b)
  PROVE  IInv'
<1>0. /\ board' = b /\ UNCHANGED <<index, paused, retries, cooling, cache>>
      /\ index \in Nat \ {0}
  BY DEF Refetch, IInv, TypeOK
<1>1. CASE b = board
  BY <1>0, <1>1, Parts, StillIInv DEF Refetch
<1>2. CASE b # board /\ b = <<>>
  <2>1. /\ flights' = WithoutSwitch(flights) /\ UNCHANGED <<ready, frame, inFlight>>
        /\ ~HasSlide'
    BY <1>0, <1>2 DEF Refetch, HasSlide
  <2>2. Wired(flights', inFlight') /\ ~Waiting(flights')
    BY <2>1, Parts, QuietWired
  <2>3. TypeOK'
    BY <1>0, <2>1, <2>2 DEF IInv, TypeOK, Wired
  <2>4. QED
    BY <2>1, <2>2, <2>3 DEF IInv, Followed, Wired, Waiting
<1>3. CASE b # board /\ b # <<>>
  <2> DEFINE i == SafeIndex(b, index)
  <2>1. EnterSlide(b, i, frame, cache, flights, inFlight)
    BY <1>3 DEF Refetch
  <2>2. i \in 1..Len(b) /\ Slide' = b[i] /\ HasSlide'
    BY <1>0, <1>3, OnBoard DEF Slide, Cur, HasSlide
  <2> HIDE DEF i
  <2>3. /\ Wired(flights', inFlight')
        /\ frame' \in Frames /\ ready' \in BOOLEAN
        /\ Awaited(flights', ReportOf[b[i]])
        /\ Waiting(flights') \/ Shows(frame', ReportOf[b[i]])
    BY <1>3, <2>1, <2>2, Parts, EnterKeeps
  <2>4. TypeOK'
    BY <1>0, <2>3 DEF IInv, TypeOK, Wired, Frames
  <2>5. Followed'
    BY <2>2, <2>3 DEF Followed, Settled, Awaited, Waiting, Shows
  <2>6. Wired(flights, inFlight)'
    BY <2>3 DEF Wired
  <2>7. QED
    BY <2>2, <2>4, <2>5, <2>6 DEF IInv
<1>4. QED
  BY <1>1, <1>2, <1>3

\* The check renews by force, and looks ahead into a slot that no switch waits
\* for: it is another report's.
LEMMA TokenCheckIInv ==
  ASSUME IInv, TokenCheck
  PROVE  IInv'
<1> DEFINE r == ReportOf[Slide]
           n == ReportOf[board[Around(Cur, 1)]]
           renew == r \notin cache
           ahead == Len(board) > 1 /\ n # r /\ n \notin cache /\ inFlight[n] = None
           plain == IF ahead THEN [flights EXCEPT ![n] = [rep |-> n, waiters |-> {}]] ELSE flights
           reg   == IF ahead THEN [inFlight EXCEPT ![n] = n] ELSE inFlight
<1>0. /\ HasSlide /\ UNCHANGED <<carousel, frame, cache>>
      /\ \/ /\ renew
            /\ \E f \in Forced :
                 /\ flights[f] = Idle
                 /\ flights' = [plain EXCEPT ![f] = [rep |-> r, waiters |-> {<<"check">>}]]
                 /\ inFlight' = [reg EXCEPT ![r] = f]
         \/ ~renew /\ flights' = plain /\ inFlight' = reg
  BY DEF TokenCheck
<1>1. r \in Reports /\ n \in Reports
  <2>1. /\ Len(board) \in Nat \ {0} /\ Cur \in 1..Len(board)
        /\ board \in Boards /\ board # <<>> /\ r \in Reports
    BY <1>0, Parts, SlideTyped DEF TypeOK, HasSlide
  <2>2. Around(Cur, 1) \in 1..Len(board)
    BY <2>1, AroundBoard DEF Around
  <2>3. 1 \in Nat \ {0}
    OBVIOUS
  <2>4. QED
    BY <2>1, <2>2, <2>3, OnBoard
<1>2. Wired(flights, inFlight) /\ Awaited(flights, r) /\ Settled(flights, frame)
  BY <1>0, Parts
<1>3. /\ Wired(plain, reg) /\ Awaited(plain, r) /\ (Waiting(plain) <=> Waiting(flights))
      /\ \A f \in Forced : flights[f] = Idle => plain[f] = Idle
  <2>1. CASE ahead
    <3>1. <<"switch">> \notin flights[n].waiters
      <4>1. n \in Ids /\ (flights[n] = Idle \/ flights[n].rep = n)
        BY <1>1, <1>2 DEF Wired, Ids
      <4>2. Idle.waiters = {}
        BY DEF Idle
      <4>3. QED
        BY <1>2, <2>1, <4>1, <4>2 DEF Awaited
    <3>2. {} \in SUBSET Waiters /\ n \in Ids /\ <<"switch">> \notin {}
      BY <1>1 DEF Ids
    <3>3. /\ plain = [flights EXCEPT ![n] = [rep |-> n, waiters |-> {}]]
          /\ reg = [inFlight EXCEPT ![n] = n]
      BY <2>1
    <3>4. Wired(plain, reg)
      BY <1>1, <1>2, <3>2, <3>3, FetchWired
    <3>5. Awaited(plain, r) /\ (Waiting(plain) <=> Waiting(flights))
      BY <1>1, <1>2, <3>1, <3>2, <3>3, FetchApart
    <3>6. \A f \in Forced : plain[f] = flights[f]
      <4>1. \A f \in Forced : f \in Ids /\ f # n
        BY <1>1, PlayerAssumption DEF Ids
      <4>2. QED
        BY <1>2, <3>3, <4>1 DEF Wired
    <3>7. QED
      BY <3>4, <3>5, <3>6
  <2>2. CASE ~ahead
    BY <1>2, <2>2
  <2>3. QED
    BY <2>1, <2>2
<1> HIDE DEF plain, reg
<1>4. /\ Wired(flights', inFlight') /\ Awaited(flights', r)
      /\ Waiting(flights') <=> Waiting(flights)
  <2>1. CASE ~renew
    BY <1>0, <1>3, <2>1
  <2>2. CASE renew
    <3>1. PICK f \in Forced :
            /\ flights[f] = Idle
            /\ flights' = [plain EXCEPT ![f] = [rep |-> r, waiters |-> {<<"check">>}]]
            /\ inFlight' = [reg EXCEPT ![r] = f]
      BY <1>0, <2>2
    <3>2. /\ f \in Ids /\ plain[f] = Idle /\ <<"switch">> \notin plain[f].waiters
          /\ {<<"check">>} \in SUBSET Waiters /\ <<"switch">> \notin {<<"check">>}
      BY <1>3, <3>1, WaitersApart DEF Ids, Waiters, Idle
    <3>3. Wired(flights', inFlight')
      BY <1>1, <1>3, <3>1, <3>2, FetchWired
    <3>4. Awaited(flights', r) /\ (Waiting(flights') <=> Waiting(plain))
      BY <1>1, <1>3, <3>1, <3>2, FetchApart
    <3>5. QED
      BY <1>3, <3>3, <3>4
  <2>3. QED
    BY <2>1, <2>2
<1>5. Slide' = Slide /\ UNCHANGED <<board, index, paused, ready, retries, cooling>>
  BY <1>0 DEF carousel, Slide, Cur
<1>6. Moved
  BY <1>0, <1>2, <1>4, <1>5, Parts DEF Moved, Followed, Settled, TypeOK
<1>7. QED
  BY <1>0, <1>5, <1>6, Parts, MovedIInv

\* A token error forces a request of its own.
LEMMA TokenErrorIInv ==
  ASSUME IInv, EmbedTokenError
  PROVE  IInv'
<1> DEFINE r == ReportOf[Slide]
           ws == {<<"error", Slide>>}
<1>0. /\ HasSlide /\ UNCHANGED <<carousel, frame>> /\ cache' \in SUBSET Reports
      /\ ForceFetch(r, ws) /\ Slide \in Slides /\ r \in Reports
  BY Parts, SlideTyped DEF EmbedTokenError, Embedded
<1>1. PICK f \in Forced :
        /\ flights[f] = Idle
        /\ flights' = [flights EXCEPT ![f] = [rep |-> r, waiters |-> ws]]
        /\ inFlight' = [inFlight EXCEPT ![r] = f]
  BY <1>0 DEF ForceFetch
<1>2. /\ f \in Ids /\ <<"switch">> \notin flights[f].waiters
      /\ ws \in SUBSET Waiters /\ <<"switch">> \notin ws
  BY <1>0, <1>1, WaitersApart DEF Ids, Waiters, Idle
<1> HIDE DEF ws
<1>3. Wired(flights', inFlight')
  BY <1>0, <1>1, <1>2, Parts, FetchWired
<1>4. Awaited(flights', r) /\ (Waiting(flights') <=> Waiting(flights))
  BY <1>0, <1>1, <1>2, Parts, FetchApart
<1>5. Slide' = Slide /\ UNCHANGED <<board, index, paused, ready, retries, cooling>>
  BY <1>0 DEF carousel, Slide, Cur
<1>6. Moved
  BY <1>0, <1>3, <1>4, <1>5, Parts DEF Moved, Followed, Settled, TypeOK
<1>7. QED
  BY <1>0, <1>5, <1>6, Parts, MovedIInv

\* A token arrives: if the switch waits for it, it is the current slide's.
LEMMA TokenArrivesIInv ==
  ASSUME IInv, NEW f \in Ids, TokenArrives(f)
  PROVE  IInv'
<1> DEFINE r == flights[f].rep
           fl == [flights EXCEPT ![f] = Idle]
           inf == Forget(inFlight, r)
<1>0. /\ flights[f] # Idle /\ UNCHANGED carousel /\ cache' = cache \cup {r}
      /\ flights' = fl /\ inFlight' = inf
      /\ \E swapped \in BOOLEAN : frame' = Delivered(frame, r, flights[f].waiters, swapped)
  BY DEF TokenArrives
<1>1. /\ r \in Reports /\ Wired(fl, inf)
      /\ ~(<<"switch">> \in flights[f].waiters) /\ Waiting(flights) => Waiting(fl)
      /\ \A q : Awaited(flights, q) => Awaited(fl, q)
  BY <1>0, Parts, SettledWired
<1>2. /\ frame' \in Frames
      /\ <<"switch">> \in flights[f].waiters => Shows(frame', r)
      /\ <<"switch">> \notin flights[f].waiters /\ frame # Absent =>
           frame' # Absent /\ frame'.rep = frame.rep
  <2>1. CASE frame' = Embed(r) /\ <<"switch">> \in flights[f].waiters
    BY <1>1, <2>1, EmbedTyped
  <2>2. CASE frame' = frame /\ <<"switch">> \notin flights[f].waiters
    BY <2>2, Parts
  <2>3. CASE /\ frame' = [frame EXCEPT !.loaded = FALSE] /\ frame # Absent
             /\ <<"switch">> \notin flights[f].waiters
    BY <2>3, Parts, LoadedFrame
  <2>4. QED
    BY <1>0, <2>1, <2>2, <2>3 DEF Delivered
<1>3. Slide' = Slide /\ UNCHANGED <<board, index, paused, ready, retries, cooling>>
  BY <1>0 DEF carousel, Slide, Cur
<1>4. cache' \in SUBSET Reports
  BY <1>0, <1>1, Parts
<1> HIDE DEF fl, inf
<1>5. CASE HasSlide
  <2>1. Awaited(flights', ReportOf[Slide])
    BY <1>0, <1>1, <1>5, Parts
  <2>2. Len(board) > 1 => Waiting(flights') \/ Shows(frame', ReportOf[Slide])
    <3>1. CASE <<"switch">> \in flights[f].waiters
      BY <1>2, <1>5, <3>1, Parts DEF Awaited
    <3>2. CASE <<"switch">> \notin flights[f].waiters
      BY <1>0, <1>1, <1>2, <1>5, <3>2, Parts DEF Settled, Shows
    <3>3. QED
      BY <3>1, <3>2
  <2>3. Moved
    BY <1>0, <1>1, <1>2, <1>3, <2>1, <2>2, Parts
       DEF Moved, Followed, Settled, TypeOK
  <2>4. QED
    BY <1>3, <1>4, <1>5, <2>3, Parts, MovedIInv
<1>6. CASE ~HasSlide
  <2>1. ~HasSlide' /\ ~Waiting(flights)
    BY <1>3, <1>6 DEF HasSlide, IInv
  <2>2. \A g \in Ids : flights'[g] = flights[g] \/ flights'[g] = Idle
    BY <1>0, Parts DEF fl, Wired
  <2>3. ~Waiting(flights')
    BY <2>1, <2>2 DEF Waiting, Idle
  <2>4. Wired(flights', inFlight')
    BY <1>0, <1>1
  <2>5. TypeOK'
    BY <1>2, <1>3, <1>4, <2>4 DEF IInv, TypeOK, Wired, Frames
  <2>6. QED
    BY <2>1, <2>3, <2>4, <2>5 DEF IInv, Followed, Wired, Waiting
<1>7. QED
  BY <1>5, <1>6

\* A refusal: the switch that waits for it leaves the slide.
LEMMA TokenRefusedIInv ==
  ASSUME IInv, NEW f \in Ids, TokenRefused(f)
  PROVE  IInv'
<1> DEFINE r == flights[f].rep
           fl == [flights EXCEPT ![f] = Idle]
           inf == Forget(inFlight, r)
           failed == {s \in Slides : <<"error", s>> \in flights[f].waiters}
<1>0. flights[f] # Idle /\ UNCHANGED <<board, paused, cache>>
  BY DEF TokenRefused
<1>1. /\ r \in Reports /\ Wired(fl, inf)
      /\ ~(<<"switch">> \in flights[f].waiters) /\ Waiting(flights) => Waiting(fl)
      /\ \A q : Awaited(flights, q) => Awaited(fl, q)
  BY <1>0, Parts, SettledWired
<1>2. CASE <<"switch">> \in flights[f].waiters
  <2>1. HasSlide
    BY <1>2 DEF IInv, Waiting
  <2>2. Slide \in Slides /\ failed \cup {Slide} \in SUBSET Slides
    BY <2>1, Parts, SlideTyped
  <2>3. SkipSlide(failed \cup {Slide}, retries, frame, cache, fl, inf)
    BY <1>2 DEF TokenRefused
  <2>4. Awaited(fl, ReportOf[Slide])
    BY <1>1, <2>1, Parts
  <2> HIDE DEF fl, inf, failed
  <2>5. Moved /\ cooling' \in SUBSET Slides /\ retries' \in RetryCount
    BY <1>0, <1>1, <2>1, <2>2, <2>3, <2>4, Parts, SkipKeeps
  <2>6. QED
    BY <1>0, <2>1, <2>5, Parts, MovedIInv
<1>3. CASE <<"switch">> \notin flights[f].waiters
  <2>1. /\ cooling' = cooling \cup failed
        /\ retries' = [s \in Slides |-> IF s \in failed THEN 0 ELSE retries[s]]
        /\ flights' = fl /\ inFlight' = inf /\ UNCHANGED <<index, ready, frame>>
    BY <1>3 DEF TokenRefused
  <2>2. cooling' \in SUBSET Slides /\ retries' \in RetryCount
    BY <2>1, Parts, PlayerAssumption DEF RetryCount
  <2>3. Slide' = Slide /\ (HasSlide' <=> HasSlide)
    BY <1>0, <2>1 DEF Slide, Cur, HasSlide
  <2>4. \A g \in Ids : flights'[g] = flights[g] \/ flights'[g] = Idle
    BY <2>1, Parts DEF Wired
  <2> HIDE DEF fl, inf, failed
  <2>5. TypeOK'
    BY <1>0, <1>1, <2>1, <2>2 DEF IInv, TypeOK, Wired, RetryCount
  <2>6. Followed'
    <3>1. CASE HasSlide
      BY <1>0, <1>1, <1>3, <2>1, <2>3, <3>1, Parts
         DEF Followed, Settled, Awaited, Waiting, Shows
    <3>2. QED
      BY <2>3, <3>1 DEF Followed
  <2>7. ~HasSlide' => ~Waiting(flights')
    BY <2>3, <2>4 DEF IInv, Waiting, Idle
  <2>8. QED
    BY <1>1, <2>1, <2>5, <2>6, <2>7 DEF IInv, Wired, Waiting
<1>4. QED
  BY <1>2, <1>3

-----------------------------------------------------------------------------
\* The page opens with a request for the first slide.
LEMMA InitIInv ==
  ASSUME Init PROVE IInv
<1>0. /\ board \in Boards /\ index = 1 /\ paused = FALSE /\ ready = FALSE
      /\ frame = Absent /\ retries = [s \in Slides |-> 0] /\ cooling = {} /\ cache = {}
  BY DEF Init
<1>3. /\ index \in Nat \ {0} /\ paused \in BOOLEAN /\ ready \in BOOLEAN
          /\ retries \in [Slides -> 0..MaxSlideRetry]
          /\ cooling \in SUBSET Slides /\ cache \in SUBSET Reports
  <2>1. 0 \in 0..MaxSlideRetry
    BY PlayerAssumption
  <2>2. paused \in BOOLEAN /\ ready \in BOOLEAN
    BY <1>0
  <2>3. QED
    BY <1>0, <2>1, <2>2
<1>1. CASE board = <<>>
  <2>1. flights = [f \in Ids |-> Idle] /\ inFlight = [r \in Reports |-> None]
    BY <1>1 DEF Init
  <2>2. \A q \in Reports : q \in Ids
    BY DEF Ids
  <2>3. Wired(flights, inFlight) /\ ~Waiting(flights)
    BY <2>1, <2>2 DEF Wired, Waiting, Idle
  <2>4. TypeOK
    BY <1>0, <1>3, <2>3 DEF TypeOK, Wired
  <2>5. QED
    BY <1>1, <2>3, <2>4 DEF IInv, Followed, HasSlide
<1>2. CASE board # <<>>
  <2> DEFINE r == ReportOf[board[1]]
             x == [rep |-> r, waiters |-> {<<"switch">>}]
  <2>1. /\ flights = [f \in Ids |-> IF f = r THEN x ELSE Idle]
        /\ inFlight = [q \in Reports |-> IF q = r THEN r ELSE None]
    BY <1>2 DEF Init
  <2>2. r \in Reports /\ r \in Ids /\ Slide = board[1]
    BY <1>0, <1>2, OnBoard DEF Slide, Cur, SafeIndex, Ids
  <2>3. /\ x \in Flight /\ x.rep = r /\ x.waiters = {<<"switch">>}
        /\ Idle.waiters = {} /\ \A q \in Reports : q \in Ids
    BY <2>2 DEF Flight, Waiters, Idle, Ids
  <2> HIDE DEF x, r
  <2>4. Wired(flights, inFlight)
    BY <2>1, <2>2, <2>3 DEF Wired
  <2>5. Awaited(flights, r) /\ Waiting(flights)
    BY <2>1, <2>2, <2>3 DEF Awaited, Waiting
  <2>6. TypeOK
    BY <1>0, <1>3, <2>4 DEF TypeOK, Wired
  <2>7. Followed
    BY <2>2, <2>5 DEF Followed, Settled, r
  <2>8. QED
    BY <1>2, <2>4, <2>6, <2>7 DEF IInv, HasSlide
<1>4. QED
  BY <1>1, <1>2

\* One case per action.
LEMMA StepIInv ==
  ASSUME IInv, [Next]_vars PROVE IInv'
<1>1. CASE UNCHANGED vars
  BY <1>1, Parts, StillIInv DEF vars, carousel, tokens
<1>2. CASE TickDwell \/ TickTimeout \/ \E forward \in BOOLEAN : Key(forward)
  BY <1>2, RotateIInv
<1>3. CASE TokenCheck
  BY <1>3, TokenCheckIInv
<1>4. CASE \E f \in Ids : TokenArrives(f) \/ TokenRefused(f)
  BY <1>4, TokenArrivesIInv, TokenRefusedIInv
<1>5. CASE EmbedLoaded \/ EmbedRendered \/ EmbedError
  BY <1>5, EmbedIInv
<1>6. CASE EmbedTokenError
  BY <1>6, TokenErrorIInv
<1>7. CASE \/ \E r \in Reports : TokenAges(r)
           \/ TogglePause
           \/ \E s \in Slides : CooldownEnds(s)
  BY <1>7, OtherIInv
<1>8. CASE \E b \in Boards : Refetch(b)
  BY <1>8, RefetchIInv
<1>9. QED
  BY <1>1, <1>2, <1>3, <1>4, <1>5, <1>6, <1>7, <1>8 DEF Next

\* The inductive invariant holds in every state of the player.
THEOREM Invariance == Spec => []IInv
<1>1. Init => IInv
  BY InitIInv
<1>2. IInv /\ [Next]_vars => IInv'
  BY StepIInv
<1>3. QED
  BY <1>1, <1>2, PTL DEF Spec

\* The state of the player keeps its types: the index is a position, a retry
\* count stays within its limit.
THEOREM TypeCorrect == Spec => []TypeOK
<1>1. IInv => TypeOK
  BY DEF IInv
<1>2. QED
  BY <1>1, Invariance, PTL

\* No caller waits for a request that will not answer for its report, however
\* forced, plain and settled requests of useDisplayEmbedTokens overtake.
THEOREM JoinedRequestsAreLive == Spec => []JoinedRequestIsLive
<1>1. IInv => JoinedRequestIsLive
  BY DEF IInv, Wired, JoinedRequestIsLive
<1>2. QED
  BY <1>1, Invariance, PTL

\* The player awaits no token but the current slide's, and shows no other
\* report once none is awaited, for any playlists, reports, late answers,
\* refusals, cooldowns and keys.
THEOREM EmbedsFollowSlides == Spec => []EmbedFollowsSlide
<1>1. IInv => EmbedFollowsSlide
  BY DEF IInv, Followed, Settled, Awaited, Waiting, Shows, Switching, EmbedFollowsSlide
<1>2. QED
  BY <1>1, Invariance, PTL

=============================================================================
