---------------------------- MODULE BoardEditor ----------------------------
(***************************************************************************)
(* The administration of the display boards: a list of boards, the one     *)
(* that is selected, the form of its settings and its slides, which are    *)
(* filled again whenever another board, or another version of it, is       *)
(* listed.  Answers come while the page is used, and another operator      *)
(* changes the same boards.  A behaviour is about the settings of boards,  *)
(* the slides of one or the seconds of a slide.                            *)
(***************************************************************************)
EXTENDS Naturals, FiniteSets, Sequences, Functions, Sorting

CONSTANTS
  Boards,      \* ids, 1..n
  Names,       \* numbers, in the order of the names
  SlideIds,    \* 1..n, bounds the slides that are added
  Items,       \* what a slide shows: a report and a page of it, or its first
  MaxSlides,
  MaxWork,     \* bounds the requests of the page that are under way
  None

VARIABLES
  part,
  stored,      \* at the server: [Boards -> record or None]
  listed,      \* in the query cache
  selected,    \* selectedBoardId
  synced,      \* prevBoardSyncKey
  form,        \* the name, and the board it was typed for
  drafts,      \* dwellDraft, and the slides it was typed for
  adding,      \* the report and page of a new slide
  work         \* requests under way: what is asked, of this page or of another
               \* operator, and the slides that the server has seen for it

boardVars == <<part, stored, listed, selected, synced, form, drafts, adding, work>>

Seconds == {None, 30, 60}
Low == 0     \* out of the range of seconds
Slide == [id : SlideIds, item : Items, rank : Nat, on : BOOLEAN, seconds : Seconds]
Mixes == {"ranks", "items"}
\* last: the last id that was given.
Board == [name : Names, active : BOOLEAN, slides : SUBSET Slide, last : SlideIds \cup {0},
          version : 0..2, mixed : SUBSET Mixes]

BoardTypeOK ==
  /\ \A b \in Boards : stored[b] \in Board \cup {None} /\ listed[b] \in Board \cup {None}
  /\ selected \in Boards \cup {None}
  /\ form.name \in Names \cup {None} /\ form.of \in Boards \cup {None}
  /\ adding \in Items \cup {None}

-----------------------------------------------------------------------------
(* The page follows the list.                                              *)

\* The first of the list unless the selected one is in it.
Active(list, choice) ==
  LET there == {b \in Boards : list[b] # None} IN
  IF choice \in there THEN choice
  ELSE IF there = {} THEN None
  ELSE CHOOSE b \in there : \A x \in there \ {b} :
         list[b].name < list[x].name \/ (list[b].name = list[x].name /\ b < x)

Current == Active(listed, selected)

\* Mutant: the key leaves the version out.
BoardKey(list, choice) == <<Active(list, choice), 0>>

\* boardSyncKey
SyncKey(list, choice) ==
  LET on == Active(list, choice) IN IF on = None THEN <<None>> ELSE <<on, list[on].version>>

\* The form, the seconds and the new slide are dropped with the key.
Render ==
  LET key == SyncKey(listed', selected')
      on  == Active(listed', selected')
  IN /\ synced' = key
     /\ IF key = synced THEN UNCHANGED <<form, drafts, adding>>
        ELSE /\ form' = [name |-> IF on = None THEN None ELSE listed'[on].name, of |-> None]
             /\ drafts' = [text |-> [s \in SlideIds |->
                  IF on # None /\ \E x \in listed'[on].slides : x.id = s
                  THEN (CHOOSE x \in listed'[on].slides : x.id = s).seconds ELSE None], typed |-> {}]
             /\ adding' = None

BoardInit ==
  /\ part \in {"settings", "slides", "seconds"}
  /\ \E i \in Items : stored = [b \in Boards |->
       IF part = "settings" \/ b = 1
       THEN [name |-> b, active |-> TRUE, version |-> 0, mixed |-> {},
             last |-> IF part = "seconds" THEN 1 ELSE 0, slides |->
             IF part # "seconds" THEN {}
             ELSE {[id |-> 1, item |-> i, rank |-> 0, on |-> TRUE, seconds |-> None]}]
       ELSE None]
  /\ listed = stored /\ selected = None /\ synced = <<1, 0>>
  /\ form = [name |-> 1, of |-> None]
  /\ drafts = [text |-> [s \in SlideIds |-> None], typed |-> {}]
  /\ adding = None /\ work = {}

Fetch ==
  /\ listed # stored
  /\ listed' = stored /\ UNCHANGED <<part, stored, selected, work>> /\ Render

Select(b) ==
  /\ listed[b] # None /\ selected' = b
  /\ UNCHANGED <<part, stored, listed, work>> /\ Render

-----------------------------------------------------------------------------
(* Requests.                                                               *)

Page == <<selected, synced, form, drafts, adding>>

NewWork(r, mine) == [ask |-> r, mine |-> mine, seen |-> None, old |-> None]

\* One request of a kind at a time: its button is disabled meanwhile.
Ask(r) ==
  /\ \A w \in work : w.mine => w.ask.kind # r.kind
  /\ Cardinality({w \in work : w.mine}) < MaxWork
  /\ work' = work \cup {NewWork(r, TRUE)}
  /\ UNCHANGED <<part, stored, listed, Page>>

\* A stored version is never one that is shown.
Version(b) ==
  CHOOSE k \in 0..2 : /\ listed[b] # None => k # listed[b].version
                      /\ <<b, k>> # synced
Store(b, new) == stored' = [stored EXCEPT ![b] = [new EXCEPT !.version = Version(b)]]

TypeName(t) ==
  /\ Current # None /\ t # form.name
  /\ form' = [name |-> t, of |-> Current]
  /\ UNCHANGED <<part, stored, listed, selected, synced, drafts, adding, work>>

SaveBoard ==
  /\ Current # None /\ form.name # listed[Current].name
  /\ Ask([kind |-> "update", board |-> Current, name |-> form.name, active |-> None, of |-> form.of])

ToggleActive ==
  /\ Current # None
  /\ Ask([kind |-> "update", board |-> Current, name |-> None,
          active |-> ~listed[Current].active, of |-> Current])

Free(t, b) == \A x \in Boards \ {b} : stored[x] # None => stored[x].name # t

\* update_display_board: a name is stored once, by a constraint of the table.
Update(w) ==
  LET ask == w.ask IN
  /\ ask.kind = "update" /\ stored[ask.board] # None /\ (ask.name # None => Free(ask.name, ask.board))
  /\ Store(ask.board, [stored[ask.board] EXCEPT !.name = IF ask.name = None THEN @ ELSE ask.name,
                                               !.active = IF ask.active = None THEN @ ELSE ask.active])
  /\ work' = work \ {w} /\ UNCHANGED <<part, listed, Page>>

\* A new board is selected before it is in the list, which is read again.
Create(b, t) ==
  /\ stored[b] = None /\ listed[b] = None /\ Free(t, b)
  /\ stored' = [stored EXCEPT ![b] = [name |-> t, active |-> TRUE, slides |-> {}, last |-> 0,
                                       version |-> 0, mixed |-> {}]]
  /\ selected' = b /\ UNCHANGED <<part, listed, work>> /\ Render

AskRemove == Current # None /\ Ask([kind |-> "remove", board |-> Current])

RemoveBoard(w) ==
  /\ w.ask.kind = "remove" /\ stored[w.ask.board] # None
  /\ stored' = [stored EXCEPT ![w.ask.board] = None] /\ work' = work \ {w}
  /\ selected' = None /\ UNCHANGED <<part, listed>> /\ Render

\* Whatever was asked is refused, loses a row or a deadlock at the server, or the
\* answer is lost; the list stays as it is.
Fails(w) ==
  /\ work' = work \ {w}
  /\ UNCHANGED <<part, stored, listed, Page>>

-----------------------------------------------------------------------------
(* Slides.                                                                 *)

Earlier(slides) == {e \in slides \X slides :
  e[1].rank < e[2].rank \/ (e[1].rank = e[2].rank /\ e[1].id < e[2].id)}
Ranked(slides) == InOrder(slides, Earlier(slides))
IdsOf(slides) == [i \in DOMAIN Ranked(slides) |-> Ranked(slides)[i].id]
Numbered(slides, ids) == {[x EXCEPT !.rank = CHOOSE k \in 0..(Len(ids) - 1) : ids[k + 1] = x.id] : x \in slides}

\* add_display_board_slide: no report and page twice; the last.
CanAdd(slides, item) ==
  Cardinality(slides) < MaxSlides /\ \A x \in slides : x.item # item

NextRank(slides) == IF slides = {} THEN 0 ELSE 1 + Ranked(slides)[Cardinality(slides)].rank
Added(slides, id, item, rank) ==
  slides \cup {[id |-> id, item |-> item, rank |-> rank, on |-> TRUE, seconds |-> None]}

\* Mutant: the ranks of the others stay.
LeaveGap(slides, id) == {x \in slides : x.id # id}

\* delete_display_board_slide: the others are numbered from 0 again.
Without(slides, id) ==
  LET rest == {x \in slides : x.id # id} IN Numbered(rest, IdsOf(rest))

\* reorder_display_board_slides: all of them, each once.
CanRank(slides, ids) == IsInjective(ids) /\ {ids[i] : i \in DOMAIN ids} = {x.id : x \in slides}

Shown == IF Current = None THEN {} ELSE listed[Current].slides

\* A page is chosen for its report; choosing another report drops it.
Choose(item) ==
  /\ Current # None /\ item # adding /\ adding' = item
  /\ UNCHANGED <<part, stored, listed, selected, synced, form, drafts, work>>

AskAdd == adding # None /\ Current # None /\ Ask([kind |-> "add", board |-> Current, item |-> adding])

AskMove(i) ==
  LET ids == IdsOf(Shown) IN
  /\ i \in 1..(Len(ids) - 1)
  /\ Ask([kind |-> "move", board |-> Current,
          ids |-> [ids EXCEPT ![i] = ids[i + 1], ![i + 1] = ids[i]]])

AskDelete(x) == Ask([kind |-> "delete", board |-> Current, id |-> x.id])
AskToggle(x) == Ask([kind |-> "slide", board |-> Current, id |-> x.id, on |-> ~x.on, seconds |-> None])

\* What another operator asks, one request at a time.
AskElsewhere(b) ==
  LET slides == stored[b].slides
      ids    == IdsOf(slides)
  IN /\ stored[b] # None /\ \A w \in work : w.mine
     /\ \E r \in {[kind |-> "add", board |-> b, item |-> i] : i \in Items}
             \cup {[kind |-> "delete", board |-> b, id |-> x.id] : x \in slides}
             \cup {[kind |-> "move", board |-> b, ids |-> [ids EXCEPT ![i] = ids[i + 1], ![i + 1] = ids[i]]] :
                     i \in 1..(Len(ids) - 1)} :
          work' = work \cup {NewWork(r, FALSE)}
     /\ UNCHANGED <<part, stored, listed, Page>>

-----------------------------------------------------------------------------
(* The server reads the slides of a board without locking them, decides,   *)
(* and commits later: others write in between.                             *)

Accepts(r, slides) ==
  \/ r.kind = "add" /\ CanAdd(slides, r.item)
  \/ r.kind = "move" /\ CanRank(slides, r.ids)
  \/ r.kind = "delete" /\ \E x \in slides : x.id = r.id

\* The slides are read to check the request; a reorder takes the ranks from them.
Check(w) ==
  LET slides == stored[w.ask.board].slides IN
  /\ w.seen = None /\ stored[w.ask.board] # None /\ Accepts(w.ask, slides)
  /\ work' = (work \ {w}) \cup
       {[w EXCEPT !.seen = IF w.ask.kind = "add" THEN slides ELSE {},
                  !.old = IF w.ask.kind = "move" THEN slides ELSE None]}
  /\ UNCHANGED <<part, stored, listed, Page>>

\* A slide that a transaction has deleted is locked until it commits.
Locked(id) == \E w \in work : w.ask.kind = "delete" /\ w.ask.id = id /\ w.old # None

\* They are read again for the ranks: the last one, or, after the deletion, those
\* of the others.
ReadRanks(w) ==
  /\ w.seen # None /\ w.old = None /\ w.ask.kind # "move" /\ stored[w.ask.board] # None
  /\ w.ask.kind = "delete" => ~Locked(w.ask.id)
  /\ work' = (work \ {w}) \cup {[w EXCEPT !.old = stored[w.ask.board].slides]}
  /\ UNCHANGED <<part, stored, listed, Page>>

\* The rows whose rank differs from the one that was read; only these are written.
Moved(w) ==
  LET new == IF w.ask.kind = "move" THEN Numbered(w.old, w.ask.ids) ELSE Without(w.old, w.ask.id) IN
  IF w.ask.kind = "add" THEN {} ELSE {x \in new : \A o \in w.old : o.id = x.id => o.rank # x.rank}

Renumbered(slides, moved) ==
  {IF \E y \in moved : y.id = x.id
   THEN [x EXCEPT !.rank = (CHOOSE y \in moved : y.id = x.id).rank] ELSE x : x \in slides}

\* What a request makes of the slides that are there when it commits.
Written(w, board) ==
  CASE w.ask.kind = "add"    -> Added(board.slides, board.last + 1, w.ask.item, NextRank(w.old))
    [] w.ask.kind = "move"   -> Renumbered(board.slides, Moved(w))
    [] w.ask.kind = "delete" -> Renumbered({x \in board.slides : x.id # w.ask.id}, Moved(w))

\* A history: whether ranks, or items, were written from a list of slides that
\* others had changed meanwhile.  A reorder or a deletion that nobody came
\* between numbers all slides again.
Places(slides) == {<<x.id, x.item, x.rank>> : x \in slides}
MixedBy(w, board) ==
  LET now == Places(board.slides) IN
  {m \in board.mixed : m = "items" \/ w.ask.kind = "add"}
  \cup {m \in {"ranks"} : Places(w.old) # now}
  \cup {m \in {"items"} : w.ask.kind = "add" /\ Places(w.seen) # now}

\* An id is not given twice.
LastId(w, board) == IF w.ask.kind = "add" THEN board.last + 1 ELSE board.last

SlidesStored(w) ==
  LET board == w.ask.board IN
  /\ w.old # None /\ stored[board] # None /\ \A x \in Moved(w) : ~Locked(x.id)
  /\ LastId(w, stored[board]) \in SlideIds \cup {0}
  /\ Store(board, [stored[board] EXCEPT !.slides = Written(w, stored[board]), !.last = LastId(w, stored[board]),
                                        !.mixed = MixedBy(w, stored[board])])
  /\ adding' = IF w.mine /\ w.ask.kind = "add" THEN None ELSE adding
  /\ work' = work \ {w} /\ UNCHANGED <<part, listed, selected, synced, form, drafts>>

\* update_display_board_slide reads one row and writes its own columns of it, which
\* comes to one step: a column that it leaves because it read the value it was to
\* write, it has written at the read.
SlideSet(w) ==
  LET ask == w.ask IN
  /\ ask.kind = "slide" /\ stored[ask.board] # None /\ ~Locked(ask.id)
  /\ \E x \in stored[ask.board].slides : x.id = ask.id
  /\ Store(ask.board, [stored[ask.board] EXCEPT !.slides =
       {IF x.id # ask.id THEN x
        ELSE IF ask.on # None THEN [x EXCEPT !.on = ask.on] ELSE [x EXCEPT !.seconds = ask.seconds] : x \in @}])
  /\ work' = work \ {w} /\ UNCHANGED <<part, listed, Page>>

-----------------------------------------------------------------------------
(* The seconds of a slide, typed and then left.                            *)

TypeSeconds(x, text) ==
  /\ text # drafts.text[x.id]
  /\ drafts' = [text |-> [drafts.text EXCEPT ![x.id] = text], typed |-> drafts.typed \cup {x.id}]
  /\ UNCHANGED <<part, stored, listed, selected, synced, form, adding, work>>

\* commitDwell
Blur(x) ==
  LET text == drafts.text[x.id] IN
  /\ x.id \in drafts.typed
  /\ \/ /\ text = Low
        /\ drafts' = [text |-> [drafts.text EXCEPT ![x.id] = x.seconds], typed |-> drafts.typed \ {x.id}]
        /\ UNCHANGED <<part, stored, listed, selected, synced, form, adding, work>>
     \/ /\ text \notin {Low, x.seconds}
        /\ work' = work \cup {NewWork([kind |-> "slide", board |-> Current, id |-> x.id,
                                     on |-> None, seconds |-> text], TRUE)}
        /\ UNCHANGED <<part, stored, listed, Page>>

-----------------------------------------------------------------------------
\* Another operator: the settings, and the seconds.
Elsewhere(b) ==
  /\ stored[b] # None
  /\ \/ part = "settings" /\ \E t \in Names \ {stored[b].name} :
          Free(t, b) /\ Store(b, [stored[b] EXCEPT !.name = t])
     \/ part = "settings" /\ stored' = [stored EXCEPT ![b] = None]
     \/ part = "seconds" /\ Store(b, [stored[b] EXCEPT !.slides =
          {[x EXCEPT !.seconds = IF @ = 60 THEN None ELSE 60] : x \in @}])
  /\ UNCHANGED <<part, listed, Page, work>>

BoardNext ==
  \/ Fetch
  \/ \E w \in work :
       Update(w) \/ RemoveBoard(w) \/ Check(w) \/ ReadRanks(w) \/ SlidesStored(w) \/ SlideSet(w) \/ Fails(w)
  \/ \E b \in Boards : Elsewhere(b)
  \/ /\ part = "settings"
     /\ \/ SaveBoard \/ AskRemove
        \/ \E b \in Boards, t \in Names : Select(b) \/ TypeName(t) \/ Create(b, t)
  \/ /\ part = "slides"
     /\ \/ AskAdd
        \/ \E i \in Items : Choose(i)
        \/ \E i \in DOMAIN IdsOf(Shown) : AskMove(i)
        \/ \E x \in Shown : AskDelete(x)
        \/ \E b \in Boards : AskElsewhere(b)
  \/ /\ part = "seconds"
     /\ ToggleActive \/ \E x \in Shown : Blur(x) \/ AskToggle(x) \/ \E t \in Seconds \cup {Low} : TypeSeconds(x, t)

BoardSpec == BoardInit /\ [][BoardNext]_boardVars

-----------------------------------------------------------------------------
(* Properties.                                                             *)

\* A board shows each report and page once, in an order without gaps, after any
\* additions, moves and deletions from lists of any age, of any operators, as long
\* as no addition commits to slides that others have changed since it checked them,
\* and no change of ranks to slides that others have changed since it read them;
\* the next reorder or deletion that nobody comes between closes the gaps again.
\* Settings are stored for the board they were typed for, also when the list moves
\* the page to another; and what was not typed since is shown as it is listed.
BoardsAsEdited ==
  /\ \A b \in Boards : stored[b] # None =>
       LET slides == stored[b].slides IN
       /\ "ranks" \notin stored[b].mixed => {x.rank : x \in slides} = 0..(Cardinality(slides) - 1)
       /\ "items" \notin stored[b].mixed => \A x, y \in slides : x.item = y.item => x = y
  /\ \A w \in work : w.ask.kind = "update" => w.ask.of = w.ask.board
  /\ Current # None => /\ form.of \in {None, Current}
                       /\ form.of = None => form.name = listed[Current].name
  /\ \A x \in Shown : x.id \in drafts.typed \/ drafts.text[x.id] = x.seconds
=============================================================================
