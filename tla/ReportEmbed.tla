----------------------------- MODULE ReportEmbed -----------------------------
(***************************************************************************)
(* The embedded report of the view page and what the page's header does    *)
(* with it: the list of pages, the common default view, display options,   *)
(* and exports of what is on the screen.  The report runs in a frame of    *)
(* its own: every call to it is answered later or fails, and the user goes *)
(* from page to page inside it without the header hearing of it.           *)
(***************************************************************************)
EXTENDS Naturals, FiniteSets

CONSTANTS
  Pages, Hidden,  \* the pages of the report, and those hidden in view mode
  First,          \* the first visible page
  Views,          \* settings of slicers and filters
  Nothing,           \* no page, no view
  Rights,         \* rights of the user: "download", "pbix", "default"
  MaxExports      \* bounds the exports asked for

VARIABLES
  frame,      \* the report in its frame
  lists,      \* answers of getPages on their way: the page that was active
  names,      \* the page list and the current page in the header
  menu,       \* the open menu
  default,    \* the default view: at the server, in the page, being saved
  capture,    \* the view that is being captured, and what for
  exports     \* export requests sent

embedVars == <<frame, lists, names, menu, default, capture, exports>>

Visible == Pages \ Hidden
Jobs    == {"save", "page", "all", "pbix"}
NoCapture == [for |-> Nothing, page |-> Nothing]

Frame == [ready : BOOLEAN, page : Pages, going : Pages \cup {Nothing},
          view : Views, display : {"fit", "actual", "full"}, applying : BOOLEAN]

EmbedTypeOK ==
  /\ frame \in Frame
  /\ lists \subseteq Pages
  /\ names \in [listed : BOOLEAN, active : Pages \cup {Nothing}]
  /\ menu \in {"none", "view", "download"}
  /\ default \in [stored : Views \cup {Nothing}, known : Views \cup {Nothing}, saving : BOOLEAN]
  /\ capture \in [for : Jobs \cup {Nothing}, page : Pages \cup {Nothing}]
  /\ Cardinality(exports) <= MaxExports

EmbedInit ==
  /\ \E v \in Views : frame = [ready |-> FALSE, page |-> First, going |-> Nothing, view |-> v,
                               display |-> "fit", applying |-> FALSE]
  /\ lists = {}
  /\ names = [listed |-> FALSE, active |-> Nothing]
  /\ menu = "none"
  /\ \E v \in {Nothing} \cup Views : default = [stored |-> v, known |-> v, saving |-> FALSE]
  /\ capture = NoCapture
  /\ exports = {}

-----------------------------------------------------------------------------
(* The report announces itself; the page asks for its pages.               *)

LoadPages == lists' = lists \cup {frame.page}

\* getEmbeddedComponent hands the report over, at once and again later.
HandleReport ==
  /\ frame' = [frame EXCEPT !.ready = TRUE]
  /\ LoadPages
  /\ UNCHANGED <<names, menu, default, capture, exports>>

\* The loaded event: fit to page, apply the default view, then list the pages.
Loaded ==
  /\ frame.ready /\ ~frame.applying
  /\ IF default.known = Nothing
     THEN frame' = [frame EXCEPT !.display = "fit"] /\ LoadPages
     ELSE frame' = [frame EXCEPT !.display = "fit", !.applying = TRUE] /\ UNCHANGED lists
  /\ UNCHANGED <<names, menu, default, capture, exports>>

\* The default view is applied, or does not fit the report any more.
DefaultApplied(ok) ==
  /\ frame.applying
  /\ frame' = [frame EXCEPT !.applying = FALSE,
                            !.view = IF ok /\ default.known # Nothing THEN default.known ELSE @]
  /\ LoadPages
  /\ UNCHANGED <<names, menu, default, capture, exports>>

\* Mutant: the active page is taken as it is.
Whichever(p) == p

\* A hidden page is not listed; the first visible one stands for it.
Initial(p) == IF p \in Hidden THEN First ELSE p

PagesArrive(p) ==
  /\ p \in lists
  /\ lists' = lists \ {p}
  /\ names' = [listed |-> TRUE, active |-> Initial(p)]
  /\ UNCHANGED <<frame, menu, default, capture, exports>>

PagesFail(p) ==
  /\ p \in lists
  /\ lists' = lists \ {p}
  /\ UNCHANGED <<frame, names, menu, default, capture, exports>>

-----------------------------------------------------------------------------
(* The user, in the header and in the report.                              *)

\* selectPage: the header changes at once, the report when it has turned.
SelectPage(p) ==
  /\ names.listed /\ Cardinality(Visible) > 1 /\ p \in Visible
  /\ names' = [names EXCEPT !.active = p]
  /\ frame' = [frame EXCEPT !.going = p]
  /\ UNCHANGED <<lists, menu, default, capture, exports>>

PageTurned(ok) ==
  /\ frame.going # Nothing
  /\ frame' = [frame EXCEPT !.page = IF ok THEN frame.going ELSE @, !.going = Nothing]
  /\ UNCHANGED <<lists, names, menu, default, capture, exports>>

\* A button, a drillthrough or a bookmark inside the report: no event of it
\* is listened to.
Navigate(p) ==
  /\ frame.ready /\ p # frame.page
  /\ frame' = [frame EXCEPT !.page = p]
  /\ UNCHANGED <<lists, names, menu, default, capture, exports>>

Slice(v) ==
  /\ frame.ready /\ v # frame.view
  /\ frame' = [frame EXCEPT !.view = v]
  /\ UNCHANGED <<lists, names, menu, default, capture, exports>>

Allowed(m) == m = "view" \/ Rights \cap {"download", "pbix"} # {}

ToggleMenu(m) ==
  /\ Allowed(m)
  /\ menu' = IF menu = m THEN "none" ELSE m
  /\ UNCHANGED <<frame, lists, names, default, capture, exports>>

\* Actual size, fit to page, full screen (which forces fit to page, and comes
\* back to it).
Display(d) ==
  /\ menu = "view" /\ menu' = "none"
  /\ frame' = IF frame.ready THEN [frame EXCEPT !.display = d] ELSE frame
  /\ UNCHANGED <<lists, names, default, capture, exports>>

LeaveFullscreen ==
  /\ frame.display = "full"
  /\ frame' = [frame EXCEPT !.display = "fit"]
  /\ UNCHANGED <<lists, names, menu, default, capture, exports>>

-----------------------------------------------------------------------------
(* The default view, and exports.                                          *)

Offered(job) ==
  CASE job = "save" -> menu = "view" /\ "default" \in Rights /\ ~default.saving
    [] job = "pbix" -> menu = "download" /\ "pbix" \in Rights
    [] OTHER        -> menu = "download" /\ "download" \in Rights

Mutate(v) == default' = [default EXCEPT !.saving = TRUE, !.stored = v]

\* The state of the report is captured first; the page of an export is the
\* one the header showed at the click.
Click(job) ==
  /\ Offered(job) /\ capture = NoCapture
  /\ job = "save" => frame.ready
  /\ Cardinality(exports) < MaxExports
  /\ menu' = "none"
  /\ capture' = [for |-> job, page |-> names.active]
  /\ UNCHANGED <<frame, lists, names, default, exports>>

\* The request that is sent, with the page that was on the screen beside it.
Request(view) ==
  [scope |-> capture.for,
   page  |-> IF capture.for = "page" THEN capture.page ELSE Nothing,
   pages |-> IF capture.for = "all" /\ names.listed THEN Visible ELSE {},
   view  |-> IF capture.for = "pbix" THEN Nothing ELSE view,
   seen  |-> frame.page]

\* A view that cannot be captured is not saved, but exported as it is stored.
Captured(ok) ==
  LET view == IF ok /\ frame.ready THEN frame.view ELSE Nothing IN
  /\ capture # NoCapture /\ capture' = NoCapture
  /\ IF capture.for = "save"
     THEN /\ IF ok THEN Mutate(view) ELSE UNCHANGED default
          /\ UNCHANGED exports
     ELSE /\ exports' = exports \cup {Request(view)}
          /\ UNCHANGED default
  /\ UNCHANGED <<frame, lists, names, menu>>

ClearDefault ==
  /\ Offered("save")
  /\ menu' = "none"
  /\ Mutate(Nothing)
  /\ UNCHANGED <<frame, lists, names, capture, exports>>

\* The mutation is answered: the embed query, and with it the default view, is
\* fetched again.
DefaultSaved(ok) ==
  /\ default.saving
  /\ default' = [default EXCEPT !.saving = FALSE, !.known = IF ok THEN default.stored ELSE @]
  /\ UNCHANGED <<frame, lists, names, menu, capture, exports>>

EmbedNext ==
  \/ HandleReport \/ Loaded \/ LeaveFullscreen \/ ClearDefault
  \/ \E ok \in BOOLEAN : DefaultApplied(ok) \/ PageTurned(ok) \/ Captured(ok) \/ DefaultSaved(ok)
  \/ \E p \in Pages : PagesArrive(p) \/ PagesFail(p) \/ SelectPage(p) \/ Navigate(p)
  \/ \E v \in Views : Slice(v)
  \/ \E m \in {"view", "download"} : ToggleMenu(m)
  \/ \E d \in {"fit", "actual", "full"} : Display(d)
  \/ \E job \in Jobs : Click(job)

EmbedSpec == EmbedInit /\ [][EmbedNext]_embedVars

-----------------------------------------------------------------------------
(* Properties.                                                             *)

\* Whatever the user opens inside the report and whenever the list of pages
\* arrives, no export names a page that the report hides.
NoHiddenPageExported ==
  \A e \in exports : e.page \notin Hidden /\ e.pages \cap Hidden = {}

\* The export of the current page is one of the page on the screen.
ExportedPageIsShown ==
  \A e \in exports : e.scope = "page" /\ e.page # Nothing => e.page = e.seen
=============================================================================
