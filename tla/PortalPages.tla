----------------------------- MODULE PortalPages -----------------------------
(***************************************************************************)
(* The pages of the portal, one open at a time: what the server holds for  *)
(* one of them, what another user does to it and what the page shows do    *)
(* not depend on the others.                                               *)
(*                                                                         *)
(* The parts of the page of one report, the favourites and the form of a   *)
(* mail schedule have variables of their own.  The other pages share nine, *)
(* which each names as it does itself: mostly, server is what is stored,   *)
(* list and sight are what is shown of it, fields, draft and window what   *)
(* is typed and the dialog it is typed in, jobs the requests on their way, *)
(* save what was asked for, and part what of the page is followed.         *)
(***************************************************************************)
EXTENDS ViewSession, ReportEmbed, ReportNotices, FavoriteFolders, MailScheduleForm

CONSTANTS
  Published, ReportIds,               \* reports
  Shelves, ParentOf, Texts, FileName, \* their administration
  Branches, BranchOf,                 \* folders, in which reports are looked for
  Shelved, Filed,                     \* the folder of each, without and with some outside of the folders
  FoundByText, ReleasedAt, Newest, Popularity, HubPage,
  Sources,
  Boards, BoardNames, SlideIds, Items, MaxSlides,
  Teams, Top, Candidates, Members, GroupIds,
  Users, UserDepartments, In, Text, Roles, Plain, Emails,
  Requests, Sought, RequestPage, MaxFiles, MaxSent,
  MaxAsked,
  Companies, CountedReports, CompanyOf, Teamed, Staff, Periods, Recorded, ServedPages,
  LastYear, Near,
  Refreshes, BeganAt, RunNumber, FirstStatus, DayOf, SlotOf, ReportOf, RefreshDays,
  Bars, Datasets, NameOf, Midnights, DayLength, Hour, MinBar, Widths, LastMoment

VARIABLES
  page,     \* the page that is open, or the part of one
  part, server, list, sight, draft, save, window, fields, jobs

Hub == INSTANCE ReportCatalog WITH
  Folders <- Branches, Parent <- BranchOf, Reports <- Published, Place <- Shelved,
  Matching <- FoundByText, PublishedAt <- ReleasedAt, Newer <- Newest, Rank <- Popularity, PageSize <- HubPage,
  published <- server, hub <- fields, tree <- sight, rows <- list, moved <- draft
Picker == INSTANCE ReportPicker WITH
  Folders <- Branches, Parent <- BranchOf, Reports <- Published, Place <- Filed,
  value <- fields, hits <- window, tree <- sight
Trees == INSTANCE ReportTree WITH
  Folders <- Branches, Parent <- BranchOf, Reports <- Published, Place <- Filed,
  use <- part, inherited <- server, unlisted <- list, filter <- window, hits <- draft,
  collapsed <- sight, chosen <- save
Stats == INSTANCE StatsDashboard WITH
  Reports <- CountedReports, Departments <- Teamed, People <- Staff,
  operator <- part, tab <- window, filters <- fields, drill <- sight, unit <- draft, life <- save,
  ready <- server, kept <- list
Weeks == INSTANCE TrendPeriods WITH
  unit <- part, day <- server, from <- fields, to <- window, today <- sight
Monitor == INSTANCE RefreshMonitor WITH
  Runs <- Refreshes, Start <- BeganAt, Number <- RunNumber, First <- FirstStatus, Days <- RefreshDays,
  stored <- server, store <- fields, slot <- window, cached <- list, fetch <- jobs, table <- draft,
  rows <- sight
Timeline == INSTANCE RefreshTimeline WITH
  Runs <- Bars, Days <- Midnights, Length <- DayLength, MaxTime <- LastMoment,
  clock <- part, history <- server, day <- fields, cached <- list, open <- window, now <- draft,
  width <- save, tip <- sight
ReportAdmin == INSTANCE AdminReports WITH
  Reports <- Published, Ids <- ReportIds, Folders <- Shelves, Parent <- ParentOf,
  Named <- FileName, MaxJobs <- MaxAsked,
  stored <- server, folders <- sight, listed <- list, form <- fields, work <- jobs, asked <- save,
  theirs <- draft, view <- window
BoardAdmin == INSTANCE BoardEditor WITH
  Names <- BoardNames, MaxWork <- MaxAsked,
  stored <- server, listed <- list, selected <- sight, synced <- save, form <- fields, drafts <- draft,
  adding <- window, work <- jobs
TeamRights == INSTANCE TeamGroups WITH
  People <- Members, Ids <- GroupIds,
  roster <- sight, groups <- server, listed <- list, members <- draft, page <- fields, dialog <- window,
  work <- jobs
Accounts == INSTANCE UserAdmin WITH
  Departments <- UserDepartments, Blank <- None,
  stored <- server, listed <- list, shown <- sight, dialog <- window, form <- fields, work <- jobs
Center == INSTANCE ServiceCenter WITH
  Matching <- Sought, PageSize <- RequestPage, MaxWork <- MaxSent,
  stored <- server, listed <- list, list <- sight, form <- fields, dialog <- window, work <- jobs, sent <- save

partVars == <<viewVars, embedVars, noticeVars, favoriteVars, mailFormVars>>
slotVars == <<part, server, list, sight, draft, save, window, fields, jobs>>

\* A part that does not run has one state.
PartsInit ==
  /\ ViewInit /\ EmbedInit /\ NoticesInit /\ FavoriteInit /\ MailFormInit
  /\ page # "mails" => focus = "title"
  /\ page # "embed" => default.stored = Nothing

\* Nothing is in the variables that the open page has not got.
PagesInit ==
  /\ \/ /\ page \in {"view", "embed", "notices", "folders", "mails"}
        /\ part = None /\ server = None /\ list = None /\ sight = None
        /\ draft = None /\ save = None /\ window = None /\ fields = None /\ jobs = None
     \/ page = "catalog" /\ Hub!CatalogInit /\ part = None /\ save = None
        /\ window = None /\ jobs = None
     \/ page = "picker" /\ Picker!PickerInit /\ part = None /\ server = None
        /\ list = None /\ draft = None /\ save = None /\ jobs = None
     \/ page = "trees" /\ Trees!TreeInit /\ fields = None /\ jobs = None
     \/ page = "stats" /\ Stats!StatsInit /\ jobs = None
     \/ page = "periods" /\ Weeks!PeriodsInit /\ list = None /\ draft = None
        /\ save = None /\ jobs = None
     \/ page = "monitor" /\ Monitor!MonitorInit /\ part = None /\ save = None
     \/ page = "timeline" /\ Timeline!TimelineInit /\ jobs = None
     \/ page = "reports" /\ ReportAdmin!AdminInit
     \/ page = "boards" /\ BoardAdmin!BoardInit
     \/ page = "groups" /\ TeamRights!GroupInit /\ save = None
     \/ page = "users" /\ Accounts!UserInit
     \/ page = "service" /\ Center!ServiceInit /\ draft = None
  /\ PartsInit

PagesNext ==
  /\ UNCHANGED page
  /\ \/ page = "view" /\ ViewNext
        /\ UNCHANGED <<embedVars, noticeVars, favoriteVars, mailFormVars, slotVars>>
     \/ page = "embed" /\ EmbedNext
        /\ UNCHANGED <<viewVars, noticeVars, favoriteVars, mailFormVars, slotVars>>
     \/ page = "notices" /\ NoticesNext
        /\ UNCHANGED <<viewVars, embedVars, favoriteVars, mailFormVars, slotVars>>
     \/ page = "folders" /\ FavoriteNext
        /\ UNCHANGED <<viewVars, embedVars, noticeVars, mailFormVars, slotVars>>
     \/ page = "mails" /\ MailFormNext
        /\ UNCHANGED <<viewVars, embedVars, noticeVars, favoriteVars, slotVars>>
     \/ page = "catalog" /\ Hub!CatalogNext /\ UNCHANGED <<partVars, part, save, window, jobs>>
     \/ page = "picker" /\ Picker!PickerNext
        /\ UNCHANGED <<partVars, part, server, list, draft, save, jobs>>
     \/ page = "trees" /\ Trees!TreeNext /\ UNCHANGED <<partVars, fields, jobs>>
     \/ page = "stats" /\ Stats!StatsNext /\ UNCHANGED <<partVars, jobs>>
     \/ page = "periods" /\ Weeks!PeriodsNext /\ UNCHANGED <<partVars, list, draft, save, jobs>>
     \/ page = "monitor" /\ Monitor!MonitorNext /\ UNCHANGED <<partVars, part, save>>
     \/ page = "timeline" /\ Timeline!TimelineNext /\ UNCHANGED <<partVars, jobs>>
     \/ page = "reports" /\ ReportAdmin!AdminNext /\ UNCHANGED partVars
     \/ page = "boards" /\ BoardAdmin!BoardNext /\ UNCHANGED partVars
     \/ page = "groups" /\ TeamRights!GroupNext /\ UNCHANGED <<partVars, save>>
     \/ page = "users" /\ Accounts!UserNext /\ UNCHANGED partVars
     \/ page = "service" /\ Center!ServiceNext /\ UNCHANGED <<partVars, draft>>

PagesSpec == PagesInit /\ [][PagesNext]_<<page, partVars, slotVars>>

-----------------------------------------------------------------------------
(* Properties.                                                             *)

\* Each page keeps to its types.
PagesTypeOK ==
  CASE page = "view"      -> ViewTypeOK
    [] page = "embed"     -> EmbedTypeOK
    [] page = "notices"   -> NoticesTypeOK
    [] page = "folders"   -> FavoriteTypeOK
    [] page = "mails"     -> MailFormTypeOK
    [] page = "catalog"   -> Hub!CatalogTypeOK
    [] page = "picker"    -> Picker!PickerTypeOK
    [] page = "trees"     -> Trees!TreeTypeOK
    [] page = "stats"     -> Stats!StatsTypeOK
    [] page = "periods"   -> Weeks!PeriodsTypeOK
    [] page = "monitor"   -> Monitor!MonitorTypeOK
    [] page = "timeline"  -> Timeline!TimelineTypeOK
    [] page = "reports"   -> ReportAdmin!AdminTypeOK
    [] page = "boards"    -> BoardAdmin!BoardTypeOK
    [] page = "groups"    -> TeamRights!GroupTypeOK
    [] page = "users"     -> Accounts!UserTypeOK
    [] page = "service"   -> Center!ServiceTypeOK

\* The ways to find a report, or a request: the list of the catalogue is what the
\* server holds under the folder that is shown, the search of the trees shows what
\* matches and nothing else, and a page of the requests is never an empty one.
FoundIsShown ==
  /\ page = "catalog" => Hub!RowsAreCatalog
  /\ page = "picker"  => Picker!SearchShowsMatches
  /\ page = "trees"   => Trees!TreeShowsMatches
  /\ page = "reports" => ReportAdmin!TreeShowsFound
  /\ page = "service" => Center!PageIsShown

\* The statistics and the monitoring: what is drawn fits the filters and the day, and
\* a period of the trends is made of the days that are counted in it.
FiltersAreShown ==
  /\ page = "stats"    => Stats!StatsFitFilters
  /\ page = "periods"  => Weeks!PeriodsAreWhole
  /\ page = "monitor"  => Monitor!SelectionIsShown
  /\ page = "timeline" => Timeline!TimelineTellsRuns

\* The administration stores what was asked for, and nothing besides, whatever is typed
\* while an answer is on its way, another user stores, or fails to be stored.
StoredAsAsked ==
  /\ page = "reports" => ReportAdmin!OrderAndEditsHold
  /\ page = "boards"  => BoardAdmin!BoardsAsEdited
  /\ page = "groups"  => TeamRights!GroupsAsAsked
  /\ page = "users"   => Accounts!UsersAsAsked
  /\ page = "service" => Center!RequestsAsTold
=============================================================================
