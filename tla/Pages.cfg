SPECIFICATION PagesSpec
CONSTANTS
  None = None  p = p  h = h  v = v  m = m  n = n  r = r
  All = All  Unfiled = Unfiled  Asked = Asked
  a = a  b = b  c = c  d = d  r1 = r1  r2 = r2  r3 = r3  New = New
  MaxTime = 2  LastAttempt = 2  MaxPosts = 2
  Pages = {p, h}  Hidden = {h}  First = p  Views = {v}  Nothing = Nothing
  Rights = {"download", "pbix", "default"}  MaxExports = 1
  MaxRuns = 3
  MaxId = 2  Names = {m, n}  Reports = {r}  MaxFolders = 2  Elder = {1}
  Ids = {1}  Mailable = {r1, r2}  PagesOf <- MCPagesOf  People = {m, n}  MaxTo = 2  Empty = Empty
  Published = {r1, r2, r3}  ReportIds <- MCNumbers
  Shelves = {a, b}  ParentOf <- MCParentOf  Texts = {m, n}  FileName = New
  Branches = {a, b, d}  BranchOf <- MCBranchOf  Shelved <- MCShelved  Filed <- MCFiled
  FoundByText = {r1, r3}  ReleasedAt <- MCReleased  Newest = r3  Popularity <- MCNumbers  HubPage = 1
  Sources = {"group", "role"}
  Boards = {1, 2}  BoardNames = {1, 2, 3}  SlideIds = {1, 2}  Items = {m, n}  MaxSlides = 2
  Teams = {1, 2}  Top = 0  Candidates <- MCCandidates  Members = {m, n}  GroupIds = {1, 2}
  Users = {r1, r2}  UserDepartments = {p, h}  In <- MCIn  Text = v  Roles = {1, 2}  Plain = 1  Emails = {1}
  Requests = {1, 2, 3}  Sought = {1, 3}  RequestPage = 1  MaxFiles = 2  MaxSent = 2
  MaxAsked = 1
  Companies = {c, d}  CountedReports = {r1, r2}  CompanyOf <- MCCompanyOf
  Teamed = {p}  Staff = {h}  Periods = {a}  Recorded <- MCRecorded  ServedPages = 2
  LastYear = 2033  Near = 4
  Refreshes = {r1, r2, r3}  BeganAt <- MCNumbers  RunNumber <- MCNumbers  FirstStatus <- MCFirstStatus  DayOf <- MCDayOf
  SlotOf <- MCSlotOf  ReportOf <- MCReportOf  RefreshDays = {1, 2}
  Bars = {m, n}  Datasets = {p, h}  NameOf <- MCNameOf  Midnights = {1, 2}  DayLength = 1
  Hour = 2  MinBar = 1  Widths = {2, 4}  LastMoment = 2
SYMMETRY MCSymmetry
INVARIANTS PagesTypeOK VisitIsStored NoHiddenPageExported QuietMeansFresh ShownIsStored FoundIsShown ScheduleFitsReport FiltersAreShown StoredAsAsked
CHECK_DEADLOCK FALSE
