SPECIFICATION LiveSpec
CONSTANTS
  s1 = s1  s2 = s2  s3 = s3  a = a  b = b
  Absent = Absent
  Slides = {s1, s3}
  Reports = {a, b}
  ReportOf <- MCReportOf
  Boards <- MCBoards
  MaxSlideRetry = 1
  Forced = {f1}
  None = None
INVARIANTS TypeOK EmbedFollowsSlide JoinedRequestIsLive
PROPERTY EverySlideIsPlayed
CHECK_DEADLOCK FALSE
