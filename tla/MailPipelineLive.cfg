CONSTANTS
    s1 = s1  f1 = f1  f2 = f2  r1 = r1  p1 = p1  p2 = p2  w1 = w1  w2 = w2
    Schedules = {s1}
    Fires = {f1, f2}
    Retries = {}
    Pages = {p1}
    Workers = {w1}
    None = None
    Free = Free
    Configs <- OnAndOff
    ClosedFires <- NoHoliday
    MailRetryMax = 1
    MaxCopies = 1
    MaxEdits = 1
    MaxFaults = 1
SPECIFICATION FairSpec
PROPERTIES
    TaskEnds
    OrphanLockGoes
    DueRoundStarts
CHECK_DEADLOCK FALSE
