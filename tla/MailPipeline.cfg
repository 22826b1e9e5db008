CONSTANTS
    s1 = s1  f1 = f1  f2 = f2  r1 = r1  p1 = p1  p2 = p2  w1 = w1  w2 = w2
    Schedules = {s1}
    Fires = {f1}
    Retries = {r1}
    Pages = {p1, p2}
    Workers = {w1, w2}
    None = None
    Free = Free
    Configs <- AllKinds
    ClosedFires <- NoHoliday
    MailRetryMax = 2
    MaxCopies = 2
    MaxEdits = 0
    MaxFaults = 1
SPECIFICATION Spec
SYMMETRY Symmetry
INVARIANTS
    TypeOK
    LeaseExclusion
    OneRunPerRound
    SuccessIsComplete
    VerdictSettlesExports
    BoundedResend
    RetryOnlyOfFailed
PROPERTIES
    VerdictIsFinal
    LedgerSpec
CHECK_DEADLOCK FALSE
