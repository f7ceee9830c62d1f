SPECIFICATION Spec
CONSTANTS
    e1 = e1
    e2 = e2
    Execs = {e1, e2}
    MaxSubs = 2
    MaxCalls = 4
    LastDay = 3
    TrialDays = 1
    TermDays = 1
    MonthDays = 2
    DueDays = 0
    GraceDays = 1
    NoticeDays <- MCNoticeDays
    Retries = 2
    None = None
SYMMETRY ExecSymmetry
PROPERTIES
    PaidStays
CHECK_DEADLOCK FALSE
