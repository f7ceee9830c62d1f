SPECIFICATION ServicesSpec
CONSTANTS
    c1 = c1
    c2 = c2
    k0 = k0
    k1 = k1
    k2 = k2
    manual = manual
    restore = restore
    None = None
    Managers = {c1, c2}
    MaxPolicies = 2
    MaxPolicyDay = 1
    MaxChanges = 6
    ShadowDays = 1
    Analysts = {c1, c2}
    MaxRuns = 2
    MaxObjections = 1
    MaxRunDay = 1
    GraceDays = 0
    Splits <- MCSplits
    WorkingDays = 2
    MinDays = 1
    Throughput = 1
    VolumeGoal = 4
    SessionGoal = 2
    QuantityGoal = 2
    CheckGoal = 2
    CoverageGoal = 20
    TeamGoal = 60
    ExceptionGoal = 10
    MaxEntries = 3
    Sizes = {1, 20}
    Tablets = {c1, c2}
    MaxRecords = 3
    MaxHour = 1
    MaxReports = 4
    DayLength = 3
    KstOffset = 1
    Horizon = 4
    MaxFacts = 4
    Offices = {c1, c2}
    MaxSessions = 4
    MaxByHand = 1
    Masters = {c1, c2}
    SiteCodes = {k0, k1, k2}
    DefaultCode = k0
    MaxSites = 3
    MaxStaff = 2
    MaxSteps = 3
    Editors = {c1, c2}
    DayEnd = 3
    Spans <- MCSpans
    MaxBreaks = 2
    MaxPeriods = 3
    MaxEdits = 3
    Watchers = {c1, c2}
    Requests = {manual, restore}
    StaleAfter = 2
    MaxHalfDay = 3
    MaxTold = 1
    MaxSent = 2
SYMMETRY ServiceSymmetry
INVARIANTS
    OnlyLowScoresUnpaid
CHECK_DEADLOCK FALSE
