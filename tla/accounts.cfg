SPECIFICATION AccountsSpec
CONSTANTS
    c1 = c1
    c2 = c2
    k1 = k1
    m1 = m1
    m2 = m2
    i1 = i1
    None = None
    Callers = {c1, c2}
    Entrants = {c1, c2}
    MaxBegins = 5
    MaxTokens = 3
    MaxResets = 1
    MaxAttempts = 4
    MaxTokenTime = 2
    MaxLockTime = 3
    Grace = 0
    Life = 2
    KeepRevoked = 1
    MaxFailed = 2
    LockoutTime = 1
    Askers = {c1, c2}
    MaxCodes = 3
    MaxCodeTime = 2
    CodeLife = 1
    Clerks = {c1, c2}
    MaxAccounts = 3
    MaxInvites = 1
    Emails = {m1, m2}
    EmpCodes = {k1}
    MaxWorkers = 1
    MaxBegun = 3
    MaxUnchecked = 1
    DayLength = 3
    KstOffset = 1
    People = {c1, c2}
    HourLength = 2
    MonthStart = 2
    MonthEnd = 6
    Danger = 1
    Moments <- MCMoments
    MaxInputs = 5
    CentreCount = 2
    i2 = i2
    Items = {i1, i2}
    MailRows = 1
    Statuses = {"TRIAL", "EXPIRED"}
    MaxOffice = 1
    SiteCount = 2
    Staff = {c1, c2}
    Today = 48
    AnHour = 4
    WorkStart = 4
    GraceTime = 6
    LongTime = 6
    DigestTime = 10
    AlertTime = 12
    IdleTime = 24
    SpanTime = 28
    MaxActions = 2
    ViewTimes <- MCViewTimes
    Beginnings <- MCBeginnings
    Reports <- MCReports
    MaxEntries = 2
SYMMETRY CallSymmetry
INVARIANTS
    FamilyBudget
    ResetEndsTokens
    FailuresBounded
    DeliveredCodeStands
    LinkedOnce
    InviteNeverWasted
    WithinPlan
    ExposureAgrees
    DashboardAgrees
    NoticesTell
    PeriodsAddUp
    TabletHeard
    ViewsAgree
PROPERTIES
    CodeServesOnce
CHECK_DEADLOCK FALSE
