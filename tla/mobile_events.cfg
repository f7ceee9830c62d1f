SPECIFICATION Spec
CONSTANTS
    i1 = i1
    i2 = i2
    k1 = k1
    e1 = e1
    w1 = w1
    w2 = w2
    boss = boss
    s1 = s1
    s2 = s2
    m1 = m1
    m2 = m2
    h1 = h1
    h2 = h2
    Items = {i1, i2}
    Keys = {k1}
    EventIds = {e1}
    Accounts = {w1, w2, boss}
    Workers = {w1, w2}
    Admins = {boss}
    Masters = {}
    Sites = {s1, s2}
    SiteOf <- MCSiteOf
    Memos = {m1, m2}
    Handlers = {h1, h2}
    Commands <- MCCommands
    Events <- MCEvents
    None = None
    Skew = 1
    MaxAge = 1
    MaxTime = 2
    MaxTrail = 4
SYMMETRY HandlerSymmetry
INVARIANTS
    TypeOK
    AppliedOnce
    AnswerIsRecorded
    LockedReadIsCurrent
    TimesInOrder
    OpenPauseMeansPaused
PROPERTIES
    EndIsFinal
    NotesSurvive
    ImplementsLedger
