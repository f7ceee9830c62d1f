SPECIFICATION OfficeSpec
CONSTANTS
    i1 = i1
    i2 = i2
    e1 = e1
    w1 = w1
    w2 = w2
    admin = admin
    chief = chief
    master = master
    stranger = stranger
    s1 = s1
    s2 = s2
    m1 = m1
    m2 = m2
    d1 = d1
    d2 = d2
    h1 = h1
    Items = {i1}
    Keys = {}
    EventIds = {e1}
    Accounts = {w1, w2, admin, chief, master, stranger}
    Workers = {w1, w2}
    Admins = {admin, stranger}
    Masters = {master}
    Sites = {s1, s2}
    SiteOf <- MCSiteOf
    Memos = {m1, m2}
    Handlers = {h1}
    Commands <- MCCommands
    Events <- MCEvents
    Desks = {d1, d2}
    OfficeCalls <- RacingVoid
    MaxInspections = 2
    None = None
    Skew = 1
    MaxAge = 1
    MaxTime = 1
    MaxTrail = 3
SYMMETRY DeskSymmetry
PROPERTIES
    VoidIsFinal
