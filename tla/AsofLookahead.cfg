CONSTANTS
    T1 = T1  T2 = T2
    A1 = A1  A2 = A2
    S1 = S1  S2 = S2  S3 = S3
    I1 = I1  I2 = I2
    none = none
    None = none
    AnyKind = AnyKind
    MaxLog = 3
    MaxAmount = 2
    Users = {1, 2, 3}
    Badges = {1, 2, 3}
    Tasks = {1, 2, 3}
    Zone = 0
    Ahead = 1
    DayTicks = 2
    Nearest = 1
    Shown = 2
    PageDefault = 2
    PageMax = 3
    GeoCap = 2
    Ground <- MCGround
    Hours <- MCHours
    TaskOf <- MCTaskOf
    PointRules <- MCPointRules
    FirstRules <- MCRules
    Visits <- MCVisits
    Instants <- MCInstants
    Deadlines <- MCDeadlines
    Created <- MCCreated
    Queries <- MCQueries
    AreaOrder <- MCAreaOrder
    IntervalOrder <- MCIntervalOrder
SPECIFICATION Spec
INVARIANT HeldByThen
CHECK_DEADLOCK FALSE
