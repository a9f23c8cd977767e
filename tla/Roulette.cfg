CONSTANTS
    MaxHP = 2
    ShellCounts = {2}
    ItemLimit = 1
    ItemDraws = {1}
    Chambers = 3
    PoolSize = 4
    PoolDuds = {1}
    PressureSeats = {0, 1, 2}
    MaxCharge = 2
    Rooms = {1, 2}
    Players = {1, 2, 3}
    Target = 3
    RoomStake = 1
    MaxChips = 4
    Cap = 2
    StartChips = 1
    Lucky = {2}
    MaxCycle = 2
    Requests = {1}
    Accounts = {a, b}
    Calls = {c1, c2}
    Frail = {3}
SPECIFICATION MCSpec
INVARIANT RuleAccepts
INVARIANT FundingVerified
INVARIANT AbsentFinal
PROPERTIES RoundsAreEscrows RoomEnds
CHECK_DEADLOCK FALSE
