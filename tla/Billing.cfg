SPECIFICATION MCSpec
CONSTANTS
    k1 = k1  k2 = k2  p1 = p1  p2 = p2
    Users = {u1}
    Keys = {k1, k2}
    GameKeys = {g1}
    Requests = {}
    Procs = {p1, p2}
    Kinds = {"DAILY", "HOURLY", "RELIEF"}
    Amounts = {}
    Costs = {}
    GameMutations <- RewardMutations
    InFlights = {0, 3}
    Scopes = {"REWARDS"}
    AssetCap = 5
    DailyAmount = 3
    HourlyAmount = 2
    ReliefAmount = 2
    ReliefThreshold = 3
    HoursPerDay = 3
    HourlyDailyLimit = 1
    ReliefCooldown = 2
    MaxInt = 9
    MaxNow = 3
    Channels = {h1, h2}
    Preferred = {h1}
    MaxPrice = 2
    MaxBeats = 1
    MaxFrames = 1
    ArgumentKeys = {"a", "b"}
    MaxDepth = 2
    CallIDs = {"", "x"}
    MaxFragments = 3
CHECK_DEADLOCK FALSE
SYMMETRY RewardSymmetry
INVARIANTS ReceiptsResolve RewardSchedule RelayAccounts ArgumentsExact
PROPERTIES RewardCapped
