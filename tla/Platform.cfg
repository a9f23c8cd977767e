SPECIFICATION MCSpec
CONSTANTS
    u1 = u1  u2 = u2  x1 = x1  x2 = x2  y1 = y1  y2 = y2
    Users = {u1, u2}
    Keys = {k1}
    GameKeys = {x1, x2}
    Requests = {r1}
    Procs = {p1}
    Kinds = {"DAILY", "EXCHANGE"}
    Amounts = {2}
    Costs = {2}
    GameMutations <- LedgerMutations
    InFlights = {0}
    Scopes = {}
    AssetCap = 4
    DailyAmount = 3
    HourlyAmount = 2
    ReliefAmount = 2
    ReliefThreshold = 2
    HoursPerDay = 2
    HourlyDailyLimit = 1
    ReliefCooldown = 2
    MaxInt = 5
    MaxNow = 0
    LoginRequests = {x1, x2}
    MaxTokens = 3
    MaxStarted = 4
    MaxSecurity = 1
    FailLimit = 1
    Accounts = {1, 2}
    MaxUnits = 2
    ResetUnits = 1
    Threshold = 1
    MaxWindows = 2
    MaxChanges = 2
    Sockets = {x1, x2}
    NoSocket = NoSocket
    Services = {y1, y2}
    MaxRuntime = 2
    MaxControl = 2
    Tickets = {y1, y2}
    Attempts = {x1, x2}
    TicketTTL = 2
    MaxClock = 5
    Guests = {x1, x2}
    Visits = {1}
    Creates = {y1, y2}
    Passwords = {"p1", "p2"}
    MaxFailures = 1
    Interactions = {i1}
    MoveTypes = {"HIT", "SPLIT"}
    TapCalls = {x1, x2}
    MaxDeals = 1
    MaxMove = 3
SYMMETRY Interchangeable
INVARIANTS TypeOK LedgerChain PostedOnce
INVARIANTS SessionsFollowAccount TicketOnce BotMovesAsShown
PROPERTIES CampaignExact CommandsFenced EntryExact
CHECK_DEADLOCK FALSE
