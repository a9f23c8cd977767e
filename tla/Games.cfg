CONSTANTS
    BankMax = 5300
    UnitsPerChip = 10
    MinimumChips = 1
    PlayMax = 30
    Played = {"dice", "scratch", "slot", "summon", "blackjack"}
    WebPlayed = {"dice", "scratch", "blackjack"}
    BotPlayed = {"dice", "scratch", "slot", "summon"}
    Keys = {1, 2}
    BotRequests = {11}
    BotCalls = {c1, c2}
    MaxNonce = 2
    MaxTerms = 2
    MaxMoves = 2
    StartBank = 30
    Incomes = {20, 5290}
    BankCap = 45
    Points = {1, 8}
    MaxDealt = 9
    MaxVersion = 3
    Tiers = {t1, t2}
    WeightTotal = 2
SPECIFICATION MCSpec
INVARIANT UnfinishedFound
INVARIANT LimitsAgree
INVARIANT BotPlaysWhatWasShown
INVARIANT RoundRestores
INVARIANT ConfigServes
PROPERTY IssuedWithinCap
PROPERTY BlackjackSettles
CHECK_DEADLOCK FALSE
