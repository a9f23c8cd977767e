SPECIFICATION Spec
CONSTANTS
    u1 = u1
    u2 = u2
    u3 = u3
    Nobody = Nobody
    SmallBlind = 1
    BigBlind = 2
    Seats = {2, 4, 5, 9}
    Users <- Three
    MinBuy = 1
    MaxBuy = 2
    AwayLimit = 1
    RebuyWindow = 1
    Intermission = 0
    GracePeriod = 0
    EmptyLimit = 0
    Scenes <- MoneyScenes
SYMMETRY Interchangeable
INVARIANTS ChipsConserved HandKeepsPlayers
PROPERTIES JoinsAsBigBlind
CHECK_DEADLOCK FALSE
