SPECIFICATION Spec
CONSTANTS
    u1 = u1
    u2 = u2
    u3 = u3
    Nobody = Nobody
    SmallBlind = 1
    BigBlind = 2
    Seats = {1, 2, 3}
    Users <- Three
    MinBuy = 2
    MaxBuy = 2
    AwayLimit = 2
    RebuyWindow = 2
    Intermission = 0
    GracePeriod = 0
    EmptyLimit = 0
    Scenes <- RebuyScenes
PROPERTIES RebuyWindowFixed
CHECK_DEADLOCK FALSE
