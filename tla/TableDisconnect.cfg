SPECIFICATION Spec
CONSTANTS
    u1 = u1
    u2 = u2
    u3 = u3
    Nobody = Nobody
    SmallBlind = 1
    BigBlind = 2
    Seats = {1, 2}
    Users <- Two
    MinBuy = 1
    MaxBuy = 1
    AwayLimit = 1
    RebuyWindow = 1
    Intermission = 0
    GracePeriod = 1
    EmptyLimit = 0
    Scenes <- DisconnectScenes
PROPERTIES DisconnectedLeave
CHECK_DEADLOCK FALSE
