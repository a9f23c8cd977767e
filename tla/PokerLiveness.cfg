SPECIFICATION MCSpec
CONSTANTS
    Seats = {2, 5}
    Stacks = {1, 3, 5}
    SmallBlind = 1
    BigBlind = 2
    Rankings <- SomeRankings
    Flaky = {5}
    MaxRestarts = 1
    Streams = {c1, c2}
    QueueCapacity = 1
    MaxVersion = 2
    MaxEpoch = 2
    MaxView = 2
CHECK_DEADLOCK FALSE
PROPERTIES AbsenceCharged HandSettles StreamCatchesUp
