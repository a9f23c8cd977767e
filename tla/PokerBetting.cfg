SPECIFICATION BettingSpec
CONSTANTS
  Seats = {2, 5, 9}
  Stacks = {1, 3, 5}
  SmallBlind = 1
  BigBlind = 2
  Rankings <- SomeRankings
  Flaky = {}
  MaxRestarts = 1
CHECK_DEADLOCK FALSE
INVARIANTS LegalAccepted FairSettlement
PROPERTIES ReopenedByFullRaise
