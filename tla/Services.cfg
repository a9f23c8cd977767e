SPECIFICATION MCSpec
CONSTANTS
    Domain = "RP"
    Metrics = {"m1", "m2"}
    Workers = {w1, w2}
    PeriodHours = 2
    MaxHours = 3
    MaxResults = 1
    MaxEvents = 2
    MaxJobs = 2
    AttemptLimit = 1
    MaxFaults = 1
    Repairable = {"m1"}
    Subjects = {s1, s2}
    Registrars = {w1, w2}
    PageLimit = 1
    MaxLost = 2
PROPERTIES  RebuildSettles GrantsIssued
CHECK_DEADLOCK FALSE
