SPECIFICATION FairSpec
CONSTANTS
    Executors = {e1, e2}
    MaxCycle = 0
    MaxTries = 2
    MaxBalance = 1
    MaxCrashes = 1
INVARIANTS AttemptAgrees
PROPERTIES EndedIsFinal CancelStopsLaterClaims ScheduledIsRun
