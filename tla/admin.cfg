SPECIFICATION FairSpec
CONSTANTS
    first = first  second = second  bot = bot  owner = owner
    Free = Free  Dead = Dead  NoConfirm = NoConfirm
    Confirms = {first, second}
    Amount <- MCAmount
    Executors = {bot}
    Reviewers = {owner}
    Offered <- MCOffered
    Limit0 = 1
    Expiry0 = 1
    PaidVolume = 1
    MaxMoves = 1
    MaxFaults = 1
INVARIANT VerdictTrue
PROPERTIES GrantAddsExactly ClaimedIsClassified
CHECK_DEADLOCK FALSE
