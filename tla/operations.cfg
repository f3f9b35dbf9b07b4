SPECIFICATION Spec
CONSTANTS
    renewal = renewal  volume = volume  time = time
    bot = bot  bot2 = bot2  job = job  viewer = viewer
    Recovery = Recovery  Free = Free  Dead = Dead  NoOrder = NoOrder
    Orders = {renewal, volume}
    Operation <- MCOperation
    Volume <- MCVolume
    Days <- MCDays
    Dispatchers = {bot}
    Jobs = {job}
    Viewers = {viewer}
    MiniApp = {renewal}
    Limit0 = 2
    Used0 = 1
    Expiry0 = 1
    MaxDay = 1
    MaxJobs = 2
    MaxFaults = 1
INVARIANTS NothingForFree NothingLost RequestOnce RowIsPanel
PROPERTIES ImplementsOutcome
CHECK_DEADLOCK FALSE
