SPECIFICATION Spec
CONSTANTS
    botOrder = botOrder  appOrder = appOrder  heldOrder = heldOrder
    bot = bot  bot2 = bot2  job = job  job2 = job2
    Recovery = Recovery  Free = Free  Dead = Dead  NoOrder = NoOrder
    Orders = {appOrder}
    Dispatchers = {bot}
    Jobs = {job, job2}
    MiniApp = {appOrder}
    Reserved = {appOrder}
    Held = {}
    Unnameable = {}
    Occupied = {}
    Drifting = {appOrder}
    MaxJobs = 2
    MaxCrashes = 1
    MaxLapses = 1
INVARIANTS CreatedOnce
CHECK_DEADLOCK FALSE
