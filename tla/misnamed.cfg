SPECIFICATION Spec
CONSTANTS
    botOrder = botOrder  appOrder = appOrder  heldOrder = heldOrder
    bot = bot  bot2 = bot2  job = job  job2 = job2
    Recovery = Recovery  Free = Free  Dead = Dead  NoOrder = NoOrder
    Orders = {appOrder}
    Dispatchers = {}
    Jobs = {job}
    MiniApp = {appOrder}
    Reserved = {appOrder}
    Held = {}
    Unnameable = {}
    Occupied = {}
    Drifting = {}
    MaxJobs = 1
    MaxCrashes = 0
    MaxLapses = 0
PROPERTIES RefundProvesAbsence
CHECK_DEADLOCK FALSE
