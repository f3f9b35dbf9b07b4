SPECIFICATION Spec
CONSTANTS
    botOrder = botOrder  appOrder = appOrder  heldOrder = heldOrder
    bot = bot  bot2 = bot2  job = job  job2 = job2
    Recovery = Recovery  Free = Free  Dead = Dead  NoOrder = NoOrder
    Orders = {botOrder, heldOrder}
    Dispatchers = {bot, bot2}
    Jobs = {}
    MiniApp = {}
    Reserved = {botOrder, heldOrder}
    Held = {heldOrder}
    Unnameable = {heldOrder}
    Occupied = {}
    Drifting = {}
    MaxJobs = 0
    MaxCrashes = 1
    MaxLapses = 1
INVARIANTS NoServiceAndRefund ReservationFollows OutcomeAccounted HeldUntouched
PROPERTIES RefundProvesAbsence
CHECK_DEADLOCK FALSE
