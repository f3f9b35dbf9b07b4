SPECIFICATION FairSpec
CONSTANTS
    MaxCharge = 1
    Updates = Updates
    Consumers = {job}
    RefundLimit = 2
    MaxMoves = 1
    MaxFaults = 1
INVARIANTS RenewedOrRefunded OneChain
PROPERTIES PaidIsResumed OwedIsPursued
CHECK_DEADLOCK FALSE
