SPECIFICATION FairSpec
CONSTANTS
    Orders = {gift, code}
    Generic = {gift}
    MaxItems = 2
    Updates = Updates  Sweep = Sweep  NoOrder = NoOrder
    ClaimRetries = 2
    ReadAttempts = 2
    MaxFailures = 1
    MaxCrashes = 1
INVARIANTS CompletedIsDelivered ResumedIsSame
PROPERTIES PaidIsServed
