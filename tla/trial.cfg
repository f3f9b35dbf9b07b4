SPECIFICATION Spec
CONSTANTS
    ali = ali  sara = sara
    Claims = {first, second}
    Users = {ali, sara}
    Handlers = {bot, web}
    Sweep = Sweep  NoClaim = NoClaim  NoUser = NoUser
    Grant <- MCGrant
    Default = 1
    Capacity = 1
    MaxCrashes = 1
SYMMETRY MCSymmetry
INVARIANTS ConsumedIsReceipts ReleasedUnlessDisputed TrialsWithinAllowance CapacityHeld
CHECK_DEADLOCK FALSE
