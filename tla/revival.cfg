SPECIFICATION Spec
CONSTANTS
    order1 = order1  order2 = order2  charge = charge  buyer = buyer
    zarinpal = zarinpal  nowpayments = nowpayments  stars = stars  card = card
    wallet = wallet  wallet2 = wallet2  topup = topup  topupCard = topupCard
    NoPayment = NoPayment  Sweep = Sweep
    Checkouts = {order1}
    Payments = {zarinpal, card}
    Users = {buyer}
    Workers = {bot}
    Recorders = {api}
    CheckoutOf <- MCCheckoutOf
    Provider <- MCProvider
    Buyer <- MCBuyer
    Draft <- MCDraft
    Purpose <- MCPurpose
    Price <- MCPrice
    Reserved = {order1}
    Discounted = {}
    InfoRequired = {}
    Reports = {"SUCCESS", "FAILED"}
    DiscountLimit = 1
    MaxAttempts = 2
    MaxCrashes = 0
INVARIANTS UnboundHeld CollectedBeforeSettled
PROPERTY LinkedIsKept
