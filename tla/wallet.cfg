SPECIFICATION Spec
CONSTANTS
    order1 = order1  order2 = order2  charge = charge  buyer = buyer
    zarinpal = zarinpal  nowpayments = nowpayments  stars = stars  card = card
    wallet = wallet  wallet2 = wallet2  topup = topup  topupCard = topupCard
    NoPayment = NoPayment  Sweep = Sweep
    Checkouts = {order1, order2, charge}
    Payments = {stars, wallet2, topup, topupCard}
    Users = {buyer}
    Workers = {bot}
    Recorders = {api}
    CheckoutOf <- MCCheckoutOf
    Provider <- MCProvider
    Buyer <- MCBuyer
    Draft <- MCDraft
    Purpose <- MCPurpose
    Price <- MCPrice
    Reserved = {}
    Discounted = {order1, order2}
    InfoRequired = {order1}
    Reports = {"SUCCESS"}
    DiscountLimit = 1
    MaxAttempts = 1
    MaxCrashes = 0
INVARIANTS MoneyFollowsOwner DiscountAccounted LedgerExplainsBalance
