SPECIFICATION FairSpec
CONSTANTS
    u1 = u1
    Users = {u1}
    Procs = {p1, p2}
    Orders = {o1, o2}
    NoOrder = NoOrder
    Currencies = {"INR", "USD"}
    Settings = {{}, {"razorpay", "stripe"}}
    Freezable = {u1}
    Amounts = {1}
    MaxCalls = 6
    MaxFaults = 1
    Ids <- CallIds
    Opening <- NothingYet
INVARIANTS TypeOK CreditWasPaid StatusTellsCredit
PROPERTIES CapturedIsCredited
