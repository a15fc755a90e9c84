SPECIFICATION Spec
CONSTANTS
    u1 = u1
    Users = {u1}
    Procs = {p1, p2}
    Orders = {o1}
    NoOrder = NoOrder
    Currencies = {"INR"}
    Settings = {{}, {"razorpay", "stripe"}}
    Freezable = {}
    Amounts = {1}
    MaxCalls = 2
    MaxFaults = 0
    Ids <- CallIds
    Opening <- NothingYet
INVARIANTS CreditedAtMostOnce
CHECK_DEADLOCK FALSE
