SPECIFICATION Spec
CONSTANTS
    u1 = u1
    u2 = u2
    Users = {u1, u2}
    Procs = {p1, p2}
    Asks = {r1}
    NoAsk = NoAsk
    Amounts = {1}
    MaxCalls = 2
    MaxFaults = 0
    Ids <- CallIds
    Opening <- Purses
SYMMETRY ProcSymmetry
INVARIANTS PaidAtMostOnce
