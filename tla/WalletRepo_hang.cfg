SPECIFICATION FairSpec
CONSTANTS
    u1 = u1
    u2 = u2
    Users = {u1, u2}
    Procs = {p1, p2}
    NoProc = NoProc
    Amounts = {1}
    PoolMax = 3
    MaxCalls = 3
    Ops = {"credit", "transfer"}
    Freezable = {}
    Opening <- OneOpen
PROPERTIES OnlyHiddenDeadlockHangs
