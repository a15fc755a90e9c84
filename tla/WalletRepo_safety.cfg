SPECIFICATION Spec
CONSTANTS
    u1 = u1
    u2 = u2
    Users = {u1, u2}
    Procs = {p1, p2}
    NoProc = NoProc
    Amounts = {1}
    PoolMax = 3
    MaxCalls = 3
    Ops = {"credit", "debit", "transfer"}
    Freezable = {u1}
    Opening <- OneOpen
SYMMETRY ProcSymmetry
INVARIANTS IInv LedgerExplainsBalance NoOverdraft TransferAllOrNothing
PROPERTIES ImplementsAtomicLedger
