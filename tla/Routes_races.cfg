SPECIFICATION Spec
CONSTANTS
    Procs = {p1, p2}
    Users = {u1, u2}
    Options = {o1, o2}
    MaxChoices = 2
    KeyIds = {1, 2}
    MaxBatches = 3
    MaxFetches = 2
    MaxRetries = 1
    MaxChunk = 1
    MaxObjects = 2
    Limit = 2
    MaxClock = 3
    MaxPosts = 5
    Members = {m1, m2}
    MaxMessages = 1
    MaxPromoted = 1
    Upis = {a1, a2}
    Filed = {c1}
    MaxFolders = 3
    MaxFaults = 1
SYMMETRY RoutesSymmetry
INVARIANTS TypeOK LastVoteStands ClosedIsFinal HandedOutOnce KeyFitsBundle ReadyIsWhole NothingSkipped OnlyWhatWasUnderWay ManagedUntilGivenUp RanksAreApart
