SPECIFICATION Spec
CONSTANTS
    Procs = {p1, p2}
    Identifiers = {i1}
    NoOne = NoOne
    MaxAttempts = 1
    MaxCodes = 2
    MaxTokens = 4
    MaxFaults = 1
SYMMETRY ProcSymmetry
INVARIANTS TypeOK LoginWasProved CodeOpensOneSession UsedCodeLogsIn GuessesBounded OneRowEach TokenExchangedOnce ErasedIsLoggedOut
