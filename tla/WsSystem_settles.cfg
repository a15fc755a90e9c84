SPECIFICATION Spec
CONSTANTS
    Devices = {d1, d2}
    Sockets = {s1, s2, s3}
    None = None
    Limit = 2
    MaxReconnectAttempts = 1
    MaxFaults = 1
    Leavers = {d1}
    Callers = {d1}
    MaxLogouts = 1
INVARIANTS TypeOK OpenIsListed DisconnectHolds
PROPERTIES SocketsSettle
