SPECIFICATION FairSpec
CONSTANTS
    Requests = {a, b}
    a = a
    b = b
    MaxRequests = 4
    MaxSessions = 1
    MaxAttempts = 2
    MaxFaults = 1
    Customs = {"custom"}
    Permissions = {"users", "roles", "write"}
    Providers = {"x", "y", "z"}
    MaxUsers = 3
    Starts <- StartsForTLC
INVARIANTS OneHeir AccessSound
PROPERTIES OneAccountPerIdentity NobodyExceeds EvidenceDelivered
CHECK_DEADLOCK FALSE
