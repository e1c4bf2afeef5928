CONSTANTS
    Submitted = {1}
    Authored = {2}
    Runs = {r1, r2}
    Requests = {q1}
    Erasers = {e1}
    Operations <- EveryOperation
    ScanLimit = 2
    MaxCreates = 1
    MaxFaults = 1
SPECIFICATION PartsSpec
INVARIANT MirrorsSound
PROPERTIES OnlyTheOvertakenRevive MirrorsSettle
