CONSTANTS
    a = a
    b = b
    Runners = {a, b}
    Events = 2
    SegmentSize = 2
    Lapses = 1
    Faults = 1
SPECIFICATION FairSpec
INVARIANTS OneChain NoFalseAlarm
PROPERTIES KeepsTheChain ArchiveKeepsUp
