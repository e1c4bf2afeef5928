\* Two overlapping sweeps, one of which finds the plugin unreachable.
CONSTANTS
    NoSweep = nobody
    Sweeps = {s1, s2}
    Quantities = {0, 1, 3}
    Answers <- AdvanceOrOutage
    Per = 2
    Price = 1
    HourLen = 1
    DayLen = 2
    MonthLen = 3
    MaxTime = 5
    MaxLives = 2
    MaxCrashes = 0
SPECIFICATION Spec
INVARIANT ChargedOncePerPeriod
\* The clock and the lives are bounded, and the user may be gone.
CHECK_DEADLOCK FALSE
