\* Any two requests, user deletions and crashes between them; or two sweeps that
\* may overlap, and whatever they may find of the plugin.
CONSTANTS
    u1 = u1
    u2 = u2
    credit = credit
    diamond = diamond
    Users = {u1, u2}
    Currencies = {credit, diamond}
    Pool = pool
    Outside = outside
    Ops = {o1, o2}
    NoOp = none
    Requests <- AllRequests
    Opening <- MCOpening
    NoSweep = nobody
    Sweeps = {s1, s2}
    Quantities = {0, 1}
    Answers <- AnyAnswer
    Per = 2
    Price = 1
    HourLen = 1
    DayLen = 2
    MonthLen = 3
    MaxTime = 5
    MaxLives = 2
    MaxCrashes = 1
SPECIFICATION Parts
INVARIANTS BooksSound RequestsSettle MonthsBilled
PROPERTIES RowsAreServed
\* All requests may have answered, the clock is bounded, and users may be gone.
CHECK_DEADLOCK FALSE
