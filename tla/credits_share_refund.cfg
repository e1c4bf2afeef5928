\* A share whose recipient is deleted between its two batches.
CONSTANTS
    u1 = u1
    u2 = u2
    credit = credit
    diamond = diamond
    Users = {u1, u2}
    Currencies = {credit, diamond}
    Pool = pool
    Outside = outside
    Ops = {o1}
    NoOp = none
    Requests <- ShareOnly
    Opening <- MCOpening
SPECIFICATION Spec
INVARIANT RefusedPoolDebitReturned
CHECK_DEADLOCK FALSE
