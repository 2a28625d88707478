\* The balance as the total raised: two threads, two donations, and not one error.
SPECIFICATION Spec
CONSTANTS
    t1 = t1
    t2 = t2
    d1 = d1
    d2 = d2
    d3 = d3
    Threads <- MCThreads
    Donations <- MCPending
    Recorded = {}
    MaxPays = 2
INVARIANTS
    BalanceIsTotal
CHECK_DEADLOCK FALSE
