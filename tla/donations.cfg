\* Two threads process the payments of two donations to one fund; a
\* third was created as completed. The run ends after MaxPays payments.
SPECIFICATION Spec
CONSTANTS
    t1 = t1
    t2 = t2
    d1 = d1
    d2 = d2
    d3 = d3
    Threads <- MCThreads
    Donations <- MCDonations
    Recorded <- MCRecorded
    MaxPays = 3
SYMMETRY Symmetry
INVARIANTS
    TypeOK
    TotalsAgree
    PaidStays
    CreditedOnce
PROPERTIES
    ReceiptsStay
CHECK_DEADLOCK FALSE
