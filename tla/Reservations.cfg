\* Two handlers, three reservations, every interleaving of two finalizations.
CONSTANTS
    r1 = r1
    r2 = r2
    r3 = r3
    h1 = h1
    h2 = h2
    Handler <- MCHandler
    Reservation <- MCReservation
    Amount <- MCAmount
    Limit = 3
    Unlimited = Unlimited
    MaxDrift = 2
SPECIFICATION LedgerSpec
SYMMETRY Symmetry
INVARIANTS
    RowWithinLimit
    RowNeverOverstates
    LedgerExact
PROPERTIES
    FinalityRespected
\* Every reservation final and no handler inside: nothing is left to do.
CHECK_DEADLOCK FALSE
