CONSTANTS
    h1 = h1
    h2 = h2
    e1 = e1
    r1 = r1
    r2 = r2
    r3 = r3
    c1 = c1
    c2 = c2
    Handler <- MCHandler
    Exec <- MCExec
    Reservation <- MCReservation
    Amount <- MCAmount
    Call <- MCCall
    Limit = 2
    Unlimited = Unlimited
    MaxDrift = 1
    None = None
    NoTx = NoTx
    Restarts = 1
SPECIFICATION Spec
SYMMETRY Symmetry
INVARIANTS
    TypeOK
    CommittedIsPaid
    LiveIsBudgeted
    BookedOnce
    RecordsAreTrue
PROPERTIES
    ImplementsLedger
CHECK_DEADLOCK FALSE
