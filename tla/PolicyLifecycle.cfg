CONSTANTS
    h1 = h1
    h2 = h2
    Handler <- MCHandler
    MaxVersion = 3
SPECIFICATION Spec
SYMMETRY Symmetry
INVARIANTS
    ActiveIsCurrent
    InForceWasApproved
PROPERTIES
    LifecycleRespected
\* Every version disabled or superseded, and no number left for a draft.
CHECK_DEADLOCK FALSE
