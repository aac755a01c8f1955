CONSTANTS
    h1 = h1
    h2 = h2
    e1 = e1
    e2 = e2
    e3 = e3
    a1 = a1
    a2 = a2
    p1 = p1
    p2 = p2
    Unset = Unset
    Handler <- MCHandler
    Event <- MCEvent
    Attestation <- MCAttestation
    Payload <- MCPayload
    ExecutionOf <- MCExecutionOf
    MaxCalls = 4
    MaxTime = 2
SPECIFICATION Spec
SYMMETRY Symmetric
\* The bounded calls are used up.
CHECK_DEADLOCK FALSE
INVARIANTS
    ChainVerifies
    RecordedOnce
PROPERTY ConfirmedStays
