CONSTANTS
    c1 = c1
    c2 = c2
    c3 = c3
    e1 = e1
    e2 = e2
    Call <- MCCall
    Exec <- MCExec
    NoTx = NoTx
    Restarts = 1
SPECIFICATION ExecutorSpec
SYMMETRY Symmetry
INVARIANTS
    AtMostOneBroadcast
    RecordMatchesChain
    AnswerIsFinal
\* All calls made and all transactions mined: the executor is idle.
CHECK_DEADLOCK FALSE
