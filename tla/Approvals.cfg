CONSTANTS
    h1 = h1
    h2 = h2
    q1 = q1
    q2 = q2
    k1 = k1
    k2 = k2
    admin = admin
    operator = operator
    approver = approver
    auditor = auditor
    Handler <- MCHandler
    Request <- MCRequest
    Context <- MCContext
    Role <- MCRole
    Approver <- MCApprover
    Required = operator
    Admin = admin
SPECIFICATION Spec
SYMMETRY Symmetry
INVARIANTS
    ApprovalIsEarned
    OneVerdict
PROPERTIES
    NoReopening
\* Every request decided and every handler done.
CHECK_DEADLOCK FALSE
