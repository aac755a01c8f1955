\* Time passes in steps of five hours, past midnight.
SPECIFICATION SessionSpec
CONSTANTS
    Absent = Absent
    Policies <- MCPolicies
    Proposals <- MCProposals
    Event = {"invoice_verified"}
    Step = 5
    MaxTime = 30
    MaxPayments = 2
INVARIANT PaidWithinRules
PROPERTY NoPaymentAgainstDecision
\* The clock ends, and the payments.
CHECK_DEADLOCK FALSE
