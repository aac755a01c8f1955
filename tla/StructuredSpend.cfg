\* Three payments of forty under a daily limit of a hundred.
SPECIFICATION SessionSpec
CONSTANTS
    Absent = Absent
    Policies <- MCDailyLimit
    Proposals <- MCPay
    Event = {"invoice_verified"}
    Step = 5
    MaxTime = 30
    MaxPayments = 3
INVARIANT DailySpendWithinLimit
CHECK_DEADLOCK FALSE
