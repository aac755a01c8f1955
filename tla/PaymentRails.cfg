CONSTANTS
    alice = alice
    mallory = mallory
    token = token
    other = other
    t1 = t1
    t2 = t2
    c1 = c1
    c2 = c2
    a1 = a1
    Unset = Unset
    Signer = Signer
    Account = Account
    Address = {alice, mallory, token, other}
    Chain <- MCChain
    Call = {c1, c2}
    AccountCall = {a1}
    Transaction = {t1, t2}
    TransactionOf <- MCTransactionOf
    Registration <- MCRegistration
    NetworkOf <- MCNetworkOf
    Order <- MCOrder
    Authorizable <- MCAuthorizable
    Requirement <- MCRequirement
    Allowed = {"base", "main"}
    Configured = "base"
    MaxBalance = 1
    MaxMoves = 2
SPECIFICATION Spec
CHECK_DEADLOCK FALSE
INVARIANTS
    OnlyAuthorizedMoves
    VerifiedIsPaid
PROPERTY EveryCallEnds
