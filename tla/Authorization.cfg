CONSTANTS
    h1 = h1
    d1 = d1
    c1 = c1
    c2 = c2
    Handler <- MCHandler
    Decision <- MCDecision
    Capability <- MCCapability
    Backdated <- MCBackdated
    MaxVersion = 2
    MaxChange = 2
    Proposal <- MCProposal
    Network <- MCNetwork
    Transaction <- MCTransaction
    Verdict <- MCVerdict
    Evidence <- MCEvidence
    None = None
SPECIFICATION Spec
INVARIANTS
    AllowedUnderAuthority
    AllowedAsProposed
    RecordedUnderAuthority
    AdviceIsNotAuthority
    WorstObjectionWins
