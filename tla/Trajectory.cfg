CONSTANTS
    c1 = c1
    c2 = c2
    Unclaimed = Unclaimed
    Consumer <- MCConsumer
    Content <- MCContent
    Message <- MCMessage
    BatchSize = 2
    MaxPublish = 3
    MaxTrouble = 1
SPECIFICATION Spec
INVARIANTS
    ChainIntact
    ExactlyOnceInOrder
PROPERTIES
    ImplementsHashChain
    DeliveredIsSettled
CHECK_DEADLOCK FALSE
