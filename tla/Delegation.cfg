CONSTANTS
    h1 = h1
    h2 = h2
    any = any
    Unbound <- any
    Handler <- MCHandler
    Action <- MCAction
    Pin = {"asset"}
    Value = {"usdc", "eth"}
    Scope = {"category"}
    Item = {"a", "b", "c"}
    Period = {"single"}
    Category = "category"
    Single = "single"
    Request <- MCRequest
    Config <- MCConfig
    Sample <- MCSample
    MaxCaps = 3
    MaxVersion = 2
    MaxRows = 6
    MaxTime = 1
SPECIFICATION Spec
SYMMETRY Symmetric
INVARIANTS
    WithinLine
    LawfulAllAlong
    OutlivesNoAncestor
    OneInForce
