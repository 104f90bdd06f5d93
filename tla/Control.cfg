\* Control
SPECIFICATION Spec
CONSTANTS
    a1 = a1  a2 = a2
    pay = pay  look = look  branch = branch  skip = skip
    click = click  fill = fill  submit = submit
    NoAgent = NoAgent
    ActionType <- MCActions
    Primary <- MCPrimary
    Alternatives <- MCAlternatives
    SkipGuarded <- MCSkip
    Consequential = {submit}
    Agent = {a1, a2}
    Op = {pay, look}
    Irreversible = {submit}
    MaxActionCount = 2
    MaxSideEffectCount = 2
    TransferPrepared = FALSE
    MutationPolicy = "require_reprepare"
    Plan <- MCNoPlan
    MaxPage = 1
    MaxPreps = 1
    MaxControl = 2
    MaxReceipts = 1
    MaxMutation = 1
    Observers = {a1, a2}
    Recipients = {a1, a2, NoAgent}
    Events = {"offer", "page"}
SYMMETRY MCSymmetry
INVARIANTS
    ControlPassesOn ReferenceStillCurrent
CHECK_DEADLOCK FALSE
