\* RetryBudget
SPECIFICATION Spec
CONSTANTS
    a1 = a1  a2 = a2
    pay = pay  look = look  branch = branch  skip = skip
    click = click  fill = fill  submit = submit
    NoAgent = NoAgent
    ActionType <- MCActions
    Primary <- MCPrimary
    Alternatives <- MCAlternatives
    SkipGuarded <- MCSkip
    Consequential = {submit}
    Agent = {a1}
    Op = {look}
    Irreversible = {submit}
    MaxActionCount = 1
    MaxSideEffectCount = 2
    TransferPrepared = FALSE
    MutationPolicy = "none"
    Plan <- MCNoPlan
    MaxPage = 0
    MaxPreps = 0
    MaxControl = 0
    MaxReceipts = 2
    MaxMutation = 0
    Observers = {}
    Recipients = {}
    Events = {}
INVARIANTS
    RetriesWithinBudget
CHECK_DEADLOCK FALSE
