\* Dispatch
SPECIFICATION Spec
CONSTANTS
    a1 = a1  a2 = a2
    pay = pay  look = look  branch = branch  skip = skip
    click = click  fill = fill  submit = submit
    NoAgent = NoAgent
    ActionType <- MCActions
    Primary <- MCPrimary
    Alternatives <- MCAlternatives
    SkipGuarded <- MCSkip
    Consequential = {submit}
    Agent = {a1}
    Op = {pay, look, branch, skip}
    Irreversible = {submit, fill}
    MaxActionCount = 3
    MaxSideEffectCount = 2
    TransferPrepared = FALSE
    MutationPolicy = "none"
    Plan <- MCPlan
    MaxPage = 1
    MaxPreps = 2
    MaxControl = 0
    MaxReceipts = 3
    MaxMutation = 1
    Observers = {}
    Recipients = {}
    Events = {"scope", "plan"}
INVARIANTS
    BudgetsHold PlanOnceInOrder
CHECK_DEADLOCK FALSE
