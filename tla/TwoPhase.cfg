\* TwoPhase
SPECIFICATION FairSpec
CONSTANTS
    a1 = a1  a2 = a2
    pay = pay  look = look  branch = branch  skip = skip
    click = click  fill = fill  submit = submit
    NoAgent = NoAgent
    ActionType <- MCActions
    Primary <- MCPrimary
    Alternatives <- MCAlternatives
    SkipGuarded <- MCSkip
    Consequential = {submit}
    Agent = {a1}
    Op = {pay, look}
    Irreversible = {submit}
    MaxActionCount = 2
    MaxSideEffectCount = 2
    TransferPrepared = FALSE
    MutationPolicy = "require_reprepare"
    Plan <- MCNoPlan
    MaxPage = 2
    MaxPreps = 2
    MaxControl = 0
    MaxReceipts = 2
    MaxMutation = 1
    Observers = {}
    Recipients = {}
    Events = {"preparation", "page", "blind", "death", "external", "close", "idle"}
INVARIANTS
    CommitOnPreparedPage PreparedIsCurrent ConsequentialOnlyByCommit
PROPERTIES
    TokensSpentOnce CallReturns
CHECK_DEADLOCK FALSE
