\* Kept
SPECIFICATION KeptSpec
CONSTANTS
    Nothing = Nothing
    s1 = s1  s2 = s2  a1 = a1  a2 = a2  i1 = i1  i2 = i2  g = g  n1 = n1  n2 = n2
    Session = {s1, s2}
    Agent = {a1, a2}
    Identity = {i1, i2}
    Signer = {g}
    Statement <- Statements
    Assertion <- Assertions
    MaxUses = 1
    MaxClock = 1
    MaxVersion = 2
    MaxKey = 2
    MaxReceipts <- ReceiptsOf
    MaxDecisions = 1
    Handing = {s1}
    MaxDamage = 2
    None = None
    Content = {fine, changed, refused}
    Sound = {fine, changed}
    MaxNames = 2
    Wanted <- DownloadsOf
    MaxWrites = 1
    o1 = o1  o2 = o2
    Backend = {b}
    Foreign <- Documents
    Choices <- Selections
    Origin = {o1, o2}
    MaxAge = 0
    MaxTime = 1
    MaxLives = 3
    MaxItems = 2
INVARIANTS
    ActsWithinPlan KeptIsGenuine HeldIsAccountedFor
PROPERTIES
    LeftToTheirOwner
CHECK_DEADLOCK FALSE
