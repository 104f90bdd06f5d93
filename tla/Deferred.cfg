\* Deferred
SPECIFICATION DeferredSpec
CONSTANTS
    Token = {k1, k2}
    Branch = {b1, b2}
    Consequential = {b2}
    Parent = Parent
    Other = Other
    None = None
    Plan <- MCNoPlan
    Arbitrated = TRUE
    FailOnMutation = FALSE
    MaxActive = 1
    MaxMutations = 4
    MaxHandoffs = 1
    m1 = m1
    m2 = m2
    m3 = m3
    m4 = m4
    Msg = {m1, m2, m3, m4}
    Id = {1, 2}
    IdOf <- MCIdOf
    Broken = {m4}
    Stop = {m3}
    Worker = {w1, w2}
    MaxDeaths = 1
    Plain = {p}
    Prepared = {q}
    Passkey = {r}
    MaxRotations = 2
INVARIANTS
    ContinuesOnce QueueKeeps SecretsAsBound
PROPERTIES
    ContinuesAfterParent WaitingEnds
CHECK_DEADLOCK FALSE
