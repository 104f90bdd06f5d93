\* Conversation
SPECIFICATION Spec
CONSTANTS
    None = None
    Blank = Blank
    m1 = m1
    m2 = m2
    p1 = p1
    p2 = p2
    g1 = g1
    g2 = g2
    Process = {p1, p2}
    Gen = {g1, g2}
    Asks <- MCAsks
    Turns = 2
    Message = {m1, m2}
    Spoken = {g1}
    Keys <- MCKeys
    Chunk = 2
    MaxChanges = 1
    MaxClock = 4
    MaxFaults = 1
    Lease = 2
    Required = 2
INVARIANTS
    AnsweredInTurn
PROPERTIES
    OutcomeIsFinal StopObeyed
CHECK_DEADLOCK FALSE
