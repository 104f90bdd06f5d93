\* Continuity
SPECIFICATION MCSpec
CONSTANTS
    Owner = {h1, h2, h3}
    NoOwner = NoOwner
    Command = {c1}
    Generation = {g1, g2}
    NoGeneration = NoGeneration
    Events = {"close_in_flight", "same_generation", "unreadable"}
    MaxBindings = 3
    MaxEvidence = 1
SYMMETRY MCSymmetry
INVARIANTS
    ExclusiveWriter JournalsTellTruth
PROPERTIES
    CommandsKeepTheirPromise DispatchedUnderBinding RecoverySound
CHECK_DEADLOCK FALSE
