\* SecretRotation
SPECIFICATION Spec
CONSTANTS
    Plain = {p}
    Prepared = {q}
    Passkey = {}
    MaxRotations = 1
INVARIANTS
    FilledAsPrepared
CHECK_DEADLOCK FALSE
