SPECIFICATION Spec
CONSTANTS
    Req = {r1}
    Secret = {s1, s2}
    Code = {}
    Recovery = {x1}
    Challenge = {h1}
    None = None
    Others = {}
    MaxStep = 1
    MaxAttempts = 1
    Plans = {{"totp"}}
    Faults = FALSE
SYMMETRY Symmetry
PROPERTY EnrollRestarts
CHECK_DEADLOCK FALSE
