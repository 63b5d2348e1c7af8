SPECIFICATION Spec
CONSTANTS
    Req = {r1, r2}
    Secret = {}
    Code = {c1,c2}
    Recovery = {x1, x2}
    Challenge = {h1}
    None = None
    Others = {}
    MaxStep = 1
    MaxAttempts = 1
    Plans = {{"email"}}
    Faults = FALSE
SYMMETRY Symmetry
INVARIANTS TypeOK FallbackExists SingleUse
PROPERTIES DisableNeedsPassword
CHECK_DEADLOCK FALSE
