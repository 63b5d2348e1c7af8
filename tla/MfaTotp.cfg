SPECIFICATION Spec
CONSTANTS
    Req = {r1, r2}
    Secret = {s1, s2}
    Code = {}
    Recovery = {x1, x2}
    Challenge = {h1}
    None = None
    Others = {o1}
    MaxStep = 2
    MaxAttempts = 1
    Plans = {{"totp"}}
    Faults = TRUE
SYMMETRY Symmetry
INVARIANTS FallbackExists RecoverySpent SingleUse SecretProved
PROPERTIES DisableNeedsPassword
CHECK_DEADLOCK FALSE
