SPECIFICATION Spec
CONSTANTS
    Req = {r1, r2}
    Password = {p1, p2}
    ResetToken = {}
    NoPassword = NoPassword
    NoToken = NoToken
    MaxFailed = 2
    FailedBound = 4
    Ops = {"login", "totp", "email", "retire", "status", "admin"}
    Faults = TRUE
SYMMETRY Symmetry
INVARIANTS TypeOK GuessBound MfaNotSkipped
