SPECIFICATION Spec
CONSTANTS
    Req = {r1, r2}
    Password = {p1, p2}
    ResetToken = {t1}
    NoPassword = NoPassword
    NoToken = NoToken
    MaxFailed = 2
    FailedBound = 0
    Ops = {"login", "request", "reset", "change", "totp", "retire"}
    Faults = FALSE
SYMMETRY Symmetry
INVARIANTS OldPasswordOnlyByRehash OldSessionOnlyByPendingLogin 
