SPECIFICATION Spec
CONSTANTS
    Req = {r1}
    Password = {p1, p2}
    ResetToken = {t1}
    NoPassword = NoPassword
    NoToken = NoToken
    MaxFailed = 2
    FailedBound = 0
    Ops = {"login", "admin", "reset", "totp"}
    Faults = FALSE
INVARIANT NoOldCredential
