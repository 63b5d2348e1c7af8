SPECIFICATION Spec
CONSTANTS
    Req = {r1, r2}
    Email = {e1, e2}
    Subject = {s1}
    Code = {c1}
    Token = {t1, t2}
    NoEmail = NoEmail
    NoSubject = NoSubject
    NoCode = NoCode
    NoToken = NoToken
    MaxAttempts = 2
    NameTries = 2
    Faults = TRUE
SYMMETRY Symmetry
INVARIANTS TypeOK AccountProved OneAccountEach SessionsOwned CodeBounds
CHECK_DEADLOCK FALSE
