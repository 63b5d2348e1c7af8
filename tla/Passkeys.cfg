SPECIFICATION Spec
CONSTANTS
    Req = {r1, r2}
    User = {u1, u2}
    Cred = {c1}
    Challenge = {h1, h2, h3}
    None = None
    Anyone = Anyone
    MaxCount = 2
    MaxRows = 2
    Faults = TRUE
SYMMETRY Symmetry
INVARIANTS TypeOK PasskeyOwned CeremonyOnce RemovedStaysRemoved
PROPERTIES CountAdvances
CHECK_DEADLOCK FALSE
