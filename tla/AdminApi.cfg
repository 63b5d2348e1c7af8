SPECIFICATION FairSpec
CONSTANTS
    Req = {r1, r2}
    User = {a, b}
    Founder = {a}
    Sess = {s1}
    Conn = {k1, k2}
    None = None
    Faults = TRUE
INVARIANTS TypeOK AdminOnlyByAdmins AdminProtected Attributed
PROPERTIES AdminsOnlyProvisioned DemotionTakesEffect
