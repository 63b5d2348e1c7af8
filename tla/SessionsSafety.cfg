SPECIFICATION Spec
CONSTANTS
    Req = {r1, r2}
    User = {u1}
    Sid = {s1}
    Token = {t1, t2}
    NoSid = NoSid
    NoUser = NoUser
    NoToken = NoToken
    Outcomes = {"ok", "lost", "late"}
    Bulk = {"ban", "disable", "delete", "force", "reset", "change"}
SYMMETRY Symmetry
INVARIANTS TypeOK DeliveredBacked ClearsOnlyRevoked
PROPERTIES RefreshGuarded DeadStaysDead ContractSpec
