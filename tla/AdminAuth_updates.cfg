SPECIFICATION Spec
CONSTANTS
    Sid = {s1} Request = {r1, r2} None = None
    MaxAge = 2 BrowserAge = 0 TouchAfter = 1 MaxTime = 1
    Password = {p1} Secret = {k1} Passkey = {y1} Code = {c1} Token = {t1} Link = {l1}
    PendingTTL = 0 EnrollTTL = 0
SYMMETRY Symmetry
INVARIANTS AuthTypeOK SessionsHold
PROPERTIES UpdatesStand
