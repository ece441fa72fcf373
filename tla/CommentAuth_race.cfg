SPECIFICATION Spec
CONSTANTS
    Sid = {s1, s2} Token = {t1, t2} Request = {r1, r2} None = None
    Domain = {d1} Draft = {c1}
SYMMETRY Symmetry
INVARIANTS PostedOnce TokensAccounted FallbackStays IdentityFits
PROPERTY TokensLiveOnce
