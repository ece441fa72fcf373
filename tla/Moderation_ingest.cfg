\* Two requests, redeliveries and one admin: ingestion against decisions and lists.
SPECIFICATION Spec
CONSTANTS
    None = None
    p = p
    q = q
    o1 = o1
    o2 = o2
    a1 = a1
    a2 = a2
    x = x
    Actor = {x}
    Listed = {x}
    Slug = {p}
    Object = {o1}
    ActivityId = {a1}
    FreshId = {f}
    Message <- Pair
    Legacy <- NoMessage
    Worker = {w1, w2}
INVARIANTS TypeOK IndexesAgree
PROPERTY ArrivalsJustified
