\* A thread, old replies of both posts, failed and interrupted migrations.
SPECIFICATION Spec
CONSTANTS
    None = None
    p = p
    q = q
    o1 = o1
    o2 = o2
    a1 = a1
    a2 = a2
    x = x
    Actor = {x}
    Listed = {}
    Slug = {p, q}
    Object = {o1, o2}
    ActivityId = {a1, a2}
    FreshId = {}
    Message <- ThreadAndOld
    Legacy <- OldReplies
    Worker = {w1, w2}
PROPERTIES MigrationComplete RepliesConverse
