\* Two actors whose Follows may share an id or name the other, two requests at once, crashes.
SPECIFICATION Spec
CONSTANTS
    x = x  y = y  f1 = f1  f2 = f2
    NoId = NoId  Absent = Absent
    Actor = {x, y}
    FollowId = {f1, f2}
    Worker = {w1, w2}
    Incoming <- Follows
SYMMETRY Symmetry
INVARIANTS TypeOK AcceptedAreStored AcceptsAnswerFollows
PROPERTY ResendReachesAll
