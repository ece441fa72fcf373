\* An autosave between the flush and the publication of the same request.
CONSTANTS
    b1 = b1  s1 = s1  w1 = w1  w2 = w2  i1 = i1
    blank = blank  t1 = t1  t2 = t2
    NoRow = NoRow
    Base = {b1}
    Slug = {s1}
    Text = {blank, t1, t2}
    Blank = blank
    NoteFits = {blank, t1, t2}
    Worker = {w1}
    Inbox = {i1}
    Input <- TwoPosts
SPECIFICATION PublishingSpec
INVARIANT PublishesTypedText
