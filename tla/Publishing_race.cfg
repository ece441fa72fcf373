\* Two requests at once over one slug and two followers: publishers, loops, edits,
\* deletions, partial fan-out and crashes, and every request is served to its end.
CONSTANTS
    b1 = b1  s1 = s1  w1 = w1  w2 = w2  i1 = i1  i2 = i2
    blank = blank  t1 = t1  t2 = t2
    NoRow = NoRow
    Base = {b1}
    Slug = {s1}
    Text = {blank, t1}
    Blank = blank
    NoteFits = {blank, t1}
    Worker = {w1, w2}
    Inbox = {i1, i2}
    Input <- OneNote
SPECIFICATION FairPublishingSpec
INVARIANTS PublishingTypeOK UndecidedHasWorker OnePublisher
PROPERTIES TellsWhatIsShown RequestsAdvance FederationDecided
