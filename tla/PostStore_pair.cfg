\* Two slugs, two base URLs, one text, too long for a note: keys, migrations, validation
\* and the outbox.  Published notes are in the runs of Publishing.
CONSTANTS
    b1 = b1  b2 = b2
    s1 = s1  s2 = s2
    blank = blank  t1 = t1
    NoRow = NoRow
    Base = {b1, b2}
    Slug = {s1, s2}
    Text = {blank, t1}
    Blank = blank
    NoteFits = {blank}
SPECIFICATION Spec
SYMMETRY Symmetry
INVARIANTS TypeOK KeysCanonical OutboxMirrorsPosts PublishedIsValid
PROPERTIES RewriteKeepsPosts LifecycleSpec
