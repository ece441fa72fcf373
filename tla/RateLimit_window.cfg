\* Two addresses, bursts and refusals at and around the boundary of the window.
SPECIFICATION LimitSpec
CONSTANTS
    IP = {a1, a2}  Call = {c1, c2, c3, c4, c5}
    Limit = 2 Window = 2 LastTime = 5
SYMMETRY Symmetry
INVARIANT LimitTypeOK
PROPERTY DecidesByWindow
