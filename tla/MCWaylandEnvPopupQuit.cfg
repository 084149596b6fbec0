SPECIFICATION Spec
CONSTANTS
    r = r
    c = c
    d = d
    w1 = w1
    w2 = w2
    Surface = {r, c}
    Window = {w1}
    Popup = {w1}
    UserQuits = {w1}
    Parent <- ParentPair
    Server = Server
    Orphan = Orphan
    None = None
INVARIANT NoBadDeletion
