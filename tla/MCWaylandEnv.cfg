SPECIFICATION Spec
CONSTANTS
    r = r
    c = c
    d = d
    w1 = w1
    w2 = w2
    Surface = {r, c, d}
    Window = {w1, w2}
    Popup = {w2}
    UserQuits = {w1}
    Parent <- ParentChain
    Server = Server
    Orphan = Orphan
    None = None
INVARIANTS
    EnvKeepsView
    EnvAsserts
    FocusAlive
    NoBadDeletion
    NoCircularWait
    WakeupNotLost
PROPERTY ImplementsLifecycle
