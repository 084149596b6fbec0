SPECIFICATION FairSpec
CONSTANTS
    r = r
    c = c
    d = d
    w1 = w1
    w2 = w2
    Surface = {r}
    Window = {w1, w2}
    Popup = {}
    UserQuits = {w1}
    Parent <- ParentOne
    Server = Server
    Orphan = Orphan
    None = None
PROPERTIES
    DetachCompletes
    EnvCloses
    WindowCloses
