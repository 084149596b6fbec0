SPECIFICATION Spec
CONSTANTS
    a = a
    b = b
    c = c
    Surface = {a, b, c}
    NoSurface = NoSurface
    Button = {left}
    Pointer = {p}
    Window <- Windows
    Target <- Themselves
    left = left
    p = p
    MaxMail = 2
INVARIANTS
    FocusTold
    GrabEnds
    NoStuckButton
    FocusFollowsMouse
