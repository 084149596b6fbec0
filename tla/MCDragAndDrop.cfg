SPECIFICATION SpecDrag
CONSTANTS
    a = a
    b = b
    left = left
    right = right
    r = r
    Surface = {a, b}
    NoSurface = NoSurface
    Button = {left, right}
    Pointer = {}
    Window <- Apart
    Target <- Apart
    MaxMail = 2
    Source = {r}
    NoSource = NoSource
    Other = Other
    MaxUses = 1
    MaxChanges = 1
SYMMETRY AnyOrder
INVARIANTS
    LostDragEnds
    CleanDropWaits
