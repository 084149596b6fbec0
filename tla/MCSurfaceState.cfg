SPECIFICATION InstanceSpec
CONSTANTS
    Root = r
    Child = {c}
    Buffer = {a}
    None = None
    Default = 0
    Value = {0, 1}
    Painted = {r, c}
    Asked <- Viewport
    AsksFrames = TRUE
    NativeCache = TRUE
    AttachesEarly = TRUE
    MaxWrite = 1
    MaxSerial = 3
    MaxSerials = 5
INVARIANTS
    ContentShown
    ScreenCurrent
    CountsHolders
    ReleasesBalance
PROPERTY ImplementsDoubleBuffer
