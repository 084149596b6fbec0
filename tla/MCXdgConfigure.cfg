SPECIFICATION Spec
CONSTANTS
    ScaleNum = 5
    ScaleDen = 4
    Size = {4, 5}
    UserSize = {7}
    Screen = 11
    Drag = {2}
    Limit <- SomeLimits
    Request = {"None", "Server"}
    MaxAsked = 3
    MaxWish = 2
INVARIANTS
    SizesSettle
    NoResizeLoop
    LookFollowsMode
PROPERTY UnseenResizeStands
