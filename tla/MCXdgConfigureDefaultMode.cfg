SPECIFICATION Spec
CONSTANTS
    ScaleNum = 5
    ScaleDen = 4
    Size = {4}
    UserSize = {7}
    Screen = 11
    Drag = {2}
    Limit <- SomeLimits
    Request = {"None", "Server"}
    MaxAsked = 1
    MaxWish = 2
INVARIANT DefaultModeUntilAsked
