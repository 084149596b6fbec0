SPECIFICATION Spec
CONSTANTS
    Size <- MCSize
    AnchorRect <- MCAnchorRect
    Offset <- MCOffset
    Side <- MCSide
    Adjustment <- MCAdjustment
    WorkArea <- MCWorkArea
    None = None
PROPERTIES
    AxesIndependent
    SlideFits
