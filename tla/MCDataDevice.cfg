SPECIFICATION InstanceSpec
CONSTANTS
    r = r
    s = s
    t = t
    Source <- Sources
    NoSource = NoSource
    Other = Other
    MaxUses = 2
    MaxChanges = 3
    Mime <- Types
    Untyped = {"META:url"}
SYMMETRY AnySource
INVARIANTS
    SourceKnown
    EndsOnce
    SelectionCurrent
    OwnDataComesBack
    OfferedIsReceivable
