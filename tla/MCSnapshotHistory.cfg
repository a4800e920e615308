SPECIFICATION RowSpec
CONSTANTS
    WindowSize = 2
    MaxVersion = 4
    Marks <- ComputedMarks
    PeerMarks <- OtherMarks
    None = None
INVARIANTS
    RowTypeOK
    ReadsTheLog
    CountsOnce
PROPERTY
    ImplementsLog
