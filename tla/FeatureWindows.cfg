SPECIFICATION WFairSpec
CONSTANTS
    d1 = d1
    d2 = d2
    NoId = NoId
    Blank = Blank
    Devices = {d1, d2}
    FlowWindow = 2
    FlowSlide = 1
    TsWindow = 3
    LastArrival = 1
    MaxTime = 4
    MaxRaw = 3
    MaxFaults = 1
    MaxLives = 2
INVARIANTS
    FlowIsExact
    WindowsInv
    LabelIsFromWindow
PROPERTY
    EverySampleIsCounted
