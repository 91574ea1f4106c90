SPECIFICATION Spec
CONSTANTS
    Codes = {c1}
    Tiles = {t1}
    VIRegs = {v1}
    Values = {1}
    Memory <- MCMemory
    Blank = 0
    NoisePeriod = 2
    Unset = Unset
    None = None
    Painted <- MCPainted
    Ninth <- MCNinth
    Fetched <- MCFetched
    Woven <- MCWoven
    Bridge = TRUE
    Makes = {TRUE, FALSE}
    CutsAtFrameEnd = TRUE
    Slots = {s1}
    Empty = Empty
    Dead = Dead
    MaxWork = 5
INVARIANTS
    TypeOK
    NothingIsForgotten
    SavedAgainIsTheSame
    NothingGoneIsNamed
PROPERTIES
    GoesOnWhereItWas
    TakingDisturbsNothing
