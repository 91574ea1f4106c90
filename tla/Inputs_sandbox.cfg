SPECIFICATION Spec
CONSTANTS
    ButtonCount = 4
    Kind <- MCKind
    OwnPresses = {0}
    HasTape = TRUE
    AxisValues = {0, 1}
    RecordSize = 3
    Slots = {s1}
    s1 = s1
    Empty = Empty
INVARIANTS TypeOK RecordIsTrue
PROPERTIES ResendIsNoOp GoesOnAsAsked
