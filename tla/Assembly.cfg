SPECIFICATION Spec
CONSTANTS
    Ports <- MCPorts
    Projects <- MCProjects
    Upper <- MCUpper
    Letters <- MCLetters
    KeyboardNames = {"japanese", "original"}
    Accessories <- MCAccessories
    MaxPorts = 3
    PortSettings = 2
    PadSettings = 2
    Unfilled = Unfilled
    Nothing = Nothing
INVARIANTS TypeOK BuiltAsAsked GameIsWhereItBelongs RefusedForCause NothingOutlivesItsMachine
CHECK_DEADLOCK FALSE
