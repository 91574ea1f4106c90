SPECIFICATION Spec
CONSTANTS
    Sandbox = FALSE
    Moments <- MCMoments
    PoweredOn = 0
    Outputs <- MCMoments
    NoOutput = 0
    Step <- MCStep
    Picture <- MCPicture
    Sound <- MCSound
    Presses <- NeverPresses
    Sync <- MCSync
    Frames = 3
    Every = {0, 2}
    Dumps <- MCDumps
    Processes = 2
    None = None
INVARIANTS PicturesMatch
CHECK_DEADLOCK FALSE
