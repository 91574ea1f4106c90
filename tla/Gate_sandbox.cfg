SPECIFICATION FairSpec
CONSTANTS
    Sandbox = TRUE
    Moments <- MCMoments
    PoweredOn = 0
    Outputs <- MCMoments
    NoOutput = 0
    Step <- MCStep
    Picture <- MCPicture
    Sound <- MCSound
    Presses <- MCPresses
    Sync <- MCSync
    Frames = 3
    Every = {0, 2}
    Dumps <- MCDumps
    Processes = 2
    None = None
INVARIANTS TypeOK PicturesMatch DigestsMatch MachinesMatch
PROPERTIES RunEnds
CHECK_DEADLOCK FALSE
