SPECIFICATION OutputsSpec
CONSTANTS
    psg = psg
    fm = fm
    Streams <- MCStreams
    Channels <- MCChannels
    Amplitudes <- MCAmplitudes
    Least <- MCLeast
    Most = 1
    MaxSamplesPerFrame = 2
    MaxWritten = 4
    Burst = 2
    WidthMax = 3
    HeightMax = 6
    FieldHeight = 3
    AtFirst <- MCAtFirst
    Screens <- MCScreens
    Frames <- MCFrames
    Drawings = 2
    Hints <- MCHints
    Declarations <- MCDeclarations
    Band <- MCBand
    Nearly = 10000
    NumMax = 1000
    DenMax = 50
    Convergents = 12
    Machines <- MCMachines
    StoreSize <- MCStoreSize
    Octets <- MCOctets
    WordSize = 2
    MaxDomains = 2
    MaxChunk = 3
    Nowhere = Nowhere
    Bytes = {0, 1}
    Erased = 1
    Chips <- MCChips
    ChipSize <- MCChipSize
    Disks <- MCDisks
    Slots = {s1}
    Empty = Empty
    None = None
    MaxWrites = 2
INVARIANTS TypesOK VoicesAreTogether NothingWaits
    ShownIsHanded RateIsTheMachines MemoriesAgree NothingIsLeftOut
    FileIsTheConsoles WrittenDiskIsOffered
PROPERTIES SaveComesBack
