SPECIFICATION SaveSpec
CONSTANTS
    Bytes = {0, 1}
    Erased = 1
    Chips <- MCChips
    ChipSize <- MCChipSize
    Disks <- MCDisks
    Slots = {s1}
    Empty = Empty
    None = None
    MaxWrites = 2
INVARIANTS NoStateCarriesADisk
