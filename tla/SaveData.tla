------------------------------- MODULE SaveData -------------------------------
(* A Nintendo 64's save data: a cartridge's chip or a 64DD's disk goes out as  *)
(* a file when the host asks, and a chip's file goes back in when a project is *)
(* started on it. ares holds these memories a word at a time in the host's     *)
(* byte order; a file is in the console's.                                     *)
EXTENDS Integers, Sequences, SequencesExt

CONSTANTS
    Bytes, Erased,      \* a byte, and what a new chip is full of (0xff)
    Chips,              \* save.ram, save.eeprom, save.flash, in that order
    ChipSize,           \* the size the game database gives each
    Disks,              \* the disks a project may name, as files
    Slots, Empty, None,
    MaxWrites           \* bound: how often games write

ASSUME SaveAssumption ==
    /\ Erased \in Bytes
    /\ ChipSize \in [1 .. Len(Chips) -> Nat]
    /\ \A i \in 1 .. Len(Chips) : ChipSize[i] % 4 = 0 /\ ChipSize[i] > 0
    /\ \A d \in Disks : d \in Seq(Bytes) /\ Len(d) % 4 = 0
    /\ None \notin {"error.save_n64_only", "error.no_save_chip", "error.save_size"}
    /\ MaxWrites \in Nat

VARIABLES
    media,          \* what is in the machine: a chip's number, a disk, or neither
    memory,         \* that chip or disk as ares holds it
    chimeraWritten, \* dd.chimeraWritten
    g_saveExport,   \* the copy made for the host
    error,          \* why no machine was built
    file,           \* the last file the host was handed
    saved,          \* a note of the media and the memory it was made from
    states,
    writes

machine == <<media, memory, chimeraWritten, g_saveExport>>
saveVars == <<media, memory, chimeraWritten, g_saveExport, error, file, saved, states, writes>>

Media ==
    [kind : {"chip"}, at : 1 .. Len(Chips)] \union [kind : {"disk"}, at : Disks]
    \union [kind : {"none"}, at : {None}]

Contents == Seq(Bytes)

\* A mutant of Swapped: each word's halves and not its bytes are reversed.
SwappedHalves(bytes) ==
    [i \in 1 .. Len(bytes) |-> bytes[4 * ((i - 1) \div 4) + ((i + 1) % 4) + 1]]

\* Each word's bytes reversed: inFileOrder(), and ares reading a file.
Swapped(bytes) ==
    [i \in 1 .. Len(bytes) |-> bytes[4 * ((i - 1) \div 4) + 4 - ((i - 1) % 4)]]

\* What ares makes of a file's bytes, a big-endian word after another.
LoadedByAres(bytes) ==
    LET Word(w) == Reverse(SubSeq(bytes, 4 * w + 1, 4 * w + 4))
    IN  [i \in 1 .. 4 * (Len(bytes) \div 4) |-> Word((i - 1) \div 4)[((i - 1) % 4) + 1]]

NoMedia == [kind |-> "none", at |-> None]

SaveInit ==
    /\ media = NoMedia
    /\ memory = <<>>
    /\ chimeraWritten = FALSE
    /\ g_saveExport = <<>>
    /\ error = None
    /\ file = None
    /\ saved = None
    /\ states = [s \in Slots |-> Empty]
    /\ writes = 0

-----------------------------------------------------------------------------
\* A mutant of SeedError: it takes a save that is larger than the chip, and cuts it.
SeedErrorCuts(m, seed) ==
    IF seed \in {None, <<>>} THEN None
    ELSE IF m.kind = "none" THEN "error.save_n64_only"
    ELSE IF m.kind # "chip" THEN "error.no_save_chip"
    ELSE IF Len(seed) < ChipSize[m.at] THEN "error.save_size"
    ELSE None

\* What init() and seedSave() say of a project's save data, None where the
\* machine is built: a save is for one chip, and never cut to fit another.
\* An empty file is no save: the frontend mounts one where there is none.
SeedError(m, seed) ==
    IF seed \in {None, <<>>} THEN None
    ELSE IF m.kind = "none" THEN "error.save_n64_only"
    ELSE IF m.kind # "chip" THEN "error.no_save_chip"
    ELSE IF Len(seed) # ChipSize[m.at] THEN "error.save_size"
    ELSE None

\* A mutant of PluggedIn: a chip nobody saved to is not erased first.
PluggedInAsFound(m, seed) ==
    CASE m.kind = "chip" /\ seed \in {None, <<>>} -> [i \in 1 .. ChipSize[m.at] |-> None]
      [] m.kind = "chip" /\ seed \notin {None, <<>>} -> LoadedByAres(seed)
      [] m.kind = "disk" -> LoadedByAres(m.at)
      [] m.kind = "none" -> <<>>

\* What the medium's memory is when it is plugged in: mia's chip, its file
\* written over where there is save data, or the disk.
PluggedIn(m, seed) ==
    CASE m.kind = "chip" /\ seed \in {None, <<>>} -> [i \in 1 .. ChipSize[m.at] |-> Erased]
      [] m.kind = "chip" /\ seed \notin {None, <<>>} -> LoadedByAres(SubSeq(seed, 1, ChipSize[m.at]))
      [] m.kind = "disk" -> LoadedByAres(m.at)
      [] m.kind = "none" -> <<>>

\* A project is started, in another process: with a cartridge of some chip or
\* none, or a disk - one the host was handed before, too - and with save data
\* or without, whatever file that is.
StartProject(m, seed) ==
    /\ g_saveExport' = <<>>
    /\ chimeraWritten' = FALSE
    /\ error' = SeedError(m, seed)
    /\ media' = IF error' = None THEN m ELSE NoMedia
    /\ memory' = IF error' = None THEN PluggedIn(m, seed) ELSE <<>>
    /\ UNCHANGED <<file, saved, states, writes>>

-----------------------------------------------------------------------------
\* A mutant of MarksWrite: the drive does not say that it wrote.
MarksNothing(m) == chimeraWritten

\* bmRequest(): the drive says that it wrote.
MarksWrite(m) == chimeraWritten \/ m.kind = "disk"

\* frame(), in which the game may write to what it saves on.
SaveFrame(wrote, as) ==
    /\ error = None
    /\ g_saveExport' = <<>>
    /\ memory' = as
    /\ chimeraWritten' = IF wrote THEN MarksWrite(media) ELSE chimeraWritten
    /\ writes' = IF wrote THEN writes + 1 ELSE writes
    /\ writes' <= MaxWrites
    /\ UNCHANGED <<media, error, file, saved, states>>

\* saveDataSize(): whichever chip there is, or a disk once it was written to.
SaveDataSize ==
    IF media.kind = "disk" => chimeraWritten THEN Len(memory) ELSE 0

\* GetSaveDataFileCount .. GetSaveDataFileBuffer, as the host calls them.
Export ==
    /\ SaveDataSize > 0
    /\ g_saveExport' = Swapped(memory)
    /\ file' = g_saveExport'
    /\ saved' = [media |-> media, memory |-> memory]
    /\ UNCHANGED <<media, memory, chimeraWritten, error, states, writes>>

\* A byte of it written by the game.
Written(i, v) == [memory EXCEPT ![i] = v]

\* A state carries the arena, the export's copy with it.
SaveState(s) ==
    /\ media.kind # "none"
    /\ states' = [states EXCEPT ![s] = machine]
    /\ UNCHANGED <<media, memory, chimeraWritten, g_saveExport, error, file, saved, writes>>

\* A state is of a machine on the same media.
LoadState(s) ==
    /\ states[s] # Empty
    /\ states[s][1] = media
    /\ memory' = states[s][2]
    /\ chimeraWritten' = states[s][3]
    /\ g_saveExport' = states[s][4]
    /\ UNCHANGED <<media, error, file, saved, states, writes>>

Seeds == {None, <<>>} \union (IF file = None THEN {} ELSE {file})

SaveNext ==
    \/ \E m \in Media, seed \in Seeds : StartProject(m, seed)
    \/ SaveFrame(FALSE, memory)
    \/ \E i \in 1 .. Len(memory), v \in Bytes : SaveFrame(TRUE, Written(i, v))
    \/ Export
    \/ \E s \in Slots : SaveState(s) \/ LoadState(s)

SaveSpec == SaveInit /\ [][SaveNext]_saveVars

-----------------------------------------------------------------------------
SaveTypeOK ==
    /\ media \in Media
    /\ memory \in Contents
    /\ chimeraWritten \in BOOLEAN
    /\ g_saveExport \in Contents
    /\ error \in {None, "error.save_n64_only", "error.no_save_chip", "error.save_size"}
    /\ file \in Contents \union {None}
    /\ \A s \in Slots : states[s] = Empty \/ states[s] \in Media \X Contents \X BOOLEAN \X Contents

\* What the machine reads at an address, a byte at a time in the console's
\* order, is the file's byte there: the host is handed the chip as ares itself
\* would write it, and no chip was ever handed out backwards.
ReadByCpu(bytes, address) == bytes[(4 * (address \div 4)) + (3 - (address % 4)) + 1]

FileIsTheConsoles ==
    file # None => \A a \in 0 .. Len(file) - 1 : file[a + 1] = ReadByCpu(saved.memory, a)

\* What a step that starts a project does with the last file handed out.
ComesBack ==
    /\ \A m \in Media :
           file # None /\ saved.media.kind = "chip" /\ StartProject(m, file)
           => IF m.kind = "chip" /\ ChipSize[m.at] = ChipSize[saved.media.at]
              THEN error' = None /\ memory' = saved.memory
              ELSE error' # None /\ media' = NoMedia
    /\ file # None /\ media'.kind = "disk" /\ media'.at = file /\ media # media'
           => memory' = saved.memory

\* A save handed out goes back in: a project started on it, with a chip of that
\* size, has the memory the file was made from, and with any other there is no
\* machine rather than one whose save was cut or padded. A disk handed out is
\* put in as a disk and is the same disk.
SaveComesBack == [][ComesBack]_saveVars

\* A disk that is not as it was put in is offered to the host, through every
\* state taken and put back: no game's save stays where nobody can reach it.
WrittenDiskIsOffered ==
    media.kind = "disk" =>
       (SaveDataSize = 0 => memory = LoadedByAres(media.at))

\* machine.cpp: an export's copy is "let go at the next frame, so that no
\* savestate carries a 70MB disk it does not need".
NoStateCarriesADisk ==
    \A s \in Slots : states[s] # Empty /\ states[s][1].kind = "disk" => states[s][4] = <<>>

=============================================================================
