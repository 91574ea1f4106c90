# A verification project for the ares core

The repository builds `core.wbx`: ares' emulators of some twenty machines behind
the exports a Chimera frontend calls, run in a sandbox (miniBox) whose savestate
is the whole of the guest's memory. What makes such a core correct is not the
emulation, which is ares' own and not in the repository. It is that **a machine
taken aside and put back is the machine that was taken aside**, whatever lies
outside the sandbox's memory (a graphics card, a frontend's records), and that
what a project asks for is what is built, heard, saved and compared. This project
models those parts, checks them with TLC on small instances and proves the most
important ones with TLAPS. Paths below are under `src/waterbox` unless they say
otherwise; line numbers are in `PROJECT.json`.

## 1. The system

```
 frontend / gate harness          core (guest memory: the arena)             device
 ---------------------------      --------------------------------------     ---------
 gate_sent  (what it told) --set_button--> g_buttonPushed, nodes, g_tape
 frame()    -----------------------------> machine::frame -> ares -----------> RDP
 video/audio/input_was_read <------------- g_video, g_audio, g_inputWasRead     (paraLLEl-
 StateSaving, then save -----------------> vulkan.stateSaving: kept <---------- RDP)
 load, then a new Vulkan context --------> kept --rebuild at the next use-----> new RDP
 GetSaveData... <------------------------- g_saveExport
```

| part | where | state it keeps | operations | hard because |
|---|---|---|---|---|
| RDP's kept state | patches 0032-0035, `waterbox.cpp` bridge | `kept`, `implementation` with its command buffer and context id, `enable`; on the device: registers, TMEM, ninth bits, noise count, last picture, painting not yet in RDRAM | render, writeWord, scanoutAsync, frame, idle, stateSaving, serialize, checkContext/rebuild, unload | state in two places; loads that discard one of them; rebuilds that may fail; lists that end inside a command |
| Inputs | `machine.cpp` setButton/setAxis/bindInputs, `gate-harness.h` gate_set_inputs | `g_buttonPushed`, nodes, the tape; outside: `gate_sent` | push, frame, save, load, restart | two records of one fact on two sides of a savestate; a node the machine writes too |
| Audio | `machine.cpp` audio() | `g_streams`, their queues, `g_audio`, `g_audioSamples` | attach, detach, callback, frame | callbacks in any order, a frame boundary anywhere among them, a full buffer |
| Save data | `machine.cpp` seedSave, saveData*, patch 0028 | chip or disk, `dd.chimeraWritten`, `g_saveExport` | seed, write, export, save, load | byte order, a flag beside the data, copies alive between frames |
| Assembly | `machine.cpp` init, pak, connectPorts, shutdown; `machines.h`; the readers in `waterbox.cpp` and `run-native.cpp` | paks, slots taken, the port counter, `g_error`, nodes held | read a project, suggest its region, one long call with a dozen refusals, take apart | two readers of one project; several slots that ask alike; numbering; first fit; what outlives what |
| Gate | `gate-harness.h`, `run-wbx.cpp`, `run-native.cpp` | frame, records, states aside, digests | straight, on change, rerecord, rewind, no drawing, digests in mid-run, dumps, state files | what a comparison can and cannot see; looking moves the machine |
| Memory blocks and buses | `machine.cpp` publish*, `waterbox.cpp` ReadBus | `g_domains`, `g_buses`, `s_busChunk` | list, peek, poke, read | two orders of one memory, a name the only tie between them |
| Picture, refresh rate | `machine.cpp` video, refreshRateHint, refreshAsRational | `g_video` with its size, `g_refreshRate` | a picture, drawing on and off, a hint, the question | pictures of all sizes through one buffer; a fraction found again by a loop with three ways out |
| Wire format | `gen-machines.cpp`, `gen-config.py`, `bindInputs` | `machines.json`, `machines.inc`; movies | describe, generate, check, bind | four parties that go their own way over years |
| Package | `gen-config.py`, `applySettings` | `waterbox.config`, the guest's settings table, a project's values | describe, generate, choose, set, apply | generated on one computer after another, each with other BIOS files |
| Software renderer | `software-rdp.cpp`, `angrylion-host.c` | `g_fb`, all of it static guest memory | render, frame, refresh | two fields woven into one frame |
| Scripts, build, guest libc | `run-gate.sh`, `build-package.sh`, `guest-syscalls.cpp` | none of their own | | |

The generators run on developers' computers, the core in a player's. In the core
everything runs on one thread: the machine's. The interleavings are those of the
frontend's calls (frames, states, inputs), of ares' coroutines inside a frame (the
voices, the CPU against the RDP) and of the renderer's copying into RDRAM. States
survive the process; the device and the frontend's records do not.

What makes each part correct:

- *RDP*: made again from what is kept, the processor is the one there was; taking a
  state disturbs nothing; nothing of a discarded context is ever named.
- *Inputs*: the machine finds what the movie asks and keeps what it pressed itself.
- *Audio*: the k-th samples of all voices are heard together, in the frame that took
  them, and none waits that could be heard.
- *Save data*: a file is the console's bytes, comes back into the same chip and no
  other; no written disk is withheld.
- *Assembly*: whichever reader built it, what is built was asked for and what is refused
  could not be had; nothing held of a machine that ran outlives what it points at.
- *Gate*: every leg's digests are the straight run's, its pictures too if it draws, and a
  run that was started comes to them.
- *Memories*: every memory is shown once and is in the digest; a piece is what a peek is.
- *Picture*: what is shown is one picture, the last one drawn; the rate is the machine's.
- *Wire format*: an index means in a replay what it meant in the recording; every
  control has one index, and a name its movie can carry.
- *Package*: no machine is offered that asks for nothing; what is generated is the same
  whoever's turn it is; one file is asked for each BIOS; a value stays its machine's.

## 2. Modules

Each component's module has its state as VARIABLES under the names of the source,
one action per operation, and operators named after the functions they stand for;
`PROJECT.json` maps every definition to its lines. Operators whose comment says
"a mutant of" are faults seeded to show that a property can fail; no
specification uses them.

| module | models | composes |
|---|---|---|
| `Processor` | paraLLEl-RDP as ares drives it: what it remembers from command to command | |
| `RdpMachine` | abstract: one processor that simply goes on | `Processor` |
| `VulkanRdp` | ares' `Vulkan` object as patched: kept state, implementation, device, contexts, states | `Processor`; implements `RdpMachine` |
| `Controls` | the machine's buttons: which have a node, which drive the tape | |
| `AskedMachine` | abstract: a machine that is only ever told news | `Controls` |
| `Inputs` | the frontend's record and the adapter's, across states and processes | `Controls`; implements `AskedMachine` |
| `AudioMix` | the mixing loop and its frame | |
| `SaveData` | chip, disk, export, seed | |
| `Machines` | the table of machines: what each needs of its builder | |
| `Assembly` | a project read, `init()` and `shutdown()` as a machine of steps | `Machines` |
| `Gate` | the driven run beside the straight run | |
| `Picture` | the Software renderer's frame, the picture and its buffer, the refresh rate | |
| `Memories` | blocks, buses, pieces of a bus | |
| `WireFormat` | ares' tree, its account, the table, the gate's verdict, the bound machine, a movie | |
| `Package` | BIOS entries and forms, ares' settings, a project's answers | |
| `Outputs` | what a frontend is given | `AudioMix`, `Picture`, `Memories`, `SaveData` |
| `Generated` | what the generators write | `WireFormat`, `Package` |
| `Lists` | selecting from a list, for `Assembly`, `Memories`, `WireFormat` and `Package` | |
| other `MC...` | constants for TLC | the module they are about |
| `..._proofs` | theorems | the module they are about, `TLAPS` |
| `Outputs_proofs` | theorems | `Outputs` and what it composes, `Lists_proofs` |
| `WireFormat_proofs` | theorems | `Generated` and what it composes, `Lists_proofs` |

### RDP (`Processor`, `RdpMachine`, `VulkanRdp`)

A list of commands is a sequence of units. A draw takes a second unit as its data,
so that a list may end between the two (`part`): it stands for every command longer
than what has arrived. What a primitive paints, its ninth bits, what a load fetches
and how a picture is woven from the last one are constant operators of *everything
the processor remembers*, so nothing holds because the painting happens not to
look. `pending` is painting not yet copied to RDRAM; `CopyOut` is the renderer doing
so whenever it likes.

`Checked` is `checkContext()` with `rebuild()`; every entry point begins with it, as
in the code, and `made` says whether the device could be made. In the sandbox
(`Bridge`) a state is the arena (`kept`, `enable`, `impl` with its buffer, RDRAM) and
a load brings a context number not used before; natively it is ares' serializer's,
and a load leaves `restorePending`. `crossed` holds the contexts of the objects the
last step named to the host, `unload()`'s destructors included.

The refinement maps the processor to `Effective`: the device if it is usable, what
`rebuild` would make if it is not, `Dead` if there is none any more. `RdpMachine`
allows one loss, and only at the first use after a load, or with a state that was
taken without a processor.

### Inputs (`Controls`, `AskedMachine`, `Inputs`)

`told` is `gate_sent`, `pushed` is `g_buttonPushed`. One step pushes a whole frame's
buttons, because `gate_set_inputs` does, in order; only the tape makes the order
matter, and `Tape` lets the highest transport button heard have the last word. The
mapping takes `pushed` for what the movie last asked: that this is a refinement says
that neither resends nor frontends of either habit can be told apart by the machine.

### AudioMix

`written` holds everything a voice has written, `taken` how much of it was read, so
a queue is their difference and "the k-th sample of every voice" can be said. `Audio`
is one callback: as many rounds of the loop as every voice has samples waiting. A
voice may write several samples at once (a resampler does).

### SaveData

Chip and disk are held as ares holds them; `Swapped` is `inFileOrder`, written
independently of `LoadedByAres`, which is ares reading a big-endian file, and of
`ReadByCpu`, which is the machine addressing a byte. `StartProject` is another
process with any medium and any seed, the last export among them. `Export` is the
host's four calls: they come together between two frames.

### Assembly (`Machines`, `Assembly`)

`Machines` is `machines.h` without names, sizes and extensions: a record a machine, the
31 of them. `project` is what a project says; `ReadByCore` and `ReadByRunner` are the two
readers of the code, written by hand beside each other, which make the same record
`config` (the struct `Config`) of settings and mounted files, or of options.
`SuggestSettings` may come before, as in a project window. Each loop of `init()` and
`connectPorts()` is a step that takes the head of `todo`; each early return is a
`Refuse`. Whether a file reads, a board is built or a device is made is an input
(`made` of a port is what of it ares does make, a keyboard or a device), so each of the
reasons a step has is there, `error.no_keyboard` and both of `error.no_device` included.
`Accessories` is what ares has for a device's own slot: `Equipped` plugs in what the
project names if it is one of those, and leaves the slot empty otherwise, since nobody
looks at what `slot->allocate(accessory)` gave; that is so of a misspelt one too, which
is not looked for by its letters as a device is. Letters-only comparison of names and a name in
capitals are the constants `Letters` and `Upper`. `held` is what the adapter's globals
hold of the machine; `Unload` is a line of `shutdown()`, and after it `Exit` lets go of
what is left, and of what the nodes point at, in any order: static destructors have none.

### Gate

`guest` is the driven machine with its node, its push record, whether it draws, and what
the adapter shows of its last frame. `straight` is the straight run's, which always
draws, advanced a frame when the driven run hashes one. `PutBack` is where the runners
differ: an arena, or ares' serializer, which has none of the adapter's globals in it.
`Sync` is ares running its threads to where they meet; what asks for its state
(`CaptureState`) moves the machine there, and a state of the arena does not. `Due` is a
digest in mid-run; `End` takes the last digests, after a dumped state if one was asked
for, and then nothing is claimed of them: they are of another moment by the harness's own
words. `MemoriesWrong` is `--check-memories` finding the memories at odds, after the state
was written and before any digest; whether they are is for `Memories` to say. `drawn` remembers whether every process was to draw. One button stands for the
inputs: how several of them go through one record is `Inputs`.

### Picture

A pixel is the drawing it belongs to and its place in it, so that a line that is not
this picture's can be told. `Draw` is a picture ares made; `SoftwareFrame` is the Software
renderer's `frame()`, what angrylion leaves in `g_fb`, and `refresh()`; both end in `Video`.
`Put` leaves the rest of `g_video` as it was, as the code
does. The rates ares hints are exact fractions and `NextConvergent` is one turn of
`refreshAsRational`'s loop on them; the error of a double, far below the loop's own
tolerance of a billionth, is left out.

### Memories

`PublishDomains` and `PublishBuses` are made once; `Place` is where ares keeps the byte
of an address. `answer` remembers what a bus held when `ReadBus` was called, so that the
buffer can be compared with what `PeekBus` would have said then. `Listed` is what a
memory tool makes of the exports, `Digested` what `gate_memory_digest` goes through.

### WireFormat

`ares` is the tree today's ares builds. A path is the list of what lies between its `/`
signs, since that is all `find()` can make of the one string it is given: `Parted` takes a
node's name apart where it has such signs itself (`Split`), as `gen-machines` does by
joining names and nothing else, and `Find` goes down by one part at a time, so that it
never comes to such a node. `find()` is ares' own; that it takes the path apart is how
`machine.cpp` uses it ("Tape Deck/Tray/MSX Tape", "find() wants the whole path"). A row's
`leaf` is the last part, as `gen-config`'s `rsplit` has it. `Describe` is `gen-machines`, `Declare` what
`gen-config` makes of its account, `Check` the gate (`--check --against`) and
`BindInputs` the guest. `Update`, `Regenerate`, `Edit`, `Check`, `Assemble` and `Record`
come in any order, since nothing in the repository orders them; the properties speak of
what the gate has passed. A machine whose BIOS is not at hand is `Unbuilt`: it has no
account, and the gate skips it.

### Package

`firmware` is the package's list of entries, on which conditions are kept as the form
they name, or `Always`. `GenerateConfig` is one call of `gen-config` with the files one
computer has; it writes everything or refuses. `ApplySettings` is `Init` up to
`applySettings`, in a project whose values outlive its choice of a machine.

## 3. Runs

| run | bounds | what it shows |
|---|---|---|
| `rdp_sandbox` | one code, tile, register and value, three contents of memory, noise counted mod 2, one slot, five units of work, loads included | all RDP properties with failing rebuilds and cut lists |
| `rdp_native` | the same, lists end whole | the refinement, for ares' own states |
| `rdp_native_cut` | the same, cut lists | **violation**, finding 1 |
| `inputs` | four buttons: one the machine presses, Play, Stop, one beyond the record of three; one slot; two axis values | records agree, resends are no-ops, the refinement |
| `outputs`: sound | two voices, one mono, two amplitudes with clamping, frames of two samples, four samples a voice, bursts of two | voices together, each in the frame that took it, and nothing waits |
| `outputs`: picture | a buffer of 3 x 6, four sizes, one cut, one doubled; three software frames, two of them woven, with and without Bob Deinterlacing; both regions | what is shown is the last picture, and by field the newest field |
| `outputs`: rate | seven rates, of which four are a screen's, and one of the four no simple one | the rate is the machine's |
| `outputs`: memory | a console with room for two blocks, its buses in another order, and a handheld without blocks; words of two bytes, pieces of up to three | listed once, digested all, a piece is a peek; none is left out |
| `outputs`: save data | chips of one and two words, disks of a word, two values of a byte, two writes, one slot | byte order, round trip, written disks |
| `save_export_in_state` | save data alone, the same bounds | **violation**, finding 2 |
| `assembly` | eight machines with every kind of slot and port, one of them without its keyboard, and one there is not; a port with a device that ares does not make, a pad with an accessory, one that has none; a `Config` of three ports, settings for two; projects by two readers | asked, placed, refused for cause, taken apart in time |
| `gate_sandbox` | three frames, all movies and options, digests every second frame or none, a dump of the second or none, two processes, a machine of five moments that presses its own button | the digests and the machine are the straight run's, the pictures if all drew; a run ends |
| `gate_native_rewind` | the same | **violation**, finding 3 |
| `wire_format`: wire | a handheld with two pad ports, a console with two devices a port, two home computers with keyboard and tape, two of whose keys have a `/` in their names; two to four trees each | indices, names and keys mean what they meant |
| `wire_format`: package | three BIOSes, two with forms, four machines, four computers | entries survive every order of computers; values stay their machine's |
| `default_keys` | the same | **violation**, finding 4 |
| `bios_forms` | the same | **violation**, finding 5 |

`outputs` and `wire_format` are sums (`Outputs`, `Generated`): the parts share no variable
and no code, so a behaviour is of one part (`part`, `generator`, chosen at the start)
while the others stand still at a beginning. TLC visits the union of the parts' states,
not their product, and each property is about one part. That a sum is of each of its
parts' own specifications is proved.

Why these bounds are enough. *RDP*: a stale part needs a state, two different
histories after it and a load; five units of work hold a draw begun, a state, work, a
load and its finishing, and one further load; MC's painting is a sum over every
register, so a lost one changes memory. *Inputs* has no counter: the run is
exhaustive for its buttons; the harness's record of 256 is above the 105 of the largest
table, so that a button beyond the record is none of a committed machine's. *Audio*: two frames' worth of samples pass each voice, so
a frame overflows and the next one follows. *Assembly* is exhaustive for its projects;
the drive's machine has four ports, one more than a `Config` and two more than a project's
settings, so that both readers come to their ends. *Gate*: a
rewind at any frame with frames before and after, a digest between two frames and one at
the end, in either of two processes, each with options of its own.
*Save data*: two writes, so one after an export and one after a load; two bytes a word
already have an order, and a chip of another size is there to be mistaken. *Picture*
repeats two drawings for ever; the sizes follow each other in every order, a wide one
before a narrow one included. The seven rates lie in the band, under it and at its two ends, some not in
lowest terms, and one (922/23) so near a simpler fraction that this is told in its place,
as the code does with the MSX's; `NumMax` and `DenMax` are above every
one of them, as the code's are above every machine's; twelve convergents are enough for one
part in ten thousand (`RatesAssumption`), as the code's 32 are for a billionth. *Memories*: `MaxDomains` is as many
blocks as the console has with a store, as in the code, so one store less is no room
lost and one block more would be; the last piece of a bus is shorter than the buffer.
*Wire format* and *Package* count nothing: they are exhaustive for their trees and
computers, among which each way a machine may change (order, name, one more, one fewer,
a device offered or not) and each set of files (none, plain, all forms, one form) is there.
`rdp_*`, sound and save data count work in guards (`MaxWork`, `MaxWritten`, `MaxWrites`),
`gate_*` frames and processes.

Deadlock is checked in all runs but `assembly`, `gate_sandbox` and
`gate_native_rewind`, where the program returns.

Fairness is stated once: `Gate`'s `FairSpec` has weak fairness of `Run`, the loop of
`gate_run`, whose steps one thread takes without waiting for anybody, and not of
`StateIn`: nobody has to start another process. `RunEnds` says that a run comes to its
digests or is refused for what it was given or what its memories answer. That `Init()`
answers is not stated: it goes through lists that end, and waits for nothing. The rest of
the core is driven from outside, and nothing in it obliges a frontend to go on.

## 4. What is proved

Every theorem is for all values of the constants: any number of tiles, registers,
slots, buttons, voices or frames, any painting, any tree, any machine. All of them use
only the named assumptions of the modules, which TLC evaluates in the runs; the few that
suppose more say so in their statement. `PROJECT.json` lists them with the properties of
the runs they state.

- **`VulkanRdp_proofs`**: `TypeCorrect` and `NeverNamesTheGone`. The invariant adds to
  the type invariant that no implementation, running or in a state, is of a context
  later than the host's present one: hence one that is not the present one's is stale
  and is let go quietly, and a load's new context is nobody's. The bound `MaxWork` is
  any natural number; it bounds the contexts' numbers only.
- **`VulkanRdpRefines_proofs`**: what is kept agrees with the processor in everything
  commands set, and a state's kept part is complete (`Promised` and its companions);
  from that `ForgetsNothing`, `TakingIsQuiet`, `RoundTrip`, and `GoesOn`: the object
  implements `RdpMachine`, step by step, if states are the sandbox's or lists end whole.
  `CutComesBack` is what the sandbox has and the native build has not. Context numbers
  never repeat by the model's `Load`; that is the frontend's promise.
- **`Inputs_proofs`**: `TypesHold`, `RecordsAgree` (for a frontend that pushes on change,
  its record of a button is unknown or what the guest last heard), `ResendsAreNoOps`,
  `AsAsked` (the refinement of `AskedMachine`). The strengthening over `RecordIsTrue` is
  types only: the record is reset by every load, which is why it is inductive.
- **`Outputs_proofs`**, components that share nothing:
  - *sound* (`AudioInv`): `SoundTypesHold`, `NothingEverWaits`, `VoicesAreAlwaysTogether`.
    Each voice has been read as far as the slowest has written, and the frame is the
    voices' samples `earlier + 1`, `earlier + 2`, ... mixed, up to its room. That the fold over the
    streams is the sum the property speaks of is proved from the one fact that the sum
    of a set is that of the set without a member and the member's.
  - *picture* (`PictureInv`): `PictureTypesHold`, `ShownIsAlwaysHanded`. What has to be
    added is that the Software renderer's frame has pixels wherever the next one is woven
    with it.
  - *rate* (`RateKept`): `RateIsAlwaysTheMachines`. The loop of `refreshAsRational` is
    followed turn by turn (`NextTurn`): two convergents in turn have determinant one, and the
    rate lies between them. The product of their denominators doubles with each turn, so the
    loop ends on its tolerance or with nothing left, within the turns it has and never on
    its bounds of sanity (`LoopEnds`). No convergent is in higher terms than the rate, and one
    that stopped short of a simple rate would be nearer to it than two fractions of such
    terms can be (`SimpleOnesAreReached`).
  - *memory* (`MemoriesInv`): `MemoriesTypesHold`, `MemoriesAlwaysAgree` and
    `LeftOutIsKnown`. What is published is a function of the machine and is worked
    out once (`PublishedIsListedOnce`: a block of a Nintendo 64 is hidden by its bus, the
    sort keeps every bus, and the first rank is RDRAM's); the buffer is the last piece
    over whatever came before. `LeftOutIsKnown` says for which machines the digest
    goes through everything, and supposes nothing of them: all but a Nintendo 64, and
    that one exactly if it has room for every block with a store (`Covered`; the code has
    eight calls of `publish` and eight places) and no bus with a store that no block has,
    which is ares' to say. One block or bus too many is *always* left out: blocks have
    stores of their own, so that no other stands in for it.
  - *save data* (`SaveInv`): `SaveTypesHold`, `FileIsAlwaysTheConsoles`,
    `WrittenDiskIsAlwaysOffered`, `SaveAlwaysComesBack`. A medium's memory is of its size,
    and a disk that is not marked is as it was put in, in the machine and in every state.
  - *all of them*: every behaviour of the sum is one of each part (`OutputsAreOfTheirParts`),
    and so `OutputsTypesHold` and `OutputsKeepTheirWord`: what the run checks, of the very
    specification it checks.
- **`Assembly_proofs`**: `TakenApartFirst`, for any order of static destructors: while a
  machine is taken apart all that is still held is still to come in `shutdown()`'s list
  (`Ordered`). And of the building `BuildingTypesHold`, `GameAlwaysBelongs`,
  `AlwaysBuiltAsAsked`, `AlwaysRefusedForCause`, for any ports and projects. The
  invariant `BuildInv` has a layer for each loop: what a reader made of the project
  (`ReadInv`), first fit over the cartridge's slots (`SubsInv`), what `pak()` put in the
  slots (`PlacesInv`), and how far the loop over device ports is, with the number it has
  come to and what is in the ports before and behind it (`PortsInv`). Refusals need a
  second argument: that no way of giving the cartridges slots exists where first fit
  found none. It is a counting one (`TooFewSlots`): any two slots of the table take the same files
  or none in common (`EveryMachineIsClassed`, checked row by row of the table), so
  the files of one kind are more than its slots.
  `ReadersAgree` says where the two readers may differ: of a project without a PIF file
  or a pad's accessory, that names no more ports than there are settings, both make one
  and the same `Config`.
- **`Gate_proofs`**: `SamePictures`, `SameDigests` and `SameMachine` for the sandbox,
  with any frames, digests and dumps; `ReferenceIsStraight`, all three for a native run
  that does not rewind, which is what the sandbox is compared with; and `TypesHold` for
  both runners. The invariant says at
  each point of the loop how far the driven machine is ahead of the straight run (told,
  run, or told-run-and-set-aside), that the record of the button holds, and that a machine
  draws if every process was to; a rewind is the one place where the machine is *not*
  compared, and what was set aside is. What of `RunEnds` is safety is proved: `NeverBroken`,
  that the runner's own comparison of states never ends a run, and `RunComesCloser`, that
  every step of the loop lowers a natural number (`Left`).
- **`WireFormat_proofs`**:
  - *wire format* (`WireInv`): `WireTypesHold`, `MoviesAreNeverRenumbered`,
    `ControlsAreAlwaysReached`, `NamesAreAlwaysCarried`, `KeysAreAlwaysOnePlayers`. What
    the gate passed is made of the tree that ares builds today; a machine is bound by its
    table and its tree alone; and a movie remembers a machine bound by the table it was
    recorded with. The rest is about what `Describe`, `Declare` and `BindInputs` make of
    any tree (`DeclareHolds` and the lemmas before it): every row is a control of one
    device in one port, no two are alike, and no two controls have one path, whatever `/`
    signs are in their names: that is what `ControlsAreAlwaysReached` needs to say that a
    control without one is driven by its own index alone, and one with such a sign by
    none, its path being nobody else's either.
  - *package* (`PackageInv`): `PackageTypesHold`, `NoneEverAsksForNothing`,
    `RunnersAlwaysFindTheSame`, `NodesAlwaysHoldTheirOwn`. The entries are those that a
    computer without any file would write again (`Settled`), no BIOS is asked for on one
    condition alone (`Answered`), and a machine on offer has an entry for each of its
    BIOSes (`Provided`). `Answered` does not say that conditions are disjoint: they are
    not (finding 5).
  - *both*: `GeneratedIsOfItsParts`, and so `GeneratedTypesHold` and `GeneratedKeepsItsWord`,
    as for the outputs.
- **`Lists_proofs`**: what a list holds that was selected, flattened, cut or appended to,
  and in which order. The library's induction takes an operator and cannot be used; these
  lemmas go by a least counterexample instead (`LeastOfNaturals`, and `SmallestSet` for
  finite sets). `Lists` has `Only`, which selects by a set and can be proved about, where
  `SelectSeq` takes a test and cannot.

What the proofs suppose of the constants, besides types and sizes, is what the code's own
tables or ares say, and is kept as weak as the proofs allow:

| assumption | says | because |
|---|---|---|
| `TreesAssumption`, `NamesAssumption` | siblings of ares' tree have names of their own, and stay apart when spelt for a movie | ares' paths; `wireSafe` and the short names of ports |
| `PartsAssumption` | what lies between two `/` signs has none; ports and devices have no such sign in their names, and no port is called "Controls" or "@tape" | a path is one string; ares' trees, as `machines.inc` has them |
| `TypedAssumption` | a machine played on a keyboard has one port that takes a device, and nothing of its own | the home computers of `machines.h` |
| `BiosesAssumption` | forms of a BIOS have files of their own | `FIRMWARE_VARIANTS` of `gen-config.py` |
| `OffersAssumption` | ares names settings apart, and each has a value | ares' nodes |
| `MachinesAssumption` | a Nintendo 64's block has one bus, known by its name, and nothing else has blocks | the comments at `publishDomains` and `memoryDomainHidden` |
| `PictureAssumption` | a woven frame has more lines than a field, in either region | angrylion |
| `RatesAssumption` | a machine's rate, in ares' integers, is within the loop's bounds of sanity; what is declared, 50 and 60 are a screen's rates; the turns suffice for the tolerance | ares' clocks and lines; `machines.h`; 20 * 2^30 is more than a billion |
| `SaveAssumption` | chips and disks are of whole words | the game database; the drive's sectors |
| `NothingAssumption` | saying nothing is no word and no reason, and has no letters | null pointers and empty strings of `Config` |
| `CountsAssumption`, `Sayable` | a project names no more ports and pads than it has settings or options for | `waterbox.cpp`'s settings, `run-native.cpp`'s options |
| `PortsAssumption` | ports of one machine have names of their own, no device is called "none" or "default", a keyboard is not behind a ninth numbered port | ares' trees; `sameDeviceName` |
| `Insertable` | a medium that was found for a machine fits one of its slots, and a cartridge with the second of two like slots has the first | mia's media; Sufami Turbo's slots A and B |

Only model-checked is liveness, `RunEnds`, and with it ENABLED, which the prover does not
reach. Its variant is proved (above); that the next step can always be taken is what TLC
shows.

## 5. Findings

1. **A cut command natively** (`rdp_native_cut`). `vulkan.hpp` says that after any load, of
   ares' own states too, the processor "goes on exactly where the old one was"
   (patch 0033). The half of a command whose list ended is in `Implementation::buffer`,
   which `serialize` does not write; `rebuild` keeps the *running* object's. With the
   sandbox's states it is carried, and `CutComesBack` is proved.
2. **A state carries a disk** (`save_export_in_state`). The export's copy is "let go at the next
   frame, so that no savestate carries a 70MB disk it does not need" (`machine.cpp`
   1191-1192). A state taken after the export and before that frame carries it.
3. **The reference's rewind** (`gate_native_rewind`). "A machine whose state is complete
   cannot tell the difference" (`gate-harness.h` 431-432), and a divergence of the native
   runner's rewind is "the machine's serialization and nothing else" (`run-native.cpp`
   55-56). The adapter's picture, samples and input flag are no part of ares' state: the
   rewound frame is hashed as the next one. The gate's scripts rewind only in the
   sandbox, where `PicturesMatch` is proved (`SamePictures`).
4. **A console's buttons without keys** (`default_keys`). Default keys are for "a console's
   own buttons, and the first port's" (`gen-config.py` 934-935). On a machine that has ports,
   a button is skipped unless its first word is the first port's name (943), and a
   console's own never is: none of the Game Gear's own buttons has a key (the crosses and
   1, 2 that have one are port 1's, Start is nobody's), nor has the Atari 2600's Select.
5. **Conditions of forms that overlap** (`bios_forms`). "Variants are separate entries with
   the SAME id and disjoint conditions" (`gen-config.py` 477-479). Whether an entry gets a
   condition is decided by how many forms are at hand (604), and the other forms' entries
   are kept from before with the condition they had: a computer with one form of a BIOS
   after one with all writes a form that is always asked for beside forms that are asked
   for when chosen, so a project that chose another is asked for both.

Seen besides, and not a finding, since the loop does what it says it stops at: the comment
over `refreshAsRational` (`machine.cpp` 1036-1039) says that the continued fraction "recovers
the original ratio rather than approximating it". That is so of simple ratios, as a Game
Boy's (`run-gate.sh` 853); an MSX's is expected to be 183843/3068 (`run-gate.sh` 860), which
is within a billionth of what its clock divides out to, 1640625/27379, and simpler.
`RateIsTheMachines` says what is true of both.

Three keys of an MSX and of an MSX2 have a `/` in their names (`/ ? め .`, `CLS/HOME` and
`/`; `machines.inc` 564, 609, 618 and 928, 973, 982), and `gen-machines` joins names with
that sign as they are. Their paths are called what `root->find()` resolves
(`machine-inputs.h` 19, `gen-machines.cpp` 59) and it resolves them elsewhere: the three
buttons are in the table and on a movie's log, and drive nothing. `EveryControlIsReached`
says so of them, and that nothing else is lost; since the lookup itself is ares' and not in
the repository, it is told here and not as a finding.

A pad's accessory that ares does not know by that spelling is left out without a word
(`machine.cpp` 485), where a device so misspelt is refused; `BuiltAsAsked` says which.

## 6. What is not modelled

The emulators, mia, miniBox, paraLLEl-RDP and angrylion are not in the repository; they
appear as they are used, as constants or as actions of a machine that may do anything.
Left out, each with its reason under `components` in `PROJECT.json`:

- the Software renderer's rasteriser (all of it static guest memory), the single edits
  inside emulators, the guest's file system;
- of the gate, how options are spelt, the files dumps are written to, the scripts, and
  `run-wbx`'s own calls of miniBox;
- of the package, texts, mnemonics, column headers, file slots, the memory layout and
  the settings the core wrote itself;
- which number a project gives a port, across versions of ares (`Assembly` has it for one
  tree, `WireFormat` for equal connections), and a package across versions of
  `machines.h`: an entry kept for want of its file names the machines of its day;
- the context numbers the frontend gives after a load: the model's are new each time, as
  miniBox's are in one process; what a second process counts from is not in the repository;
- the end of a process whose machine was refused half way: `run-native` returns without
  `shutdown()` (`run-native.cpp` 185-188), and no property speaks of it.

Pixels, loudness beyond a few levels, file formats beyond byte order, hashes of BIOS
files and the rounding of doubles are abstracted.

## 7. Plan

Done: 1 the RDP and its refinement, 2 inputs and their refinement, 3 sound, 4 save data,
5 the table of machines, both readers, assembly and shutdown, 6 the gate with drawing
turned off, digests in mid-run and liveness, 7 picture and memories, 8 wire format and
package; and the proofs of every safety property the runs check, and of the variant of the one
that is liveness.

A frontend that seeks (states in a greenzone, drawing turned off and on) is the gate's
machine with several states set aside; `Gate` has one, and `VulkanRdp`, `Inputs` and
`Picture` have what it would stand on.

Next:

1. A project's ports across versions of ares: `Assembly`'s numbering over `WireFormat`'s
   trees.
2. The machines of `Package` as a variable, with a generation in which one is added.
3. That `gate_run()` can always go on, as a predicate over guards, for a prover that
   reaches ENABLED.
