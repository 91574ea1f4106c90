------------------------------- MODULE Assembly -------------------------------
(* How a project becomes a machine. A reader - the core's own Init, or the     *)
(* reference runner's options - makes a Config of what the project says, and   *)
(* machine::init puts the machine together out of that: the game in its slot,  *)
(* more cartridges in the cartridge's own, a device in every port the project  *)
(* numbers. One action for one turn of a loop or one step that may refuse, in  *)
(* the order of the code; a machine refused is never run.                      *)
EXTENDS Machines, Integers, FiniteSets, SequencesExt, Lists

CONSTANTS
    Ports,          \* the ports ares gives a machine, by its id, in ares' order: the
                    \* devices each lists, and those of them that ares makes
    Projects,       \* what projects say
    Upper(_),       \* a machine's name in capitals
    Letters(_),     \* a device's name as its letters alone (sameDeviceName)
    KeyboardNames,  \* the letters of the built-in keyboards' layouts
    Accessories,    \* the devices with a slot of their own, and what ares has for it
    MaxPorts,       \* the ports a Config has (8)
    PortSettings,   \* the ports a project has a setting for (4)
    PadSettings,    \* and for what is in their pad's slot (2)
    Unfilled        \* a slot of the project's with nothing in it: an empty file

\* Why a machine may be refused, by the names of the texts.
Reasons ==
    {"usage", "error.n64_needs_vulkan", "error.no_machine", "error.no_system", "error.system_pak",
     "error.bios_not_loaded", "error.no_firmware_medium", "error.pif", "error.no_file",
     "error.no_medium", "error.game_not_loaded", "error.save_n64_only", "error.save_not_opened",
     "error.save_size", "error.no_save_chip", "error.no_slot", "error.second_cart",
     "error.not_built", "error.cartridge_no_slot", "error.no_keyboard", "error.no_device",
     "error.no_accessory_slot"}

\* A slot is mounted whether or not the project filled it; an empty file is none.
Filled(file) == IF file = Unfilled THEN Nothing ELSE file

\* machineId: the id a project records, in capitals, or the Nintendo 64.
MachineId(p) == IF p.machine = Nothing THEN "N64" ELSE Upper(p.machine)

\* Saying nothing is neither a reason nor a word, and a name without letters
\* has none.
ASSUME NothingAssumption ==
    /\ Nothing \notin Reasons \union {"", "none"}
    /\ Letters("") = "" /\ Letters("none") = "none"

ASSUME CountsAssumption ==
    MaxPorts \in Nat /\ PortSettings \in 0 .. MaxPorts /\ PadSettings \in 0 .. MaxPorts

\* A project says so much at the most, "none" in that spelling, and there are
\* ports for whatever machine of the table it is for.
Sayable(p) ==
    /\ DOMAIN p = {"machine", "rom", "save", "pif", "subs", "region", "renderer", "cpu", "port", "accessory"}
    /\ IsList(p.subs) /\ IsList(p.port) /\ IsList(p.accessory)
    /\ Len(p.port) <= MaxPorts /\ Len(p.accessory) <= PadSettings
    /\ \A w \in Range(p.port) \ {Nothing, "none"} : Letters(w) # "none"
    /\ MachineId(p) \in DOMAIN All => MachineId(p) \in DOMAIN Ports

ASSUME ProjectsAssumption == \A p \in Projects : Sayable(p)

\* ares names a machine's ports and a cartridge's slots apart; no device has a
\* name that is another word; and no keyboard comes after a port too many.
ASSUME PortsAssumption ==
    \A id \in DOMAIN Ports :
       LET all == Ports[id]
           numbered(i) == {k \in 1 .. i : all[k].devices # <<>> /\ ~all[k].keyboard}
       IN  /\ IsList(all)
           /\ \A i, j \in 1 .. Len(all) :
                 /\ all[i].name = all[j].name => i = j
                 /\ i < j /\ Cardinality(numbered(i)) > MaxPorts => ~all[j].keyboard
           /\ \A p \in Range(all) :
                 /\ IsList(p.devices) /\ "game" \notin Range(p.devices)
                 /\ ~p.keyboard => \A d \in Range(p.devices) :
                                       Letters(d) \notin KeyboardNames \union {"", "none", "default"}
                 /\ id \in DOMAIN All => \A s \in Range(All[id].subSlots) : s.port # p.name

\* A medium fits a slot of the machine it is for; and a cartridge with the
\* second of two slots alike has the first.
Insertable(p) ==
    p.rom \notin {Nothing, Unfilled} /\ MachineId(p) \in DOMAIN All =>
       LET s == All[MachineId(p)]
       IN  /\ \E q \in Range(Ports[MachineId(p)]) :
                 /\ q.devices = <<>> /\ q.name # s.portLeftEmpty /\ q.node # s.firmwareNode
                 /\ s.mediumNode \in {Nothing, q.node} /\ (q.deck => p.rom.tape)
           /\ \A i, j \in 1 .. Len(s.subSlots) :
                 i < j /\ s.subSlots[i].extensions = s.subSlots[j].extensions
                 /\ s.subSlots[j].port \in p.rom.slots => s.subSlots[i].port \in p.rom.slots

ASSUME MediaAssumption == \A p \in Projects : Insertable(p)

VARIABLES
    project,
    reader,     \* "core" in the sandbox, or "runner", the native reference
    bridge,     \* whether the host offered its Vulkan device before Init
    suggested,  \* whether the project took the region its game suggests
    config,     \* what the reader made of the project
    step,       \* where Init() is
    todo,       \* what its loop has still to go through
    number,     \* of the controller port it has come to
    subs,       \* the slots the further cartridges were given, in their order
    told,       \* the options ares was given before it built the machine
    content,    \* what is in each port, by the port's name; <<>> for nothing
    held,       \* what the adapter holds of ares' machine
    standing,   \* whether what the machine's nodes point at is there
    error

vars == <<project, reader, bridge, suggested, config, step, todo, number, subs, told, content,
          held, standing, error>>

Steps == {"project", "system", "medium", "save", "subs", "media", "subslots", "ports", "power",
          "built", "refused", "unloading", "ended"}

\* The machine, and the ports ares gives it.
spec == Find(config.machine)
ports == Ports[config.machine]
Nintendo64(machine) == machine \in DOMAIN All /\ All[machine].load = "Nintendo64"

TypeOK ==
    /\ reader \in {"core", "runner"} /\ bridge \in BOOLEAN
    /\ suggested => reader = "core" /\ project.region \in {"ntsc", "pal"}
    /\ step \in Steps
    /\ IF step = "project" THEN config = Nothing ELSE config.machine = MachineId(project)
    /\ step = "subs" => todo \in Seq(Range(config.subs))
    /\ step \in {"media", "ports"} => todo \in Seq(Range(ports))
    /\ step = "subslots" => todo \in Seq(Range(spec.subSlots))
    /\ number \in 0 .. MaxPorts
    /\ step \in {"media", "subslots", "ports", "power", "built"} =>
           {p.name : p \in Range(ports)} \subseteq DOMAIN content
    /\ held \subseteq {"buttons", "tape", "streams", "buses", "root"}
    /\ error \in Reasons \union {Nothing} /\ (step = "refused" => error # Nothing)

\* The ports that take a device; the others are slots.
Takers == {p \in Range(ports) : p.devices # <<>>}

\* A Config that says nothing of any port leaves the machine its controller.
NobodySaid == \A n \in 1 .. MaxPorts : config.port[n] = Nothing

\* The ports of the tree: the machine's, and the cartridge's once it is in.
CartridgePorts == IF <<"game">> \in Range(content) THEN config.rom.slots ELSE {}

\* A mutant of Refuse: it does not say why.
RefuseSilently(why) ==
    /\ step' = "refused"
    /\ UNCHANGED <<project, reader, bridge, suggested, config, todo, number, subs, told, content, held, standing, error>>

Refuse(why) ==
    /\ step' = "refused"
    /\ error' = why
    /\ UNCHANGED <<project, reader, bridge, suggested, config, todo, number, subs, told, content, held, standing>>

Go(next, loop) ==
    /\ step' = next
    /\ todo' = loop
    /\ UNCHANGED <<project, reader, bridge, suggested, config, number, standing, error>>

Init ==
    /\ project \in Projects
    /\ reader \in {"core"} \union (IF project.accessory = <<>> THEN {"runner"} ELSE {})
    /\ reader = "core" => ~project.pif /\ Len(project.port) <= PortSettings
    /\ bridge \in (IF reader = "core" THEN BOOLEAN ELSE {FALSE})
    /\ suggested = FALSE
    /\ config = Nothing
    /\ step = "project"
    /\ todo = <<>> /\ number = 0 /\ subs = <<>> /\ told = {} /\ content = <<>>
    /\ held = {} /\ standing = TRUE
    /\ error = Nothing

-----------------------------------------------------------------------------
\* The n-th word of a list that ends where nothing more was said.
Word(words, n) == IF n <= Len(words) THEN words[n] ELSE Nothing

\* "none" is a decision, to leave a port empty; saying nothing is another.
SettingString(word) == IF word = "none" THEN "" ELSE word

\* The Config either reader makes, which has so many ports.
Read(ofPort, ofPad, pif) ==
    [machine |-> MachineId(project), rom |-> Filled(project.rom), save |-> Filled(project.save), pif |-> pif,
     subs |-> LET mounted == [i \in 1 .. Len(project.subs) |-> Filled(project.subs[i])]
              IN  Only(mounted, Range(mounted) \ {Nothing}),
     pal |-> project.region = "pal", softwareRDP |-> project.renderer = "software",
     interpreter |-> project.cpu = "interpreter",
     port |-> [n \in 1 .. MaxPorts |-> IF n <= ofPort THEN SettingString(Word(project.port, n)) ELSE Nothing],
     accessory |-> [n \in 1 .. MaxPorts |-> IF n <= ofPad THEN SettingString(Word(project.accessory, n)) ELSE Nothing]]

\* Init: the project's settings and slots, and no RDP without the device.
ReadByCore ==
    /\ step = "project" /\ reader = "core"
    /\ config' = Read(PortSettings, PadSettings, FALSE)
    /\ IF config'.machine \in {"N64", "N64DD"} /\ ~config'.softwareRDP /\ ~bridge
       THEN step' = "refused" /\ error' = "error.n64_needs_vulkan"
       ELSE step' = "system" /\ UNCHANGED error
    /\ UNCHANGED <<project, reader, bridge, suggested, todo, number, subs, told, content, held, standing>>

\* run-native: the same said by options - none for a slot with nothing in it, the
\* table's own id for the machine - with a port's number of any up to the most,
\* and the use of the program told where there is nothing to boot.
ReadByRunner ==
    /\ step = "project" /\ reader = "runner"
    /\ config' = Read(MaxPorts, 0, project.pif)
    /\ IF config'.rom = Nothing /\ (Find(config'.machine) = Nothing \/ ~Find(config'.machine).bootsWithoutMedium)
       THEN step' = "refused" /\ error' = "usage"
       ELSE step' = "system" /\ UNCHANGED error
    /\ UNCHANGED <<project, reader, bridge, suggested, todo, number, subs, told, content, held, standing>>

\* A mutant of GameRegion: a game for several regions is for the first of them.
GameRegionFirst(game) == IF "NTSC" \in game.regions THEN "ntsc" ELSE IF game.regions = {} THEN Nothing ELSE "pal"

\* gameRegion: the one region the game is for, if it is for one.
GameRegion(game) ==
    CASE game.regions = {"NTSC"} -> "ntsc" [] game.regions = {"PAL"} -> "pal" [] OTHER -> Nothing

\* The project window asks before anything is built, and takes what it is told,
\* of a machine that has both forms and a game that reads.
SuggestSettings ==
    /\ step = "project" /\ reader = "core" /\ ~suggested
    /\ MachineId(project) \in DOMAIN All /\ All[MachineId(project)].pal
    /\ Filled(project.rom) # Nothing /\ GameRegion(project.rom) # Nothing
    /\ project' = [project EXCEPT !.region = GameRegion(project.rom)]
    /\ suggested' = TRUE
    /\ UNCHANGED <<reader, bridge, config, step, todo, number, subs, told, content, held, standing, error>>

-----------------------------------------------------------------------------
\* What may be wrong with the system's pak: the BIOS files are read by it, all
\* of them together, or the BIOS is a medium of its own and the pak has none.
SystemErrors ==
    {"error.no_system"}
    \union (IF spec.firmwareNode # Nothing
            THEN {"error.no_firmware_medium", "error.bios_not_loaded", "error.system_pak"}
            ELSE IF spec.firmware # <<>> THEN {"error.bios_not_loaded"} ELSE {"error.system_pak"})
    \union (IF config.pif /\ spec.load = "Nintendo64" THEN {"error.pif"} ELSE {})

System ==
    /\ step = "system"
    /\ IF spec = Nothing THEN Refuse("error.no_machine")
       ELSE \/ \E why \in SystemErrors : Refuse(why)
            \/ Go("medium", <<>>) /\ UNCHANGED <<subs, told, content, held>>

\* What may be wrong with a medium, mia's reasons taken together.
MediumErrors(unread) == {"error.no_medium", unread}

Medium ==
    /\ step = "medium"
    /\ IF config.rom = Nothing /\ ~spec.bootsWithoutMedium THEN Refuse("error.no_file")
       ELSE \/ \E why \in MediumErrors("error.game_not_loaded") : config.rom # Nothing /\ Refuse(why)
            \/ Go("save", <<>>) /\ UNCHANGED <<subs, told, content, held>>

\* The save data goes into the cartridge's chip before the cartridge is plugged
\* in; SaveData has what seedSave() makes of it.
SaveErrors == {"error.save_not_opened", "error.save_size", "error.no_save_chip"}

Save ==
    /\ step = "save"
    /\ IF config.save # Nothing /\ (spec.load # "Nintendo64" \/ config.rom = Nothing)
       THEN Refuse("error.save_n64_only")
       ELSE \/ \E why \in SaveErrors : config.save # Nothing /\ Refuse(why)
            \/ Go("subs", config.subs) /\ UNCHANGED <<subs, told, content, held>>

\* Whether a file before this one took the slot already.
Taken(slot) == \E i \in 1 .. Len(subs) : subs[i].port = slot.port

\* The slots of the table a file goes into, by its extension.
Offered(ext) == {i \in 1 .. Len(spec.subSlots) :
                    ext \in spec.subSlots[i].extensions /\ ~Taken(spec.subSlots[i])}

\* One further cartridge: the first slot of the table that takes its extension
\* and that no file before it took.
SubCartridge ==
    /\ step = "subs" /\ todo # <<>>
    /\ LET fits == Offered(Head(todo))
       IN  IF fits = {} THEN Refuse("error.no_slot")
           ELSE \/ \E why \in MediumErrors("error.second_cart") : Refuse(why)
                \/ /\ subs' = Append(subs, spec.subSlots[CHOOSE i \in fits : \A j \in fits : i <= j])
                   /\ Go("subs", Tail(todo))
                   /\ UNCHANGED <<told, content, held>>

\* What ares is told before it builds: the table's options and, for a Nintendo
\* 64, whether it recompiles and which of the two renderers draws.
Told ==
    spec.options
    \union (IF spec.load = "Nintendo64" /\ ~config.interpreter THEN {"Recompiler"} ELSE {})
    \union (IF spec.load = "Nintendo64" /\ ~config.softwareRDP THEN {"Enable GPU acceleration"} ELSE {})

\* The machine is built, and the sweep begins over the ports it has.
LoadRoot ==
    /\ step = "subs" /\ todo = <<>>
    /\ \/ Refuse("error.not_built")
       \/ /\ told' = Told
          /\ content' = [n \in {p.name : p \in Range(ports)} |-> <<>>]
          /\ held' = {"root", "streams"}
          /\ Go("media", Only(ports, Range(ports) \ Takers))
          /\ UNCHANGED subs

\* A mutant of PakFor: a deck is handed whatever medium there is.
PakForAnyDeck(p) ==
    CASE spec.firmwareNode = p.node -> <<"card">>
      [] spec.firmwareNode # p.node /\ spec.mediumNode \in {Nothing, p.node}
         /\ config.rom # Nothing -> <<"game">>
      [] OTHER -> <<>>

\* pak(): what the node of a slot of the console's is handed. A tape deck asks
\* as a cartridge slot does, and is handed a medium only if that is a tape.
PakFor(p) ==
    CASE spec.firmwareNode = p.node -> <<"card">>
      [] spec.firmwareNode # p.node /\ spec.mediumNode \in {Nothing, p.node}
         /\ config.rom # Nothing /\ (p.deck => config.rom.tape) -> <<"game">>
      [] OTHER -> <<>>

MediaPort ==
    /\ step = "media" /\ todo # <<>>
    /\ content' = IF Head(todo).name = spec.portLeftEmpty THEN content
                  ELSE [content EXCEPT ![Head(todo).name] = PakFor(Head(todo))]
    /\ Go("media", Tail(todo))
    /\ UNCHANGED <<subs, told, held>>

MediaDone ==
    /\ step = "media" /\ todo = <<>>
    /\ Go("subslots", subs)
    /\ UNCHANGED <<subs, told, content, held>>

\* A further cartridge goes into the slot of that name, if the game has it.
SubSlot ==
    /\ step = "subslots" /\ todo # <<>>
    /\ IF Head(todo).port \notin CartridgePorts THEN Refuse("error.cartridge_no_slot")
       ELSE /\ content' = [n \in DOMAIN content \union {Head(todo).port} |->
                              IF n = Head(todo).port THEN <<"cartridge">> ELSE content[n]]
            /\ Go("subslots", Tail(todo))
            /\ UNCHANGED <<subs, told, held>>

\* A mutant of IsControllerPort: a built-in keyboard is a port like another.
AnyPort(p) == p.devices # <<>>

\* The ports a project numbers: they take devices and are not the keyboard.
IsControllerPort(p) == p.devices # <<>> /\ ~p.keyboard

SubSlotsDone ==
    /\ step = "subslots" /\ todo = <<>>
    /\ Go("ports", Only(ports, Takers))
    /\ UNCHANGED <<subs, told, content, held>>

\* Said(n, word): the Config says that of its n-th port.
Said(n, word) == config.port[n] # Nothing /\ Letters(config.port[n]) = word

\* The n-th port is to have the machine's ordinary controller.
Default(n) == Said(n, "default") \/ (n = 1 /\ NobodySaid)

\* The n-th port is left empty: nothing is said of it, or "none", or the name
\* of the keyboard that is connected already.
LeftEmpty(n) ==
    ~Default(n) /\ (config.port[n] = Nothing \/ \E k \in KeyboardNames \union {""} : Said(n, k))

\* A mutant of Matches: a device is known only by ares' own spelling of it.
MatchesSpelt(p, n) ==
    IF Default(n) THEN <<Head(p.devices)>>
    ELSE Only(p.devices, {config.port[n]})

\* The port's devices of the name that is asked for, letters alone compared.
Matches(p, n) ==
    IF Default(n) THEN <<Head(p.devices)>>
    ELSE Only(p.devices, {d \in Range(p.devices) : Said(n, Letters(d))})

Plug(p, what) ==
    /\ content' = [content EXCEPT ![p.name] = what]
    /\ todo' = Tail(todo)
    /\ UNCHANGED <<project, reader, bridge, suggested, config, step, subs, told, held, standing, error>>

\* A machine's own keyboard is part of it: always there, and never numbered.
KeyboardPort ==
    /\ step = "ports" /\ todo # <<>> /\ ~IsControllerPort(Head(todo))
    /\ LET p == Head(todo)
       IN  IF Head(p.devices) \notin p.made THEN Refuse("error.no_keyboard")
           ELSE Plug(p, <<Head(p.devices)>>) /\ UNCHANGED number

\* A device as it is plugged in: what goes into its own slot is asked for as the
\* project spells it, and ares leaves the slot empty if it has nothing so called.
Equipped(device, accessory) ==
    <<device>> \o (IF accessory # "" /\ accessory \in Accessories[device] THEN <<accessory>> ELSE <<>>)

\* A numbered port, with the first of its devices so called, and with what that
\* has in a slot of its own.
DevicePort ==
    /\ step = "ports" /\ todo # <<>> /\ IsControllerPort(Head(todo)) /\ number < MaxPorts
    /\ LET p == Head(todo)
           n == number + 1
           accessory == IF config.accessory[n] = Nothing THEN "" ELSE config.accessory[n]
       IN  IF LeftEmpty(n) THEN Plug(p, <<>>) /\ number' = n
           ELSE IF Matches(p, n) = <<>> THEN Refuse("error.no_device")
           ELSE IF Head(Matches(p, n)) \notin p.made THEN Refuse("error.no_device")
           ELSE IF accessory # "" /\ Head(Matches(p, n)) \notin DOMAIN Accessories
           THEN Refuse("error.no_accessory_slot")
           ELSE Plug(p, Equipped(Head(Matches(p, n)), accessory)) /\ number' = n

\* The loop ends with the ports, or at a ninth one to number.
LoopEnded == todo # <<>> => number = MaxPorts /\ IsControllerPort(Head(todo))

PortsDone ==
    /\ step = "ports" /\ LoopEnded
    /\ Go("power", <<>>)
    /\ UNCHANGED <<subs, told, content, held>>

\* The settings, power, and a Nintendo 64's device, which a card may not make;
\* then the nodes that inputs and buses drive are found, and kept.
Power ==
    /\ step = "power"
    /\ \/ spec.load = "Nintendo64" /\ ~config.softwareRDP /\ Refuse("error.n64_needs_vulkan")
       \/ /\ held' = held \union {"buttons", "buses"}
                       \union {n \in {"tape"} : \E p \in Range(ports) : p.deck}
          /\ Go("built", <<>>)
          /\ UNCHANGED <<subs, told, content>>

-----------------------------------------------------------------------------
\* A mutant of LetGo: the tape's node is left to the end, as it once was.
LetGoButTape == <<"buttons", "streams", "buses", "root">>

\* What shutdown() lets go of, in its order: the nodes, then the tree they are
\* in. A node is unloaded when neither holds it any more.
LetGo == <<"buttons", "tape", "streams", "buses", "root">>

\* The reference runner, when its run is over.
Shutdown ==
    /\ reader = "runner" /\ step = "built"
    /\ Go("unloading", LetGo)
    /\ UNCHANGED <<subs, told, content, held>>

Unload ==
    /\ step = "unloading" /\ todo # <<>>
    /\ held' = held \ {Head(todo)}
    /\ Go("unloading", Tail(todo))
    /\ UNCHANGED <<subs, told, content>>

\* The process ends, at once where the machine was refused, and what is static
\* goes in whatever order the linker chose.
Exit(what) ==
    /\ reader = "runner"
    /\ step \in {"refused", "ended"} \/ (step = "unloading" /\ todo = <<>>)
    /\ step' = "ended"
    /\ held' = held \ {what}
    /\ standing' = (standing /\ what # "machine")
    /\ UNCHANGED <<project, reader, bridge, suggested, config, todo, number, subs, told, content, error>>

Next ==
    \/ SuggestSettings \/ ReadByCore \/ ReadByRunner
    \/ System \/ Medium \/ Save \/ SubCartridge \/ LoadRoot
    \/ MediaPort \/ MediaDone \/ SubSlot \/ SubSlotsDone \/ KeyboardPort \/ DevicePort \/ PortsDone
    \/ Power \/ Shutdown \/ Unload
    \/ \E what \in held \union {m \in {"machine"} : standing} : Exit(what)

Spec == Init /\ [][Next]_vars
-----------------------------------------------------------------------------
\* How many of the ports that take devices, the keyboard aside, come up to i.
Numbered(i) == Cardinality({j \in 1 .. i : ports[j].devices # <<>> /\ ~ports[j].keyboard})

\* What a list of the project's says of its n-th place, and what it put there.
Says(words, n) == IF n > Len(words) THEN Nothing ELSE words[n]
Has(place) == place \notin {Nothing, Unfilled}
Further == Only(project.subs, {f \in Range(project.subs) : Has(f)})

\* The devices the project asks for in its n-th port p: those so called.
DevicesAsked(p, n) ==
    LET word == IF n <= MaxPorts THEN Says(project.port, n) ELSE "none"
        silent == \A i \in 1 .. Len(project.port) : project.port[i] = Nothing
    IN  IF word = Nothing THEN IF n = 1 /\ silent THEN {p.devices[1]} ELSE {}
        ELSE IF Letters(word) = "default" THEN {p.devices[1]}
        ELSE {d \in Range(p.devices) : Letters(d) = Letters(word)}

\* Whether it asks for something in that device's own slot.
PadAsked(n) == Says(project.accessory, n) \notin {Nothing, "", "none"}

\* What it asks for in that port, as a set of what may be there: one of those
\* devices that there is, and in its slot what is asked for if there is that.
Wanted(p, n) ==
    IF DevicesAsked(p, n) = {} THEN {<<>>}
    ELSE LET there == {d \in DevicesAsked(p, n) \intersect p.made : PadAsked(n) => d \in DOMAIN Accessories}
             pad == Says(project.accessory, n)
         IN  {<<d>> \o (IF PadAsked(n) /\ pad \in Accessories[d] THEN <<pad>> ELSE <<>>) : d \in there}

\* A machine that was built is the one the project asks for, whichever of the
\* two readers built it: "they share this so that 'native and sandbox agree' is
\* a claim about the SANDBOX". Its ports are counted without the keyboard and
\* without the slots, each has its device and no other, with the accessory of
\* the project's in it if ares has one so called; every further cartridge is in
\* a slot of its own that takes it; its region is the game's if the
\* project took what its game suggests; and a Nintendo 64 computes and draws as
\* the settings say, from a power-on that is the same every time.
BuiltAsAsked ==
    step = "built" =>
       /\ \A i \in 1 .. Len(ports) :
             LET p == ports[i]
             IN  p.devices # <<>> =>
                    content[p.name] \in IF p.keyboard THEN {<<p.devices[1]>>} ELSE Wanted(p, Numbered(i))
       /\ Len(subs) = Len(Further)
       /\ \A i \in 1 .. Len(subs) :
             /\ Further[i] \in subs[i].extensions
             /\ content[subs[i].port] = <<"cartridge">>
             /\ \A j \in 1 .. i - 1 : subs[j].port # subs[i].port
       /\ suggested => config.pal = ("PAL" \in project.rom.regions) /\ Cardinality(project.rom.regions) = 1
       /\ Nintendo64(config.machine) =>
             told = {"Deterministic Entropy"}
                    \union {o \in {"Recompiler"} : project.cpu # "interpreter"}
                    \union {o \in {"Enable GPU acceleration"} : project.renderer # "software"}

\* The medium is in a slot of a machine that was built, and in none that would
\* take it for what it is not: a deck handed a cartridge divides by the rate it
\* lacks, a drive's machine with its cartridge slot opened boots from that.
GameIsWhereItBelongs ==
    step = "built" =>
       LET places == {p \in Range(ports) : content[p.name] = <<"game">>}
       IN  /\ Has(project.rom) = (places # {})
           /\ \A p \in places :
                 /\ p.deck => project.rom.tape
                 /\ p.name # spec.portLeftEmpty
                 /\ spec.mediumNode \in {Nothing, p.node}

\* The ways the project's further files can all be put into slots of their own.
Placings(slots) ==
    {f \in [1 .. Len(Further) -> 1 .. Len(spec.subSlots)] :
        /\ \A i, j \in DOMAIN f : i # j => f[i] # f[j]
        /\ \A i \in DOMAIN f : /\ Further[i] \in spec.subSlots[f[i]].extensions
                                /\ spec.subSlots[f[i]].port \in slots}

\* The ports that a project may ask a device for, by where ares has them.
Asking == {i \in 1 .. Len(ports) :
              ports[i].devices # <<>> /\ ~ports[i].keyboard /\ Numbered(i) <= MaxPorts}

\* What a port may want for: the machine's own keyboard, a device that is called
\* as the project says or that ares makes, a slot for what is to go into it.
KeyboardMissing == \E p \in Range(ports) : p.keyboard /\ p.devices # <<>> /\ p.devices[1] \notin p.made
DeviceMissing ==
    \E i \in Asking :
       LET n == Numbered(i)
       IN  IF DevicesAsked(ports[i], n) = {}
           THEN /\ Says(project.port, n) # Nothing
                /\ Letters(project.port[n]) \notin KeyboardNames \union {"", "none", "default"}
           ELSE ~(DevicesAsked(ports[i], n) \subseteq ports[i].made)
SlotMissing ==
    \E i \in Asking :
       PadAsked(Numbered(i)) /\ ~(DevicesAsked(ports[i], Numbered(i)) \subseteq DOMAIN Accessories)

\* A machine is refused only for what cannot be had: the first slot that takes
\* a file is never the wrong one to have given it, a project made before the
\* keyboard stopped being numbered, which names it in a port, still loads, and
\* a slot that is mounted empty is no game, no save and no cartridge. A device
\* is refused where none is called so, or where ares does not make one that is;
\* an accessory where a device that is asked for has no slot.
RefusedForCause ==
    /\ error \in {"usage", "error.no_file"} => ~Has(project.rom)
    /\ error = "error.save_n64_only" =>
          Has(project.save) /\ (Has(project.rom) => ~Nintendo64(config.machine))
    /\ error = "error.no_slot" => Placings({s.port : s \in Range(spec.subSlots)}) = {}
    /\ error = "error.cartridge_no_slot" => ~Has(project.rom) \/ Placings(project.rom.slots) = {}
    /\ error = "error.no_keyboard" => KeyboardMissing
    /\ error = "error.no_device" => DeviceMissing
    /\ error = "error.no_accessory_slot" => SlotMissing

\* Nothing the adapter holds of a machine that ran is left when what its nodes
\* point at goes: "a ZX Spectrum's tape node outlived the Tape object its unload
\* callback captures". A machine that was refused half way is not taken apart.
NothingOutlivesItsMachine == ~standing /\ error = Nothing => held = {}
=============================================================================
