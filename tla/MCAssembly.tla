------------------------------ MODULE MCAssembly ------------------------------
(* Eight machines of the table that between them have every kind of slot and   *)
(* of port, and one there is not; projects that fill them rightly and wrongly. *)
(* One port lists a device that ares does not make, one machine a keyboard.    *)
(* Three ports have numbers, and settings for two, so the drive's machine has  *)
(* one more than a Config holds and two more than a project can name.          *)
EXTENDS Assembly

Slot(name, node) ==
    [name |-> name, node |-> node, deck |-> FALSE, keyboard |-> FALSE, devices |-> <<>>, made |-> {}]
Deck(name, node) == [Slot(name, node) EXCEPT !.deck = TRUE]
Pad(name) ==
    [Slot(name, name) EXCEPT !.devices = <<"Gamepad", "Arcade Stick", "Light Gun">>,
                             !.made = {"Gamepad", "Arcade Stick"}]
Keyboard(made) ==
    [Slot("Keyboard", "Keyboard") EXCEPT !.devices = <<"Japanese">>, !.keyboard = TRUE, !.made = made]

\* What goes into the slot a gamepad has; the other devices have none.
MCAccessories == [d \in {"Gamepad"} |-> {"pak"}]

MCPorts ==
    [N64 |-> <<Slot("Cartridge Slot", "Nintendo 64 Cartridge"), Pad("Controller Port 1")>>,
     MSX |-> <<Slot("Cartridge Slot", "MSX Cartridge"), Deck("Tray", "MSX Tape"),
               Keyboard({"Japanese"}), Pad("Controller Port 1"), Pad("Controller Port 2")>>,
     MSX2 |-> <<Slot("Cartridge Slot", "MSX Cartridge"), Keyboard({}), Pad("Controller Port 1")>>,
     SFC |-> <<Slot("Cartridge Slot", "Super Famicom Cartridge"),
               Pad("Controller Port 1"), Pad("Controller Port 2")>>,
     GG |-> <<Slot("Cartridge Slot", "Game Gear Cartridge"), Pad("Controller Port 1")>>,
     MCD |-> <<Slot("Cartridge Slot", "Mega Drive Cartridge"),
               Slot("Disc Tray", "Mega CD Disc"), Pad("Controller Port 1")>>,
     PCECD |-> <<Slot("Cartridge Slot", "PC Engine Card"),
                 Slot("Disc Tray", "PC Engine CD Disc"), Pad("Controller Port")>>,
     N64DD |-> <<Slot("Cartridge Slot", "Nintendo 64 Cartridge"),
                 Slot("Disk Drive", "Nintendo 64DD Disk"), Pad("Controller Port 1"),
                 Pad("Controller Port 2"), Pad("Controller Port 3"), Pad("Controller Port 4")>>]

MCUpper(id) ==
    CASE id = "msx" -> "MSX" [] id = "msx2" -> "MSX2" [] id = "sfc" -> "SFC" [] id = "gg" -> "GG" [] id = "mcd" -> "MCD"
      [] id = "pcecd" -> "PCECD" [] id = "n64dd" -> "N64DD" [] OTHER -> "X68000"

MCLetters(name) ==
    CASE name = "Gamepad" -> "gamepad"
      [] name \in {"Arcade Stick", "arcadeStick"} -> "arcadestick"
      [] name = "Light Gun" -> "lightgun"
      [] name = "Japanese" -> "japanese"
      [] OTHER -> name

Words == {Nothing, "", "none", "default", "arcadeStick", "japanese", "paddle", "lightgun"}
Rom(slots) == [tape |-> FALSE, slots |-> slots, regions |-> {"NTSC", "PAL"}]
Game == [Rom({}) EXCEPT !.regions = {"PAL"}]
Tape == [Rom({}) EXCEPT !.tape = TRUE, !.regions = {}]
Roms == {Nothing, Unfilled, Rom({}), Game, Tape}
SlotCartridges ==
    {Game, Rom({"BS Memory Slot"}), Rom({"Super Game Boy/Cartridge Slot"}),
     Rom({"Sufami Turbo Slot A", "Sufami Turbo Slot B"})}
Files == {<<>>} \union {<<a, b>> : a, b \in {Unfilled, "bs", "st", "gbc"}}

\* A project that says nothing but which machine it is for.
Bare(machine) ==
    [machine |-> machine, rom |-> Nothing, save |-> Nothing, pif |-> FALSE, subs |-> <<>>,
     region |-> Nothing, renderer |-> Nothing, cpu |-> Nothing, port |-> <<>>, accessory |-> <<>>]

With(machine, roms, saves, files, regions, said, pads) ==
    {[Bare(machine) EXCEPT !.rom = r, !.save = s, !.subs = f, !.region = g, !.port = w, !.accessory = a] :
        r \in roms, s \in saves, f \in files, g \in regions, w \in said, a \in pads}

Saying(n) == [1 .. n -> Words]
One(word) == {<<>>, <<word>>}

MCProjects ==
    With("msx", Roms, {Nothing, "save"}, {<<>>, <<"st">>}, {"ntsc"}, Saying(2), {<<>>, <<"pak">>, <<"disk">>})
    \union With("msx2", {Nothing, Game}, {Nothing}, {<<>>}, {"ntsc"}, One("default"), {<<>>})
    \union {[p EXCEPT !.renderer = how[1], !.cpu = how[2], !.pif = how[3]] :
              p \in With("n64dd", {Nothing, Game}, {Nothing, Unfilled}, {<<>>}, {Nothing},
                         Saying(2) \union {<<Nothing, w, v>> : w \in Words, v \in {"default", "paddle"}},
                         {<<>>, <<"none", "pak">>}),
              how \in {<<"software", Nothing, FALSE>>, <<"vulkan-hw", "interpreter", TRUE>>}}
    \union With("n64dd", {Game, Tape}, {"save"}, {<<>>}, {"pal"}, {<<>>}, {<<>>})
    \union With("sfc", SlotCartridges, {Nothing}, Files, {"ntsc", "pal"}, One("none"), {<<>>})
    \union With("gg", Roms, {Unfilled}, {<<Unfilled, "st">>, <<>>}, {"pal"}, One("gamepad"), {<<>>})
    \union With("mcd", Roms, {Nothing}, {<<>>}, {"ntsc", "pal"}, One("paddle"), {<<>>})
    \union With("pcecd", Roms, {Nothing}, {<<>>}, {"ntsc"}, One("default"), {<<>>})
    \union {Bare(Nothing), Bare("x68000"), [Bare("x68000") EXCEPT !.rom = Game]}
=============================================================================
