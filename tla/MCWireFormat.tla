----------------------------- MODULE MCWireFormat -----------------------------
(* A handheld with a console's pads beside its own buttons (a Game Gear), a    *)
(* console that offers two devices in a port (a Nintendo 64), and two home     *)
(* computers with a keyboard, a tape, and BIOSes one may not have. Beside them *)
(* the package four computers write in turn: a Mega CD and its 32X, which start *)
(* from one BIOS in a region's form, a PC Engine CD whose plain card is called *)
(* as one of its forms, and a Game Boy, two of them with a Version.            *)
EXTENDS Generated

B(name) == [name |-> name, axis |-> FALSE]
A(name) == [name |-> name, axis |-> TRUE]
Port(name, supported) == [name |-> name, supported |-> supported]
Slot == Port("Slot", <<>>)

Handheld ==
    LET tree(console, pad) == [console |-> console,
                               ports |-> <<Slot, Port("Port 1", <<"Pad">>), Port("Port 2", <<"Pad">>)>>,
                               inputs |-> [Pad |-> pad]]
    IN  [devices |-> <<>>, tape |-> FALSE, typed |-> {}, order |-> <<>>, firmware |-> {},
         trees |-> {tree(<<B("Up"), B("Start")>>, <<B("Up"), B("A")>>),
                    tree(<<B("Start"), B("Up")>>, <<B("Up"), B("A")>>),
                    tree(<<B("Up"), B("Start")>>, <<B("Fire"), B("A")>>),
                    tree(<<B("Up"), B("Start")>>, <<B("Up"), B("A"), B("B")>>)}]

\* Its account lists what the spec asks for: a Mat is never offered.
Console ==
    LET tree(pad, supported) == [console |-> <<>>,
                                 ports |-> <<Port("Port 1", supported), Port("Port 2", supported)>>,
                                 inputs |-> [Pad |-> pad, Mouse |-> <<B("A"), A("X")>>, Mat |-> <<B("Up")>>]]
    IN  [devices |-> <<"Pad", "Mouse">>, tape |-> FALSE, typed |-> {}, order |-> <<>>, firmware |-> {},
         trees |-> {tree(<<B("A"), A("X"), B("Up")>>, <<"Pad", "Mouse">>),
                    tree(<<B("A"), A("X"), B("Up")>>, <<"Mouse", "Mat", "Pad">>),
                    tree(<<B("Up"), A("X"), B("A")>>, <<"Pad", "Mouse">>)}]

\* A keyboard is all there is to play it with.
Spectrum ==
    LET tree(keys) == [console |-> <<>>, ports |-> <<Port("Keyboard", <<"Keys">>)>>, inputs |-> [Keys |-> keys]]
    IN  [devices |-> <<>>, tape |-> TRUE, typed |-> {"1", "Q", "A"}, order |-> <<"1", "Q">>,
         firmware |-> {"bios"},
         trees |-> {tree(<<B("Q"), B("A"), B("1")>>), tree(<<B("A"), B("Q"), B("1")>>)}]

\* A keyboard with a key whose legend is a log key's sign and two with a path's
\* in them, and a pad.
Msx ==
    LET tree(keys) == [console |-> <<>>,
                       ports |-> <<Port("Keyboard", <<"Keys">>), Port("Port 1", <<"Pad">>)>>,
                       inputs |-> [Keys |-> keys, Pad |-> <<B("A")>>]]
    IN  [devices |-> <<>>, tape |-> TRUE, typed |-> {}, order |-> <<>>,
         firmware |-> {"main", "sub"},
         trees |-> {tree(<<B("A"), B("|"), B("CLS/HOME"), B("HOME")>>), tree(<<B("|"), B("A"), B("/")>>),
                    tree(<<B("A"), B("/")>>)}]

MCSpecs == {Handheld, Console, Spectrum, Msx}
MCSpelt == [n \in {"|", "#"} |-> IF n = "|" THEN "(pipe)" ELSE "(hash)"]
MCSplit == [n \in {"CLS/HOME", "/"} |-> IF n = "/" THEN <<"", "">> ELSE <<"CLS", "HOME">>]
MCPrefix == [n \in {"Port 1", "Port 2", "Keyboard"} |->
                IF n = "Port 1" THEN "P1" ELSE IF n = "Port 2" THEN "P2" ELSE "Keyboard"]
MCDefaultKeys == [n \in {"Up", "A", "Fire", "B", "Start"} |->
                     CASE n = "Up" -> "Up" [] n \in {"A", "Fire"} -> "X" [] n = "B" -> "Z" [] n = "Start" -> "Enter"]

MCBioses == <<"megaCdBios", "m32xBoot", "pceSystemCard">>
MCAsks == [c \in {"mcd", "mcd32x", "pcecd", "gb"} |->
              CASE c = "mcd" -> {"megaCdBios"} [] c = "mcd32x" -> {"megaCdBios", "m32xBoot"}
                [] c = "pcecd" -> {"pceSystemCard"} [] c = "gb" -> {}]
MCForms == [id \in Range(MCBioses) |->
               CASE id = "megaCdBios" -> <<"usa", "japan", "europe">>
                 [] id = "m32xBoot" -> <<>>
                 [] id = "pceSystemCard" -> <<"jp", "us">>]
MCFileName == [id \in Range(MCBioses) |-> [f \in {"usa", "japan", "europe", "jp", "us", "plain"} |->
                  IF id = "pceSystemCard" /\ f = "plain" THEN "jp" ELSE f]]
MegaCd(forms) == {<<"megaCdBios", f>> : f \in forms}
Cards(forms) == {<<"pceSystemCard", f>> : f \in forms}
Boot == {<<"m32xBoot", "plain">>}
MCDumps == {{},
            MegaCd({"plain"}) \union Boot,
            MegaCd({"plain", "usa", "japan", "europe"}) \union Boot \union Cards({"plain", "jp", "us"}),
            MegaCd({"japan"}) \union Cards({"plain"})}
MCOffers == [c \in DOMAIN MCAsks |->
                CASE c = "gb" -> <<[name |-> "Version", path |-> "gb/ppu", options |-> <<"B", "C">>]>>
                  [] c = "pcecd" -> <<[name |-> "Version", path |-> "pce/vdp", options |-> <<"1", "2">>]>>
                  [] OTHER -> <<>>]
MCIdent == [n \in {"Version"} |-> "version"]
=============================================================================
