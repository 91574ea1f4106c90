------------------------------ MODULE MCOutputs ------------------------------
(* Two voices, pictures of every size there is a rule for, rates that come back*)
(* as they were and one that does not, and a Nintendo 64 beside a handheld.    *)
EXTENDS Outputs, MCSaveData

CONSTANTS psg, fm

MCStreams == {psg, fm}
MCAmplitudes == {-2, 1}
MCLeast == -2
MCChannels == [s \in MCStreams |-> IF s = psg THEN 1 ELSE 2]

MCAtFirst == <<3, 4, 6>>
MCScreens == {<<3, 3>>, <<2, 6>>, <<4, 7>>, <<1, 1>>}
MCFrame(w, h, woven) == [width |-> w, height |-> h, woven |-> woven]
MCFrames == {MCFrame(2, 3, FALSE), MCFrame(3, 6, TRUE), MCFrame(1, 4, TRUE)}
MCHints == {<<14, 3>>, <<20, 1>>, <<60, 1>>, <<922, 23>>, <<358, 6>>, <<415, 7>>, <<130, 1>>}
MCDeclarations == {<<0, 0>>, <<119, 2>>}
MCBand == <<20, 130>>

Named(name, store) == [name |-> name, store |-> store]
Nintendo64 == [n64 |-> TRUE,
               blocks |-> <<Named("RDRAM", "ram"), Named("SRAM", "sram"), Named("EEPROM", "eeprom")>>,
               buses |-> <<Named("Cartridge SRAM", "sram"), Named("RDRAM", "ram")>>]
Handheld == [n64 |-> FALSE, blocks |-> <<>>, buses |-> <<Named("Work RAM", "ram"), Named("Save RAM", "sram")>>]
MCMachines == {Nintendo64, Handheld}
MCStoreSize == [s \in {"ram", "sram", "eeprom"} |-> CASE s = "ram" -> 4 [] s = "sram" -> 2 [] s = "eeprom" -> 0]
MCOctets == {0, 1}
=============================================================================
