-------------------------------- MODULE Machines --------------------------------
(* The table of the machines this core offers: what each needs of its builder  *)
(* that a console with nothing but a cartridge slot does not. Names, picture   *)
(* sizes and file extensions are left out; ports and devices are ares'.        *)
EXTENDS Sequences

CONSTANT Nothing

\* A machine of ares' loader that needs nothing but a cartridge.
Console(loader, pal) ==
    [load |-> loader, pal |-> pal, firmware |-> <<>>, bootsWithoutMedium |-> FALSE,
     options |-> {}, mediumNode |-> Nothing, firmwareNode |-> Nothing, subSlots |-> <<>>,
     portLeftEmpty |-> Nothing]

\* One that starts from BIOS files, the extra ones after the first.
WithBios(loader, pal, files) == [Console(loader, pal) EXCEPT !.firmware = files]

\* The options a machine is given before it is built: a chip's implementation,
\* a power-on state that is the same every time.
Pinned == {"Deterministic Entropy"}
Accurate == {"Pixel Accuracy"}

SubSlots ==
    <<[extensions |-> {"bs"}, port |-> "BS Memory Slot"],
      [extensions |-> {"st"}, port |-> "Sufami Turbo Slot A"],
      [extensions |-> {"st"}, port |-> "Sufami Turbo Slot B"],
      [extensions |-> {"gb", "gbc"}, port |-> "Super Game Boy/Cartridge Slot"]>>

Mega32X == <<"m32xVector", "m32xBootM", "m32xBootS">>

\* Those that need nothing of the user but a medium, and the disk drive.
Cartridges ==
    [N64 |-> [Console("Nintendo64", TRUE) EXCEPT !.options = Pinned],
     N64DD |-> [WithBios("Nintendo64", FALSE, <<"n64ddIpl">>) EXCEPT
                   !.options = Pinned, !.bootsWithoutMedium = TRUE,
                   !.mediumNode = "Nintendo 64DD Disk", !.portLeftEmpty = "Cartridge Slot"],
     NES |-> Console("Famicom", TRUE),         GEN |-> Console("MegaDrive", TRUE),
     SMS |-> Console("MasterSystem", TRUE),    GG |-> Console("MasterSystem", FALSE),
     SG |-> Console("SG1000", TRUE),           A26 |-> Console("Atari2600", TRUE),
     MYV |-> Console("MyVision", FALSE)]

\* Those ares cannot build without a console's BIOS.
BiosMachines ==
    [GB |-> WithBios("GameBoy", FALSE, <<"gbBoot">>),
     GBC |-> WithBios("GameBoy", FALSE, <<"gbcBoot">>),
     WS |-> WithBios("WonderSwan", FALSE, <<"wsBoot">>),
     WSC |-> WithBios("WonderSwan", FALSE, <<"wscBoot">>),
     ZXS |-> WithBios("ZXSpectrum", FALSE, <<"zxsBios">>),
     GBA |-> WithBios("GameBoyAdvance", FALSE, <<"gbaBios">>),
     CV |-> WithBios("ColecoVision", TRUE, <<"cvBios">>),
     MSX |-> [WithBios("MSX", TRUE, <<"msxBios">>) EXCEPT !.bootsWithoutMedium = TRUE],
     PS1 |-> [WithBios("PlayStation", TRUE, <<"ps1Bios">>) EXCEPT !.bootsWithoutMedium = TRUE],
     A52 |-> WithBios("Atari5200", FALSE, <<"a52Bios">>),
     NGP |-> WithBios("NeoGeoPocket", FALSE, <<"ngpBios">>),
     NGPC |-> WithBios("NeoGeoPocket", FALSE, <<"ngpcBios">>),
     NG |-> WithBios("NeoGeo", FALSE, <<"ngBios">>),
     SFC |-> [WithBios("SuperFamicom", TRUE, <<"sfcIpl">>) EXCEPT
                 !.options = Accurate \union Pinned, !.subSlots = SubSlots],
     MSX2 |-> WithBios("MSX", TRUE, <<"msx2Main", "msx2Sub">>)]

\* Those beside another machine, with a slot more or a BIOS that is a card.
AddOns ==
    [MCD |-> [WithBios("MegaDrive", TRUE, <<"megaCdBios">>) EXCEPT !.mediumNode = "Mega CD Disc"],
     MCD32X |-> [WithBios("MegaDrive", TRUE, <<"megaCdBios">> \o Mega32X) EXCEPT
                    !.mediumNode = "Mega CD Disc"],
     PCE |-> [Console("PCEngine", FALSE) EXCEPT !.options = Accurate],
     SGX |-> [Console("PCEngine", FALSE) EXCEPT !.options = Accurate],
     PCECD |-> [WithBios("PCEngine", FALSE, <<"pceSystemCard">>) EXCEPT
                   !.options = Accurate, !.mediumNode = "PC Engine CD Disc",
                   !.firmwareNode = "PC Engine Card"]]

\* Every machine there is, by the id a project records.
All ==
    [id \in DOMAIN Cartridges \union DOMAIN BiosMachines \union DOMAIN AddOns \union {"32X"} |->
        CASE id \in DOMAIN Cartridges -> Cartridges[id]
          [] id \in DOMAIN BiosMachines -> BiosMachines[id]
          [] id \in DOMAIN AddOns -> AddOns[id]
          [] id = "32X" -> WithBios("MegaDrive", TRUE, Mega32X)]

Find(id) == IF id \in DOMAIN All THEN All[id] ELSE Nothing
=============================================================================
