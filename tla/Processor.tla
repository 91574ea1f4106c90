------------------------------ MODULE Processor ------------------------------
(* paraLLEl-RDP's command processor, seen from the core that drives it: what   *)
(* it remembers from one command to the next, and what a command does to that. *)
(* What a primitive paints is left open (CONSTANT operators): nothing here     *)
(* depends on pixels, only on everything a pixel may depend on.                *)
EXTENDS Integers

CONSTANTS
    Codes,          \* the state commands' opcodes (combiner, images, colours)
    Tiles,          \* tile descriptors
    VIRegs,         \* the video interface's registers
    Values,         \* what a command or a register write carries
    Memory,         \* contents of RDRAM, TMEM, the ninth bits, a picture
    Blank,          \* the contents of a device just made
    NoisePeriod,    \* the width of the primitive count that seeds the dither
    Unset,          \* a command or register never sent
    None,           \* no value
    Painted(_, _, _), Ninth(_, _, _), Fetched(_, _, _), Woven(_, _)

ASSUME UnsetAssumption == Unset \notin Values
ASSUME NoneAssumption == None \notin Memory
ASSUME BlankAssumption == Blank \in Memory
ASSUME NoiseAssumption == NoisePeriod \in Nat \ {0}

Noise == 0 .. NoisePeriod - 1

Processors ==
    [state : [Codes -> Values \union {Unset}],
     tile : [Tiles -> Values \union {Unset}],
     size : [Tiles -> Values \union {Unset}],
     vi : [VIRegs -> Values \union {Unset}],
     tmem : Memory, hidden : Memory, noise : Noise, history : Memory,
     pending : Memory \union {None}]

\* The units a list is made of. A draw takes a second unit, any at all, as data;
\* the others are whole. None as a command in parts: the buffer is empty.
Draws == [op : {"draw"}, at : Tiles, val : Values]
Units == [op : {"state"}, at : Codes, val : Values]
         \union [op : {"tile", "size", "load", "draw", "sync"}, at : Tiles, val : Values]

ASSUME PaintAssumption ==
    \A p \in Processors, m \in Memory, u \in Units :
        /\ Painted(p, m, u) \in Memory
        /\ Ninth(p, m, u) \in Memory
        /\ Fetched(p, m, u) \in Memory

ASSUME WovenAssumption ==
    \A p \in Processors, m \in Memory : Woven(p, m) \in Memory

ASSUME CommandAssumption == None \notin Units

\* A processor just constructed.
FreshProcessor ==
    [state |-> [c \in Codes |-> Unset], tile |-> [t \in Tiles |-> Unset],
     size |-> [t \in Tiles |-> Unset], vi |-> [r \in VIRegs |-> Unset],
     tmem |-> Blank, hidden |-> Blank, noise |-> 0, history |-> Blank,
     pending |-> None]

\* RDRAM as the processor sees it: its own painting included, landed or not.
View(p, ram) == IF p.pending = None THEN ram ELSE p.pending

\* The painting is in RDRAM now (idle, a full sync, or the renderer's choice).
Landed(p) == [p EXCEPT !.pending = None]

Draw(p, ram, data) ==
    [p EXCEPT !.pending = Painted(p, View(p, ram), data),
              !.hidden = Ninth(p, View(p, ram), data),
              !.noise = (@ + 1) % NoisePeriod]

\* The commands of one unit. The three loads set the tile's size as they load.
Obey(p, ram, u) ==
    CASE u.op = "state" -> [p EXCEPT !.state[u.at] = u.val]
      [] u.op = "tile" -> [p EXCEPT !.tile[u.at] = u.val]
      [] u.op = "size" -> [p EXCEPT !.size[u.at] = u.val]
      [] u.op = "load" -> [p EXCEPT !.size[u.at] = u.val,
                                    !.tmem = Fetched(p, View(p, ram), u)]
      [] OTHER -> Landed(p)

\* One more unit of a list, given the unit of a draw still waiting for its data.
Fed(p, part, ram, u) ==
    IF part # None THEN Draw(p, ram, u)
    ELSE IF u.op = "draw" THEN p ELSE Obey(p, ram, u)

PartAfter(part, u) == IF part = None /\ u.op = "draw" THEN u ELSE None

\* Only a full sync puts the painting in RDRAM at once.
RamAfter(p, part, ram, u) ==
    IF part = None /\ u.op = "sync" THEN View(p, ram) ELSE ram

Scanned(p, ram) == [p EXCEPT !.history = Woven(p, View(p, ram))]
=============================================================================
