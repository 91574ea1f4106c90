----------------------------- MODULE Assembly_proofs -----------------------------
(* Proofs about putting a machine together and taking it apart: for any        *)
(* projects, any ports and devices, and whatever order static destructors come *)
(* in. What is known of a machine in every state is in four layers, each       *)
(* proved from those before it: what the reader made of the project, what slot *)
(* each further cartridge was given, what is in the slots, and what is in the  *)
(* ports that take a device.                                                   *)
EXTENDS Assembly, Lists_proofs

\* What shutdown() lets go of.
Nodes == {"buttons", "tape", "streams", "buses", "root"}

\* While the machine is taken apart, all that is held is still to come; what the
\* nodes point at goes only when the process ends; and a process that ends
\* without an error holds nothing.
Ordered ==
    /\ held \subseteq Nodes
    /\ step = "refused" => error # Nothing
    /\ step = "unloading" => todo \in Seq(Nodes) /\ held \subseteq Range(todo)
    /\ ~standing => step = "ended"
    /\ step = "ended" /\ error = Nothing => held = {}

\* shutdown() lets go of every node.
LEMMA AllLetGo == LetGo \in Seq(Nodes) /\ Range(LetGo) = Nodes
<1>1. LetGo \in Seq(Nodes) /\ DOMAIN LetGo = 1 .. 5
  BY DEF LetGo, Nodes
<1>2. /\ LetGo[1] = "buttons" /\ LetGo[2] = "tape" /\ LetGo[3] = "streams"
      /\ LetGo[4] = "buses" /\ LetGo[5] = "root"
  BY DEF LetGo
<1>3. Nodes \subseteq Range(LetGo)
  BY <1>1, <1>2 DEF Nodes, Range
<1>4. Range(LetGo) \subseteq Nodes
  BY <1>1, 1 .. 5 = {1, 2, 3, 4, 5}, <1>2 DEF Range, Nodes
<1> QED BY <1>1, <1>3, <1>4

\* What is left of a list when its head is done with.
LEMMA Rest ==
    ASSUME NEW S, NEW s \in Seq(S), s # <<>>
    PROVE  Tail(s) \in Seq(S) /\ Range(s) \ {Head(s)} \subseteq Range(Tail(s))
<1>1. Tail(s) \in Seq(S) /\ Head(s) = s[1] /\ Len(Tail(s)) = Len(s) - 1 /\ Len(s) \in Nat
  OBVIOUS
<1>2. ASSUME NEW i \in 1 .. Len(s), s[i] # s[1] PROVE s[i] \in Range(Tail(s))
  <2>1. i - 1 \in 1 .. Len(Tail(s)) /\ Tail(s)[i - 1] = s[i]
    BY <1>1, <1>2
  <2>2. DOMAIN Tail(s) = 1 .. Len(Tail(s))
    BY <1>1
  <2> QED BY <2>1, <2>2 DEF Range
<1>3. DOMAIN s = 1 .. Len(s)
  OBVIOUS
<1> QED BY <1>1, <1>2, <1>3 DEF Range

LEMMA Begun == Init => Ordered
BY DEF Init, Ordered

\* A step that neither refuses, unloads nor ends keeps the order, if it takes
\* nothing into its hands that shutdown() does not let go of.
LEMMA GoesOn ==
    ASSUME Ordered, step \notin {"unloading", "ended"}, standing' = standing, error' = error,
           held' \subseteq Nodes,
           step' \notin {"refused", "unloading", "ended"}
    PROVE  Ordered'
BY DEF Ordered

\* A step that refuses.
Refused == step' = "refused" /\ error' \in Reasons /\ UNCHANGED <<held, standing>>

LEMMA Refuses ==
    ASSUME Ordered, step \notin {"unloading", "ended"}, Refused
    PROVE  Ordered'
BY NothingAssumption DEF Ordered, Refused

\* Reading a project and looking at its game hold nothing.
LEMMA ReadingKeeps ==
    ASSUME Ordered, ReadByCore \/ ReadByRunner \/ SuggestSettings
    PROVE  Ordered'
<1>1. step = "project" /\ UNCHANGED <<held, standing>>
  BY DEF ReadByCore, ReadByRunner, SuggestSettings
<1>2. \/ step' \in {"system", "project"} /\ error' = error
      \/ step' = "refused" /\ error' \in Reasons
  BY DEF Reasons, ReadByCore, ReadByRunner, SuggestSettings
<1> QED BY <1>1, <1>2, NothingAssumption DEF Ordered

LEMMA BuildingKeeps ==
    ASSUME Ordered,
           \/ System \/ Medium \/ Save \/ SubCartridge
           \/ MediaPort \/ MediaDone \/ SubSlot \/ SubSlotsDone \/ PortsDone
    PROVE  Ordered'
<1>1. CASE System
  <2>1. \/ Refused
        \/ step' = "medium" /\ UNCHANGED <<held, standing, error>>
    BY <1>1 DEF System, SystemErrors, Go, Refuse, Refused, Reasons
  <2> QED BY <1>1, <2>1, Refuses, GoesOn DEF System, Ordered
<1>2. CASE Medium
  <2>1. \/ Refused
        \/ step' = "save" /\ UNCHANGED <<held, standing, error>>
    BY <1>2 DEF Medium, MediumErrors, Go, Refuse, Refused, Reasons
  <2> QED BY <1>2, <2>1, Refuses, GoesOn DEF Medium, Ordered
<1>3. CASE Save
  <2>1. \/ Refused
        \/ step' = "subs" /\ UNCHANGED <<held, standing, error>>
    BY <1>3 DEF Save, SaveErrors, Go, Refuse, Refused, Reasons
  <2> QED BY <1>3, <2>1, Refuses, GoesOn DEF Save, Ordered
<1>4. CASE SubCartridge
  <2>1. \/ Refused
        \/ step' = "subs" /\ UNCHANGED <<held, standing, error>>
    BY <1>4 DEF SubCartridge, MediumErrors, Go, Refuse, Refused, Reasons
  <2> QED BY <1>4, <2>1, Refuses, GoesOn DEF SubCartridge, Ordered
<1>5. CASE MediaPort \/ MediaDone \/ SubSlotsDone \/ PortsDone
  <2>1. step' \in {"media", "subslots", "ports", "power"} /\ UNCHANGED <<held, standing, error>>
    BY <1>5 DEF MediaPort, MediaDone, SubSlotsDone, PortsDone, Go
  <2> QED BY <1>5, <2>1, GoesOn DEF MediaPort, MediaDone, SubSlotsDone, PortsDone, Ordered
<1>6. CASE SubSlot
  <2>1. \/ Refused
        \/ step' = "subslots" /\ UNCHANGED <<held, standing, error>>
    BY <1>6 DEF SubSlot, Go, Refuse, Refused, Reasons
  <2> QED BY <1>6, <2>1, Refuses, GoesOn DEF SubSlot, Ordered
<1> QED BY <1>1, <1>2, <1>3, <1>4, <1>5, <1>6

LEMMA PortKeeps ==
    ASSUME Ordered, KeyboardPort \/ DevicePort
    PROVE  Ordered'
<1>1. CASE KeyboardPort
  <2>1. \/ Refused
        \/ \E p, what : Plug(p, what)
    BY <1>1 DEF KeyboardPort, Refuse, Refused, Reasons
  <2>2. ASSUME NEW p, NEW what, Plug(p, what) PROVE Ordered'
    BY <1>1, <2>2, GoesOn DEF KeyboardPort, Plug, Ordered
  <2> QED BY <1>1, <2>1, <2>2, Refuses DEF KeyboardPort
<1>2. CASE DevicePort
  <2>1. \/ Refused
        \/ \E p, what : Plug(p, what)
    BY <1>2 DEF DevicePort, Refuse, Refused, Reasons
  <2>2. ASSUME NEW p, NEW what, Plug(p, what) PROVE Ordered'
    BY <1>2, <2>2, GoesOn DEF DevicePort, Plug, Ordered
  <2> QED BY <1>2, <2>1, <2>2, Refuses DEF DevicePort
<1> QED BY <1>1, <1>2

\* The machine is built, and powered: what it then holds shutdown() knows.
LEMMA HoldingKeeps ==
    ASSUME Ordered, LoadRoot \/ Power
    PROVE  Ordered'
<1>1. CASE LoadRoot
  <2>1. \/ Refused
        \/ step' = "media" /\ held' = {"root", "streams"} /\ UNCHANGED <<standing, error>>
    BY <1>1 DEF LoadRoot, Go, Refuse, Refused, Reasons
  <2> QED BY <1>1, <2>1, Refuses, GoesOn DEF Nodes, LoadRoot
<1>2. CASE Power
  <2>1. \/ Refused
        \/ /\ step' = "built" /\ UNCHANGED <<standing, error>>
           /\ held' \subseteq held \union {"buttons", "buses", "tape"}
    BY <1>2 DEF Power, Go, Refuse, Refused, Reasons
  <2> QED BY <1>2, <2>1, Refuses, GoesOn DEF Nodes, Power, Ordered
<1> QED BY <1>1, <1>2

\* Each turn of shutdown() lets go of the first that is left.
LEMMA ApartKeeps ==
    ASSUME Ordered, Shutdown \/ Unload
    PROVE  Ordered'
<1>1. CASE Shutdown
  BY <1>1, AllLetGo DEF Shutdown, Go, Ordered
<1>2. CASE Unload
  <2>1. todo \in Seq(Nodes) /\ todo # <<>> /\ held \subseteq Range(todo)
    BY <1>2 DEF Unload, Ordered
  <2>2. held' = held \ {Head(todo)} /\ todo' = Tail(todo)
    BY <1>2 DEF Unload, Go
  <2>3. todo' \in Seq(Nodes) /\ held' \subseteq Range(todo')
    BY <2>1, <2>2, Rest
  <2> QED BY <1>2, <2>2, <2>3 DEF Unload, Go, Ordered
<1> QED BY <1>1, <1>2

LEMMA EndKeeps ==
    ASSUME Ordered, NEW what, Exit(what)
    PROVE  Ordered'
<1>1. step = "unloading" => held = {}
  BY DEF Exit, Ordered, Range
<1>2. step' = "ended" /\ error' = error /\ held' \subseteq held
  BY DEF Exit
<1>3. error = Nothing => held = {}
  BY <1>1 DEF Exit, Ordered
<1> QED BY <1>2, <1>3 DEF Ordered

LEMMA Keeps == Ordered /\ [Next]_vars => Ordered'
<1> SUFFICES ASSUME Ordered, [Next]_vars PROVE Ordered'
  OBVIOUS
<1>1. CASE UNCHANGED vars
  BY <1>1 DEF vars, Ordered
<1>2. ASSUME NEW what, Exit(what) PROVE Ordered'
  BY <1>2, EndKeeps
<1> QED BY <1>1, <1>2, ReadingKeeps, BuildingKeeps, PortKeeps, HoldingKeeps, ApartKeeps DEF Next

\* Whatever the machine and the project, nothing the adapter holds of a machine
\* that ran is left when what its nodes point at goes, in whatever order the
\* static destructors come: shutdown() let go of all of it before.
THEOREM TakenApartFirst == Spec => []NothingOutlivesItsMachine
<1>1. Ordered => NothingOutlivesItsMachine
  BY DEF Ordered, NothingOutlivesItsMachine
<1> QED BY <1>1, Begun, Keeps, PTL DEF Spec

-----------------------------------------------------------------------------
(* The table of the machines.                                                  *)

\* What a row of the table has.
Columns == {"load", "pal", "firmware", "bootsWithoutMedium", "options", "mediumNode", "firmwareNode",
            "subSlots", "portLeftEmpty"}

IsRow(r, load, options, slots) ==
    DOMAIN r = Columns /\ r.load = load /\ r.options = options /\ r.subSlots = slots

\* A column changed leaves the others as they are.
LEMMA Changed ==
    ASSUME NEW r, NEW load, NEW options, NEW slots, IsRow(r, load, options, slots), NEW v
    PROVE  /\ IsRow([r EXCEPT !.firmware = v], load, options, slots)
           /\ IsRow([r EXCEPT !.bootsWithoutMedium = v], load, options, slots)
           /\ IsRow([r EXCEPT !.mediumNode = v], load, options, slots)
           /\ IsRow([r EXCEPT !.firmwareNode = v], load, options, slots)
           /\ IsRow([r EXCEPT !.portLeftEmpty = v], load, options, slots)
           /\ IsRow([r EXCEPT !.options = v], load, v, slots)
           /\ IsRow([r EXCEPT !.subSlots = v], load, options, v)
BY DEF IsRow, Columns

LEMMA Plain == ASSUME NEW l, NEW p PROVE IsRow(Console(l, p), l, {}, <<>>)
BY DEF Console, IsRow, Columns

LEMMA PlainWithBios == ASSUME NEW l, NEW p, NEW f PROVE IsRow(WithBios(l, p, f), l, {}, <<>>)
<1> DEFINE none == {}  nothing == <<>>
<1>1. IsRow(Console(l, p), l, none, nothing)
  BY Plain
<1> HIDE DEF none, nothing
<1>2. IsRow([Console(l, p) EXCEPT !.firmware = f], l, none, nothing)
  BY <1>1, Changed, Zenon
<1> QED BY <1>2, Zenon DEF WithBios, none, nothing

\* What the proofs need of the table: the one machine with slots for further
\* cartridges has those four, and only a Nintendo 64 is a Nintendo 64's, with
\* one option pinned.
Tabled(r) ==
    /\ r.subSlots \in {<<>>, SubSlots}
    /\ r.load = "Nintendo64" => r.options = Pinned

LEMMA RowIsTabled ==
    ASSUME NEW r, NEW load, NEW options, NEW slots, IsRow(r, load, options, slots),
           slots \in {<<>>, SubSlots}, load = "Nintendo64" => options = Pinned
    PROVE  Tabled(r)
<1> HIDE DEF SubSlots, Pinned
<1> QED BY DEF IsRow, Tabled

LEMMA OthersAreTabled ==
    ASSUME NEW l, l # "Nintendo64", NEW p, NEW f, NEW v, NEW o, NEW n
    PROVE  /\ Tabled(Console(l, p))
           /\ Tabled([Console(l, p) EXCEPT !.options = o])
           /\ Tabled(WithBios(l, p, f))
           /\ Tabled([WithBios(l, p, f) EXCEPT !.bootsWithoutMedium = v])
           /\ Tabled([WithBios(l, p, f) EXCEPT !.mediumNode = v])
           /\ Tabled([WithBios(l, p, f) EXCEPT !.options = o, !.subSlots = SubSlots])
           /\ Tabled([WithBios(l, p, f) EXCEPT !.options = o, !.mediumNode = v, !.firmwareNode = n])
<1> DEFINE none == {}  nothing == <<>>  c == Console(l, p)  w == WithBios(l, p, f)
<1>1. IsRow(c, l, none, nothing) /\ IsRow(w, l, none, nothing) /\ nothing \in {<<>>, SubSlots}
  BY Plain, PlainWithBios
<1> HIDE DEF none, nothing, c, w, SubSlots
<1>2. Tabled(c) /\ Tabled(w)
  BY <1>1, RowIsTabled
<1>3. Tabled([c EXCEPT !.options = o])
  <2>1. IsRow([c EXCEPT !.options = o], l, o, nothing)
    BY <1>1, Changed, Zenon
  <2> QED BY <1>1, <2>1, RowIsTabled, Zenon
<1>4. Tabled([w EXCEPT !.bootsWithoutMedium = v])
  <2>1. IsRow([w EXCEPT !.bootsWithoutMedium = v], l, none, nothing)
    BY <1>1, Changed, Zenon
  <2> QED BY <1>1, <2>1, RowIsTabled, Zenon
<1>5. IsRow([w EXCEPT !.mediumNode = v], l, none, nothing)
  BY <1>1, Changed, Zenon
<1>6. Tabled([w EXCEPT !.mediumNode = v])
  BY <1>1, <1>5, RowIsTabled, Zenon
<1>7. Tabled([w EXCEPT !.options = o, !.subSlots = SubSlots])
  <2> DEFINE x == [w EXCEPT !.options = o]
  <2>1. IsRow(x, l, o, nothing)
    BY <1>1, Changed, Zenon
  <2> HIDE DEF x
  <2>2. IsRow([x EXCEPT !.subSlots = SubSlots], l, o, SubSlots)
    BY <2>1, Changed, Zenon
  <2>3. Tabled([x EXCEPT !.subSlots = SubSlots])
    BY <2>2, RowIsTabled, Zenon
  <2> QED BY <2>3, Zenon DEF x
<1>8. Tabled([w EXCEPT !.options = o, !.mediumNode = v, !.firmwareNode = n])
  <2> DEFINE x == [w EXCEPT !.options = o]
             y == [x EXCEPT !.mediumNode = v]
  <2>1. IsRow(x, l, o, nothing)
    BY <1>1, Changed, Zenon
  <2> HIDE DEF x
  <2>2. IsRow(y, l, o, nothing)
    BY <2>1, Changed, Zenon
  <2> HIDE DEF y
  <2>3. IsRow([y EXCEPT !.firmwareNode = n], l, o, nothing)
    BY <2>2, Changed, Zenon
  <2>4. Tabled([y EXCEPT !.firmwareNode = n])
    BY <1>1, <2>3, RowIsTabled, Zenon
  <2> QED BY <2>4, Zenon DEF x, y
<1> QED BY <1>2, <1>3, <1>4, <1>6, <1>7, <1>8, Zenon DEF c, w

\* The Nintendo 64, and its disk drive.
LEMMA DrivesAreTabled ==
    ASSUME NEW p, NEW f, NEW b, NEW m, NEW e
    PROVE  /\ Tabled([Console("Nintendo64", p) EXCEPT !.options = Pinned])
           /\ Tabled([WithBios("Nintendo64", p, f) EXCEPT
                        !.options = Pinned, !.bootsWithoutMedium = b, !.mediumNode = m, !.portLeftEmpty = e])
<1> DEFINE l == "Nintendo64"  none == {}  nothing == <<>>  c == Console(l, p)  w == WithBios(l, p, f)
<1>1. IsRow(c, l, none, nothing) /\ IsRow(w, l, none, nothing) /\ nothing \in {<<>>, SubSlots}
  BY Plain, PlainWithBios
<1> HIDE DEF none, nothing, c, w, l, SubSlots, Pinned
<1>2. Tabled([c EXCEPT !.options = Pinned])
  <2>1. IsRow([c EXCEPT !.options = Pinned], l, Pinned, nothing)
    BY <1>1, Changed, Zenon
  <2> QED BY <1>1, <2>1, RowIsTabled, Zenon
<1>3. Tabled([w EXCEPT !.options = Pinned, !.bootsWithoutMedium = b, !.mediumNode = m, !.portLeftEmpty = e])
  <2> DEFINE x == [w EXCEPT !.options = Pinned]
             y == [x EXCEPT !.bootsWithoutMedium = b]
             z == [y EXCEPT !.mediumNode = m]
             a == [z EXCEPT !.portLeftEmpty = e]
  <2>1. IsRow(x, l, Pinned, nothing)
    BY <1>1, Changed, Zenon
  <2> HIDE DEF x
  <2>2. IsRow(y, l, Pinned, nothing)
    BY <2>1, Changed, Zenon
  <2> HIDE DEF y
  <2>3. IsRow(z, l, Pinned, nothing)
    BY <2>2, Changed, Zenon
  <2> HIDE DEF z
  <2>4. IsRow(a, l, Pinned, nothing)
    BY <2>3, Changed, Zenon
  <2>5. Tabled(a)
    BY <1>1, <2>4, RowIsTabled, Zenon
  <2> QED BY <2>5, Zenon DEF x, y, z
<1> QED BY <1>2, <1>3, Zenon DEF c, w, l

LEMMA EveryRowIsTabled == \A id \in DOMAIN All : Tabled(All[id])
<1>1. \A id \in DOMAIN Cartridges : Tabled(Cartridges[id])
  <2>1. DOMAIN Cartridges = {"N64", "N64DD", "NES", "GEN", "SMS", "GG", "SG", "A26", "MYV"}
    BY DEF Cartridges
  <2>2. Tabled(Cartridges["N64"]) /\ Tabled(Cartridges["N64DD"])
    BY DrivesAreTabled, Zenon DEF Cartridges
  <2>3. /\ Tabled(Cartridges["NES"]) /\ Tabled(Cartridges["GEN"]) /\ Tabled(Cartridges["SMS"])
        /\ Tabled(Cartridges["GG"]) /\ Tabled(Cartridges["SG"]) /\ Tabled(Cartridges["A26"])
        /\ Tabled(Cartridges["MYV"])
    BY OthersAreTabled DEF Cartridges
  <2> QED BY <2>1, <2>2, <2>3
<1>2. \A id \in DOMAIN BiosMachines : Tabled(BiosMachines[id])
  <2>1. DOMAIN BiosMachines = {"GB", "GBC", "WS", "WSC", "ZXS", "GBA", "CV", "MSX", "PS1", "A52", "NGP",
                               "NGPC", "NG", "SFC", "MSX2"}
    BY DEF BiosMachines
  <2>2. /\ Tabled(BiosMachines["GB"]) /\ Tabled(BiosMachines["GBC"]) /\ Tabled(BiosMachines["WS"])
        /\ Tabled(BiosMachines["WSC"]) /\ Tabled(BiosMachines["ZXS"]) /\ Tabled(BiosMachines["GBA"])
        /\ Tabled(BiosMachines["CV"]) /\ Tabled(BiosMachines["A52"]) /\ Tabled(BiosMachines["NGP"])
        /\ Tabled(BiosMachines["NGPC"]) /\ Tabled(BiosMachines["NG"]) /\ Tabled(BiosMachines["MSX2"])
    BY OthersAreTabled DEF BiosMachines
  <2>3. Tabled(BiosMachines["MSX"]) /\ Tabled(BiosMachines["PS1"])
    BY OthersAreTabled DEF BiosMachines
  <2>4. Tabled(BiosMachines["SFC"])
    <3> HIDE DEF SubSlots, Accurate, Pinned
    <3> QED BY OthersAreTabled DEF BiosMachines
  <2> QED BY <2>1, <2>2, <2>3, <2>4
<1>3. \A id \in DOMAIN AddOns : Tabled(AddOns[id])
  <2>1. DOMAIN AddOns = {"MCD", "MCD32X", "PCE", "SGX", "PCECD"}
    BY DEF AddOns
  <2>2. Tabled(AddOns["MCD"]) /\ Tabled(AddOns["MCD32X"])
    BY OthersAreTabled DEF AddOns
  <2>3. Tabled(AddOns["PCE"]) /\ Tabled(AddOns["SGX"]) /\ Tabled(AddOns["PCECD"])
    BY OthersAreTabled DEF AddOns
  <2> QED BY <2>1, <2>2, <2>3
<1>4. Tabled(WithBios("MegaDrive", TRUE, Mega32X))
  BY OthersAreTabled
<1> QED BY <1>1, <1>2, <1>3, <1>4, Zenon DEF All

\* Two of the slots take the same files or have none in common, and each slot
\* is a port of its own.
Classed(slots) ==
    /\ IsList(slots)
    /\ \A i, j \in 1 .. Len(slots) :
          /\ slots[i].port = slots[j].port => i = j
          /\ slots[i].extensions # slots[j].extensions
             => slots[i].extensions \intersect slots[j].extensions = {}

LEMMA FourSlots == Classed(SubSlots)
<1> DEFINE bs == [extensions |-> {"bs"}, port |-> "BS Memory Slot"]
           sta == [extensions |-> {"st"}, port |-> "Sufami Turbo Slot A"]
           stb == [extensions |-> {"st"}, port |-> "Sufami Turbo Slot B"]
           sgb == [extensions |-> {"gb", "gbc"}, port |-> "Super Game Boy/Cartridge Slot"]
           S == {bs, sta, stb, sgb}
           s == SubSlots
<1>1. SubSlots = <<bs, sta, stb, sgb>>
  BY DEF SubSlots
<1>2. /\ bs.port = "BS Memory Slot" /\ bs.extensions = {"bs"}
      /\ sta.port = "Sufami Turbo Slot A" /\ sta.extensions = {"st"}
      /\ stb.port = "Sufami Turbo Slot B" /\ stb.extensions = {"st"}
      /\ sgb.port = "Super Game Boy/Cartridge Slot" /\ sgb.extensions = {"gb", "gbc"}
  OBVIOUS
<1> HIDE DEF bs, sta, stb, sgb
<1>3. s \in Seq(S) /\ Len(s) = 4 /\ s[1] = bs /\ s[2] = sta /\ s[3] = stb /\ s[4] = sgb
  BY <1>1
<1> HIDE DEF S, s
<1>4. IsList(s)
  BY <1>3, SequenceIsList
<1>5. 1 .. Len(s) = {1, 2, 3, 4}
  BY <1>3
<1>6. ASSUME NEW i \in 1 .. Len(s), NEW j \in 1 .. Len(s), s[i].port = s[j].port PROVE i = j
  <2>1. /\ s[1].port = "BS Memory Slot" /\ s[2].port = "Sufami Turbo Slot A"
        /\ s[3].port = "Sufami Turbo Slot B" /\ s[4].port = "Super Game Boy/Cartridge Slot"
    BY <1>2, <1>3
  <2>2. i \in {1, 2, 3, 4} /\ j \in {1, 2, 3, 4}
    BY <1>5
  <2>3. CASE i = 1
    BY <1>6, <2>1, <2>2, <2>3
  <2>4. CASE i = 2
    BY <1>6, <2>1, <2>2, <2>4
  <2>5. CASE i = 3
    BY <1>6, <2>1, <2>2, <2>5
  <2>6. CASE i = 4
    BY <1>6, <2>1, <2>2, <2>6
  <2> QED BY <2>2, <2>3, <2>4, <2>5, <2>6
<1>7. ASSUME NEW i \in 1 .. Len(s), NEW j \in 1 .. Len(s), s[i].extensions # s[j].extensions
      PROVE  s[i].extensions \intersect s[j].extensions = {}
  BY <1>2, <1>3, <1>5, <1>7
<1>8. Classed(s)
  BY <1>4, <1>6, <1>7 DEF Classed
<1> QED BY <1>8 DEF s

LEMMA EveryMachineIsClassed == \A id \in DOMAIN All : Classed(All[id].subSlots)
<1>1. Classed(<<>>)
  <2> DEFINE none == <<>>
  <2>1. IsList(none) /\ Len(none) = 0
    BY EmptyList
  <2> HIDE DEF none
  <2>2. Classed(none)
    BY <2>1 DEF Classed
  <2> QED BY <2>2 DEF none
<1> QED BY <1>1, FourSlots, EveryRowIsTabled DEF Tabled
-----------------------------------------------------------------------------
(* The machine that is built: what is known of it in every state.              *)

\* The project is one of those there are, but for its region; what the reader
\* made of it is all the building is told; and a machine that has got past its
\* system is one of the table.
Offering == {"medium", "save", "subs", "media", "subslots", "ports", "power", "built"}
ConfigOf ==
    IF reader = "core" THEN Read(PortSettings, PadSettings, FALSE) ELSE Read(MaxPorts, 0, project.pif)

ReadInv ==
    /\ reader \in {"core", "runner"} /\ bridge \in BOOLEAN /\ suggested \in BOOLEAN
    /\ Sayable(project) /\ Insertable(project)
    /\ reader = "core" => Len(project.port) <= PortSettings
    /\ reader = "runner" => project.accessory = <<>>
    /\ suggested => /\ reader = "core" /\ GameRegion(project.rom) # Nothing
                    /\ project.region = GameRegion(project.rom)
    /\ config = IF step = "project" THEN Nothing ELSE ConfigOf
    /\ step \in Offering => config.machine \in DOMAIN All
    /\ step \in Steps
    /\ error \in Reasons \union {Nothing}
    /\ step \notin {"refused", "ended"} => error = Nothing

\* Each further cartridge has the first slot that takes it of those no other had
\* before it.
FirstFit(slots, files, given) ==
    /\ IsList(given) /\ Len(given) <= Len(files)
    /\ \A i \in 1 .. Len(given) :
          /\ files[i] \in given[i].extensions
          /\ \A h \in 1 .. i - 1 : given[h].port # given[i].port
          /\ \E j \in 1 .. Len(slots) :
                /\ given[i] = slots[j]
                /\ \A m \in 1 .. j - 1 : files[i] \in slots[m].extensions
                                         => \E h \in 1 .. i - 1 : given[h].port = slots[m].port

Built == {"media", "subslots", "ports", "power", "built"}

SubsInv ==
    /\ step \in {"project", "system", "medium", "save"} => subs = <<>>
    /\ step \in {"subs"} \union Built => FirstFit(spec.subSlots, config.subs, subs)
    /\ step = "subs" => todo = From(config.subs, Len(subs) + 1)
    /\ step \in Built => Len(subs) = Len(config.subs) /\ told = Told

\* What pak() hands the slots, and that the ports that take a device have none.
Placed(p) == IF p.name = spec.portLeftEmpty THEN <<>> ELSE PakFor(p)

PlacesInv ==
    /\ step \in Built => {p.name : p \in Range(ports)} \subseteq DOMAIN content
    /\ step = "media" =>
          /\ IsList(todo) /\ Range(todo) \subseteq Range(ports) \ Takers
          /\ \A p \in Range(ports) \ Takers :
                /\ content[p.name] \in {<<>>, Placed(p)}
                /\ p \notin Range(todo) => content[p.name] = Placed(p)
    /\ step \in Built \ {"media"} => \A p \in Range(ports) \ Takers : content[p.name] = Placed(p)
    /\ step = "subslots" =>
          \E n \in 0 .. Len(subs) :
             /\ todo = From(subs, n + 1)
             /\ \A i \in 1 .. n : subs[i].port \in DOMAIN content /\ content[subs[i].port] = <<"cartridge">>
    /\ step \in {"ports", "power", "built"} =>
          \A i \in 1 .. Len(subs) : content[subs[i].port] = <<"cartridge">>

\* What is in a port that takes a device, once the loop is past it.
Asked(i) == IF ports[i].keyboard THEN {<<ports[i].devices[1]>>} ELSE Wanted(ports[i], Numbered(i))

PortsInv ==
    /\ number \in 0 .. MaxPorts
    /\ step \in {"project", "system", "medium", "save", "subs", "media", "subslots"} => number = 0
    /\ step \in {"media", "subslots"} => \A p \in Takers : content[p.name] = <<>>
    /\ step = "ports" =>
          \E k \in 0 .. Len(ports) :
             /\ todo = Only(From(ports, k + 1), Takers) /\ number = Numbered(k)
             /\ \A i \in 1 .. k : ports[i] \in Takers => content[ports[i].name] \in Asked(i)
             /\ \A i \in k + 1 .. Len(ports) : ports[i] \in Takers => content[ports[i].name] = <<>>
    /\ step \in {"power", "built"} =>
          \A i \in 1 .. Len(ports) : ports[i] \in Takers => content[ports[i].name] \in Asked(i)

\* The region a project takes from its game leaves the rest of it.
LEMMA RegionTaken ==
    ASSUME NEW p, Sayable(p), Insertable(p), NEW r, NEW q, q = [p EXCEPT !.region = r]
    PROVE  /\ Sayable(q) /\ Insertable(q) /\ MachineId(q) = MachineId(p)
           /\ q.region = r /\ q.rom = p.rom /\ q.port = p.port /\ q.accessory = p.accessory
<1>1. /\ DOMAIN q = DOMAIN p /\ q.region = r /\ q.rom = p.rom /\ q.port = p.port /\ q.accessory = p.accessory
      /\ q.machine = p.machine /\ q.subs = p.subs
  BY DEF Sayable
<1>2. MachineId(q) = MachineId(p)
  BY <1>1 DEF MachineId
<1>3. Sayable(q)
  BY <1>1, <1>2 DEF Sayable
<1>4. Insertable(q)
  BY <1>1, <1>2 DEF Insertable
<1> QED BY <1>1, <1>2, <1>3, <1>4

\* Nothing is said past the end of a list.
LEMMA WordSaid ==
    ASSUME NEW words, Len(words) \in Nat, NEW n \in Nat
    PROVE  Word(words, n) = Says(words, n)
BY DEF Word, Says

\* The files that are mounted with something in them are the project's further
\* cartridges.
LEMMA MountedAreFurther ==
    ASSUME IsList(project.subs)
    PROVE  LET mounted == [i \in 1 .. Len(project.subs) |-> Filled(project.subs[i])]
           IN  Only(mounted, Range(mounted) \ {Nothing}) = Further
<1> DEFINE s == project.subs
           mounted == [i \in 1 .. Len(s) |-> Filled(s[i])]
           v == Range(mounted) \ {Nothing}
           w == {f \in Range(s) : Has(f)}
<1>1. Len(s) \in Nat /\ \A i \in 1 .. Len(s) : s[i] \in Range(s)
  BY ListFacts
<1>2. /\ IsList(mounted) /\ Len(mounted) = Len(s)
      /\ \A x : x \in Range(mounted) <=> \E i \in 1 .. Len(s) : x = mounted[i]
  <2>1. mounted = [i \in 1 .. Len(s) |-> mounted[i]]
    OBVIOUS
  <2> HIDE DEF mounted
  <2> QED BY <1>1, <2>1, FunctionIsList
<1>3. \A i \in 1 .. Len(s) : mounted[i] = Filled(s[i])
  OBVIOUS
<1> HIDE DEF mounted
<1>4. \A i \in 1 .. Len(s) : /\ mounted[i] \in v <=> s[i] \in w
                             /\ mounted[i] \in v => mounted[i] = s[i]
  BY <1>1, <1>2, <1>3 DEF Filled, Has
<1> HIDE DEF s, v, w
<1>5. Only(mounted, v) = Only(s, w)
  <2>1. IsList(s)
    BY DEF s
  <2> QED BY <1>2, <1>4, <2>1, SelectedAlike
<1> QED BY <1>5, Zenon DEF s, mounted, v, w, Further

\* What a reader makes of a project.
Reads(c) ==
    /\ c.machine = MachineId(project) /\ c.rom = Filled(project.rom) /\ c.save = Filled(project.save)
    /\ c.subs = Further /\ c.pal = (project.region = "pal")
    /\ c.softwareRDP = (project.renderer = "software") /\ c.interpreter = (project.cpu = "interpreter")
    /\ \A n \in 1 .. MaxPorts : /\ c.port[n] = SettingString(Says(project.port, n))
                                /\ c.accessory[n] = SettingString(Says(project.accessory, n))

LEMMA SilentBeyond ==
    ASSUME NEW words, Len(words) \in Nat, NEW n \in Nat, NEW k, Len(words) <= k, k \in Nat
    PROVE  (IF n <= k THEN SettingString(Word(words, n)) ELSE Nothing) = SettingString(Says(words, n))
<1>1. CASE n <= k
  BY <1>1, WordSaid
<1>2. CASE ~(n <= k)
  <2>1. Says(words, n) = Nothing
    BY <1>2 DEF Says
  <2> QED BY <1>2, <2>1, NothingAssumption DEF SettingString
<1> QED BY <1>1, <1>2

LEMMA ReadReads ==
    ASSUME Sayable(project), NEW k \in Nat, NEW a \in Nat, NEW pif,
           Len(project.port) <= k, Len(project.accessory) <= a
    PROVE  Reads(Read(k, a, pif))
<1> DEFINE c == Read(k, a, pif)
           port == [n \in 1 .. MaxPorts |-> IF n <= k THEN SettingString(Word(project.port, n)) ELSE Nothing]
           accessory ==
              [n \in 1 .. MaxPorts |-> IF n <= a THEN SettingString(Word(project.accessory, n)) ELSE Nothing]
<1>1. IsList(project.port) /\ IsList(project.accessory) /\ IsList(project.subs)
  BY DEF Sayable
<1>2. Len(project.port) \in Nat /\ Len(project.accessory) \in Nat
  BY <1>1, ListFacts
<1>3. \A n \in 1 .. MaxPorts : /\ port[n] = SettingString(Says(project.port, n))
                               /\ accessory[n] = SettingString(Says(project.accessory, n))
  BY <1>2, SilentBeyond, CountsAssumption
<1>4. c.port = port /\ c.accessory = accessory
  BY Zenon DEF Read
<1>5. c.subs = Further
  BY <1>1, MountedAreFurther, Zenon DEF Read
<1>6. /\ c.machine = MachineId(project) /\ c.rom = Filled(project.rom) /\ c.save = Filled(project.save)
      /\ c.pal = (project.region = "pal")
      /\ c.softwareRDP = (project.renderer = "software") /\ c.interpreter = (project.cpu = "interpreter")
  BY DEF Read
<1> HIDE DEF c, port, accessory
<1>7. Reads(c)
  BY <1>3, <1>4, <1>5, <1>6 DEF Reads
<1> QED BY <1>7 DEF c

LEMMA ConfigReads ==
    ASSUME ReadInv, step # "project"
    PROVE  Reads(config)
<1>1. CASE reader = "core"
  <2>1. /\ PortSettings \in Nat /\ PadSettings \in Nat
        /\ Len(project.port) <= PortSettings /\ Len(project.accessory) <= PadSettings
    BY <1>1, CountsAssumption DEF ReadInv, Sayable
  <2>2. config = Read(PortSettings, PadSettings, FALSE)
    BY <1>1 DEF ReadInv, ConfigOf
  <2> QED BY <2>1, <2>2, ReadReads DEF ReadInv
<1>2. CASE reader # "core"
  <2>1. Len(project.port) <= MaxPorts /\ Len(project.accessory) = 0 /\ MaxPorts \in Nat /\ 0 \in Nat
    BY <1>2, CountsAssumption, EmptyList DEF ReadInv, Sayable
  <2>2. config = Read(MaxPorts, 0, project.pif)
    BY <1>2 DEF ReadInv, ConfigOf
  <2>3. Reads(Read(MaxPorts, 0, project.pif))
    <3> DEFINE a == 0
    <3>1. a \in Nat /\ Len(project.accessory) <= a
      BY <2>1
    <3> HIDE DEF a
    <3>2. Reads(Read(MaxPorts, a, project.pif))
      BY <2>1, <3>1, ReadReads DEF ReadInv
    <3> QED BY <3>2 DEF a
  <2> QED BY <2>2, <2>3
<1> QED BY <1>1, <1>2

\* The building changes nothing of what the reader told it.
Settled == UNCHANGED <<project, reader, bridge, suggested, config>>

LEMMA ReadBegins == Init => ReadInv
<1> SUFFICES ASSUME Init PROVE ReadInv
  OBVIOUS
<1>1. reader \in {"core", "runner"} /\ bridge \in BOOLEAN /\ suggested = FALSE
  BY DEF Init
<1>2. Sayable(project) /\ Insertable(project)
  BY ProjectsAssumption, MediaAssumption DEF Init
<1>3. /\ reader = "core" => Len(project.port) <= PortSettings
      /\ reader = "runner" => project.accessory = <<>>
  BY DEF Init
<1>4. step = "project" /\ config = Nothing /\ error = Nothing
  BY DEF Init
<1> QED BY <1>1, <1>2, <1>3, <1>4 DEF ReadInv, Offering, Steps

\* Such a step goes on only with a
\* machine of the table.
LEMMA ReadOn ==
    ASSUME ReadInv, Settled, step # "project", step' \in Steps \ {"project"},
           step' \in Offering => config.machine \in DOMAIN All,
           \/ error' = error /\ (error # Nothing => step' \in {"refused", "ended"})
           \/ error' \in Reasons /\ step' = "refused"
    PROVE  ReadInv'
<1>1. ConfigOf' = ConfigOf
  BY Zenon DEF Settled, ConfigOf, Read
<1>2. config' = ConfigOf'
  BY <1>1 DEF ReadInv, Settled
<1>3. Sayable(project)' /\ Insertable(project)'
  BY DEF ReadInv, Settled
<1>4. /\ (reader = "core" => Len(project.port) <= PortSettings)'
      /\ (reader = "runner" => project.accessory = <<>>)'
      /\ (suggested => /\ reader = "core" /\ GameRegion(project.rom) # Nothing
                       /\ project.region = GameRegion(project.rom))'
      /\ (reader \in {"core", "runner"} /\ bridge \in BOOLEAN /\ suggested \in BOOLEAN)'
  BY DEF ReadInv, Settled
<1>5. (step \in Offering => config.machine \in DOMAIN All)'
  BY DEF Settled
<1>6. error' \in Reasons \union {Nothing} /\ (step' \notin {"refused", "ended"} => error' = Nothing)
  BY DEF ReadInv
<1> QED BY <1>2, <1>3, <1>4, <1>5, <1>6 DEF ReadInv

\* What the readers do, and the project window.
LEMMA ReadByEither ==
    ASSUME ReadInv, ReadByCore \/ ReadByRunner
    PROVE  ReadInv'
<1>1. UNCHANGED <<project, reader, bridge, suggested>> /\ step = "project"
  BY DEF ReadByCore, ReadByRunner
<1>2. ConfigOf' = ConfigOf
  BY <1>1, Zenon DEF ConfigOf, Read
<1>3. config' = ConfigOf
  BY DEF ReadByCore, ReadByRunner, ReadInv, ConfigOf
<1>4. /\ step' \in {"refused", "system"} /\ error' \in Reasons \union {Nothing}
      /\ step' \notin {"refused", "ended"} => error' = Nothing
  BY DEF ReadByCore, ReadByRunner, ReadInv, Reasons
<1>5. Sayable(project)' /\ Insertable(project)'
  BY <1>1 DEF ReadInv
<1>6. /\ (reader = "core" => Len(project.port) <= PortSettings)'
      /\ (reader = "runner" => project.accessory = <<>>)'
      /\ (suggested => /\ reader = "core" /\ GameRegion(project.rom) # Nothing
                       /\ project.region = GameRegion(project.rom))'
      /\ (reader \in {"core", "runner"} /\ bridge \in BOOLEAN /\ suggested \in BOOLEAN)'
  BY <1>1 DEF ReadInv
<1>7. step' \in Steps /\ step' \notin Offering /\ step' # "project"
  BY <1>4 DEF Steps, Offering
<1> QED BY <1>2, <1>3, <1>4, <1>5, <1>6, <1>7 DEF ReadInv

LEMMA ReadSuggested ==
    ASSUME ReadInv, SuggestSettings
    PROVE  ReadInv'
<1> DEFINE r == GameRegion(project.rom)
<1>1. /\ step = "project" /\ reader = "core" /\ r # Nothing /\ suggested' = TRUE
      /\ UNCHANGED <<reader, bridge, config, step, error>>
  BY DEF SuggestSettings
<1>2. /\ Sayable(project') /\ Insertable(project') /\ project'.region = r
      /\ project'.rom = project.rom /\ project'.port = project.port /\ project'.accessory = project.accessory
  <2>1. project' = [project EXCEPT !.region = r]
    BY DEF SuggestSettings
  <2>2. Sayable(project) /\ Insertable(project)
    BY DEF ReadInv
  <2> HIDE DEF r
  <2> QED BY <2>1, <2>2, RegionTaken
<1>3. GameRegion(project.rom)' = r
  BY <1>2 DEF GameRegion
<1>4. /\ (reader = "core" => Len(project.port) <= PortSettings)'
      /\ (reader = "runner" => project.accessory = <<>>)'
  BY <1>1, <1>2 DEF ReadInv
<1>5. config' = Nothing /\ step' = "project" /\ error' = Nothing
  BY <1>1 DEF ReadInv
<1>6. step' \in Steps /\ step' \notin Offering
  BY <1>5 DEF Steps, Offering
<1> HIDE DEF r
<1> QED BY <1>1, <1>2, <1>3, <1>4, <1>5, <1>6 DEF ReadInv

\* Every action but the readers' and the project window's is of the building.
Building ==
    \/ System \/ Medium \/ Save \/ SubCartridge \/ LoadRoot
    \/ MediaPort \/ MediaDone \/ SubSlot \/ SubSlotsDone \/ KeyboardPort \/ DevicePort \/ PortsDone
    \/ Power \/ Shutdown \/ Unload
    \/ \E what \in held \union {m \in {"machine"} : standing} : Exit(what)

\* The two ways a step of it can end otherwise than in its own: it refuses, or
\* it goes on without an error.
Stops == \E why \in Reasons : Refuse(why)
On(next) == step' = next /\ UNCHANGED error /\ Settled

LEMMA Stopped == ASSUME Stops PROVE Settled /\ step' = "refused" /\ error' \in Reasons
BY DEF Stops, Refuse, Settled

LEMMA SystemTurns ==
    ASSUME System
    PROVE  step = "system" /\ (Stops \/ (On("medium") /\ spec # Nothing /\ UNCHANGED <<number, subs>>))
<1>1. SystemErrors \subseteq Reasons /\ "error.no_machine" \in Reasons
  BY DEF SystemErrors, Reasons
<1> HIDE DEF Reasons
<1>2. step = "system" /\ (Stops \/ (spec # Nothing /\ Go("medium", <<>>) /\ UNCHANGED <<subs, told, content, held>>))
  BY <1>1, Zenon DEF System, Stops
<1> QED BY <1>2 DEF Go, On, Settled

LEMMA MediumTurns ==
    ASSUME Medium
    PROVE  step = "medium" /\ (Stops \/ (On("save") /\ UNCHANGED <<number, subs>>))
<1>1. MediumErrors("error.game_not_loaded") \subseteq Reasons /\ "error.no_file" \in Reasons
  BY DEF MediumErrors, Reasons
<1> HIDE DEF Reasons
<1>2. step = "medium" /\ (Stops \/ (Go("save", <<>>) /\ UNCHANGED <<subs, told, content, held>>))
  BY <1>1, Zenon DEF Medium, Stops
<1> QED BY <1>2 DEF Go, On, Settled

LEMMA SaveTurns ==
    ASSUME Save
    PROVE  step = "save" /\ (Stops \/ (On("subs") /\ todo' = config.subs /\ UNCHANGED <<number, subs>>))
<1>1. SaveErrors \subseteq Reasons /\ "error.save_n64_only" \in Reasons
  BY DEF SaveErrors, Reasons
<1> HIDE DEF Reasons
<1>2. step = "save" /\ (Stops \/ (Go("subs", config.subs) /\ UNCHANGED <<subs, told, content, held>>))
  BY <1>1, Zenon DEF Save, Stops
<1> QED BY <1>2 DEF Go, On, Settled

LEMMA SubCartridgeTurns ==
    ASSUME SubCartridge
    PROVE  /\ step = "subs" /\ todo # <<>>
           /\ \/ Stops
              \/ /\ On("subs") /\ todo' = Tail(todo) /\ UNCHANGED number
                 /\ LET fits == Offered(Head(todo))
                    IN  /\ fits # {}
                        /\ subs' = Append(subs, spec.subSlots[CHOOSE i \in fits : \A j \in fits : i <= j])
BY DEF SubCartridge, MediumErrors, Stops, Reasons, Go, On, Settled

LEMMA LoadRootTurns ==
    ASSUME LoadRoot
    PROVE  /\ step = "subs" /\ todo = <<>>
           /\ \/ Stops
              \/ /\ On("media") /\ todo' = Only(ports, Range(ports) \ Takers) /\ told' = Told
                 /\ content' = [n \in {p.name : p \in Range(ports)} |-> <<>>] /\ UNCHANGED <<number, subs>>
BY DEF LoadRoot, Stops, Reasons, Go, On, Settled

LEMMA MediaPortTurns ==
    ASSUME MediaPort
    PROVE  /\ step = "media" /\ todo # <<>> /\ On("media") /\ todo' = Tail(todo)
           /\ content' = IF Head(todo).name = spec.portLeftEmpty THEN content
                         ELSE [content EXCEPT ![Head(todo).name] = PakFor(Head(todo))]
           /\ UNCHANGED <<number, subs, told>>
BY DEF MediaPort, Go, On, Settled

LEMMA MediaDoneTurns ==
    ASSUME MediaDone
    PROVE  /\ step = "media" /\ todo = <<>> /\ On("subslots") /\ todo' = subs
           /\ UNCHANGED <<number, subs, told, content>>
BY DEF MediaDone, Go, On, Settled

LEMMA SubSlotTurns ==
    ASSUME SubSlot
    PROVE  /\ step = "subslots" /\ todo # <<>>
           /\ \/ Stops
              \/ /\ On("subslots") /\ todo' = Tail(todo) /\ UNCHANGED <<number, subs, told>>
                 /\ content' = [n \in DOMAIN content \union {Head(todo).port} |->
                                  IF n = Head(todo).port THEN <<"cartridge">> ELSE content[n]]
BY DEF SubSlot, Stops, Reasons, Go, On, Settled

LEMMA SubSlotsDoneTurns ==
    ASSUME SubSlotsDone
    PROVE  /\ step = "subslots" /\ todo = <<>> /\ On("ports") /\ todo' = Only(ports, Takers)
           /\ UNCHANGED <<number, subs, told, content>>
BY DEF SubSlotsDone, Go, On, Settled

LEMMA KeyboardPortTurns ==
    ASSUME KeyboardPort
    PROVE  /\ step = "ports" /\ todo # <<>> /\ ~IsControllerPort(Head(todo))
           /\ \/ Stops /\ error' = "error.no_keyboard" /\ Head(Head(todo).devices) \notin Head(todo).made
              \/ /\ On("ports") /\ todo' = Tail(todo)
                 /\ content' = [content EXCEPT ![Head(todo).name] = <<Head(Head(todo).devices)>>]
                 /\ UNCHANGED <<number, subs, told>>
<1>1. step = "ports" /\ todo # <<>> /\ ~IsControllerPort(Head(todo))
  BY DEF KeyboardPort
<1>2. CASE Head(Head(todo).devices) \notin Head(todo).made
  <2>1. Refuse("error.no_keyboard") /\ "error.no_keyboard" \in Reasons
    BY <1>2 DEF KeyboardPort, Reasons
  <2> QED BY <1>1, <1>2, <2>1 DEF Stops, Refuse
<1>3. CASE Head(Head(todo).devices) \in Head(todo).made
  <2>1. Plug(Head(todo), <<Head(Head(todo).devices)>>) /\ number' = number
    BY <1>3 DEF KeyboardPort
  <2> QED BY <1>1, <2>1 DEF Plug, On, Settled
<1> QED BY <1>2, <1>3

\* What the Config says of a numbered port's slot, and what the port is given if
\* it is not refused: then there is such a device, with a slot if one is needed.
AccessoryOf(n) == IF config.accessory[n] = Nothing THEN "" ELSE config.accessory[n]
Given(p, n) == IF LeftEmpty(n) THEN <<>> ELSE Equipped(Head(Matches(p, n)), AccessoryOf(n))
Slotless(p, n) == AccessoryOf(n) # "" /\ Head(Matches(p, n)) \notin DOMAIN Accessories
Giveable(p, n) ==
    LeftEmpty(n) \/ (Matches(p, n) # <<>> /\ Head(Matches(p, n)) \in p.made /\ ~Slotless(p, n))

LEMMA DevicePortTurns ==
    ASSUME DevicePort
    PROVE  /\ step = "ports" /\ todo # <<>> /\ IsControllerPort(Head(todo)) /\ number < MaxPorts
           /\ \/ /\ Stops /\ ~LeftEmpty(number + 1)
                 /\ \/ /\ error' = "error.no_device"
                       /\ \/ Matches(Head(todo), number + 1) = <<>>
                          \/ /\ Matches(Head(todo), number + 1) # <<>>
                             /\ Head(Matches(Head(todo), number + 1)) \notin Head(todo).made
                    \/ /\ error' = "error.no_accessory_slot" /\ Slotless(Head(todo), number + 1)
                       /\ Matches(Head(todo), number + 1) # <<>>
              \/ /\ On("ports") /\ todo' = Tail(todo) /\ number' = number + 1
                 /\ Giveable(Head(todo), number + 1)
                 /\ content' = [content EXCEPT ![Head(todo).name] = Given(Head(todo), number + 1)]
                 /\ UNCHANGED <<subs, told>>
<1> DEFINE p == Head(todo)  n == number + 1
           device == Head(Matches(p, n))
           equipped == Equipped(device, AccessoryOf(n))
<1>1. step = "ports" /\ todo # <<>> /\ IsControllerPort(Head(todo)) /\ number < MaxPorts
  BY DEF DevicePort
<1>2. \/ LeftEmpty(n) /\ Plug(p, <<>>) /\ number' = n
      \/ ~LeftEmpty(n) /\ Matches(p, n) = <<>> /\ Refuse("error.no_device")
      \/ ~LeftEmpty(n) /\ Matches(p, n) # <<>> /\ device \notin p.made /\ Refuse("error.no_device")
      \/ ~LeftEmpty(n) /\ Matches(p, n) # <<>> /\ Slotless(p, n) /\ Refuse("error.no_accessory_slot")
      \/ /\ ~LeftEmpty(n) /\ Matches(p, n) # <<>> /\ device \in p.made /\ ~Slotless(p, n)
         /\ Plug(p, equipped) /\ number' = n
  BY Zenon DEF DevicePort, AccessoryOf, Slotless
<1>3. Given(p, n) = IF LeftEmpty(n) THEN <<>> ELSE equipped
  BY Zenon DEF Given
<1> HIDE DEF equipped
<1>4. ASSUME NEW what, Plug(p, what)
      PROVE  /\ On("ports") /\ todo' = Tail(todo) /\ UNCHANGED <<subs, told>>
             /\ content' = [content EXCEPT ![p.name] = what]
  BY <1>1, <1>4 DEF Plug, On, Settled
<1>5. ASSUME NEW why \in {"error.no_device", "error.no_accessory_slot"}, Refuse(why)
      PROVE  Stops /\ error' = why
  BY <1>5 DEF Refuse, Stops, Reasons
<1>6. CASE LeftEmpty(n)
  BY <1>1, <1>2, <1>3, <1>4, <1>6 DEF Giveable
<1>7. CASE ~LeftEmpty(n) /\ Plug(p, equipped) /\ number' = n /\ Giveable(p, n)
  BY <1>1, <1>3, <1>4, <1>7
<1>8. CASE ~LeftEmpty(n) /\ Refuse("error.no_device") /\ (Matches(p, n) = <<>> \/ device \notin p.made)
  BY <1>1, <1>5, <1>8
<1>9. CASE /\ ~LeftEmpty(n) /\ Matches(p, n) # <<>> /\ Slotless(p, n) /\ Refuse("error.no_accessory_slot")
  BY <1>1, <1>5, <1>9
<1> QED BY <1>2, <1>6, <1>7, <1>8, <1>9, Zenon DEF Giveable

LEMMA PortsDoneTurns ==
    ASSUME PortsDone
    PROVE  /\ step = "ports" /\ LoopEnded /\ On("power") /\ UNCHANGED <<number, subs, told, content>>
BY DEF PortsDone, Go, On, Settled

LEMMA PowerTurns ==
    ASSUME Power
    PROVE  step = "power" /\ (Stops \/ (On("built") /\ UNCHANGED <<number, subs, told, content>>))
<1>1. "error.n64_needs_vulkan" \in Reasons
  BY DEF Reasons
<1>2. step = "power" /\ (Stops \/ (Go("built", <<>>) /\ UNCHANGED <<subs, told, content>>))
  BY <1>1, Zenon DEF Power, Stops
<1> QED BY <1>2 DEF Go, On, Settled

LEMMA EndTurns ==
    ASSUME Shutdown \/ Unload \/ \E what \in held \union {m \in {"machine"} : standing} : Exit(what)
    PROVE  /\ step \in {"built", "unloading", "refused", "ended"} /\ step' \in {"unloading", "ended"}
           /\ step \in {"refused", "ended"} => step' = "ended"
           /\ UNCHANGED <<error, number>> /\ Settled
BY DEF Shutdown, Unload, Exit, Go, Settled

\* The steps before the machine is built know nothing of it yet.
LEMMA ReadStops == ASSUME ReadInv, Stops, step # "project" PROVE ReadInv'
BY Stopped, ReadOn DEF Steps, Offering

LEMMA ReadGoesOn ==
    ASSUME ReadInv, step \in Steps \ {"project", "refused", "unloading", "ended"}, NEW next, On(next),
           next \in Offering, config.machine \in DOMAIN All
    PROVE  ReadInv'
<1>1. error = Nothing /\ next \in Steps \ {"project"}
  BY DEF ReadInv, Offering, Steps
<1> QED BY <1>1, ReadOn DEF On

LEMMA ReadOfBuilding ==
    ASSUME ReadInv, Building
    PROVE  ReadInv'
<1>1. CASE System
  <2>1. spec # Nothing => config.machine \in DOMAIN All
    BY DEF spec, Find
  <2> QED BY <1>1, <2>1, SystemTurns, ReadStops, ReadGoesOn DEF Offering, Steps
<1>2. CASE Medium
  BY <1>2, MediumTurns, ReadStops, ReadGoesOn DEF Offering, Steps, ReadInv
<1>3. CASE Save
  BY <1>3, SaveTurns, ReadStops, ReadGoesOn DEF Offering, Steps, ReadInv
<1>4. CASE SubCartridge
  BY <1>4, SubCartridgeTurns, ReadStops, ReadGoesOn DEF Offering, Steps, ReadInv
<1>5. CASE LoadRoot
  BY <1>5, LoadRootTurns, ReadStops, ReadGoesOn DEF Offering, Steps, ReadInv
<1>6. CASE MediaPort \/ MediaDone
  BY <1>6, MediaPortTurns, MediaDoneTurns, ReadGoesOn DEF Offering, Steps, ReadInv
<1>7. CASE SubSlot
  BY <1>7, SubSlotTurns, ReadStops, ReadGoesOn DEF Offering, Steps, ReadInv
<1>8. CASE SubSlotsDone \/ KeyboardPort
  BY <1>8, SubSlotsDoneTurns, KeyboardPortTurns, ReadStops, ReadGoesOn DEF Offering, Steps, ReadInv
<1>9. CASE DevicePort
  BY <1>9, DevicePortTurns, ReadStops, ReadGoesOn DEF Offering, Steps, ReadInv
<1>10. CASE PortsDone
  BY <1>10, PortsDoneTurns, ReadGoesOn DEF Offering, Steps, ReadInv
<1>11. CASE Power
  BY <1>11, PowerTurns, ReadStops, ReadGoesOn DEF Offering, Steps, ReadInv
<1>12. CASE Shutdown \/ Unload \/ \E what \in held \union {m \in {"machine"} : standing} : Exit(what)
  <2>1. error # Nothing => step' = "ended"
    BY <1>12, EndTurns DEF ReadInv
  <2> QED BY <1>12, <2>1, EndTurns, ReadOn DEF Offering, Steps
<1> QED BY <1>1, <1>2, <1>3, <1>4, <1>5, <1>6, <1>7, <1>8, <1>9, <1>10, <1>11, <1>12 DEF Building

LEMMA ReadKeeps == ReadInv /\ [Next]_vars => ReadInv'
<1> SUFFICES ASSUME ReadInv, [Next]_vars PROVE ReadInv'
  OBVIOUS
<1>1. CASE UNCHANGED vars
  <2>1. ConfigOf' = ConfigOf
    BY <1>1, Zenon DEF vars, ConfigOf, Read
  <2> QED BY <1>1, <2>1 DEF vars, ReadInv
<1>2. CASE Building
  BY <1>2, ReadOfBuilding
<1>3. CASE ReadByCore \/ ReadByRunner \/ SuggestSettings
  BY <1>3, ReadByEither, ReadSuggested
<1> QED BY <1>1, <1>2, <1>3 DEF Next, Building

-----------------------------------------------------------------------------
(* The further cartridges.                                                     *)

\* What is found of the machine is the same while the config is.
LEMMA SameMachine ==
    ASSUME config' = config
    PROVE  spec' = spec /\ ports' = ports /\ Takers' = Takers /\ Told' = Told
BY Zenon DEF spec, ports, Takers, Told

LEMMA SlotsOfTheMachine ==
    ASSUME ReadInv, step \in Offering
    PROVE  /\ spec = All[config.machine] /\ Classed(spec.subSlots)
           /\ IsList(config.subs) /\ config.subs = Further
<1>1. spec = All[config.machine] /\ config.machine \in DOMAIN All
  BY DEF ReadInv, spec, Find
<1>2. config.subs = Further
  BY ConfigReads DEF Reads, Offering
<1>3. IsList(Further)
  <2>1. IsList(project.subs)
    BY DEF ReadInv, Sayable
  <2> DEFINE s == project.subs  w == {f \in Range(s) : Has(f)}
  <2>2. Further = Only(s, w)
    BY Zenon DEF Further
  <2> HIDE DEF s, w
  <2>3. IsList(s)
    BY <2>1 DEF s
  <2> QED BY <2>2, <2>3, Selected
<1> QED BY <1>1, <1>2, <1>3, EveryMachineIsClassed

LEMMA SubsBegin == Init => SubsInv
BY DEF Init, SubsInv, Built

\* The first of the slots that take a file is one of them.
LEMMA FirstOffered ==
    ASSUME NEW slots, Len(slots) \in Nat, NEW F, F \subseteq 1 .. Len(slots), F # {}
    PROVE  LET j == CHOOSE i \in F : \A k \in F : i <= k
           IN  j \in F /\ \A k \in F : j <= k
<1>1. F \subseteq Nat
  OBVIOUS
<1>2. \E i \in F : \A k \in F : i <= k
  BY <1>1, LeastOfNaturals
<1> QED BY <1>2

\* One more cartridge is given the first slot that takes it and is not taken.
LEMMA OneMoreFits ==
    ASSUME NEW slots, IsList(slots), NEW files, IsList(files), NEW given, FirstFit(slots, files, given),
           Len(given) < Len(files), NEW j \in 1 .. Len(slots),
           files[Len(given) + 1] \in slots[j].extensions,
           \A h \in 1 .. Len(given) : given[h].port # slots[j].port,
           \A m \in 1 .. j - 1 : files[Len(given) + 1] \in slots[m].extensions
                                 => \E h \in 1 .. Len(given) : given[h].port = slots[m].port
    PROVE  FirstFit(slots, files, Append(given, slots[j])) /\ Len(Append(given, slots[j])) = Len(given) + 1
<1> DEFINE n == Len(given)  more == Append(given, slots[j])
<1>1. IsList(given) /\ n \in Nat /\ Len(files) \in Nat
  BY ListFacts DEF FirstFit
<1>2. IsList(more)
  BY <1>1, OneAppended
<1>3. Len(more) = n + 1 /\ more[n + 1] = slots[j] /\ \A i \in 1 .. n : more[i] = given[i]
  BY <1>1 DEF IsList
<1>4. \A i \in 1 .. n : /\ files[i] \in given[i].extensions
                        /\ \A h \in 1 .. i - 1 : given[h].port # given[i].port
                        /\ \E k \in 1 .. Len(slots) :
                              /\ given[i] = slots[k]
                              /\ \A m \in 1 .. k - 1 : files[i] \in slots[m].extensions
                                                       => \E h \in 1 .. i - 1 : given[h].port = slots[m].port
  BY DEF FirstFit
<1> HIDE DEF more, n
<1>5. ASSUME NEW i \in 1 .. n + 1
      PROVE  /\ files[i] \in more[i].extensions
             /\ \A h \in 1 .. i - 1 : more[h].port # more[i].port
             /\ \E k \in 1 .. Len(slots) :
                   /\ more[i] = slots[k]
                   /\ \A m \in 1 .. k - 1 : files[i] \in slots[m].extensions
                                            => \E h \in 1 .. i - 1 : more[h].port = slots[m].port
  <2>1. CASE i = n + 1
    <3>1. files[i] \in more[i].extensions /\ \A h \in 1 .. i - 1 : more[h].port # more[i].port
      BY <1>1, <1>3, <2>1 DEF n
    <3>2. ASSUME NEW m \in 1 .. j - 1, files[i] \in slots[m].extensions
          PROVE  \E h \in 1 .. i - 1 : more[h].port = slots[m].port
      <4>1. PICK h \in 1 .. n : given[h].port = slots[m].port
        BY <2>1, <3>2 DEF n
      <4> QED BY <1>1, <1>3, <2>1, <4>1
    <3>3. more[i] = slots[j]
      BY <1>3, <2>1
    <3> QED BY <3>1, <3>2, <3>3
  <2>2. CASE i # n + 1
    <3>1. i \in 1 .. n /\ \A h \in 1 .. i - 1 : h \in 1 .. n
      BY <1>1, <2>2
    <3>2. more[i] = given[i] /\ \A h \in 1 .. i - 1 : more[h] = given[h]
      BY <1>3, <3>1
    <3>3. PICK k \in 1 .. Len(slots) :
             /\ given[i] = slots[k]
             /\ \A m \in 1 .. k - 1 : files[i] \in slots[m].extensions
                                      => \E h \in 1 .. i - 1 : given[h].port = slots[m].port
      BY <1>4, <3>1
    <3>4. \A m \in 1 .. k - 1 : files[i] \in slots[m].extensions
                                => \E h \in 1 .. i - 1 : more[h].port = slots[m].port
      BY <3>2, <3>3
    <3>5. files[i] \in more[i].extensions
      BY <1>4, <3>1, <3>2
    <3>6. ASSUME NEW h \in 1 .. i - 1 PROVE more[h].port # more[i].port
      <4>1. given[h].port # given[i].port
        BY <1>4, <3>1
      <4> QED BY <3>2, <4>1
    <3> QED BY <3>2, <3>3, <3>4, <3>5, <3>6
  <2> QED BY <2>1, <2>2
<1>6. Len(more) <= Len(files)
  BY <1>1, <1>3 DEF n
<1>7. FirstFit(slots, files, more)
  BY <1>2, <1>3, <1>5, <1>6 DEF FirstFit
<1> QED BY <1>3, <1>7 DEF more, n

\* A step that leaves the further cartridges alone.
LEMMA SubsLeft ==
    ASSUME ReadInv, SubsInv, Settled, UNCHANGED <<subs, told>>, step \in Built,
           step' \in Built \union {"unloading", "ended"}
    PROVE  SubsInv'
<1>1. spec' = spec /\ Told' = Told /\ config' = config
  BY SameMachine DEF Settled
<1>2. step' \notin {"project", "system", "medium", "save", "subs"}
  BY DEF Built
<1>3. (step \in Built => Len(subs) = Len(config.subs) /\ told = Told)'
  BY <1>1 DEF SubsInv
<1>4. (step \in {"subs"} \union Built => FirstFit(spec.subSlots, config.subs, subs))'
  BY <1>1 DEF SubsInv
<1> QED BY <1>2, <1>3, <1>4 DEF SubsInv

LEMMA SubsStop == ASSUME Stops PROVE SubsInv'
<1>1. step' = "refused"
  BY Stopped
<1> QED BY <1>1 DEF SubsInv, Built

\* No cartridge has been given a slot yet when they are begun with.
LEMMA SubsOfSave ==
    ASSUME ReadInv, SubsInv, Save
    PROVE  SubsInv'
<1>1. CASE Stops
  BY <1>1, SubsStop
<1>2. CASE ~Stops
  <2>1. step = "save" /\ On("subs") /\ todo' = config.subs /\ subs' = subs
    BY <1>2, SaveTurns
  <2>2. subs' = <<>> /\ IsList(config.subs) /\ spec' = spec /\ config' = config
    BY <2>1, SlotsOfTheMachine, SameMachine DEF SubsInv, On, Settled, Offering
  <2> DEFINE none == <<>>
  <2>3. IsList(none) /\ Len(none) = 0
    BY EmptyList
  <2>4. Len(config.subs) \in Nat
    BY <2>2, ListFacts
  <2>5. subs' = none
    BY <2>2
  <2> HIDE DEF none
  <2>6. FirstFit(spec.subSlots, config.subs, none)
    BY <2>3, <2>4 DEF FirstFit
  <2>7. todo' = From(config.subs, Len(none) + 1)
    BY <2>1, <2>2, <2>3, BothEndsFrom
  <2>8. step' = "subs"
    BY <2>1 DEF On
  <2>9. /\ (step = "subs" => todo = From(config.subs, Len(subs) + 1))'
        /\ (step \in {"subs"} \union Built => FirstFit(spec.subSlots, config.subs, subs))'
    BY <2>2, <2>5, <2>6, <2>7
  <2> QED BY <2>8, <2>9 DEF SubsInv, Built
<1> QED BY <1>1, <1>2

\* One cartridge more is given its slot.
LEMMA SubsOfSubCartridge ==
    ASSUME ReadInv, SubsInv, SubCartridge
    PROVE  SubsInv'
<1>1. CASE Stops
  BY <1>1, SubsStop
<1>2. CASE ~Stops
  <2> DEFINE slots == spec.subSlots  files == config.subs  n == Len(subs)
             fits == Offered(Head(todo))
             j == CHOOSE i \in fits : \A k \in fits : i <= k
  <2>1. /\ step = "subs" /\ todo # <<>> /\ On("subs") /\ todo' = Tail(todo)
        /\ fits # {} /\ subs' = Append(subs, slots[j])
    BY <1>2, SubCartridgeTurns, Zenon
  <2>2. /\ Classed(slots) /\ IsList(slots) /\ IsList(files) /\ FirstFit(slots, files, subs)
        /\ todo = From(files, n + 1)
    BY <2>1, SlotsOfTheMachine DEF SubsInv, Offering, Classed
  <2>3. Len(slots) \in Nat /\ Len(files) \in Nat /\ n \in Nat /\ n <= Len(files)
    BY <2>2, ListFacts DEF FirstFit
  <2>4. n < Len(files) /\ Head(todo) = files[n + 1] /\ Tail(todo) = From(files, n + 2)
    <3>1. n + 1 \in 1 .. Len(files) + 1
      BY <2>3
    <3> HIDE DEF n, files
    <3>2. n + 1 <= Len(files) /\ Head(todo) = files[n + 1] /\ Tail(todo) = From(files, n + 1 + 1)
      BY <2>1, <2>2, <3>1, RestFrom
    <3>3. n + 1 + 1 = n + 2
      BY <2>3
    <3> QED BY <2>3, <3>2, <3>3
  <2>5. \A i : i \in fits <=> /\ i \in 1 .. Len(slots) /\ files[n + 1] \in slots[i].extensions
                              /\ ~(\E h \in 1 .. n : subs[h].port = slots[i].port)
    BY <2>4 DEF Offered, Taken
  <2> HIDE DEF fits
  <2>6. j \in fits /\ \A k \in fits : j <= k
    BY <2>1, <2>3, <2>5, FirstOffered
  <2> HIDE DEF j
  <2>7. /\ j \in 1 .. Len(slots) /\ files[n + 1] \in slots[j].extensions
        /\ \A h \in 1 .. n : subs[h].port # slots[j].port
    BY <2>5, <2>6
  <2>8. ASSUME NEW m \in 1 .. j - 1, files[n + 1] \in slots[m].extensions
        PROVE  \E h \in 1 .. n : subs[h].port = slots[m].port
    <3>1. m \in 1 .. Len(slots) /\ ~(j <= m)
      BY <2>3, <2>7
    <3> QED BY <2>5, <2>6, <2>8, <3>1
  <2>9. FirstFit(slots, files, subs') /\ Len(subs') = n + 1
    <3> HIDE DEF slots, files
    <3> QED BY <2>1, <2>2, <2>4, <2>7, <2>8, OneMoreFits
  <2>10. spec' = spec /\ config' = config
    BY <2>1, SameMachine DEF On, Settled
  <2>11. /\ (step = "subs" => todo = From(config.subs, Len(subs) + 1))'
         /\ (step \in {"subs"} \union Built => FirstFit(spec.subSlots, config.subs, subs))'
    <3>1. n + 1 + 1 = n + 2
      BY <2>3
    <3> QED BY <2>1, <2>4, <2>9, <2>10, <3>1
  <2>12. step' = "subs"
    BY <2>1 DEF On
  <2> QED BY <2>11, <2>12 DEF SubsInv, Built
<1> QED BY <1>1, <1>2

\* The machine is built when all of them have one.
LEMMA SubsOfLoadRoot ==
    ASSUME ReadInv, SubsInv, LoadRoot
    PROVE  SubsInv'
<1>1. CASE Stops
  BY <1>1, SubsStop
<1>2. CASE ~Stops
  <2>1. /\ step = "subs" /\ todo = <<>> /\ On("media") /\ told' = Told /\ subs' = subs
    BY <1>2, LoadRootTurns
  <2>2. /\ IsList(config.subs) /\ FirstFit(spec.subSlots, config.subs, subs)
        /\ From(config.subs, Len(subs) + 1) = <<>>
    BY <2>1, SlotsOfTheMachine DEF SubsInv, Offering
  <2>3. Len(config.subs) \in Nat /\ Len(subs) \in Nat /\ Len(subs) <= Len(config.subs)
    BY <2>2, ListFacts DEF FirstFit
  <2>4. Len(subs) + 1 \in 1 .. Len(config.subs) + 1
    BY <2>3
  <2>5. Len(subs) = Len(config.subs)
    BY <2>2, <2>3, <2>4, BothEndsFrom
  <2>6. spec' = spec /\ config' = config /\ Told' = Told /\ step' = "media"
    BY <2>1, SameMachine DEF On, Settled
  <2>7. /\ (step \in Built => Len(subs) = Len(config.subs) /\ told = Told)'
        /\ (step \in {"subs"} \union Built => FirstFit(spec.subSlots, config.subs, subs))'
    BY <2>1, <2>2, <2>5, <2>6
  <2> QED BY <2>6, <2>7 DEF SubsInv
<1> QED BY <1>1, <1>2

LEMMA SubsKeep == ReadInv /\ SubsInv /\ [Next]_vars => SubsInv'
<1> SUFFICES ASSUME ReadInv, SubsInv, [Next]_vars PROVE SubsInv'
  OBVIOUS
<1>1. CASE UNCHANGED vars
  BY <1>1, SameMachine DEF vars, SubsInv
<1>2. CASE ReadByCore \/ ReadByRunner \/ SuggestSettings
  <2>1. step = "project" /\ step' \in {"project", "system", "refused"} /\ subs' = subs
    BY <1>2 DEF ReadByCore, ReadByRunner, SuggestSettings
  <2> QED BY <2>1 DEF SubsInv, Built
<1>3. CASE System \/ Medium
  <2>1. \/ Stops
        \/ step \in {"system", "medium"} /\ step' \in {"medium", "save"} /\ subs' = subs
    BY <1>3, SystemTurns, MediumTurns DEF On
  <2> QED BY <2>1, SubsStop DEF SubsInv, Built
<1>4. CASE Save \/ SubCartridge \/ LoadRoot
  BY <1>4, SubsOfSave, SubsOfSubCartridge, SubsOfLoadRoot
<1>5. CASE \/ MediaPort \/ MediaDone \/ SubSlot \/ SubSlotsDone \/ KeyboardPort \/ DevicePort \/ PortsDone
           \/ Power
  <2>1. \/ Stops
        \/ /\ Settled /\ UNCHANGED <<subs, told>> /\ step \in Built
           /\ step' \in Built \union {"unloading", "ended"}
    BY <1>5, MediaPortTurns, MediaDoneTurns, SubSlotTurns, SubSlotsDoneTurns, KeyboardPortTurns, DevicePortTurns,
       PortsDoneTurns, PowerTurns DEF On, Built
  <2> QED BY <2>1, SubsStop, SubsLeft
<1>6. CASE Shutdown \/ Unload \/ \E what \in held \union {m \in {"machine"} : standing} : Exit(what)
  <2>1. step' \in {"unloading", "ended"}
    BY <1>6, EndTurns
  <2> QED BY <2>1 DEF SubsInv, Built
<1> QED BY <1>1, <1>2, <1>3, <1>4, <1>5, <1>6 DEF Next

-----------------------------------------------------------------------------
(* The slots.                                                                  *)

\* What is known of the ports of a machine that is built.
LEMMA PortsOfTheMachine ==
    ASSUME ReadInv, step \in Offering
    PROVE  /\ IsList(ports)
           /\ \A i, j \in 1 .. Len(ports) :
                 /\ ports[i].name = ports[j].name => i = j
                 /\ i < j /\ Numbered(i) > MaxPorts => ~ports[j].keyboard
           /\ \A p \in Range(ports) :
                 /\ IsList(p.devices) /\ "game" \notin Range(p.devices)
                 /\ ~p.keyboard => \A d \in Range(p.devices) :
                                       Letters(d) \notin KeyboardNames \union {"", "none", "default"}
                 /\ \A s \in Range(spec.subSlots) : s.port # p.name
<1>1. config.machine \in DOMAIN All /\ config.machine = MachineId(project)
  BY ConfigReads DEF ReadInv, Reads, Offering
<1>2. config.machine \in DOMAIN Ports /\ spec = All[config.machine] /\ ports = Ports[config.machine]
  BY <1>1 DEF ReadInv, Sayable, spec, Find, ports
<1> DEFINE all == Ports[config.machine]
<1>3. /\ IsList(all)
      /\ \A i, j \in 1 .. Len(all) :
            /\ all[i].name = all[j].name => i = j
            /\ i < j /\ Cardinality({k \in 1 .. i : all[k].devices # <<>> /\ ~all[k].keyboard}) > MaxPorts
               => ~all[j].keyboard
      /\ \A p \in Range(all) :
            /\ IsList(p.devices) /\ "game" \notin Range(p.devices)
            /\ ~p.keyboard => \A d \in Range(p.devices) :
                                  Letters(d) \notin KeyboardNames \union {"", "none", "default"}
            /\ config.machine \in DOMAIN All =>
                  \A s \in Range(All[config.machine].subSlots) : s.port # p.name
  BY <1>2, PortsAssumption, Zenon
<1>4. \A i : Numbered(i) = Cardinality({k \in 1 .. i : all[k].devices # <<>> /\ ~all[k].keyboard})
  BY <1>2, Zenon DEF Numbered
<1>5. ports = all
  BY <1>2
<1> HIDE DEF all
<1>6. \A i, j \in 1 .. Len(all) : i < j /\ Numbered(i) > MaxPorts => ~all[j].keyboard
  BY <1>3, <1>4
<1> QED BY <1>1, <1>2, <1>3, <1>5, <1>6

\* Ports of one name are one port.
LEMMA NamedApart ==
    ASSUME ReadInv, step \in Offering, NEW p \in Range(ports), NEW q \in Range(ports), p.name = q.name
    PROVE  p = q
<1>1. /\ IsList(ports)
      /\ \A i, j \in 1 .. Len(ports) : ports[i].name = ports[j].name => i = j
  BY PortsOfTheMachine
<1>2. PICK i \in 1 .. Len(ports) : p = ports[i]
  BY <1>1, ListFacts
<1>3. PICK j \in 1 .. Len(ports) : q = ports[j]
  BY <1>1, ListFacts
<1> QED BY <1>1, <1>2, <1>3

\* The slots the further cartridges have are the cartridge's, not the machine's.
LEMMA SlotsApart ==
    ASSUME ReadInv, SubsInv, step \in {"subs"} \union Built, NEW i \in 1 .. Len(subs), NEW p \in Range(ports)
    PROVE  subs[i].port # p.name
<1>1. step \in Offering
  BY DEF Offering, Built
<1>2. PICK j \in 1 .. Len(spec.subSlots) : subs[i] = spec.subSlots[j]
  BY DEF SubsInv, FirstFit
<1>3. subs[i] \in Range(spec.subSlots)
  BY <1>1, <1>2, SlotsOfTheMachine, ListFacts DEF Classed
<1> QED BY <1>1, <1>3, PortsOfTheMachine

LEMMA SamePlaces ==
    ASSUME config' = config
    PROVE  \A p : Placed(p)' = Placed(p)
BY Zenon DEF Placed, PakFor, spec

\* The machine is built with nothing in it.
LEMMA PlacesOfLoadRoot ==
    ASSUME ReadInv, LoadRoot
    PROVE  PlacesInv'
<1>1. CASE Stops
  BY <1>1, Stopped DEF PlacesInv, Built
<1>2. CASE ~Stops
  <2> DEFINE names == {p.name : p \in Range(ports)}
             w == Range(ports) \ Takers
  <2>1. /\ step = "subs" /\ On("media") /\ todo' = Only(ports, w)
        /\ content' = [n \in names |-> <<>>]
    BY <1>2, LoadRootTurns
  <2>2. IsList(ports) /\ config' = config /\ ports' = ports /\ Takers' = Takers /\ step' = "media"
    BY <2>1, PortsOfTheMachine, SameMachine DEF On, Settled, Offering
  <2>3. names' = names
    BY <2>2
  <2>4. DOMAIN content' = names /\ \A p \in Range(ports) : content'[p.name] = <<>>
    BY <2>1
  <2> HIDE DEF names, w
  <2>5. IsList(Only(ports, w)) /\ Range(Only(ports, w)) = Range(ports) \intersect w
    BY <2>2, Selected
  <2>6. IsList(todo') /\ Range(todo') = w
    BY <2>1, <2>5 DEF w
  <2>7. (/\ IsList(todo) /\ Range(todo) \subseteq Range(ports) \ Takers
         /\ \A p \in Range(ports) \ Takers :
               /\ content[p.name] \in {<<>>, Placed(p)}
               /\ p \notin Range(todo) => content[p.name] = Placed(p))'
    BY <2>2, <2>4, <2>6 DEF w
  <2>8. ({p.name : p \in Range(ports)} \subseteq DOMAIN content)'
    BY <2>3, <2>4 DEF names
  <2> QED BY <2>2, <2>7, <2>8 DEF PlacesInv
<1> QED BY <1>1, <1>2

\* One slot more is handed what pak() has for it.
LEMMA PlacesOfMediaPort ==
    ASSUME ReadInv, PlacesInv, MediaPort
    PROVE  PlacesInv'
<1> DEFINE q == Head(todo)
           names == {p.name : p \in Range(ports)}
<1>1. /\ step = "media" /\ todo # <<>> /\ On("media") /\ todo' = Tail(todo)
      /\ content' = IF q.name = spec.portLeftEmpty THEN content
                    ELSE [content EXCEPT ![q.name] = PakFor(q)]
  BY MediaPortTurns
<1>2. /\ IsList(todo) /\ Range(todo) \subseteq Range(ports) \ Takers
      /\ \A p \in Range(ports) \ Takers : /\ content[p.name] \in {<<>>, Placed(p)}
                                          /\ p \notin Range(todo) => content[p.name] = Placed(p)
      /\ names \subseteq DOMAIN content
  BY <1>1 DEF PlacesInv, Built
<1>3. IsList(todo') /\ q \in Range(todo) /\ Range(todo) = {q} \union Range(todo')
  BY <1>1, <1>2, RestOfList
<1>4. config' = config /\ ports' = ports /\ Takers' = Takers /\ step' = "media" /\ names' = names
  BY <1>1, SameMachine DEF On, Settled
<1>5. \A p : Placed(p)' = Placed(p)
  BY <1>4, SamePlaces
<1> HIDE DEF q
<1>6. q \in Range(ports) \ Takers
  BY <1>2, <1>3
<1>7. content'[q.name] = Placed(q) /\ DOMAIN content' = DOMAIN content
  <2>1. CASE q.name = spec.portLeftEmpty
    BY <1>1, <1>2, <1>6, <2>1 DEF Placed
  <2>2. CASE q.name # spec.portLeftEmpty
    BY <1>1, <1>2, <1>6, <2>2 DEF Placed
  <2> QED BY <2>1, <2>2
<1>8. ASSUME NEW p \in Range(ports), p # q PROVE content'[p.name] = content[p.name]
  <2>1. p.name # q.name
    BY <1>1, <1>6, <1>8, NamedApart DEF Offering
  <2> QED BY <1>1, <2>1, <1>2
<1>9. (/\ IsList(todo) /\ Range(todo) \subseteq Range(ports) \ Takers
       /\ \A p \in Range(ports) \ Takers :
             /\ content[p.name] \in {<<>>, Placed(p)}
             /\ p \notin Range(todo) => content[p.name] = Placed(p))'
  <2>1. ASSUME NEW p \in Range(ports) \ Takers
        PROVE  /\ content'[p.name] \in {<<>>, Placed(p)}
               /\ p \notin Range(todo') => content'[p.name] = Placed(p)
    BY <1>2, <1>3, <1>7, <1>8
  <2> QED BY <1>2, <1>3, <1>4, <1>5, <2>1
<1>10. ({p.name : p \in Range(ports)} \subseteq DOMAIN content)'
  BY <1>2, <1>4, <1>7
<1> QED BY <1>4, <1>9, <1>10 DEF PlacesInv

LEMMA PlacesOfMediaDone ==
    ASSUME ReadInv, SubsInv, PlacesInv, MediaDone
    PROVE  PlacesInv'
<1> DEFINE names == {p.name : p \in Range(ports)}
<1>1. step = "media" /\ todo = <<>> /\ On("subslots") /\ todo' = subs /\ UNCHANGED <<subs, content>>
  BY MediaDoneTurns
<1>2. config' = config /\ ports' = ports /\ Takers' = Takers /\ step' = "subslots" /\ names' = names
  BY <1>1, SameMachine DEF On, Settled
<1>3. \A p : Placed(p)' = Placed(p)
  BY <1>2, SamePlaces
<1>4. /\ \A p \in Range(ports) \ Takers : content[p.name] = Placed(p)
      /\ names \subseteq DOMAIN content
  BY <1>1, EmptyList DEF PlacesInv, Built
<1>5. (\A p \in Range(ports) \ Takers : content[p.name] = Placed(p))'
  BY <1>1, <1>2, <1>3, <1>4
<1>6. ({p.name : p \in Range(ports)} \subseteq DOMAIN content)'
  BY <1>1, <1>2, <1>4
<1>7. IsList(subs) /\ Len(subs) \in Nat
  BY <1>1, ListFacts DEF SubsInv, Built, FirstFit
<1>8. (\E n \in 0 .. Len(subs) :
         /\ todo = From(subs, n + 1)
         /\ \A i \in 1 .. n : subs[i].port \in DOMAIN content /\ content[subs[i].port] = <<"cartridge">>)'
  <2>1. From(subs, 0 + 1) = subs /\ 0 \in 0 .. Len(subs)
    BY <1>7, BothEndsFrom
  <2> QED BY <1>1, <2>1
<1> QED BY <1>2, <1>5, <1>6, <1>8 DEF PlacesInv

\* A further cartridge goes into its slot, and disturbs nothing of the machine's.
LEMMA PlacesOfSubSlot ==
    ASSUME ReadInv, SubsInv, PlacesInv, SubSlot
    PROVE  PlacesInv'
<1>1. CASE Stops
  BY <1>1, Stopped DEF PlacesInv, Built
<1>2. CASE ~Stops
  <2> DEFINE q == Head(todo)
             names == {p.name : p \in Range(ports)}
  <2>1. /\ step = "subslots" /\ todo # <<>> /\ On("subslots") /\ todo' = Tail(todo) /\ subs' = subs
        /\ content' = [n \in DOMAIN content \union {q.port} |->
                         IF n = q.port THEN <<"cartridge">> ELSE content[n]]
    BY <1>2, SubSlotTurns
  <2>2. PICK n \in 0 .. Len(subs) :
           /\ todo = From(subs, n + 1)
           /\ \A i \in 1 .. n : subs[i].port \in DOMAIN content /\ content[subs[i].port] = <<"cartridge">>
    BY <2>1 DEF PlacesInv
  <2>3. /\ \A p \in Range(ports) \ Takers : content[p.name] = Placed(p)
        /\ names \subseteq DOMAIN content
    BY <2>1 DEF PlacesInv, Built
  <2>4. IsList(subs) /\ Len(subs) \in Nat
    BY <2>1, ListFacts DEF SubsInv, Built, FirstFit
  <2>5. n + 1 \in 1 .. Len(subs) /\ q = subs[n + 1] /\ todo' = From(subs, (n + 1) + 1)
    <3>1. n + 1 \in 1 .. Len(subs) + 1
      BY <2>4
    <3> QED BY <2>1, <2>2, <2>4, <3>1, RestFrom
  <2>6. \A p \in Range(ports) : q.port # p.name
    BY <2>1, <2>5, SlotsApart DEF Built
  <2>7. config' = config /\ ports' = ports /\ Takers' = Takers /\ step' = "subslots" /\ names' = names
    BY <2>1, SameMachine DEF On, Settled
  <2>8. \A p : Placed(p)' = Placed(p)
    BY <2>7, SamePlaces
  <2> HIDE DEF q
  <2>9. \A p \in Range(ports) : p.name \in DOMAIN content' /\ content'[p.name] = content[p.name]
    BY <2>1, <2>3, <2>6
  <2>10. (\A p \in Range(ports) \ Takers : content[p.name] = Placed(p))'
    BY <2>3, <2>7, <2>8, <2>9
  <2>11. ({p.name : p \in Range(ports)} \subseteq DOMAIN content)'
    BY <2>7, <2>9
  <2>12. ASSUME NEW i \in 1 .. n + 1
         PROVE  subs[i].port \in DOMAIN content' /\ content'[subs[i].port] = <<"cartridge">>
    <3>1. CASE subs[i].port = q.port
      BY <2>1, <3>1
    <3>2. CASE subs[i].port # q.port
      <4>1. i \in 1 .. n
        BY <2>5, <3>2
      <4>2. subs[i].port \in DOMAIN content /\ content[subs[i].port] = <<"cartridge">>
        BY <2>2, <4>1
      <4> QED BY <2>1, <3>2, <4>2
    <3> QED BY <3>1, <3>2
  <2>13. (\E k \in 0 .. Len(subs) :
            /\ todo = From(subs, k + 1)
            /\ \A i \in 1 .. k : subs[i].port \in DOMAIN content /\ content[subs[i].port] = <<"cartridge">>)'
    <3>1. n + 1 \in 0 .. Len(subs)
      BY <2>4, <2>5
    <3> QED BY <2>1, <2>5, <2>12, <3>1
  <2> QED BY <2>7, <2>10, <2>11, <2>13 DEF PlacesInv
<1> QED BY <1>1, <1>2

LEMMA PlacesOfSubSlotsDone ==
    ASSUME ReadInv, SubsInv, PlacesInv, SubSlotsDone
    PROVE  PlacesInv'
<1> DEFINE names == {p.name : p \in Range(ports)}
<1>1. step = "subslots" /\ todo = <<>> /\ On("ports") /\ UNCHANGED <<subs, content>>
  BY SubSlotsDoneTurns
<1>2. PICK n \in 0 .. Len(subs) :
         /\ todo = From(subs, n + 1)
         /\ \A i \in 1 .. n : subs[i].port \in DOMAIN content /\ content[subs[i].port] = <<"cartridge">>
  BY <1>1 DEF PlacesInv
<1>3. IsList(subs) /\ Len(subs) \in Nat
  BY <1>1, ListFacts DEF SubsInv, Built, FirstFit
<1>4. n = Len(subs)
  <2>1. n + 1 \in 1 .. Len(subs) + 1
    BY <1>3
  <2>2. n + 1 = Len(subs) + 1
    BY <1>1, <1>2, <1>3, <2>1, BothEndsFrom
  <2> QED BY <1>3, <2>2
<1>5. config' = config /\ ports' = ports /\ Takers' = Takers /\ step' = "ports" /\ names' = names
  BY <1>1, SameMachine DEF On, Settled
<1>6. \A p : Placed(p)' = Placed(p)
  BY <1>5, SamePlaces
<1>7. /\ \A p \in Range(ports) \ Takers : content[p.name] = Placed(p)
      /\ names \subseteq DOMAIN content
  BY <1>1 DEF PlacesInv, Built
<1>8. (\A p \in Range(ports) \ Takers : content[p.name] = Placed(p))'
  BY <1>1, <1>5, <1>6, <1>7
<1>9. ({p.name : p \in Range(ports)} \subseteq DOMAIN content)'
  BY <1>1, <1>5, <1>7
<1>10. (\A i \in 1 .. Len(subs) : content[subs[i].port] = <<"cartridge">>)'
  BY <1>1, <1>2, <1>4
<1> QED BY <1>5, <1>8, <1>9, <1>10 DEF PlacesInv

\* A device goes into a port that takes one.
LEMMA PlacesOfPlug ==
    ASSUME ReadInv, SubsInv, PlacesInv, step = "ports", On("ports"), subs' = subs,
           NEW q \in Takers, NEW what, content' = [content EXCEPT ![q.name] = what]
    PROVE  PlacesInv'
<1> DEFINE names == {p.name : p \in Range(ports)}
<1>1. config' = config /\ ports' = ports /\ Takers' = Takers /\ step' = "ports" /\ names' = names
  BY SameMachine DEF On, Settled
<1>2. \A p : Placed(p)' = Placed(p)
  BY <1>1, SamePlaces
<1>3. /\ \A p \in Range(ports) \ Takers : content[p.name] = Placed(p)
      /\ names \subseteq DOMAIN content
      /\ \A i \in 1 .. Len(subs) : content[subs[i].port] = <<"cartridge">>
  BY DEF PlacesInv, Built
<1>4. ASSUME NEW p \in Range(ports) \ Takers PROVE content'[p.name] = content[p.name]
  <2>1. q \in Range(ports) /\ p # q
    BY DEF Takers
  <2>2. p.name # q.name
    BY <2>1, NamedApart DEF Offering
  <2>3. p.name \in DOMAIN content
    BY <1>3
  <2> QED BY <2>2, <2>3
<1>5. ASSUME NEW i \in 1 .. Len(subs) PROVE content'[subs[i].port] = content[subs[i].port]
  <2>1. subs[i].port # q.name
    BY SlotsApart DEF Built, Takers
  <2> QED BY <2>1
<1>6. DOMAIN content' = DOMAIN content
  OBVIOUS
<1>7. (\A p \in Range(ports) \ Takers : content[p.name] = Placed(p))'
  BY <1>1, <1>2, <1>3, <1>4
<1>8. (\A i \in 1 .. Len(subs) : content[subs[i].port] = <<"cartridge">>)'
  BY <1>3, <1>5
<1>9. ({p.name : p \in Range(ports)} \subseteq DOMAIN content)'
  BY <1>1, <1>3, <1>6
<1> QED BY <1>1, <1>7, <1>8, <1>9 DEF PlacesInv

\* The port the loop has come to takes a device.
LEMMA NextTakes ==
    ASSUME ReadInv, PortsInv, step = "ports", todo # <<>>
    PROVE  Head(todo) \in Takers
<1>1. PICK k \in 0 .. Len(ports) : todo = Only(From(ports, k + 1), Takers)
  BY DEF PortsInv
<1>2. IsList(ports)
  BY PortsOfTheMachine DEF Offering
<1>3. Len(ports) \in Nat
  BY <1>2, ListFacts
<1>4. k + 1 \in 1 .. Len(ports) + 1
  BY <1>3
<1>5. IsList(From(ports, k + 1))
  BY <1>2, <1>4, ListFrom
<1>6. IsList(todo) /\ Range(todo) = Range(From(ports, k + 1)) \intersect Takers
  BY <1>1, <1>5, Selected
<1>7. Head(todo) \in Range(todo)
  BY <1>6, RestOfList
<1> QED BY <1>6, <1>7

LEMMA PlacesOfPorts ==
    ASSUME ReadInv, SubsInv, PlacesInv, PortsInv, KeyboardPort \/ DevicePort
    PROVE  PlacesInv'
<1>1. CASE Stops
  BY <1>1, Stopped DEF PlacesInv, Built
<1>2. CASE ~Stops
  <2>1. step = "ports" /\ todo # <<>> /\ On("ports") /\ subs' = subs
    BY <1>2, KeyboardPortTurns, DevicePortTurns
  <2>2. \E what : content' = [content EXCEPT ![Head(todo).name] = what]
    BY <1>2, KeyboardPortTurns, DevicePortTurns
  <2>3. Head(todo) \in Takers
    BY <2>1, NextTakes
  <2> QED BY <2>1, <2>2, <2>3, PlacesOfPlug
<1> QED BY <1>1, <1>2

LEMMA PlacesOfDone ==
    ASSUME ReadInv, PlacesInv, PortsDone \/ Power
    PROVE  PlacesInv'
<1>1. CASE Stops
  BY <1>1, Stopped DEF PlacesInv, Built
<1>2. CASE ~Stops
  <2>1. /\ step \in {"ports", "power"} /\ step' \in {"power", "built"} /\ Settled
        /\ UNCHANGED <<subs, content>>
    BY <1>2, PortsDoneTurns, PowerTurns DEF On
  <2>2. config' = config /\ ports' = ports /\ Takers' = Takers
    BY <2>1, SameMachine DEF Settled
  <2>3. \A p : Placed(p)' = Placed(p)
    BY <2>2, SamePlaces
  <2> QED BY <2>1, <2>2, <2>3 DEF PlacesInv, Built
<1> QED BY <1>1, <1>2

LEMMA PlacesKeep == ReadInv /\ SubsInv /\ PlacesInv /\ PortsInv /\ [Next]_vars => PlacesInv'
<1> SUFFICES ASSUME ReadInv, SubsInv, PlacesInv, PortsInv, [Next]_vars PROVE PlacesInv'
  OBVIOUS
<1>1. CASE UNCHANGED vars
  <2>1. ports' = ports /\ Takers' = Takers /\ \A p : Placed(p)' = Placed(p)
    BY <1>1, SameMachine, SamePlaces DEF vars
  <2> QED BY <1>1, <2>1 DEF vars, PlacesInv
<1>2. CASE ReadByCore \/ ReadByRunner \/ SuggestSettings
  <2>1. step' \in {"project", "system", "refused"}
    BY <1>2 DEF ReadByCore, ReadByRunner, SuggestSettings
  <2> QED BY <2>1 DEF PlacesInv, Built
<1>3. CASE System \/ Medium \/ Save \/ SubCartridge
  <2>1. step' \in {"refused", "medium", "save", "subs"}
    BY <1>3, SystemTurns, MediumTurns, SaveTurns, SubCartridgeTurns, Stopped DEF On
  <2> QED BY <2>1 DEF PlacesInv, Built
<1>4. CASE LoadRoot \/ MediaPort \/ MediaDone \/ SubSlot \/ SubSlotsDone
  BY <1>4, PlacesOfLoadRoot, PlacesOfMediaPort, PlacesOfMediaDone, PlacesOfSubSlot, PlacesOfSubSlotsDone
<1>5. CASE KeyboardPort \/ DevicePort \/ PortsDone \/ Power
  BY <1>5, PlacesOfPorts, PlacesOfDone
<1>6. CASE Shutdown \/ Unload \/ \E what \in held \union {m \in {"machine"} : standing} : Exit(what)
  <2>1. step' \in {"unloading", "ended"}
    BY <1>6, EndTurns
  <2> QED BY <2>1 DEF PlacesInv, Built
<1> QED BY <1>1, <1>2, <1>3, <1>4, <1>5, <1>6 DEF Next

-----------------------------------------------------------------------------
(* The ports that take a device.                                               *)

\* The numbers go on by one with every port a project numbers, and only then.
LEMMA NumbersCount ==
    ASSUME IsList(ports), NEW k \in Nat, NEW j \in Nat, k < j,
           \A i \in k + 1 .. j - 1 : ports[i].devices = <<>>
    PROVE  /\ Numbered(0) = 0 /\ Numbered(k) \in Nat /\ Numbered(k) <= Numbered(j)
           /\ Numbered(j) = IF IsControllerPort(ports[j]) THEN Numbered(k) + 1 ELSE Numbered(k)
<1> DEFINE N(i) == {m \in 1 .. i : ports[m].devices # <<>> /\ ~ports[m].keyboard}
<1>1. \A i : Numbered(i) = Cardinality(N(i))
  BY Zenon DEF Numbered
<1>2. \A i \in Nat : IsFiniteSet(N(i)) /\ Cardinality(N(i)) \in Nat
  <2> SUFFICES ASSUME NEW i \in Nat PROVE IsFiniteSet(N(i)) /\ Cardinality(N(i)) \in Nat
    OBVIOUS
  <2>1. IsFiniteSet(1 .. i)
    BY FS_Interval
  <2>2. N(i) \subseteq 1 .. i
    OBVIOUS
  <2> HIDE DEF N
  <2> QED BY <2>1, <2>2, FS_Subset, FS_CardinalityType
<1>3. N(0) = {}
  OBVIOUS
<1>4. N(j) = IF IsControllerPort(ports[j]) THEN N(k) \union {j} ELSE N(k)
  <2>1. \A m \in 1 .. j : m \in 1 .. k \/ m \in k + 1 .. j - 1 \/ m = j
    OBVIOUS
  <2>2. \A m : m \in N(j) => m \in N(k) \/ (m = j /\ IsControllerPort(ports[j]))
    BY <2>1 DEF IsControllerPort
  <2>3. \A m : m \in N(k) => m \in N(j)
    OBVIOUS
  <2>4. IsControllerPort(ports[j]) => j \in N(j)
    BY DEF IsControllerPort
  <2>5. \A m : m \in N(k) => m # j
    OBVIOUS
  <2>6. ~IsControllerPort(ports[j]) => j \notin N(j)
    BY DEF IsControllerPort
  <2> HIDE DEF N
  <2>7. CASE IsControllerPort(ports[j])
    BY <2>2, <2>3, <2>4, <2>7
  <2>8. CASE ~IsControllerPort(ports[j])
    BY <2>2, <2>3, <2>5, <2>6, <2>8
  <2> QED BY <2>7, <2>8
<1>5. j \notin N(k)
  OBVIOUS
<1> HIDE DEF N
<1>6. Cardinality(N(0)) = 0
  BY <1>3, FS_EmptySet
<1>7. IsControllerPort(ports[j]) => Cardinality(N(j)) = Cardinality(N(k)) + 1
  BY <1>2, <1>4, <1>5, FS_AddElement
<1>8. ~IsControllerPort(ports[j]) => Cardinality(N(j)) = Cardinality(N(k))
  BY <1>4
<1>9. Cardinality(N(k)) \in Nat
  BY <1>2
<1> QED BY <1>1, <1>6, <1>7, <1>8, <1>9

\* A later port has no smaller number.
LEMMA NumbersGrow ==
    ASSUME NEW k \in Nat, NEW j \in Nat, k <= j
    PROVE  Numbered(k) \in Nat /\ Numbered(j) \in Nat /\ Numbered(k) <= Numbered(j)
<1> DEFINE N(i) == {m \in 1 .. i : ports[m].devices # <<>> /\ ~ports[m].keyboard}
<1>1. Numbered(k) = Cardinality(N(k)) /\ Numbered(j) = Cardinality(N(j))
  BY Zenon DEF Numbered
<1>2. IsFiniteSet(1 .. j) /\ N(j) \subseteq 1 .. j /\ N(k) \subseteq N(j)
  BY FS_Interval
<1> HIDE DEF N
<1>3. IsFiniteSet(N(j))
  BY <1>2, FS_Subset
<1> QED BY <1>1, <1>2, <1>3, FS_Subset, FS_CardinalityType

LEMMA NumbersBegin == Numbered(0) = 0
<1> DEFINE N == {m \in 1 .. 0 : ports[m].devices # <<>> /\ ~ports[m].keyboard}
<1>1. N = {}
  OBVIOUS
<1>2. Numbered(0) = Cardinality(N)
  BY Zenon DEF Numbered
<1> HIDE DEF N
<1> QED BY <1>1, <1>2, FS_EmptySet

\* Whether a project says nothing of any port.
Silent == \A i \in 1 .. Len(project.port) : project.port[i] = Nothing

\* What the Config says of a port is what the project says of it.
LEMMA WordsAgree ==
    ASSUME ReadInv, step # "project", NEW n \in 1 .. MaxPorts, NEW w, w = Says(project.port, n)
    PROVE  /\ config.port[n] = SettingString(w)
           /\ w # Nothing => n \in 1 .. Len(project.port) /\ w = project.port[n]
           /\ w \notin {Nothing, "none"} => Letters(w) # "none"
           /\ Default(n) <=> IF w = Nothing THEN n = 1 /\ Silent ELSE w # "none" /\ Letters(w) = "default"
           /\ LeftEmpty(n) <=> ~Default(n) /\ (w \in {Nothing, "none"} \/ Letters(w) \in KeyboardNames \union {""})
           /\ \A d : w \notin {Nothing, "none"} => (Said(n, Letters(d)) <=> Letters(d) = Letters(w))
<1>1. IsList(project.port) /\ Len(project.port) <= MaxPorts
  BY DEF ReadInv, Sayable
<1>2. Len(project.port) \in Nat /\ \A i \in 1 .. Len(project.port) : project.port[i] \in Range(project.port)
  BY <1>1, ListFacts
<1>3. \A m \in 1 .. MaxPorts : config.port[m] = SettingString(Says(project.port, m))
  BY ConfigReads DEF Reads
<1>4. w # Nothing => n \in 1 .. Len(project.port) /\ w = project.port[n]
  BY <1>2 DEF Says
<1>5. w \notin {Nothing, "none"} => Letters(w) # "none"
  BY <1>2, <1>4 DEF ReadInv, Sayable
<1>6. \A x : SettingString(x) = Nothing <=> x = Nothing
  BY NothingAssumption DEF SettingString
<1>7. NobodySaid <=> Silent
  <2>1. ASSUME NobodySaid, NEW i \in 1 .. Len(project.port) PROVE project.port[i] = Nothing
    <3>1. i \in 1 .. MaxPorts /\ ~(i > Len(project.port))
      BY <1>1, <1>2, CountsAssumption
    <3>2. config.port[i] = Nothing
      BY <2>1, <3>1 DEF NobodySaid
    <3>3. Says(project.port, i) = project.port[i]
      BY <3>1 DEF Says
    <3> QED BY <1>3, <1>6, <3>1, <3>2, <3>3
  <2>2. ASSUME Silent, NEW m \in 1 .. MaxPorts PROVE config.port[m] = Nothing
    <3>1. Says(project.port, m) = Nothing
      <4>1. CASE m > Len(project.port)
        BY <4>1 DEF Says
      <4>2. CASE ~(m > Len(project.port))
        BY <1>2, <2>2, <4>2 DEF Says, Silent
      <4> QED BY <4>1, <4>2
    <3> QED BY <1>3, <1>6, <3>1
  <2>3. Silent => NobodySaid
    BY <2>2 DEF NobodySaid
  <2> QED BY <2>1, <2>3 DEF Silent
<1>8. Silent => w = Nothing
  BY <1>4 DEF Silent
<1>9. config.port[n] = SettingString(w)
  BY <1>3
<1>10. \A word : Said(n, word) <=> w # Nothing /\ Letters(SettingString(w)) = word
  BY <1>6, <1>9 DEF Said
<1>11. Letters(SettingString(w)) = IF w = "none" THEN "" ELSE Letters(w)
  BY NothingAssumption DEF SettingString
<1>12. Default(n) <=> IF w = Nothing THEN n = 1 /\ Silent ELSE w # "none" /\ Letters(w) = "default"
  BY <1>7, <1>8, <1>10, <1>11, NothingAssumption DEF Default
<1>13. LeftEmpty(n) <=> ~Default(n) /\ (w \in {Nothing, "none"} \/ Letters(w) \in KeyboardNames \union {""})
  <2>1. (\E k \in KeyboardNames \union {""} : Said(n, k))
        <=> w # Nothing /\ Letters(SettingString(w)) \in KeyboardNames \union {""}
    BY <1>10
  <2>2. config.port[n] = Nothing <=> w = Nothing
    BY <1>6, <1>9
  <2> QED BY <1>11, <2>1, <2>2, NothingAssumption DEF LeftEmpty
<1> QED BY <1>4, <1>5, <1>9, <1>10, <1>11, <1>12, <1>13

\* What a project asks of its n-th port that it says w of; which devices it is
\* to have one of, and what that has in its slot.
DeviceFor(p, n, w) ==
    IF w = Nothing THEN IF n = 1 /\ Silent THEN {p.devices[1]} ELSE {}
    ELSE IF Letters(w) = "default" THEN {p.devices[1]}
    ELSE {d \in Range(p.devices) : Letters(d) = Letters(w)}
There(p, n) == {d \in DevicesAsked(p, n) \intersect p.made : PadAsked(n) => d \in DOMAIN Accessories}
Fitted(n, d) ==
    <<d>> \o (IF PadAsked(n) /\ Says(project.accessory, n) \in Accessories[d]
              THEN <<Says(project.accessory, n)>> ELSE <<>>)

LEMMA WantedIs ==
    ASSUME NEW p, NEW n
    PROVE  /\ DevicesAsked(p, n) = DeviceFor(p, n, IF n <= MaxPorts THEN Says(project.port, n) ELSE "none")
           /\ Wanted(p, n) = IF DevicesAsked(p, n) = {} THEN {<<>>} ELSE {Fitted(n, d) : d \in There(p, n)}
<1>1. DevicesAsked(p, n) = DeviceFor(p, n, IF n <= MaxPorts THEN Says(project.port, n) ELSE "none")
  BY Zenon DEF DevicesAsked, DeviceFor, Silent
<1>2. Wanted(p, n) = IF DevicesAsked(p, n) = {} THEN {<<>>} ELSE {Fitted(n, d) : d \in There(p, n)}
  BY Zenon DEF Wanted, There, Fitted
<1> QED BY <1>1, <1>2

\* A port that is left empty is one the project asks nothing of, and the devices
\* that match are those it asks for.
LEMMA MatchesAreWanted ==
    ASSUME ReadInv, step = "ports", NEW p \in Takers, ~p.keyboard, NEW n \in 1 .. MaxPorts,
           NEW w, w = Says(project.port, n)
    PROVE  /\ LeftEmpty(n) => DeviceFor(p, n, w) = {}
           /\ ~LeftEmpty(n) => /\ IsList(Matches(p, n)) /\ Range(Matches(p, n)) = DeviceFor(p, n, w)
                               /\ \/ DeviceFor(p, n, w) # {}
                                  \/ w \notin {Nothing, "none"} /\ Letters(w) # "default"
<1> DEFINE devices == p.devices
<1>1. /\ IsList(devices) /\ devices # <<>>
      /\ \A d \in Range(devices) : Letters(d) \notin KeyboardNames \union {"", "none", "default"}
  BY PortsOfTheMachine DEF Takers, Offering
<1>2. Head(devices) = devices[1]
  BY <1>1, RestOfList
<1>3. /\ w \notin {Nothing, "none"} => Letters(w) # "none"
      /\ Default(n) <=> IF w = Nothing THEN n = 1 /\ Silent ELSE w # "none" /\ Letters(w) = "default"
      /\ LeftEmpty(n) <=> ~Default(n) /\ (w \in {Nothing, "none"} \/ Letters(w) \in KeyboardNames \union {""})
      /\ \A d : w \notin {Nothing, "none"} => (Said(n, Letters(d)) <=> Letters(d) = Letters(w))
  BY WordsAgree
<1>4. DeviceFor(p, n, w) = IF w = Nothing THEN IF n = 1 /\ Silent THEN {devices[1]} ELSE {}
                           ELSE IF Letters(w) = "default" THEN {devices[1]}
                           ELSE {d \in Range(devices) : Letters(d) = Letters(w)}
  BY DEF DeviceFor
<1>5. Matches(p, n) = IF Default(n) THEN <<Head(devices)>>
                      ELSE Only(devices, {d \in Range(devices) : Said(n, Letters(d))})
  BY Zenon DEF Matches
<1> HIDE DEF devices
<1>6. CASE Default(n)
  <2>1. DeviceFor(p, n, w) = {devices[1]}
    BY <1>3, <1>4, <1>6
  <2>2. IsList(<<devices[1]>>) /\ Range(<<devices[1]>>) = {devices[1]}
    <3> DEFINE e == devices[1]
    <3> HIDE DEF e
    <3>1. IsList(<<e>>) /\ Range(<<e>>) = {e}
      BY DEF IsList, Range
    <3> QED BY <3>1 DEF e
  <2> QED BY <1>2, <1>3, <1>5, <1>6, <2>1, <2>2
<1>7. CASE ~Default(n) /\ LeftEmpty(n)
  <2>1. DeviceFor(p, n, w) = {}
    <3>1. CASE w = Nothing
      BY <1>3, <1>4, <1>7, <3>1
    <3>2. CASE w = "none"
      BY <1>1, <1>3, <1>4, <1>7, <3>2, NothingAssumption
    <3>3. CASE w \notin {Nothing, "none"}
      BY <1>1, <1>3, <1>4, <1>7, <3>3
    <3> QED BY <3>1, <3>2, <3>3
  <2> QED BY <1>7, <2>1
<1>8. CASE ~Default(n) /\ ~LeftEmpty(n)
  <2>1. w \notin {Nothing, "none"} /\ Letters(w) # "default"
    BY <1>3, <1>8
  <2> DEFINE said == {d \in Range(devices) : Said(n, Letters(d))}
  <2>2. said = {d \in Range(devices) : Letters(d) = Letters(w)}
    BY <1>3, <2>1
  <2>3. Matches(p, n) = Only(devices, said)
    BY <1>5, <1>8
  <2>4. said \subseteq Range(devices)
    OBVIOUS
  <2> HIDE DEF said
  <2>5. IsList(Only(devices, said)) /\ Range(Only(devices, said)) = Range(devices) \intersect said
    BY <1>1, Selected
  <2>6. DeviceFor(p, n, w) = said
    BY <1>4, <2>1, <2>2
  <2> QED BY <1>8, <2>1, <2>3, <2>4, <2>5, <2>6
<1> QED BY <1>6, <1>7, <1>8

\* The Config says of a pad's slot what the project says of it.
LEMMA PadIsWanted ==
    ASSUME ReadInv, step # "project", NEW n \in 1 .. MaxPorts
    PROVE  /\ AccessoryOf(n) # "" <=> PadAsked(n)
           /\ PadAsked(n) => AccessoryOf(n) = Says(project.accessory, n)
<1>1. config.accessory[n] = SettingString(Says(project.accessory, n))
  BY ConfigReads DEF Reads
<1> QED BY <1>1, NothingAssumption DEF SettingString, PadAsked, AccessoryOf

LEMMA EquippedIsFitted ==
    ASSUME ReadInv, step # "project", NEW n \in 1 .. MaxPorts, NEW d
    PROVE  Equipped(d, AccessoryOf(n)) = Fitted(n, d)
<1> DEFINE pad == Says(project.accessory, n)
           accessory == AccessoryOf(n)
           asked == accessory # ""
<1>1. (asked <=> PadAsked(n)) /\ (PadAsked(n) => accessory = pad)
  BY PadIsWanted
<1>2. Equipped(d, accessory) = <<d>> \o (IF asked /\ accessory \in Accessories[d] THEN <<accessory>> ELSE <<>>)
  BY Zenon DEF Equipped
<1>3. Fitted(n, d) = <<d>> \o (IF PadAsked(n) /\ pad \in Accessories[d] THEN <<pad>> ELSE <<>>)
  BY Zenon DEF Fitted
<1> HIDE DEF pad, accessory, asked
<1>4. (IF asked /\ accessory \in Accessories[d] THEN <<accessory>> ELSE <<>>)
      = (IF PadAsked(n) /\ pad \in Accessories[d] THEN <<pad>> ELSE <<>>)
  BY <1>1
<1>5. Equipped(d, accessory) = Fitted(n, d)
  BY <1>2, <1>3, <1>4
<1> QED BY <1>5 DEF accessory

\* A numbered port is given what the project asks for in it.
LEMMA GivenIsWanted ==
    ASSUME ReadInv, step = "ports", NEW p \in Takers, ~p.keyboard, NEW n \in 1 .. MaxPorts, Giveable(p, n)
    PROVE  Given(p, n) \in Wanted(p, n)
<1> DEFINE w == Says(project.port, n)
           asked == DevicesAsked(p, n)
           matches == Matches(p, n)
           d == Head(matches)
<1>1. n <= MaxPorts
  BY CountsAssumption
<1>2. asked = DeviceFor(p, n, w)
  BY <1>1, WantedIs
<1>3. Wanted(p, n) = IF asked = {} THEN {<<>>} ELSE {Fitted(n, e) : e \in There(p, n)}
  BY WantedIs
<1>4. /\ LeftEmpty(n) => asked = {}
      /\ ~LeftEmpty(n) => IsList(matches) /\ Range(matches) = asked
  BY <1>2, MatchesAreWanted
<1>5. CASE LeftEmpty(n)
  BY <1>3, <1>4, <1>5 DEF Given
<1>6. CASE ~LeftEmpty(n)
  <2>1. matches # <<>> /\ d \in p.made /\ ~Slotless(p, n)
    BY <1>6 DEF Giveable
  <2>2. d \in asked
    BY <1>4, <1>6, <2>1, RestOfList
  <2>3. PadAsked(n) => d \in DOMAIN Accessories
    BY <2>1, PadIsWanted, Zenon DEF Slotless
  <2>4. d \in There(p, n)
    BY <2>1, <2>2, <2>3 DEF There
  <2>5. Given(p, n) = Fitted(n, d)
    BY <1>6, EquippedIsFitted, Zenon DEF Given
  <2> HIDE DEF d, asked
  <2>6. Given(p, n) \in {Fitted(n, e) : e \in There(p, n)}
    BY <2>4, <2>5, Zenon
  <2> QED BY <1>3, <2>2, <2>6
<1> QED BY <1>5, <1>6

\* And a port the Config has no number for is to have nothing.
LEMMA BeyondIsUnwanted ==
    ASSUME ReadInv, step \in Offering, NEW p \in Takers, ~p.keyboard, NEW n \in Nat, n > MaxPorts
    PROVE  <<>> \in Wanted(p, n)
<1>1. ~(n <= MaxPorts)
  BY CountsAssumption
<1>2. DevicesAsked(p, n) = DeviceFor(p, n, "none")
  BY <1>1, WantedIs
<1>3. \A d \in Range(p.devices) : Letters(d) # "none"
  BY PortsOfTheMachine DEF Takers
<1>4. DevicesAsked(p, n) = {}
  BY <1>2, <1>3, NothingAssumption DEF DeviceFor
<1> QED BY <1>4, WantedIs

LEMMA SameAsked ==
    ASSUME config' = config, project' = project
    PROVE  \A i : Asked(i)' = Asked(i) /\ Numbered(i)' = Numbered(i)
<1>1. ports' = ports
  BY SameMachine
<1>2. ASSUME NEW i PROVE Numbered(i)' = Numbered(i)
  BY <1>1, Zenon DEF Numbered
<1>3. ASSUME NEW p, NEW n PROVE Wanted(p, n)' = Wanted(p, n)
  BY Zenon DEF Wanted, DevicesAsked, PadAsked
<1>4. ASSUME NEW i PROVE Asked(i)' = Asked(i)
  BY <1>1, <1>2, <1>3, Zenon DEF Asked
<1> QED BY <1>2, <1>4

LEMMA PortsStop == ASSUME ReadInv, PortsInv, Stops, step # "project" PROVE PortsInv'
<1>1. step' = "refused" /\ number' = number
  BY Stopped DEF Stops, Refuse
<1> QED BY <1>1 DEF PortsInv

\* Nothing is in a port that takes a device before the loop over those.
LEMMA PortsOfBuilding ==
    ASSUME ReadInv, SubsInv, PlacesInv, PortsInv, LoadRoot \/ MediaPort \/ MediaDone \/ SubSlot
    PROVE  PortsInv'
<1>1. CASE Stops
  BY <1>1, PortsStop, LoadRootTurns, SubSlotTurns, MediaPortTurns, MediaDoneTurns
<1>2. CASE ~Stops
  <2>1. number' = number /\ step \in {"subs", "media", "subslots"} /\ step' \in {"media", "subslots"} /\ Settled
    BY <1>2, LoadRootTurns, MediaPortTurns, MediaDoneTurns, SubSlotTurns DEF On
  <2>2. number' = 0
    BY <2>1 DEF PortsInv
  <2>3. Takers' = Takers /\ Takers \subseteq Range(ports)
    BY <2>1, SameMachine DEF Settled, Takers
  <2>4. \A p \in Takers : content'[p.name] = <<>>
    <3>1. CASE LoadRoot
      <4> DEFINE names == {p.name : p \in Range(ports)}
      <4>1. content' = [n \in names |-> <<>>]
        BY <1>2, <3>1, LoadRootTurns
      <4>2. \A p \in Takers : p.name \in names
        BY <2>3
      <4> HIDE DEF names
      <4> QED BY <4>1, <4>2
    <3>2. CASE MediaPort
      <4> DEFINE q == Head(todo)
      <4>1. /\ step = "media" /\ todo # <<>>
            /\ content' = IF q.name = spec.portLeftEmpty THEN content
                          ELSE [content EXCEPT ![q.name] = PakFor(q)]
        BY <3>2, MediaPortTurns
      <4>2. q \in Range(ports) \ Takers
        BY <4>1, RestOfList DEF PlacesInv
      <4>3. \A p \in Takers : p.name # q.name
        BY <2>3, <4>1, <4>2, NamedApart DEF Offering
      <4>4. \A p \in Takers : content[p.name] = <<>>
        BY <4>1 DEF PortsInv
      <4> HIDE DEF q
      <4>5. \A p \in Takers : content'[p.name] = content[p.name]
        BY <4>1, <4>3
      <4> QED BY <4>4, <4>5
    <3>3. CASE MediaDone
      BY <3>3, MediaDoneTurns DEF PortsInv
    <3>4. CASE SubSlot
      <4> DEFINE q == Head(todo)
                 names == {p.name : p \in Range(ports)}
      <4>1. /\ step = "subslots" /\ todo # <<>>
            /\ content' = [n \in DOMAIN content \union {q.port} |->
                             IF n = q.port THEN <<"cartridge">> ELSE content[n]]
        BY <1>2, <3>4, SubSlotTurns
      <4>2. \A p \in Range(ports) : q.port # p.name
        <5>1. PICK n \in 0 .. Len(subs) : todo = From(subs, n + 1)
          BY <4>1 DEF PlacesInv
        <5>2. IsList(subs) /\ Len(subs) \in Nat
          BY <4>1, ListFacts DEF SubsInv, Built, FirstFit
        <5>3. n + 1 \in 1 .. Len(subs) + 1
          BY <5>2
        <5>4. n + 1 \in 1 .. Len(subs) /\ q = subs[n + 1]
          BY <4>1, <5>1, <5>2, <5>3, RestFrom
        <5> QED BY <4>1, <5>4, SlotsApart DEF Built
      <4>3. \A p \in Takers : p.name \in DOMAIN content
        <5>1. names \subseteq DOMAIN content
          BY <4>1 DEF PlacesInv, Built
        <5> QED BY <2>3, <5>1
      <4>4. \A p \in Takers : content[p.name] = <<>>
        BY <4>1 DEF PortsInv
      <4> HIDE DEF q
      <4>5. \A p \in Takers : content'[p.name] = content[p.name]
        BY <2>3, <4>1, <4>2, <4>3
      <4> QED BY <4>4, <4>5
    <3> QED BY <3>1, <3>2, <3>3, <3>4
  <2>5. number' \in 0 .. MaxPorts
    BY <2>2, CountsAssumption
  <2> QED BY <2>1, <2>2, <2>3, <2>4, <2>5 DEF PortsInv
<1> QED BY <1>1, <1>2

LEMMA PortsOfSubSlotsDone ==
    ASSUME ReadInv, PortsInv, SubSlotsDone
    PROVE  PortsInv'
<1>1. step = "subslots" /\ On("ports") /\ todo' = Only(ports, Takers) /\ UNCHANGED <<number, content>>
  BY SubSlotsDoneTurns
<1>2. /\ config' = config /\ ports' = ports /\ Takers' = Takers /\ step' = "ports"
      /\ \A i : Asked(i)' = Asked(i) /\ Numbered(i)' = Numbered(i)
  BY <1>1, SameMachine, SameAsked DEF On, Settled
<1>3. IsList(ports)
  BY <1>1, PortsOfTheMachine DEF Offering
<1>4. Len(ports) \in Nat /\ From(ports, 0 + 1) = ports /\ \A i \in 1 .. Len(ports) : ports[i] \in Range(ports)
  BY <1>3, ListFacts, BothEndsFrom
<1>5. number = 0 /\ number = Numbered(0) /\ \A p \in Takers : content[p.name] = <<>>
  BY <1>1, NumbersBegin DEF PortsInv
<1> DEFINE k == 0
<1>6. k \in 0 .. Len(ports) /\ number' = Numbered(k) /\ number' \in 0 .. MaxPorts
  BY <1>1, <1>4, <1>5, CountsAssumption
<1>7. todo' = Only(From(ports, k + 1), Takers)
  BY <1>1, <1>4
<1>8. \A i \in 1 .. k : ports[i] \in Takers => content'[ports[i].name] \in Asked(i)
  OBVIOUS
<1>9. \A i \in k + 1 .. Len(ports) : ports[i] \in Takers => content'[ports[i].name] = <<>>
  BY <1>1, <1>5
<1> HIDE DEF k
<1>10. (\E m \in 0 .. Len(ports) :
          /\ todo = Only(From(ports, m + 1), Takers) /\ number = Numbered(m)
          /\ \A i \in 1 .. m : ports[i] \in Takers => content[ports[i].name] \in Asked(i)
          /\ \A i \in m + 1 .. Len(ports) : ports[i] \in Takers => content[ports[i].name] = <<>>)'
  BY <1>2, <1>6, <1>7, <1>8, <1>9
<1> QED BY <1>2, <1>6, <1>10 DEF PortsInv

\* What the loop is at, when it has a port to come to.
AtPort(k, j) ==
    /\ k \in 0 .. Len(ports) /\ j \in k + 1 .. Len(ports)
    /\ ports[j] \in Takers /\ \A i \in k + 1 .. j - 1 : ports[i] \notin Takers
    /\ Head(todo) = ports[j] /\ Tail(todo) = Only(From(ports, j + 1), Takers)
    /\ number = Numbered(k)
    /\ Numbered(j) = IF IsControllerPort(ports[j]) THEN number + 1 ELSE number
    /\ \A i \in 1 .. k : ports[i] \in Takers => content[ports[i].name] \in Asked(i)
    /\ \A i \in k + 1 .. Len(ports) : ports[i] \in Takers => content[ports[i].name] = <<>>

LEMMA LoopIsAtPort ==
    ASSUME ReadInv, PortsInv, step = "ports", todo # <<>>
    PROVE  \E k, j \in Nat : AtPort(k, j)
<1>1. PICK k \in 0 .. Len(ports) :
         /\ todo = Only(From(ports, k + 1), Takers) /\ number = Numbered(k)
         /\ \A i \in 1 .. k : ports[i] \in Takers => content[ports[i].name] \in Asked(i)
         /\ \A i \in k + 1 .. Len(ports) : ports[i] \in Takers => content[ports[i].name] = <<>>
  BY DEF PortsInv
<1>2. IsList(ports)
  BY PortsOfTheMachine DEF Offering
<1>3. Len(ports) \in Nat /\ \A i \in 1 .. Len(ports) : ports[i] \in Range(ports)
  BY <1>2, ListFacts
<1>4. PICK j \in k + 1 .. Len(ports) :
         /\ ports[j] \in Takers /\ \A i \in k + 1 .. j - 1 : ports[i] \notin Takers
         /\ Head(Only(From(ports, k + 1), Takers)) = ports[j]
         /\ Tail(Only(From(ports, k + 1), Takers)) = Only(From(ports, j + 1), Takers)
  BY <1>1, <1>2, NextSelected
<1>5. \A i \in k + 1 .. j - 1 : ports[i].devices = <<>>
  BY <1>3, <1>4 DEF Takers
<1>6. k \in Nat /\ j \in Nat /\ k < j
  BY <1>3
<1>7. Numbered(j) = IF IsControllerPort(ports[j]) THEN number + 1 ELSE number
  BY <1>1, <1>2, <1>5, <1>6, NumbersCount
<1> QED BY <1>1, <1>4, <1>6, <1>7 DEF AtPort

\* The port has what is asked for in it, and the loop goes on behind it.
LEMMA PortsOfPlug ==
    ASSUME ReadInv, PlacesInv, PortsInv, step = "ports", todo # <<>>, On("ports"), todo' = Tail(todo),
           NEW k \in Nat, NEW j \in Nat, AtPort(k, j), NEW what, what \in Asked(j),
           content' = [content EXCEPT ![Head(todo).name] = what],
           number' = Numbered(j), number' <= MaxPorts
    PROVE  PortsInv'
<1>1. /\ config' = config /\ ports' = ports /\ Takers' = Takers /\ step' = "ports"
      /\ \A i : Asked(i)' = Asked(i) /\ Numbered(i)' = Numbered(i)
  BY SameMachine, SameAsked DEF On, Settled
<1>2. IsList(ports)
  BY PortsOfTheMachine DEF Offering
<1>3. Len(ports) \in Nat /\ \A i \in 1 .. Len(ports) : ports[i] \in Range(ports)
  BY <1>2, ListFacts
<1>4. j \in 1 .. Len(ports) /\ j \in 0 .. Len(ports) /\ Head(todo) = ports[j]
  BY <1>3 DEF AtPort
<1>5. content'[ports[j].name] = what
  <2> DEFINE names == {p.name : p \in Range(ports)}
  <2>1. names \subseteq DOMAIN content /\ ports[j].name \in names
    BY <1>3, <1>4 DEF PlacesInv, Built
  <2> HIDE DEF names
  <2> QED BY <1>4, <2>1
<1>6. ASSUME NEW i \in 1 .. Len(ports), i # j PROVE content'[ports[i].name] = content[ports[i].name]
  <2>1. ports[i].name # ports[j].name
    BY <1>4, <1>6, PortsOfTheMachine DEF Offering
  <2> QED BY <1>4, <2>1
<1>7. ASSUME NEW i \in 1 .. j, ports[i] \in Takers PROVE content'[ports[i].name] \in Asked(i)
  <2>1. CASE i = j
    BY <1>5, <2>1
  <2>2. CASE i # j
    <3>1. i \in 1 .. k \/ i \in k + 1 .. j - 1
      BY <2>2 DEF AtPort
    <3>2. i \in 1 .. Len(ports)
      BY <1>3, <1>4
    <3>3. i \in 1 .. k
      BY <1>7, <3>1 DEF AtPort
    <3>4. content[ports[i].name] \in Asked(i)
      BY <1>7, <3>3 DEF AtPort
    <3> QED BY <1>6, <2>2, <3>2, <3>4
  <2> QED BY <2>1, <2>2
<1>8. ASSUME NEW i \in j + 1 .. Len(ports), ports[i] \in Takers PROVE content'[ports[i].name] = <<>>
  <2>1. i \in 1 .. Len(ports) /\ i # j /\ i \in k + 1 .. Len(ports)
    BY <1>3, <1>4 DEF AtPort
  <2>2. content[ports[i].name] = <<>>
    BY <1>8, <2>1 DEF AtPort
  <2> QED BY <1>6, <2>1, <2>2
<1>9. todo' = Only(From(ports, j + 1), Takers)
  BY DEF AtPort
<1>10. (\E m \in 0 .. Len(ports) :
          /\ todo = Only(From(ports, m + 1), Takers) /\ number = Numbered(m)
          /\ \A i \in 1 .. m : ports[i] \in Takers => content[ports[i].name] \in Asked(i)
          /\ \A i \in m + 1 .. Len(ports) : ports[i] \in Takers => content[ports[i].name] = <<>>)'
  BY <1>1, <1>4, <1>7, <1>8, <1>9
<1>11. number' \in 0 .. MaxPorts
  BY <1>4, NumbersGrow, CountsAssumption
<1> QED BY <1>1, <1>10, <1>11 DEF PortsInv

LEMMA PortsOfPorts ==
    ASSUME ReadInv, PlacesInv, PortsInv, KeyboardPort \/ DevicePort
    PROVE  PortsInv'
<1>1. CASE Stops
  BY <1>1, PortsStop, KeyboardPortTurns, DevicePortTurns
<1>2. CASE ~Stops
  <2>1. /\ step = "ports" /\ todo # <<>> /\ On("ports") /\ todo' = Tail(todo)
    BY <1>2, KeyboardPortTurns, DevicePortTurns
  <2>2. PICK k \in Nat, j \in Nat : AtPort(k, j)
    BY <2>1, LoopIsAtPort
  <2>3. Head(todo) = ports[j] /\ ports[j] \in Takers /\ number \in 0 .. MaxPorts
    BY <2>2 DEF AtPort, PortsInv
  <2>4. CASE KeyboardPort
    <3> DEFINE what == <<Head(Head(todo).devices)>>
    <3>1. ~IsControllerPort(ports[j]) /\ content' = [content EXCEPT ![Head(todo).name] = what] /\ number' = number
      BY <1>2, <2>3, <2>4, KeyboardPortTurns
    <3>2. ports[j].keyboard /\ IsList(ports[j].devices) /\ ports[j].devices # <<>>
      BY <2>1, <2>3, <3>1, PortsOfTheMachine DEF Takers, IsControllerPort, Offering
    <3>3. Head(ports[j].devices) = ports[j].devices[1]
      BY <3>2, RestOfList
    <3>4. what \in Asked(j)
      BY <2>3, <3>2, <3>3 DEF Asked
    <3>5. number' = Numbered(j) /\ number' <= MaxPorts
      BY <2>2, <2>3, <3>1, CountsAssumption DEF AtPort
    <3> HIDE DEF what
    <3> QED BY <2>1, <2>2, <3>1, <3>4, <3>5, PortsOfPlug
  <2>5. CASE DevicePort
    <3> DEFINE n == number + 1
               what == Given(Head(todo), n)
    <3>1. /\ IsControllerPort(ports[j]) /\ number < MaxPorts /\ number' = n
          /\ Giveable(ports[j], n)
          /\ content' = [content EXCEPT ![Head(todo).name] = what]
      BY <1>2, <2>3, <2>5, DevicePortTurns
    <3>2. n \in 1 .. MaxPorts /\ number' = Numbered(j) /\ number' <= MaxPorts
      BY <2>2, <2>3, <3>1, CountsAssumption DEF AtPort
    <3>3. ~ports[j].keyboard
      BY <3>1 DEF IsControllerPort
    <3>4. what \in Wanted(ports[j], n)
      BY <2>1, <2>3, <3>1, <3>2, <3>3, GivenIsWanted
    <3>5. what \in Asked(j)
      BY <3>1, <3>2, <3>3, <3>4 DEF Asked
    <3> HIDE DEF what, n
    <3> QED BY <2>1, <2>2, <3>1, <3>2, <3>5, PortsOfPlug
  <2> QED BY <2>4, <2>5
<1> QED BY <1>1, <1>2

\* The loop ends with every port as it is asked for: behind the last one, or at
\* a port the Config has no number for, where nothing is said of those left.
LEMMA LoopEndsAsAsked ==
    ASSUME ReadInv, PortsInv, step = "ports", LoopEnded, NEW i \in 1 .. Len(ports), ports[i] \in Takers
    PROVE  content[ports[i].name] \in Asked(i)
<1>1. IsList(ports)
  BY PortsOfTheMachine DEF Offering
<1>2. Len(ports) \in Nat /\ \A m \in 1 .. Len(ports) : ports[m] \in Range(ports)
  BY <1>1, ListFacts
<1>3. CASE todo = <<>>
  <2>1. PICK k \in 0 .. Len(ports) :
           /\ todo = Only(From(ports, k + 1), Takers)
           /\ \A m \in 1 .. k : ports[m] \in Takers => content[ports[m].name] \in Asked(m)
    BY DEF PortsInv
  <2>2. CASE i \in 1 .. k
    BY <2>1, <2>2
  <2>3. CASE i \notin 1 .. k
    <3>1. i \in k + 1 .. Len(ports) /\ k + 1 \in 1 .. Len(ports) + 1
      BY <1>2, <2>3
    <3>2. IsList(From(ports, k + 1)) /\ ports[i] \in Range(From(ports, k + 1))
      BY <1>1, <3>1, ListFrom
    <3>3. Range(todo) = Range(From(ports, k + 1)) \intersect Takers
      BY <2>1, <3>2, Selected
    <3>4. Range(todo) = {}
      BY <1>3, EmptyList
    <3> QED BY <3>2, <3>3, <3>4
  <2> QED BY <2>2, <2>3
<1>4. CASE todo # <<>>
  <2>1. PICK k \in Nat, j \in Nat : AtPort(k, j)
    BY <1>4, LoopIsAtPort
  <2>2. number = MaxPorts /\ IsControllerPort(ports[j])
    BY <1>4, <2>1 DEF LoopEnded, AtPort
  <2>3. j \in 1 .. Len(ports) /\ Numbered(j) = MaxPorts + 1 /\ Numbered(j) > MaxPorts
    BY <1>2, <2>1, <2>2, CountsAssumption DEF AtPort
  <2>4. CASE i \in 1 .. k
    BY <2>1, <2>4 DEF AtPort
  <2>5. CASE i \in k + 1 .. j - 1
    BY <2>1, <2>5 DEF AtPort
  <2>6. CASE i \notin 1 .. k /\ i \notin k + 1 .. j - 1
    <3>1. i \in k + 1 .. Len(ports) /\ j <= i
      BY <1>2, <2>1, <2>6 DEF AtPort
    <3>2. content[ports[i].name] = <<>>
      BY <2>1, <3>1 DEF AtPort
    <3>3. Numbered(i) \in Nat /\ Numbered(i) > MaxPorts
      BY <2>3, <3>1, NumbersGrow, CountsAssumption
    <3>4. ~ports[i].keyboard
      <4>1. CASE i = j
        BY <2>2, <4>1 DEF IsControllerPort
      <4>2. CASE i # j
        <5>1. j < i
          BY <3>1, <4>2
        <5> QED BY <2>3, <5>1, PortsOfTheMachine DEF Offering
      <4> QED BY <4>1, <4>2
    <3>5. <<>> \in Wanted(ports[i], Numbered(i))
      BY <3>3, <3>4, BeyondIsUnwanted DEF Offering
    <3> QED BY <3>2, <3>4, <3>5 DEF Asked
  <2> QED BY <2>4, <2>5, <2>6
<1> QED BY <1>3, <1>4

LEMMA PortsOfDone ==
    ASSUME ReadInv, PortsInv, PortsDone \/ Power
    PROVE  PortsInv'
<1>1. CASE Stops
  BY <1>1, PortsStop, PortsDoneTurns, PowerTurns
<1>2. CASE ~Stops
  <2>1. /\ UNCHANGED <<number, content>> /\ Settled /\ step' \in {"power", "built"}
    BY <1>2, PortsDoneTurns, PowerTurns DEF On
  <2>2. /\ config' = config /\ ports' = ports /\ Takers' = Takers
        /\ \A i : Asked(i)' = Asked(i)
    BY <2>1, SameMachine, SameAsked DEF Settled
  <2>3. \A i \in 1 .. Len(ports) : ports[i] \in Takers => content[ports[i].name] \in Asked(i)
    <3>1. CASE PortsDone
      BY <3>1, PortsDoneTurns, LoopEndsAsAsked
    <3>2. CASE Power
      BY <3>2, PowerTurns DEF PortsInv
    <3> QED BY <3>1, <3>2
  <2>4. (\A i \in 1 .. Len(ports) : ports[i] \in Takers => content[ports[i].name] \in Asked(i))'
    BY <2>1, <2>2, <2>3
  <2> QED BY <2>1, <2>4 DEF PortsInv
<1> QED BY <1>1, <1>2

LEMMA PortsKeep == ReadInv /\ SubsInv /\ PlacesInv /\ PortsInv /\ [Next]_vars => PortsInv'
<1> SUFFICES ASSUME ReadInv, SubsInv, PlacesInv, PortsInv, [Next]_vars PROVE PortsInv'
  OBVIOUS
<1>1. CASE UNCHANGED vars
  <2>1. /\ ports' = ports /\ Takers' = Takers
        /\ \A i : Asked(i)' = Asked(i) /\ Numbered(i)' = Numbered(i)
    BY <1>1, SameMachine, SameAsked DEF vars
  <2> QED BY <1>1, <2>1 DEF vars, PortsInv
<1>2. CASE ReadByCore \/ ReadByRunner \/ SuggestSettings
  <2>1. step = "project" /\ step' \in {"project", "system", "refused"} /\ number' = number
    BY <1>2 DEF ReadByCore, ReadByRunner, SuggestSettings
  <2> QED BY <2>1 DEF PortsInv
<1>3. CASE System \/ Medium \/ Save \/ SubCartridge
  <2>1. \/ Stops /\ step # "project"
        \/ /\ step \in {"system", "medium", "save", "subs"} /\ step' \in {"medium", "save", "subs"}
           /\ number' = number
    BY <1>3, SystemTurns, MediumTurns, SaveTurns, SubCartridgeTurns DEF On
  <2> QED BY <2>1, PortsStop DEF PortsInv
<1>4. CASE LoadRoot \/ MediaPort \/ MediaDone \/ SubSlot
  BY <1>4, PortsOfBuilding
<1>5. CASE SubSlotsDone \/ KeyboardPort \/ DevicePort \/ PortsDone \/ Power
  BY <1>5, PortsOfSubSlotsDone, PortsOfPorts, PortsOfDone
<1>6. CASE Shutdown \/ Unload \/ \E what \in held \union {m \in {"machine"} : standing} : Exit(what)
  <2>1. step' \in {"unloading", "ended"} /\ number' = number
    BY <1>6, EndTurns
  <2> QED BY <2>1 DEF PortsInv
<1> QED BY <1>1, <1>2, <1>3, <1>4, <1>5, <1>6 DEF Next

-----------------------------------------------------------------------------
(* What a machine that was built is.                                           *)

\* All that is known of a machine in every state.
BuildInv == ReadInv /\ SubsInv /\ PlacesInv /\ PortsInv

LEMMA BuildBegins == Init => BuildInv
<1> SUFFICES ASSUME Init PROVE BuildInv
  OBVIOUS
<1>1. PlacesInv /\ PortsInv
  BY CountsAssumption DEF Init, PlacesInv, PortsInv, Built
<1> QED BY <1>1, ReadBegins, SubsBegin DEF BuildInv

LEMMA BuildKeeps == BuildInv /\ [Next]_vars => BuildInv'
BY ReadKeeps, SubsKeep, PlacesKeep, PortsKeep DEF BuildInv

LEMMA BuiltTyped ==
    ASSUME Ordered, BuildInv
    PROVE  TypeOK
<1>1. /\ reader \in {"core", "runner"} /\ bridge \in BOOLEAN /\ step \in Steps
      /\ suggested => reader = "core" /\ project.region \in {"ntsc", "pal"}
      /\ number \in 0 .. MaxPorts /\ error \in Reasons \union {Nothing}
  BY DEF BuildInv, ReadInv, PortsInv, GameRegion
<1>2. IF step = "project" THEN config = Nothing ELSE config.machine = MachineId(project)
  BY ConfigReads DEF BuildInv, ReadInv, Reads
<1>3. step = "subs" => todo \in Seq(Range(config.subs))
  <2> SUFFICES ASSUME step = "subs" PROVE todo \in Seq(Range(config.subs))
    OBVIOUS
  <2> DEFINE files == config.subs  n == Len(subs) + 1
  <2>1. IsList(files) /\ todo = From(files, n) /\ IsList(subs) /\ Len(subs) <= Len(files)
    BY SlotsOfTheMachine DEF BuildInv, SubsInv, FirstFit, Offering
  <2>2. n \in 1 .. Len(files) + 1 /\ Len(files) \in Nat
    BY <2>1, ListFacts
  <2> HIDE DEF files, n
  <2>3. IsList(todo) /\ \A e : e \in Range(todo) <=> \E j \in n .. Len(files) : e = files[j]
    BY <2>1, <2>2, ListFrom
  <2>4. Range(todo) \subseteq Range(files)
    <3>1. \A j \in n .. Len(files) : j \in 1 .. Len(files)
      BY <2>2
    <3> QED BY <2>1, <2>3, <3>1, ListFacts
  <2> QED BY <2>3, <2>4, ListsWithin DEF files
<1>4. step \in {"media", "ports"} => todo \in Seq(Range(ports))
  <2>1. CASE step = "media"
    BY <2>1, ListsWithin DEF BuildInv, PlacesInv
  <2>2. CASE step = "ports"
    <3>1. PICK k \in 0 .. Len(ports) : todo = Only(From(ports, k + 1), Takers)
      BY <2>2 DEF BuildInv, PortsInv
    <3>2. IsList(ports)
      BY <2>2, PortsOfTheMachine DEF BuildInv, Offering
    <3>3. Len(ports) \in Nat /\ k + 1 \in 1 .. Len(ports) + 1
      BY <3>2, ListFacts
    <3>4. IsList(From(ports, k + 1))
      BY <3>2, <3>3, ListFrom
    <3>5. IsList(todo) /\ Range(todo) = Range(From(ports, k + 1)) \intersect Takers
      BY <3>1, <3>4, Selected
    <3> QED BY <3>5, ListsWithin DEF Takers
  <2> QED BY <2>1, <2>2
<1>5. step = "subslots" => todo \in Seq(Range(spec.subSlots))
  <2> SUFFICES ASSUME step = "subslots" PROVE todo \in Seq(Range(spec.subSlots))
    OBVIOUS
  <2> DEFINE slots == spec.subSlots
  <2>1. PICK n \in 0 .. Len(subs) : todo = From(subs, n + 1)
    BY DEF BuildInv, PlacesInv
  <2>2. IsList(subs) /\ IsList(slots) /\ \A i \in 1 .. Len(subs) : \E j \in 1 .. Len(slots) : subs[i] = slots[j]
    BY SlotsOfTheMachine DEF BuildInv, SubsInv, Built, FirstFit, Classed, Offering
  <2>3. Len(subs) \in Nat /\ n + 1 \in 1 .. Len(subs) + 1
    BY <2>2, ListFacts
  <2>4. IsList(todo) /\ \A e : e \in Range(todo) <=> \E j \in n + 1 .. Len(subs) : e = subs[j]
    BY <2>1, <2>2, <2>3, ListFrom
  <2> HIDE DEF slots
  <2>5. \A j \in n + 1 .. Len(subs) : subs[j] \in Range(slots)
    <3>1. \A j \in n + 1 .. Len(subs) : j \in 1 .. Len(subs)
      BY <2>3
    <3> QED BY <2>2, <3>1, ListFacts
  <2>6. Range(todo) \subseteq Range(slots)
    BY <2>4, <2>5
  <2> QED BY <2>4, <2>6, ListsWithin DEF slots
<1>6. step \in {"media", "subslots", "ports", "power", "built"} =>
         {p.name : p \in Range(ports)} \subseteq DOMAIN content
  BY DEF BuildInv, PlacesInv, Built
<1>7. held \subseteq {"buttons", "tape", "streams", "buses", "root"} /\ (step = "refused" => error # Nothing)
  BY DEF Ordered, Nodes
<1> QED BY <1>1, <1>2, <1>3, <1>4, <1>5, <1>6, <1>7 DEF TypeOK

\* The building is always at one of its steps, with what is left for the step's
\* loop to go through of the machine's own ports and slots, and a machine that is
\* built has a place for each of its ports: for any projects and machines.
THEOREM BuildingTypesHold == Spec => []TypeOK
BY Begun, Keeps, BuildBegins, BuildKeeps, BuiltTyped, PTL DEF Spec

\* What pak() hands a slot is the medium where there is one and the slot takes it.
LEMMA PlacedGame ==
    ASSUME NEW p
    PROVE  Placed(p) = <<"game">> <=>
              /\ p.name # spec.portLeftEmpty /\ spec.firmwareNode # p.node
              /\ spec.mediumNode \in {Nothing, p.node}
              /\ config.rom # Nothing /\ (p.deck => config.rom.tape)
<1>1. <<"card">> # <<"game">> /\ <<>> # <<"game">>
  OBVIOUS
<1>2. Placed(p) = IF p.name = spec.portLeftEmpty THEN <<>>
                  ELSE IF spec.firmwareNode = p.node THEN <<"card">>
                  ELSE IF /\ spec.mediumNode \in {Nothing, p.node}
                          /\ config.rom # Nothing /\ (p.deck => config.rom.tape) THEN <<"game">>
                  ELSE <<>>
  BY DEF Placed, PakFor
<1> QED BY <1>1, <1>2

\* No port that takes a device has the medium in it.
LEMMA DeviceIsNoGame ==
    ASSUME ReadInv, step \in Offering, NEW i \in 1 .. Len(ports), ports[i] \in Takers
    PROVE  <<"game">> \notin Asked(i)
<1> DEFINE p == ports[i]
<1>1. p \in Range(ports) /\ p.devices # <<>>
  BY DEF Takers
<1>2. IsList(p.devices) /\ "game" \notin Range(p.devices)
  BY <1>1, PortsOfTheMachine
<1>3. p.devices[1] \in Range(p.devices)
  BY <1>1, <1>2, RestOfList
<1> DEFINE n == Numbered(i)
           asked == DevicesAsked(p, n)
<1>4. asked \subseteq Range(p.devices)
  BY <1>3, WantedIs DEF DeviceFor
<1>5. Wanted(p, n) = IF asked = {} THEN {<<>>} ELSE {Fitted(n, d) : d \in There(p, n)}
  BY WantedIs
<1> HIDE DEF p
<1>6. ASSUME NEW d \in There(p, n) PROVE Fitted(n, d) # <<"game">>
  <2> DEFINE given == Fitted(n, d)
  <2>1. given[1] = d
    BY DEF Fitted
  <2>2. d # "game"
    BY <1>2, <1>4 DEF There
  <2> HIDE DEF given
  <2>3. given # <<"game">>
    BY <2>1, <2>2
  <2> QED BY <2>3 DEF given
<1> HIDE DEF asked
<1>7. <<"game">> \notin Wanted(p, n)
  <2>1. CASE asked = {}
    BY <1>5, <2>1
  <2>2. CASE asked # {}
    BY <1>5, <1>6, <2>2, Zenon
  <2> QED BY <2>1, <2>2
<1>8. <<p.devices[1]>> # <<"game">>
  BY <1>2, <1>3
<1>9. Asked(i) = IF p.keyboard THEN {<<p.devices[1]>>} ELSE Wanted(p, n)
  BY DEF Asked, p
<1> QED BY <1>7, <1>8, <1>9

\* A medium has a place in the machine it is for, and that is a slot.
LEMMA GameHasPlace ==
    ASSUME ReadInv, step \in Offering, Has(project.rom)
    PROVE  \E q \in Range(ports) : q \notin Takers /\ Placed(q) = <<"game">>
<1>1. config.machine = MachineId(project) /\ config.rom = Filled(project.rom)
  BY ConfigReads DEF Reads, Offering
<1>2. config.rom = project.rom /\ config.rom # Nothing
  BY <1>1 DEF Has, Filled
<1>3. /\ MachineId(project) \in DOMAIN All /\ spec = All[MachineId(project)]
      /\ ports = Ports[MachineId(project)]
  BY <1>1 DEF ReadInv, spec, Find, ports
<1>4. \E q \in Range(ports) : /\ q.devices = <<>> /\ q.name # spec.portLeftEmpty /\ q.node # spec.firmwareNode
                              /\ spec.mediumNode \in {Nothing, q.node} /\ (q.deck => project.rom.tape)
  BY <1>3, Zenon DEF ReadInv, Insertable, Has
<1>5. PICK q \in Range(ports) : /\ q.devices = <<>> /\ q.name # spec.portLeftEmpty /\ q.node # spec.firmwareNode
                                /\ spec.mediumNode \in {Nothing, q.node} /\ (q.deck => project.rom.tape)
  BY <1>4
<1>6. q \notin Takers
  BY <1>5 DEF Takers
<1>7. Placed(q) = <<"game">>
  BY <1>2, <1>5, PlacedGame
<1> QED BY <1>6, <1>7

LEMMA BuiltHasGame ==
    ASSUME BuildInv
    PROVE  GameIsWhereItBelongs
<1> SUFFICES ASSUME step = "built" PROVE GameIsWhereItBelongs
  BY DEF GameIsWhereItBelongs
<1> DEFINE places == {p \in Range(ports) : content[p.name] = <<"game">>}
<1>1. ReadInv /\ step \in Offering
  BY DEF BuildInv, Offering
<1>2. config.rom = Filled(project.rom)
  BY <1>1, ConfigReads DEF Reads
<1>3. /\ Has(project.rom) <=> config.rom # Nothing
      /\ config.rom # Nothing => config.rom = project.rom
  BY <1>2 DEF Has, Filled
<1>4. \A p \in Range(ports) \ Takers : content[p.name] = Placed(p)
  BY DEF BuildInv, PlacesInv, Built
<1>5. ASSUME NEW p \in places PROVE p \notin Takers /\ Placed(p) = <<"game">>
  <2>1. PICK i \in 1 .. Len(ports) : p = ports[i]
    <3>1. IsList(ports) /\ p \in Range(ports)
      BY <1>1, PortsOfTheMachine
    <3> QED BY <3>1, ListFacts
  <2>2. p \in Takers => content[p.name] \in Asked(i)
    BY <2>1 DEF BuildInv, PortsInv
  <2>3. p \notin Takers
    BY <1>1, <2>1, <2>2, DeviceIsNoGame
  <2> QED BY <1>4, <2>3
<1>6. ASSUME NEW p \in places
      PROVE  /\ p.deck => project.rom.tape
             /\ p.name # spec.portLeftEmpty
             /\ spec.mediumNode \in {Nothing, p.node}
             /\ Has(project.rom)
  BY <1>3, <1>5, PlacedGame
<1>7. Has(project.rom) => places # {}
  <2>1. ASSUME Has(project.rom) PROVE places # {}
    <3>1. PICK q \in Range(ports) : q \notin Takers /\ Placed(q) = <<"game">>
      BY <1>1, <2>1, GameHasPlace
    <3>2. q \in places
      BY <1>4, <3>1
    <3> QED BY <3>2
  <2> QED BY <2>1
<1> HIDE DEF places
<1>8. Has(project.rom) <=> places # {}
  BY <1>6, <1>7
<1>9. /\ Has(project.rom) = (places # {})
      /\ \A p \in places : /\ p.deck => project.rom.tape
                           /\ p.name # spec.portLeftEmpty
                           /\ spec.mediumNode \in {Nothing, p.node}
  <2>1. Has(project.rom) \in BOOLEAN /\ (places # {}) \in BOOLEAN
    BY DEF Has
  <2> QED BY <1>6, <1>8, <2>1
<1> QED BY <1>9, Zenon DEF GameIsWhereItBelongs, places

\* Whatever the machine and the project, the medium of a machine that was built
\* is in a slot of it that takes it, and in no other place: no deck is handed a
\* cartridge, and the port a disk drive's machine leaves empty is left empty.
THEOREM GameAlwaysBelongs == Spec => []GameIsWhereItBelongs
BY BuildBegins, BuildKeeps, BuiltHasGame, PTL DEF Spec

LEMMA BuiltIsAsked ==
    ASSUME BuildInv
    PROVE  BuiltAsAsked
<1> SUFFICES ASSUME step = "built" PROVE BuiltAsAsked
  BY DEF BuiltAsAsked
<1>1. ReadInv /\ step \in Offering /\ step # "project"
  BY DEF BuildInv, Offering
<1>2. ASSUME NEW i \in 1 .. Len(ports), ports[i].devices # <<>>
      PROVE  content[ports[i].name] \in IF ports[i].keyboard THEN {<<ports[i].devices[1]>>}
                                        ELSE Wanted(ports[i], Numbered(i))
  <2>1. IsList(ports)
    BY <1>1, PortsOfTheMachine
  <2>2. ports[i] \in Takers
    BY <1>2, <2>1, ListFacts DEF Takers
  <2>3. content[ports[i].name] \in Asked(i)
    BY <2>2 DEF BuildInv, PortsInv
  <2> QED BY <2>3, Zenon DEF Asked
<1>3. /\ config.subs = Further /\ Len(subs) = Len(config.subs)
      /\ FirstFit(spec.subSlots, config.subs, subs) /\ told = Told
  BY <1>1, SlotsOfTheMachine DEF BuildInv, SubsInv, Built
<1>4. Len(subs) = Len(Further)
  BY <1>3
<1>5. ASSUME NEW i \in 1 .. Len(subs)
      PROVE  /\ Further[i] \in subs[i].extensions
             /\ content[subs[i].port] = <<"cartridge">>
             /\ \A j \in 1 .. i - 1 : subs[j].port # subs[i].port
  BY <1>3 DEF FirstFit, BuildInv, PlacesInv
<1>6. suggested => config.pal = ("PAL" \in project.rom.regions) /\ Cardinality(project.rom.regions) = 1
  <2> SUFFICES ASSUME suggested
               PROVE  config.pal = ("PAL" \in project.rom.regions) /\ Cardinality(project.rom.regions) = 1
    OBVIOUS
  <2>1. config.pal = (project.region = "pal")
    BY <1>1, ConfigReads DEF Reads
  <2>2. \/ project.rom.regions = {"NTSC"} /\ project.region = "ntsc"
        \/ project.rom.regions = {"PAL"} /\ project.region = "pal"
    BY <1>1 DEF ReadInv, GameRegion
  <2>3. Cardinality({"NTSC"}) = 1 /\ Cardinality({"PAL"}) = 1
    BY FS_Singleton
  <2> QED BY <2>1, <2>2, <2>3
<1>7. Nintendo64(config.machine) =>
         told = {"Deterministic Entropy"}
                \union {o \in {"Recompiler"} : project.cpu # "interpreter"}
                \union {o \in {"Enable GPU acceleration"} : project.renderer # "software"}
  <2> SUFFICES ASSUME Nintendo64(config.machine)
               PROVE  told = {"Deterministic Entropy"}
                             \union {o \in {"Recompiler"} : project.cpu # "interpreter"}
                             \union {o \in {"Enable GPU acceleration"} : project.renderer # "software"}
    OBVIOUS
  <2>1. spec = All[config.machine] /\ config.machine \in DOMAIN All /\ spec.load = "Nintendo64"
    BY <1>1, SlotsOfTheMachine DEF Nintendo64
  <2>2. spec.options = {"Deterministic Entropy"}
    BY <2>1, EveryRowIsTabled DEF Tabled, Pinned
  <2>3. config.interpreter = (project.cpu = "interpreter") /\ config.softwareRDP = (project.renderer = "software")
    BY <1>1, ConfigReads DEF Reads
  <2>4. told = {"Deterministic Entropy"}
               \union (IF project.cpu # "interpreter" THEN {"Recompiler"} ELSE {})
               \union (IF project.renderer # "software" THEN {"Enable GPU acceleration"} ELSE {})
    BY <1>3, <2>1, <2>2, <2>3 DEF Told
  <2> QED BY <2>4
<1> QED BY <1>2, <1>4, <1>5, <1>6, <1>7, Zenon DEF BuiltAsAsked

\* Whatever the projects, the machines, the ports and the devices there are, a
\* machine that was built is the one the project asks for, whichever of the two
\* readers built it: each numbered port has its device, with the accessory that is
\* named if ares has one so called for it and with nothing otherwise; each further
\* cartridge a slot of its own, and a Nintendo 64 the options its settings say.
THEOREM AlwaysBuiltAsAsked == Spec => []BuiltAsAsked
BY BuildBegins, BuildKeeps, BuiltIsAsked, PTL DEF Spec

-----------------------------------------------------------------------------
(* The two readers.                                                            *)

\* The native runner says the same of what both can say: a port beyond a
\* project's settings is one of which nothing is said.
LEMMA ReadAlike ==
    ASSUME Sayable(project), project.accessory = <<>>, Len(project.port) <= PortSettings
    PROVE  Read(PortSettings, PadSettings, FALSE) = Read(MaxPorts, 0, FALSE)
<1>1. SettingString(Nothing) = Nothing
  <2>1. Nothing # "none"
    BY NothingAssumption, Zenon
  <2> QED BY <2>1, Zenon DEF SettingString
<1>2. Len(project.port) \in Nat /\ PortSettings \in Nat /\ PadSettings \in Nat /\ MaxPorts \in Nat
  <2>1. IsList(project.port)
    BY DEF Sayable
  <2> QED BY <2>1, ListFacts, CountsAssumption
<1>3. ASSUME NEW n \in 1 .. MaxPorts
      PROVE  (IF n <= PortSettings THEN SettingString(Word(project.port, n)) ELSE Nothing)
             = IF n <= MaxPorts THEN SettingString(Word(project.port, n)) ELSE Nothing
  <2>1. n > PortSettings => Word(project.port, n) = Nothing
    BY <1>2 DEF Word
  <2> QED BY <1>1, <1>2, <2>1
<1>4. ASSUME NEW n \in 1 .. MaxPorts
      PROVE  (IF n <= PadSettings THEN SettingString(Word(project.accessory, n)) ELSE Nothing)
             = IF n <= 0 THEN SettingString(Word(project.accessory, n)) ELSE Nothing
  <2>1. Len(<<>>) = 0 /\ ~(n <= 0)
    OBVIOUS
  <2>2. Word(<<>>, n) = Nothing
    BY <2>1 DEF Word
  <2> QED BY <1>1, <2>1, <2>2
<1> DEFINE words(most, said) == [n \in 1 .. MaxPorts |-> IF n <= most THEN SettingString(Word(said, n)) ELSE Nothing]
<1>5. words(PortSettings, project.port) = words(MaxPorts, project.port)
  BY <1>3
<1>6. words(PadSettings, project.accessory) = words(0, project.accessory)
  BY <1>4
<1> QED BY <1>5, <1>6, Zenon DEF Read

\* Whichever of the two readers it was, one Config is made of what both can be
\* told: no PIF file, nothing in a pad's slot, no port beyond the project's
\* settings. What the sandbox's Init and the runner's options differ in is no
\* more than that, so that a difference between the runs is not theirs
\* (waterbox.cpp, run-native.cpp).
THEOREM ReadersAgree ==
    Spec => [](/\ step # "project" /\ project.pif = FALSE /\ project.accessory = <<>>
               /\ Len(project.port) <= PortSettings
               => config = Read(MaxPorts, 0, FALSE))
<1>1. BuildInv => (/\ step # "project" /\ project.pif = FALSE /\ project.accessory = <<>>
                   /\ Len(project.port) <= PortSettings
                   => config = Read(MaxPorts, 0, FALSE))
  <2> SUFFICES ASSUME BuildInv, step # "project", project.pif = FALSE, project.accessory = <<>>,
                      Len(project.port) <= PortSettings
               PROVE  config = Read(MaxPorts, 0, FALSE)
    OBVIOUS
  <2>1. config = ConfigOf /\ Sayable(project)
    BY Zenon DEF BuildInv, ReadInv
  <2>2. Read(PortSettings, PadSettings, FALSE) = Read(MaxPorts, 0, FALSE)
    BY <2>1, ReadAlike
  <2> QED BY <2>1, <2>2, Zenon DEF ConfigOf
<1> QED BY <1>1, BuildBegins, BuildKeeps, PTL DEF Spec

-----------------------------------------------------------------------------
(* What a machine is refused for.                                              *)

\* Every slot of W that takes the k-th file has been given to a file before it;
\* and f puts each file into a slot of W that takes it.
Exhausted(slots, files, given, k, W) ==
    \A m \in 1 .. Len(slots) : files[k] \in slots[m].extensions /\ slots[m].port \in W
                               => \E h \in 1 .. k - 1 : given[h].port = slots[m].port
PutInto(slots, files, f, W) ==
    /\ f \in [1 .. Len(files) -> 1 .. Len(slots)]
    /\ \A i \in 1 .. Len(files) : files[i] \in slots[f[i]].extensions /\ slots[f[i]].port \in W

\* Where every slot that takes the k-th file has been given, first fit, to a
\* file before it, the files cannot all have slots of their own: those up to the
\* k-th that are of its kind are more than the slots of that kind.
LEMMA TooFewSlots ==
    ASSUME NEW slots, Classed(slots), NEW files, IsList(files), NEW given, FirstFit(slots, files, given),
           NEW k \in 1 .. Len(files), k <= Len(given) + 1, NEW W,
           Exhausted(slots, files, given, k, W), NEW f, PutInto(slots, files, f, W)
    PROVE  \E i, j \in 1 .. Len(files) : i # j /\ f[i] = f[j]
<1> DEFINE E == slots[f[k]].extensions
           I == {h \in 1 .. k : files[h] \in E}
           J == I \ {k}
<1> USE DEF Exhausted, PutInto
<1>1. Len(files) \in Nat /\ Len(slots) \in Nat /\ Len(given) \in Nat
  BY ListFacts DEF Classed, FirstFit
<1>2. I \subseteq 1 .. Len(files) /\ k \in I
  BY <1>1
<1>3. ASSUME NEW h \in I PROVE \E g \in J : given[g].port = slots[f[h]].port
  <2> DEFINE m == f[h]
  <2>1. h \in 1 .. Len(files) /\ m \in 1 .. Len(slots) /\ f[k] \in 1 .. Len(slots)
    BY <1>2
  <2>2. files[h] \in slots[m].extensions /\ files[h] \in E /\ slots[m].port \in W
    BY <2>1
  <2>3. slots[m].extensions = E
    <3>1. files[h] \in slots[m].extensions \intersect slots[f[k]].extensions
      BY <2>2
    <3>2. slots[m].extensions \intersect slots[f[k]].extensions # {}
      BY <3>1
    <3> HIDE DEF m
    <3> QED BY <2>1, <3>2 DEF Classed
  <2>4. files[k] \in slots[m].extensions
    BY <2>3
  <2> HIDE DEF m
  <2>5. PICK g \in 1 .. k - 1 : given[g].port = slots[m].port
    BY <2>1, <2>2, <2>4
  <2>6. g \in 1 .. Len(given)
    BY <1>1, <2>5
  <2>7. PICK j \in 1 .. Len(slots) : given[g] = slots[j]
    BY <2>6 DEF FirstFit
  <2>8. given[g] = slots[m]
    BY <2>1, <2>5, <2>7 DEF Classed
  <2>9. files[g] \in E
    BY <2>3, <2>6, <2>8 DEF FirstFit
  <2>10. g \in J
    BY <2>5, <2>9
  <2> QED BY <2>5, <2>10 DEF m
<1>4. IsFiniteSet(I) /\ IsFiniteSet(J) /\ Cardinality(J) < Cardinality(I)
  <2>1. IsFiniteSet(1 .. k) /\ I \subseteq 1 .. k
    BY FS_Interval
  <2> HIDE DEF I
  <2>2. IsFiniteSet(I)
    BY <2>1, FS_Subset
  <2>3. Cardinality(I) \in Nat /\ Cardinality(J) = Cardinality(I) - 1 /\ IsFiniteSet(J)
    BY <1>2, <2>2, FS_RemoveElement, FS_CardinalityType
  <2> QED BY <2>2, <2>3
<1> DEFINE c == [h \in I |-> CHOOSE g \in J : given[g].port = slots[f[h]].port]
<1> HIDE DEF E, I, J
<1>5. \A h \in I : c[h] \in J /\ given[c[h]].port = slots[f[h]].port
  BY <1>3
<1>6. c \in [I -> J]
  BY <1>5
<1> HIDE DEF c
<1>7. PICK x \in I, y \in I : x # y /\ c[x] = c[y]
  BY <1>4, <1>6, FS_PigeonHole
<1>8. slots[f[x]].port = slots[f[y]].port
  BY <1>5, <1>7
<1>9. x \in 1 .. Len(files) /\ y \in 1 .. Len(files)
  BY <1>2
<1>10. f[x] = f[y]
  BY <1>8, <1>9 DEF Classed
<1> QED BY <1>7, <1>9, <1>10

LEMMA NoPlacing ==
    ASSUME ReadInv, SubsInv, step \in {"subs"} \union Built, NEW k \in 1 .. Len(config.subs),
           k <= Len(subs) + 1, NEW W, Exhausted(spec.subSlots, config.subs, subs, k, W)
    PROVE  Placings(W) = {}
<1> DEFINE slots == spec.subSlots  files == config.subs
<1>1. /\ Classed(slots) /\ IsList(files) /\ files = Further /\ FirstFit(slots, files, subs)
  BY SlotsOfTheMachine DEF SubsInv, Offering, Built
<1> SUFFICES ASSUME NEW f \in Placings(W) PROVE FALSE
  OBVIOUS
<1>2. f \in [1 .. Len(files) -> 1 .. Len(slots)]
  BY <1>1 DEF Placings
<1>3. \A i, j \in 1 .. Len(files) : i # j => f[i] # f[j]
  BY <1>1, <1>2 DEF Placings
<1>4. PutInto(slots, files, f, W)
  BY <1>1, <1>2 DEF Placings, PutInto
<1>5. k \in 1 .. Len(files) /\ k <= Len(subs) + 1 /\ Exhausted(slots, files, subs, k, W)
  OBVIOUS
<1> HIDE DEF slots, files
<1>6. \E i, j \in 1 .. Len(files) : i # j /\ f[i] = f[j]
  BY <1>1, <1>4, <1>5, TooFewSlots
<1> QED BY <1>3, <1>6

\* A file finds no slot only when the files cannot all have one.
LEMMA NoSlotForCause ==
    ASSUME ReadInv, SubsInv, step = "subs", todo # <<>>, Offered(Head(todo)) = {}
    PROVE  Placings({s.port : s \in Range(spec.subSlots)}) = {}
<1> DEFINE k == Len(subs) + 1
           W == {s.port : s \in Range(spec.subSlots)}
<1>1. /\ IsList(config.subs) /\ FirstFit(spec.subSlots, config.subs, subs)
      /\ todo = From(config.subs, k)
  BY SlotsOfTheMachine DEF SubsInv, Offering
<1>2. Len(config.subs) \in Nat /\ Len(subs) \in Nat /\ Len(subs) <= Len(config.subs)
  BY <1>1, ListFacts DEF FirstFit
<1>3. k \in 1 .. Len(config.subs) + 1
  BY <1>2
<1>4. k - 1 = Len(subs) /\ k <= Len(subs) + 1
  BY <1>2
<1> HIDE DEF k, W
<1>5. k \in 1 .. Len(config.subs) /\ Head(todo) = config.subs[k]
  BY <1>1, <1>2, <1>3, RestFrom
<1>6. ASSUME NEW m \in 1 .. Len(spec.subSlots), config.subs[k] \in spec.subSlots[m].extensions
      PROVE  \E h \in 1 .. k - 1 : subs[h].port = spec.subSlots[m].port
  BY <1>4, <1>5, <1>6 DEF Offered, Taken
<1>7. Placings(W) = {}
  BY <1>4, <1>5, <1>6, NoPlacing DEF Exhausted
<1> QED BY <1>7 DEF W

\* A slot of the cartridge is missing only when the files cannot all have one of
\* the cartridge's, or there is no cartridge.
LEMMA CartridgeSlotForCause ==
    ASSUME ReadInv, SubsInv, PlacesInv, step = "subslots", todo # <<>>, Head(todo).port \notin CartridgePorts,
           Has(project.rom)
    PROVE  Placings(project.rom.slots) = {}
<1> DEFINE slots == spec.subSlots  files == config.subs  W == project.rom.slots
<1>1. /\ Classed(slots) /\ IsList(files) /\ FirstFit(slots, files, subs) /\ Len(subs) = Len(files)
      /\ config.machine \in DOMAIN All /\ spec = All[config.machine]
  BY SlotsOfTheMachine DEF SubsInv, Offering, Built, ReadInv
<1>2. config.machine = MachineId(project) /\ config.rom = project.rom
  <2>1. config.rom = Filled(project.rom) /\ config.machine = MachineId(project)
    BY ConfigReads DEF Reads
  <2> QED BY <2>1 DEF Has, Filled
<1>3. <<"game">> \in Range(content)
  <2>1. PICK q \in Range(ports) : q \notin Takers /\ Placed(q) = <<"game">>
    BY GameHasPlace DEF Offering
  <2>2. content[q.name] = <<"game">>
    BY <2>1 DEF PlacesInv, Built
  <2>3. q.name \in DOMAIN content
    <3> DEFINE names == {p.name : p \in Range(ports)}
    <3>1. names \subseteq DOMAIN content /\ q.name \in names
      BY DEF PlacesInv, Built
    <3> HIDE DEF names
    <3> QED BY <3>1
  <2> QED BY <2>2, <2>3 DEF Range
<1>4. Head(todo).port \notin W
  BY <1>2, <1>3 DEF CartridgePorts
<1>5. PICK n \in 0 .. Len(subs) : todo = From(subs, n + 1)
  BY DEF PlacesInv
<1>6. IsList(subs) /\ Len(subs) \in Nat
  BY <1>1, ListFacts DEF FirstFit
<1> DEFINE k == n + 1
<1>7. k \in 1 .. Len(subs) /\ Head(todo) = subs[k]
  <2>1. k \in 1 .. Len(subs) + 1
    BY <1>6
  <2> QED BY <1>5, <1>6, <2>1, RestFrom
<1> HIDE DEF k
<1>8. PICK j \in 1 .. Len(slots) :
         /\ subs[k] = slots[j]
         /\ \A m \in 1 .. j - 1 : files[k] \in slots[m].extensions
                                  => \E h \in 1 .. k - 1 : subs[h].port = slots[m].port
  BY <1>1, <1>7 DEF FirstFit
<1>9. files[k] \in slots[j].extensions /\ slots[j].port \notin W
  BY <1>1, <1>4, <1>7, <1>8 DEF FirstFit
<1>10. \A a, b \in 1 .. Len(slots) : a < b /\ slots[a].extensions = slots[b].extensions
                                     /\ slots[b].port \in W => slots[a].port \in W
  <2> DEFINE s == All[MachineId(project)].subSlots
  <2>1. \A a, b \in 1 .. Len(s) : a < b /\ s[a].extensions = s[b].extensions
                                  /\ s[b].port \in project.rom.slots => s[a].port \in project.rom.slots
    BY <1>1, <1>2, Zenon DEF ReadInv, Insertable, Has
  <2>2. slots = s
    BY <1>1, <1>2
  <2> HIDE DEF s
  <2> QED BY <2>1, <2>2
<1>11. Len(slots) \in Nat
  BY <1>1, ListFacts DEF Classed
<1>12. ASSUME NEW m \in 1 .. Len(slots), files[k] \in slots[m].extensions, slots[m].port \in W
       PROVE  \E h \in 1 .. k - 1 : subs[h].port = slots[m].port
  <2>1. slots[m].extensions = slots[j].extensions
    <3>1. files[k] \in slots[m].extensions \intersect slots[j].extensions
      BY <1>9, <1>12
    <3>2. slots[m].extensions \intersect slots[j].extensions # {}
      BY <3>1
    <3> QED BY <1>1, <3>2 DEF Classed
  <2>2. ~(j < m)
    BY <1>9, <1>10, <1>12, <2>1
  <2>3. m # j
    BY <1>9, <1>12
  <2>4. m \in 1 .. j - 1
    BY <1>11, <2>2, <2>3
  <2> QED BY <1>8, <1>12, <2>4
<1>13. k \in 1 .. Len(files) /\ k <= Len(subs) + 1
  BY <1>1, <1>6, <1>7
<1> QED BY <1>12, <1>13, NoPlacing DEF Built, Exhausted

\* A port has no such device only when the project asks for one it has none of.
\* A numbered port the loop has come to is one a project may ask a device for,
\* and its devices that match are those that are asked for.
LEMMA PortAsks ==
    ASSUME ReadInv, PortsInv, step = "ports", todo # <<>>, IsControllerPort(Head(todo)), number < MaxPorts,
           ~LeftEmpty(number + 1)
    PROVE  \E i \in Asking :
              LET n == Numbered(i)
              IN  /\ n = number + 1 /\ n \in 1 .. MaxPorts /\ ports[i] = Head(todo)
                  /\ IsList(Matches(Head(todo), n))
                  /\ Range(Matches(Head(todo), n)) = DevicesAsked(Head(todo), n)
                  /\ DevicesAsked(Head(todo), n) = {} =>
                        /\ Says(project.port, n) # Nothing
                        /\ Letters(project.port[n]) \notin KeyboardNames \union {"", "none", "default"}
<1>1. PICK k \in Nat, j \in Nat : AtPort(k, j)
  BY LoopIsAtPort
<1> DEFINE p == ports[j]
           n == number + 1
           w == Says(project.port, n)
<1>2. /\ Head(todo) = p /\ p \in Takers /\ j \in k + 1 .. Len(ports) /\ number \in 0 .. MaxPorts
      /\ k \in 0 .. Len(ports) /\ p.devices # <<>> /\ ~p.keyboard
  BY <1>1 DEF AtPort, PortsInv, IsControllerPort, Takers
<1>3. n \in 1 .. MaxPorts /\ Numbered(j) = n /\ n <= MaxPorts
  BY <1>1, <1>2, CountsAssumption DEF AtPort
<1>4. DevicesAsked(p, n) = DeviceFor(p, n, w)
  BY <1>3, WantedIs
<1>5. IsList(Matches(p, n)) /\ Range(Matches(p, n)) = DevicesAsked(p, n)
      /\ (DevicesAsked(p, n) # {} \/ (w \notin {Nothing, "none"} /\ Letters(w) # "default"))
  BY <1>2, <1>3, <1>4, MatchesAreWanted
<1>6. ASSUME DevicesAsked(p, n) = {}
      PROVE  w # Nothing /\ Letters(project.port[n]) \notin KeyboardNames \union {"", "none", "default"}
  <2>1. w \notin {Nothing, "none"} /\ Letters(w) # "default"
    BY <1>5, <1>6
  <2>2. /\ w # Nothing => w = project.port[n]
        /\ w \notin {Nothing, "none"} => Letters(w) # "none"
        /\ Default(n) <=> IF w = Nothing THEN n = 1 /\ Silent ELSE w # "none" /\ Letters(w) = "default"
        /\ LeftEmpty(n) <=> ~Default(n) /\ (w \in {Nothing, "none"} \/ Letters(w) \in KeyboardNames \union {""})
    BY <1>3, WordsAgree
  <2>3. ~Default(n)
    BY <2>1, <2>2
  <2> QED BY <2>1, <2>2, <2>3
<1>7. j \in Asking
  BY <1>2, <1>3 DEF Asking
<1> HIDE DEF p, n, w
<1>8. /\ Numbered(j) = n /\ n = number + 1 /\ n \in 1 .. MaxPorts /\ p = ports[j] /\ w = Says(project.port, n)
  BY <1>3 DEF p, n, w
<1> QED BY <1>2, <1>5, <1>6, <1>7, <1>8

LEMMA NoDeviceForCause ==
    ASSUME ReadInv, PortsInv, step = "ports", todo # <<>>, IsControllerPort(Head(todo)), number < MaxPorts,
           ~LeftEmpty(number + 1),
           \/ Matches(Head(todo), number + 1) = <<>>
           \/ /\ Matches(Head(todo), number + 1) # <<>>
              /\ Head(Matches(Head(todo), number + 1)) \notin Head(todo).made
    PROVE  DeviceMissing
<1> DEFINE p == Head(todo)
<1>1. PICK i \in Asking :
         /\ Numbered(i) = number + 1 /\ ports[i] = p
         /\ IsList(Matches(p, Numbered(i))) /\ Range(Matches(p, Numbered(i))) = DevicesAsked(p, Numbered(i))
         /\ DevicesAsked(p, Numbered(i)) = {} =>
               /\ Says(project.port, Numbered(i)) # Nothing
               /\ Letters(project.port[Numbered(i)]) \notin KeyboardNames \union {"", "none", "default"}
  BY PortAsks
<1> DEFINE matches == Matches(p, Numbered(i))
<1>2. matches = <<>> \/ (matches # <<>> /\ Head(matches) \notin p.made)
  BY <1>1
<1> HIDE DEF p
<1>3. CASE matches = <<>>
  <2>1. DevicesAsked(p, Numbered(i)) = {}
    BY <1>1, <1>3, EmptyList
  <2> QED BY <1>1, <2>1, Zenon DEF DeviceMissing
<1>4. CASE matches # <<>> /\ Head(matches) \notin p.made
  <2>1. Head(matches) \in DevicesAsked(p, Numbered(i))
    BY <1>1, <1>4, RestOfList
  <2>2. DevicesAsked(p, Numbered(i)) # {} /\ ~(DevicesAsked(p, Numbered(i)) \subseteq p.made)
    BY <1>4, <2>1
  <2> QED BY <1>1, <2>2, Zenon DEF DeviceMissing
<1> QED BY <1>2, <1>3, <1>4

LEMMA NoSlotOfADeviceForCause ==
    ASSUME ReadInv, PortsInv, step = "ports", todo # <<>>, IsControllerPort(Head(todo)), number < MaxPorts,
           ~LeftEmpty(number + 1), Matches(Head(todo), number + 1) # <<>>, Slotless(Head(todo), number + 1)
    PROVE  SlotMissing
<1> DEFINE p == Head(todo)
<1>1. PICK i \in Asking :
         /\ Numbered(i) = number + 1 /\ Numbered(i) \in 1 .. MaxPorts /\ ports[i] = p
         /\ IsList(Matches(p, Numbered(i))) /\ Range(Matches(p, Numbered(i))) = DevicesAsked(p, Numbered(i))
  BY PortAsks
<1> DEFINE matches == Matches(p, Numbered(i))
<1>2. matches # <<>> /\ Slotless(p, Numbered(i))
  BY <1>1
<1>3. PadAsked(Numbered(i)) /\ Head(matches) \notin DOMAIN Accessories
  BY <1>1, <1>2, PadIsWanted, Zenon DEF Slotless
<1>4. Head(matches) \in DevicesAsked(p, Numbered(i))
  BY <1>1, <1>2, RestOfList
<1> QED BY <1>1, <1>3, <1>4 DEF SlotMissing

LEMMA NoKeyboardForCause ==
    ASSUME ReadInv, PortsInv, step = "ports", todo # <<>>, ~IsControllerPort(Head(todo)),
           Head(Head(todo).devices) \notin Head(todo).made
    PROVE  KeyboardMissing
<1> DEFINE p == Head(todo)
<1>1. p \in Takers
  BY NextTakes
<1>2. p \in Range(ports) /\ p.devices # <<>> /\ p.keyboard
  BY <1>1 DEF Takers, IsControllerPort
<1>3. IsList(p.devices)
  BY <1>2, PortsOfTheMachine DEF Offering
<1>4. Head(p.devices) = p.devices[1]
  BY <1>2, <1>3, RestOfList
<1> QED BY <1>2, <1>4 DEF KeyboardMissing

\* The refusals that have a cause of the project's own, or of its machine's.
Owed == {"usage", "error.no_file", "error.save_n64_only", "error.no_slot", "error.cartridge_no_slot",
         "error.no_keyboard", "error.no_device", "error.no_accessory_slot"}

LEMMA OtherCause == ASSUME error' \notin Owed PROVE RefusedForCause'
BY DEF Owed, RefusedForCause

LEMMA SameMissing ==
    ASSUME config' = config, project' = project
    PROVE  KeyboardMissing' = KeyboardMissing /\ DeviceMissing' = DeviceMissing /\ SlotMissing' = SlotMissing
<1>1. ports' = ports
  BY SameMachine
<1>2. ASSUME NEW i PROVE Numbered(i)' = Numbered(i)
  BY SameAsked
<1>3. ASSUME NEW p, NEW n PROVE DevicesAsked(p, n)' = DevicesAsked(p, n)
  BY Zenon DEF DevicesAsked
<1>4. ASSUME NEW n PROVE PadAsked(n)' = PadAsked(n)
  BY Zenon DEF PadAsked
<1>5. Asking' = Asking
  BY <1>1, <1>2, Zenon DEF Asking
<1>6. KeyboardMissing' = KeyboardMissing
  BY <1>1, Zenon DEF KeyboardMissing
<1>7. DeviceMissing' = DeviceMissing
  BY <1>1, <1>2, <1>3, <1>5, Zenon DEF DeviceMissing
<1>8. SlotMissing' = SlotMissing
  BY <1>1, <1>2, <1>3, <1>4, <1>5, Zenon DEF SlotMissing
<1> QED BY <1>6, <1>7, <1>8

\* Every one of them is of the project and the machine, which do not change.
LEMMA SameCause ==
    ASSUME RefusedForCause, config' = config, project' = project, error' = error
    PROVE  RefusedForCause'
<1>1. ports' = ports /\ spec' = spec
  BY SameMachine
<1>3. KeyboardMissing' = KeyboardMissing /\ DeviceMissing' = DeviceMissing /\ SlotMissing' = SlotMissing
  BY SameMissing
<1>4. Further' = Further
  BY Zenon DEF Further
<1>5. ASSUME NEW W PROVE Placings(W)' = Placings(W)
  BY <1>1, <1>4, Zenon DEF Placings
<1>6. (error \in {"usage", "error.no_file"} => ~Has(project.rom))'
  BY DEF RefusedForCause
<1>7. (error = "error.save_n64_only" =>
         Has(project.save) /\ (Has(project.rom) => ~Nintendo64(config.machine)))'
  BY DEF RefusedForCause
<1>8. (error = "error.no_slot" => Placings({s.port : s \in Range(spec.subSlots)}) = {})'
  BY <1>1, <1>5 DEF RefusedForCause
<1>9. (error = "error.cartridge_no_slot" => ~Has(project.rom) \/ Placings(project.rom.slots) = {})'
  BY <1>5 DEF RefusedForCause
<1>10. (error = "error.no_keyboard" => KeyboardMissing)'
  BY <1>3 DEF RefusedForCause
<1>11. (error = "error.no_device" => DeviceMissing)'
  BY <1>3 DEF RefusedForCause
<1>12. (error = "error.no_accessory_slot" => SlotMissing)'
  BY <1>3 DEF RefusedForCause
<1> QED BY <1>6, <1>7, <1>8, <1>9, <1>10, <1>11, <1>12, Zenon DEF RefusedForCause

\* A step that goes on has no error yet.
LEMMA GoingOnIsNoCause ==
    ASSUME error' = Nothing
    PROVE  RefusedForCause'
<1>1. Nothing \notin Owed
  BY NothingAssumption DEF Owed, Reasons
<1> QED BY <1>1, OtherCause

LEMMA CauseOfReading ==
    ASSUME ReadInv, ReadByCore \/ ReadByRunner \/ SuggestSettings
    PROVE  RefusedForCause'
<1>1. error = Nothing
  BY DEF ReadInv, ReadByCore, ReadByRunner, SuggestSettings
<1>2. CASE error' = error
  BY <1>1, <1>2, GoingOnIsNoCause
<1>3. CASE error' = "error.n64_needs_vulkan"
  BY <1>3, OtherCause DEF Owed
<1>4. CASE error' = "usage" /\ ReadByRunner
  <2>1. project' = project /\ config' = Read(MaxPorts, 0, project.pif) /\ (config'.rom = Nothing \/ error' = error)
    BY <1>4 DEF ReadByRunner
  <2>2. config'.rom = Filled(project.rom)
    BY <2>1, Zenon DEF Read
  <2>3. error' # error
    BY <1>1, <1>4, NothingAssumption DEF Reasons
  <2>4. ~Has(project'.rom)
    BY <2>1, <2>2, <2>3 DEF Has, Filled
  <2> QED BY <1>4, <2>4 DEF RefusedForCause
<1> QED BY <1>2, <1>3, <1>4 DEF ReadByCore, ReadByRunner, SuggestSettings

LEMMA CauseOfMedia ==
    ASSUME ReadInv, System \/ Medium \/ Save
    PROVE  RefusedForCause'
<1>1. /\ step \in {"system", "medium", "save"} /\ error = Nothing
      /\ Reads(config)
  BY ConfigReads DEF System, Medium, Save, ReadInv
<1>2. CASE error' = error
  BY <1>1, <1>2, GoingOnIsNoCause
<1>3. CASE error' \in Reasons \ Owed
  BY <1>3, OtherCause
<1>4. CASE Medium /\ error' \in Owed
  <2>1. MediumErrors("error.game_not_loaded") \intersect Owed = {} /\ Nothing \notin Owed
    BY NothingAssumption DEF MediumErrors, Owed, Reasons
  <2>2. error' = "error.no_file" /\ config.rom = Nothing /\ project' = project
    BY <1>1, <1>4, <2>1 DEF Medium, Refuse, Go
  <2>3. ~Has(project'.rom)
    BY <1>1, <2>2 DEF Has, Filled, Reads
  <2> QED BY <2>2, <2>3 DEF RefusedForCause
<1>5. CASE Save /\ error' \in Owed
  <2>1. SaveErrors \intersect Owed = {} /\ Nothing \notin Owed
    BY NothingAssumption DEF SaveErrors, Owed, Reasons
  <2>2. /\ error' = "error.save_n64_only" /\ project' = project /\ config' = config
        /\ config.save # Nothing /\ (spec.load # "Nintendo64" \/ config.rom = Nothing)
    BY <1>1, <1>5, <2>1 DEF Save, Refuse, Go
  <2>3. Has(project.save) /\ (Has(project.rom) => config.rom # Nothing)
    BY <1>1, <2>2 DEF Has, Filled, Reads
  <2>4. Nintendo64(config.machine) => spec.load = "Nintendo64"
    BY DEF Nintendo64, spec, Find
  <2> QED BY <2>2, <2>3, <2>4 DEF RefusedForCause
<1>6. CASE System /\ error' \in Owed
  <2>1. SystemErrors \intersect Owed = {} /\ "error.no_machine" \notin Owed /\ Nothing \notin Owed
    BY NothingAssumption DEF SystemErrors, Owed, Reasons
  <2> QED BY <1>1, <1>6, <2>1, Zenon DEF System, Refuse, Go
<1>7. error' = error \/ error' \in Reasons
  BY SystemTurns, MediumTurns, SaveTurns, Stopped DEF On
<1> QED BY <1>2, <1>3, <1>4, <1>5, <1>6, <1>7

LEMMA CauseOfSubs ==
    ASSUME ReadInv, SubsInv, PlacesInv, SubCartridge \/ SubSlot
    PROVE  RefusedForCause'
<1>1. error = Nothing /\ Nothing \notin Owed
  BY NothingAssumption DEF SubCartridge, SubSlot, ReadInv, Owed, Reasons
<1>2. CASE error' = error
  BY <1>1, <1>2, GoingOnIsNoCause
<1>3. CASE error' \notin Owed
  BY <1>3, OtherCause
<1>4. CASE SubCartridge /\ error' \in Owed
  <2>1. MediumErrors("error.second_cart") \intersect Owed = {}
    BY DEF MediumErrors, Owed
  <2>2. /\ step = "subs" /\ todo # <<>> /\ Offered(Head(todo)) = {} /\ error' = "error.no_slot"
        /\ project' = project /\ config' = config
    BY <1>1, <1>4, <2>1 DEF SubCartridge, Refuse, Go
  <2>3. Placings({s.port : s \in Range(spec.subSlots)}) = {}
    BY <2>2, NoSlotForCause
  <2>4. (Placings({s.port : s \in Range(spec.subSlots)}) = {})'
    <3>1. spec' = spec
      BY <2>2, SameMachine
    <3>2. Further' = Further
      BY <2>2, Zenon DEF Further
    <3>3. ASSUME NEW W PROVE Placings(W)' = Placings(W)
      BY <3>1, <3>2, Zenon DEF Placings
    <3> QED BY <2>3, <3>1, <3>3
  <2> QED BY <2>2, <2>4 DEF RefusedForCause
<1>5. CASE SubSlot /\ error' \in Owed
  <2>1. /\ step = "subslots" /\ todo # <<>> /\ Head(todo).port \notin CartridgePorts
        /\ error' = "error.cartridge_no_slot" /\ project' = project /\ config' = config
    BY <1>1, <1>5 DEF SubSlot, Refuse, Go
  <2>2. ~Has(project.rom) \/ Placings(project.rom.slots) = {}
    BY <2>1, CartridgeSlotForCause
  <2>3. (~Has(project.rom) \/ Placings(project.rom.slots) = {})'
    <3>1. spec' = spec
      BY <2>1, SameMachine
    <3>2. Further' = Further
      BY <2>1, Zenon DEF Further
    <3>3. ASSUME NEW W PROVE Placings(W)' = Placings(W)
      BY <3>1, <3>2, Zenon DEF Placings
    <3> QED BY <2>1, <2>2, <3>3
  <2> QED BY <2>1, <2>3 DEF RefusedForCause
<1> QED BY <1>2, <1>3, <1>4, <1>5

LEMMA CauseOfPorts ==
    ASSUME ReadInv, PortsInv, KeyboardPort \/ DevicePort
    PROVE  RefusedForCause'
<1>1. step = "ports" /\ error = Nothing
  BY DEF KeyboardPort, DevicePort, ReadInv
<1>2. CASE error' = error
  BY <1>1, <1>2, GoingOnIsNoCause
<1>3. CASE Stops
  <2>1. config' = config /\ project' = project
    BY <1>3, Stopped DEF Settled
  <2>2. \/ error' = "error.no_keyboard" /\ KeyboardMissing
        \/ error' = "error.no_device" /\ DeviceMissing
        \/ error' = "error.no_accessory_slot" /\ SlotMissing
        \/ error' = error
    BY KeyboardPortTurns, DevicePortTurns, NoKeyboardForCause, NoDeviceForCause, NoSlotOfADeviceForCause DEF On
  <2>3. \/ error' = "error.no_keyboard" /\ KeyboardMissing'
        \/ error' = "error.no_device" /\ DeviceMissing'
        \/ error' = "error.no_accessory_slot" /\ SlotMissing'
        \/ error' = error
    BY <2>1, <2>2, SameMissing
  <2> QED BY <1>2, <2>3 DEF RefusedForCause
<1> QED BY <1>2, <1>3, KeyboardPortTurns, DevicePortTurns DEF On

LEMMA CauseKeeps == BuildInv /\ RefusedForCause /\ [Next]_vars => RefusedForCause'
<1> SUFFICES ASSUME ReadInv, SubsInv, PlacesInv, PortsInv, RefusedForCause, [Next]_vars PROVE RefusedForCause'
  BY DEF BuildInv
<1>1. CASE UNCHANGED vars
  BY <1>1, SameCause DEF vars
<1>2. CASE ReadByCore \/ ReadByRunner \/ SuggestSettings
  BY <1>2, CauseOfReading
<1>3. CASE System \/ Medium \/ Save
  BY <1>3, CauseOfMedia
<1>4. CASE SubCartridge \/ SubSlot
  BY <1>4, CauseOfSubs
<1>5. CASE KeyboardPort \/ DevicePort
  BY <1>5, CauseOfPorts
<1>6. CASE LoadRoot \/ Power
  <2>1. \/ error' = error /\ step \notin {"refused", "ended"}
        \/ error' \in {"error.not_built", "error.n64_needs_vulkan"}
    BY <1>6 DEF LoadRoot, Power, Refuse, Go
  <2> QED BY <2>1, GoingOnIsNoCause, OtherCause DEF ReadInv, Owed
<1>7. CASE MediaPort \/ MediaDone \/ SubSlotsDone \/ PortsDone
  <2>1. error' = error /\ step \notin {"refused", "ended"}
    BY <1>7, MediaPortTurns, MediaDoneTurns, SubSlotsDoneTurns, PortsDoneTurns DEF On
  <2> QED BY <2>1, GoingOnIsNoCause DEF ReadInv
<1>8. CASE Shutdown \/ Unload \/ \E what \in held \union {m \in {"machine"} : standing} : Exit(what)
  BY <1>8, EndTurns, SameCause DEF Settled
<1> QED BY <1>1, <1>2, <1>3, <1>4, <1>5, <1>6, <1>7, <1>8 DEF Next

LEMMA CauseBegins == Init => RefusedForCause
<1>1. Nothing \notin Owed
  BY NothingAssumption DEF Owed, Reasons
<1> QED BY <1>1 DEF Init, Owed, RefusedForCause

\* Whatever the projects, the ports and the devices there are, a machine is
\* refused only for what cannot be had: no further cartridge goes without a slot
\* that another way of giving them out would have left it, and no device is
\* missed but one the project names and the port does not have, or ares cannot make.
THEOREM AlwaysRefusedForCause == Spec => []RefusedForCause
BY BuildBegins, BuildKeeps, CauseBegins, CauseKeeps, PTL DEF Spec
=============================================================================
