--------------------------- MODULE VulkanRdp_proofs ---------------------------
(* That the kept state is the whole processor, for every game, every sequence  *)
(* of states taken and put back, and every processor whatever it paints.       *)
EXTENDS VulkanRdp, TLAPS

LEMMA Assumptions ==
    /\ Unset \notin Values
    /\ None \notin Memory
    /\ Blank \in Memory
    /\ NoisePeriod \in Nat \ {0}
    /\ None \notin Units
    /\ Bridge \in BOOLEAN
    /\ CutsAtFrameEnd \in BOOLEAN
    /\ Makes \subseteq BOOLEAN
    /\ MaxWork \in Nat
    /\ Dead \notin Processors
    /\ None \notin Implementations
    /\ None \notin Slots
    /\ Empty \notin Snapshots
    /\ Empty \notin [rdp : Processors \union {Dead}, part : Draws \union {None}, ram : Memory]
  BY UnsetAssumption, NoneAssumption, BlankAssumption, NoiseAssumption,
     CommandAssumption, BridgeAssumption, CutsAssumption, MakesAssumption,
     WorkAssumption, MarkAssumption

\* Rebuilding gives a processor exactly what was kept: what was never sent is
\* unset in a new processor too.
LEMMA RestoredIsKept ==
    ASSUME NEW k \in Kepts
    PROVE  /\ Restored(k) \in Processors
           /\ Restored(k).state = k.state
           /\ Restored(k).tile = k.tile
           /\ Restored(k).size = k.size
           /\ Restored(k).vi = k.vi
           /\ Restored(k).pending = None
  <1>1. Resent(k.state, FreshProcessor.state) = k.state
    BY DEF Resent, FreshProcessor, Kepts
  <1>2. Resent(k.tile, FreshProcessor.tile) = k.tile
    BY DEF Resent, FreshProcessor, Kepts
  <1>3. Resent(k.size, FreshProcessor.size) = k.size
    BY DEF Resent, FreshProcessor, Kepts
  <1>4. Resent(k.vi, FreshProcessor.vi) = k.vi
    BY DEF Resent, FreshProcessor, Kepts
  <1>5. 0 \in Noise
    BY Assumptions DEF Noise
  <1>6. QED
    BY <1>1, <1>2, <1>3, <1>4, <1>5, Assumptions DEF Restored, Kepts, Processors

LEMMA FreshIsProcessor == FreshProcessor \in Processors
  BY Assumptions DEF FreshProcessor, Processors, Noise

LEMMA ViewInMemory ==
    ASSUME NEW p \in Processors, NEW m \in Memory
    PROVE  View(p, m) \in Memory
  BY DEF View, Processors

LEMMA LandedIsProcessor ==
    ASSUME NEW p \in Processors
    PROVE  /\ Landed(p) \in Processors
           /\ Landed(p).pending = None
           /\ Landed(p).state = p.state
           /\ Landed(p).tile = p.tile
           /\ Landed(p).size = p.size
           /\ Landed(p).vi = p.vi
           /\ p.pending = None => Landed(p) = p
  BY DEF Landed, Processors

LEMMA ScannedIsProcessor ==
    ASSUME NEW p \in Processors, NEW m \in Memory
    PROVE  /\ Scanned(p, m) \in Processors
           /\ Scanned(p, m).state = p.state
           /\ Scanned(p, m).tile = p.tile
           /\ Scanned(p, m).size = p.size
           /\ Scanned(p, m).vi = p.vi
  <1>1. Woven(p, View(p, m)) \in Memory
    BY ViewInMemory, WovenAssumption
  <1>2. QED
    BY <1>1 DEF Scanned, Processors

LEMMA DrawIsProcessor ==
    ASSUME NEW p \in Processors, NEW m \in Memory, NEW u \in Units
    PROVE  /\ Draw(p, m, u) \in Processors
           /\ Draw(p, m, u).state = p.state
           /\ Draw(p, m, u).tile = p.tile
           /\ Draw(p, m, u).size = p.size
           /\ Draw(p, m, u).vi = p.vi
  <1>1. /\ Painted(p, View(p, m), u) \in Memory
        /\ Ninth(p, View(p, m), u) \in Memory
    BY ViewInMemory, PaintAssumption
  <1>2. (p.noise + 1) % NoisePeriod \in Noise
    BY Assumptions DEF Processors, Noise
  <1>3. QED
    BY <1>1, <1>2 DEF Draw, Processors

\* What is kept follows what the processor obeys, a unit at a time.
LEMMA FedIsKept ==
    ASSUME NEW p \in Processors, NEW k \in Kepts, NEW m \in Memory, NEW u \in Units,
           NEW part \in Draws \union {None},
           k.state = p.state, k.tile = p.tile, k.size = p.size, k.vi = p.vi
    PROVE  /\ Fed(p, part, m, u) \in Processors
           /\ Keep(k, part, u) \in Kepts
           /\ Keep(k, part, u).state = Fed(p, part, m, u).state
           /\ Keep(k, part, u).tile = Fed(p, part, m, u).tile
           /\ Keep(k, part, u).size = Fed(p, part, m, u).size
           /\ Keep(k, part, u).vi = Fed(p, part, m, u).vi
  <1>1. CASE part # None
    BY <1>1, DrawIsProcessor DEF Fed, Keep
  <1>2. CASE part = None /\ u.op = "draw"
    BY <1>2 DEF Fed, Keep
  <1>3. CASE part = None /\ u.op = "state"
    <2>1. u.at \in Codes /\ u.val \in Values
      BY <1>3 DEF Units
    <2>2. QED
      BY <1>3, <2>1 DEF Fed, Keep, Obey, Processors, Kepts
  <1>4. CASE part = None /\ u.op = "tile"
    <2>1. u.at \in Tiles /\ u.val \in Values
      BY <1>4 DEF Units
    <2>2. QED
      BY <1>4, <2>1 DEF Fed, Keep, Obey, Processors, Kepts
  <1>5. CASE part = None /\ u.op = "size"
    <2>1. u.at \in Tiles /\ u.val \in Values
      BY <1>5 DEF Units
    <2>2. QED
      BY <1>5, <2>1 DEF Fed, Keep, Obey, Processors, Kepts
  <1>6. CASE part = None /\ u.op = "load"
    <2>1. u.at \in Tiles /\ u.val \in Values
      BY <1>6 DEF Units
    <2>2. Fetched(p, View(p, m), u) \in Memory
      BY ViewInMemory, PaintAssumption
    <2>3. QED
      BY <1>6, <2>1, <2>2 DEF Fed, Keep, Obey, Processors, Kepts
  <1>7. CASE part = None /\ u.op = "sync"
    BY <1>7, LandedIsProcessor DEF Fed, Keep, Obey
  <1>8. u.op \in {"state", "tile", "size", "load", "draw", "sync"}
    BY DEF Units
  <1>9. QED
    BY <1>1, <1>2, <1>3, <1>4, <1>5, <1>6, <1>7, <1>8

-----------------------------------------------------------------------------
(* The inductive invariant *)

SameRegisters(k, p) ==
    k.state = p.state /\ k.tile = p.tile /\ k.size = p.size /\ k.vi = p.vi

\* A processor in use holds every command and register as kept.
KeptIsSent == impl # None /\ ~NeedsRebuild => SameRegisters(kept, device)

\* Only a processor in use, within a frame, has painted what RDRAM does not have.
Landing == ~running \/ impl = None \/ NeedsRebuild => device.pending = None

\* Context ids only grow, so a load never meets an object of the context it makes.
ContextsGrow ==
    /\ context <= work
    /\ impl # None => impl.context <= context /\ (~Bridge => impl.context = context)
    /\ \A s \in Slots : states[s] # Empty /\ states[s].impl # None
                        => states[s].impl.context <= context

\* Natively a processor that could not be made is never tried again.
DeathIsForGood ==
    ~Bridge => \A s \in Slots : states[s] # Empty /\ states[s].impl = None => impl = None

\* Where lists end whole by a frame's end, no state is taken within a command.
NoCut ==
    ~CutsAtFrameEnd =>
        /\ ~running => Part = None
        /\ \A s \in Slots : states[s] # Empty /\ states[s].impl # None
                            => states[s].impl.part = None

Inv == TypeOK /\ KeptIsSent /\ Landing /\ ContextsGrow /\ DeathIsForGood /\ NoCut
       /\ NothingGoneIsNamed

LEMMA InitInv == Init => Inv
  <1> SUFFICES ASSUME Init PROVE Inv
    OBVIOUS
  <1> USE Assumptions
  <1>1. impl \in Implementations
    BY DEF Init, Implementations, Contexts
  <1>2. TypeOK
    <2>1. kept \in Kepts
      BY DEF Init, NothingKept, Kepts, Noise
    <2>2. 0 \in 0 .. MaxWork /\ context \in Contexts
      BY DEF Init, Contexts
    <2>3. states \in [Slots -> Snapshots \union {Empty}]
      BY DEF Init
    <2>4. QED
      BY <1>1, <2>1, <2>2, <2>3, FreshIsProcessor DEF Init, TypeOK
  <1>3. KeptIsSent
    BY DEF Init, KeptIsSent, SameRegisters, NothingKept, FreshProcessor
  <1>4. Landing
    BY DEF Init, Landing, FreshProcessor
  <1>5. ContextsGrow /\ DeathIsForGood /\ NoCut /\ NothingGoneIsNamed
    BY <1>1 DEF Init, ContextsGrow, DeathIsForGood, NoCut, NothingGoneIsNamed, Part
  <1>6. QED
    BY <1>2, <1>3, <1>4, <1>5 DEF Inv

\* What checkContext leaves, v, when k is kept by then: a processor in use is in
\* the host's context and holds what is kept; it is the old one or one restored.
InUse(k, v) ==
    /\ v.enable \in BOOLEAN
    /\ v.kept \in Kepts
    /\ v.impl \in Implementations \union {None}
    /\ v.device \in Processors
    /\ Uses(v) \subseteq {context}
    /\ v.kept.state = k.state /\ v.kept.tile = k.tile
    /\ v.kept.size = k.size /\ v.kept.vi = k.vi
    /\ v.impl = None => v.device.pending = None
    /\ v.impl # None =>
         /\ impl # None
         /\ v.impl.context = context
         /\ v.impl.part = impl.part
         /\ ~v.kept.restorePending
    /\ impl = None => v.impl = None
    /\ ~NeedsRebuild => v.kept = k /\ v.device = device /\ v.impl = impl
    /\ NeedsRebuild => v.kept = [k EXCEPT !.restorePending = FALSE]
    /\ NeedsRebuild /\ v.impl # None => v.device = Restored(k)

LEMMA CheckedIsInUse ==
    ASSUME Inv, NEW k \in Kepts, NEW made \in Makes, k.restorePending = kept.restorePending
    PROVE  InUse(k, Checked(k, made))
  <1> DEFINE v == Checked(k, made)
  <1> USE Assumptions
  <1>1. CASE ~NeedsRebuild
    <2>1. /\ v.kept = k /\ v.impl = impl /\ v.device = device /\ v.enable = enable
          /\ v.crossed = {}
      BY <1>1 DEF Checked
    <2>2. v.impl # None => impl.context = context /\ ~v.kept.restorePending
      BY <1>1, <2>1 DEF NeedsRebuild, Stale, Inv, ContextsGrow
    <2>3. Uses(v) \subseteq {context}
      BY <2>1, <2>2 DEF Uses
    <2>4. v.impl = None => v.device.pending = None
      BY <2>1 DEF Inv, Landing
    <2>5. QED
      BY <1>1, <2>1, <2>2, <2>3, <2>4 DEF Inv, TypeOK, InUse
  <1>2. CASE NeedsRebuild
    <2>1. impl # None /\ impl \in Implementations
      BY <1>2 DEF NeedsRebuild, Inv, TypeOK
    <2>2. /\ v.enable = made
          /\ v.kept = [k EXCEPT !.restorePending = FALSE]
          /\ v.impl = IF made THEN [impl EXCEPT !.context = context] ELSE None
          /\ v.device = IF made THEN Restored(k) ELSE FreshProcessor
          /\ v.crossed = LetGo \union {context}
      BY <1>2 DEF Checked
    <2>3. v.kept \in Kepts /\ ~v.kept.restorePending
      BY <2>2 DEF Kepts
    <2>4. [impl EXCEPT !.context = context] \in Implementations
      BY <2>1 DEF Implementations, Inv, TypeOK
    <2>5. LetGo \subseteq {context}
      BY <2>1 DEF LetGo, Inv, ContextsGrow
    <2>6. v.impl # None => v.impl.context = context /\ v.impl.part = impl.part
      BY <2>1, <2>2 DEF Implementations
    <2>7. Uses(v) \subseteq {context}
      BY <2>2, <2>5, <2>6 DEF Uses
    <2>8. v.device \in Processors /\ v.device.pending = None
      BY <2>2, RestoredIsKept, FreshIsProcessor DEF FreshProcessor
    <2>9. v.impl \in Implementations \union {None} /\ v.enable \in BOOLEAN
      BY <2>2, <2>4
    <2>10. /\ v.kept.state = k.state /\ v.kept.tile = k.tile
           /\ v.kept.size = k.size /\ v.kept.vi = k.vi
      BY <2>2 DEF Kepts
    <2>11. NeedsRebuild /\ v.impl # None => v.device = Restored(k)
      BY <2>2
    <2>12. QED
      BY <1>2, <2>1, <2>2, <2>3, <2>6, <2>7, <2>8, <2>9, <2>10, <2>11 DEF InUse
  <1>3. QED
    BY <1>1, <1>2

LEMMA CheckedIsSent ==
    ASSUME Inv, NEW made \in Makes, Checked(kept, made).impl # None
    PROVE  SameRegisters(Checked(kept, made).kept, Checked(kept, made).device)
  <1> DEFINE v == Checked(kept, made)
  <1>1. kept \in Kepts
    BY DEF Inv, TypeOK
  <1>2. InUse(kept, v)
    BY <1>1, CheckedIsInUse
  <1>3. CASE NeedsRebuild
    <2>1. v.device = Restored(kept)
      BY <1>2, <1>3 DEF InUse
    <2>2. SameRegisters(kept, v.device)
      BY <1>1, <2>1, RestoredIsKept DEF SameRegisters
    <2>3. QED
      BY <1>2, <2>2 DEF SameRegisters, InUse
  <1>4. CASE ~NeedsRebuild
    BY <1>2, <1>4 DEF InUse, KeptIsSent, Inv
  <1>5. QED
    BY <1>3, <1>4

\* The parts of the invariant that hold after any step that leaves the states and
\* the host's context alone and has a checked processor, in use if there is one.
LEMMA UsedInv ==
    ASSUME Inv, NEW k \in Kepts, NEW made \in Makes, k.restorePending = kept.restorePending,
           UNCHANGED <<context, states>>, work' \in 0 .. MaxWork, work <= work',
           fresh' \in Slots \union {None},
           running' \in BOOLEAN, ram' \in Memory,
           enable' = Checked(k, made).enable,
           impl' \in Implementations \union {None},
           impl' = None <=> Checked(k, made).impl = None,
           impl' # None => impl'.context = Checked(k, made).impl.context
                           /\ kept'.restorePending = Checked(k, made).kept.restorePending
                           /\ SameRegisters(kept', device'),
           kept' \in Kepts, device' \in Processors,
           running' => running,
           ~running' \/ impl' = None => device'.pending = None,
           ~CutsAtFrameEnd /\ ~running' => Part' = None,
           crossed' = Uses(Checked(k, made))
    PROVE  Inv'
  <1> DEFINE v == Checked(k, made)
  <1> USE Assumptions
  <1>1. /\ v.enable \in BOOLEAN
        /\ Uses(v) \subseteq {context}
        /\ v.impl # None => impl # None /\ v.impl.context = context /\ ~v.kept.restorePending
        /\ impl = None => v.impl = None
    <2>1. InUse(k, v)
      BY CheckedIsInUse
    <2>2. QED
      BY <2>1 DEF InUse
  <1>2. impl' # None => impl'.context = context /\ ~kept'.restorePending
    BY <1>1
  <1>3. ~NeedsRebuild'
    BY <1>2 DEF NeedsRebuild, Stale
  <1>4. context \in Contexts /\ context <= work /\ work \in 0 .. MaxWork
    BY DEF Inv, TypeOK, ContextsGrow
  <1>5. TypeOK'
    BY <1>1, <1>4 DEF Inv, TypeOK
  <1>6. KeptIsSent'
    BY <1>3 DEF KeptIsSent
  <1>7. Landing'
    BY <1>3 DEF Landing
  <1>8. ContextsGrow'
    <2>1. context' <= work'
      BY <1>4 DEF Contexts
    <2>2. impl' # None => impl'.context <= context /\ impl'.context = context
      BY <1>2, <1>4 DEF Contexts
    <2>3. QED
      BY <2>1, <2>2 DEF ContextsGrow, Inv
  <1>9. DeathIsForGood'
    BY <1>1 DEF DeathIsForGood, Inv
  <1>10. NoCut'
    BY DEF NoCut, Inv
  <1>11. NothingGoneIsNamed'
    BY <1>1 DEF NothingGoneIsNamed
  <1>12. QED
    BY <1>5, <1>6, <1>7, <1>8, <1>9, <1>10, <1>11 DEF Inv

LEMMA RenderInv ==
    ASSUME Inv, NEW u \in Units, Render(u)
    PROVE  Inv'
  <1> USE Assumptions
  <1>1. PICK made \in Makes :
          LET v == Checked(kept, made) IN
          /\ enable' = v.enable
          /\ crossed' = Uses(v)
          /\ IF v.impl = None
             THEN kept' = v.kept /\ impl' = None /\ device' = v.device /\ ram' = ram
             ELSE /\ kept' = Keep(v.kept, v.impl.part, u)
                  /\ impl' = [v.impl EXCEPT !.part = PartAfter(@, u)]
                  /\ device' = Fed(v.device, v.impl.part, ram, u)
                  /\ ram' = RamAfter(v.device, v.impl.part, ram, u)
    BY DEF Render
  <1> DEFINE v == Checked(kept, made)
  <1>2. kept \in Kepts /\ ram \in Memory
    BY DEF Inv, TypeOK
  <1>3. InUse(kept, v)
    BY <1>2, CheckedIsInUse
  <1>4. /\ UNCHANGED <<context, states, running>> /\ running /\ fresh' = None
        /\ work' \in 0 .. MaxWork /\ work <= work'
    BY DEF Render, Working, Inv, TypeOK
  <1>5. CASE v.impl = None
    BY <1>1, <1>2, <1>3, <1>4, <1>5, UsedInv DEF InUse, Inv, TypeOK
  <1>6. CASE v.impl # None
    <2>1. /\ v.impl \in Implementations /\ v.kept \in Kepts /\ v.device \in Processors
          /\ v.impl.part \in Draws \union {None}
      BY <1>3, <1>6 DEF InUse, Implementations
    <2>2. SameRegisters(v.kept, v.device)
      BY <1>6, CheckedIsSent
    <2>3. device' \in Processors /\ kept' \in Kepts /\ SameRegisters(kept', device')
      BY <1>1, <1>2, <1>6, <2>1, <2>2, FedIsKept DEF SameRegisters
    <2>4. PartAfter(v.impl.part, u) \in Draws \union {None}
      BY DEF PartAfter, Units, Draws
    <2>5. impl' = [v.impl EXCEPT !.part = PartAfter(v.impl.part, u)]
      BY <1>1, <1>6
    <2>6. impl' \in Implementations /\ impl'.context = v.impl.context
      BY <2>1, <2>4, <2>5 DEF Implementations
    <2>7. ram' \in Memory
      BY <1>1, <1>2, <1>6, <2>1, ViewInMemory DEF RamAfter
    <2>8. kept'.restorePending = v.kept.restorePending
      BY <1>1, <1>6, <2>1 DEF Keep, Kepts
    <2>9. QED
      BY <1>1, <1>2, <1>4, <1>6, <2>3, <2>6, <2>7, <2>8, UsedInv
  <1>7. QED
    BY <1>5, <1>6

LEMMA WriteWordInv ==
    ASSUME Inv, NEW r \in VIRegs, NEW x \in Values, WriteWord(r, x)
    PROVE  Inv'
  <1> USE Assumptions
  <1> DEFINE k == [kept EXCEPT !.vi[r] = x]
  <1>1. PICK made \in Makes :
          LET v == Checked(k, made) IN
          /\ enable' = v.enable /\ kept' = v.kept /\ impl' = v.impl
          /\ crossed' = Uses(v)
          /\ device' = IF v.impl = None THEN v.device ELSE [v.device EXCEPT !.vi[r] = x]
    BY DEF WriteWord
  <1> DEFINE v == Checked(k, made)
  <1>2. /\ kept \in Kepts /\ k \in Kepts /\ k.restorePending = kept.restorePending
        /\ k.state = kept.state /\ k.tile = kept.tile /\ k.size = kept.size
        /\ k.vi = [kept.vi EXCEPT ![r] = x]
    BY DEF Inv, TypeOK, Kepts
  <1>3. InUse(k, v)
    BY <1>2, CheckedIsInUse
  <1>4. /\ UNCHANGED <<context, states, running, ram>> /\ running /\ fresh' = None
        /\ work' \in 0 .. MaxWork /\ work <= work'
    BY DEF WriteWord, Working, Inv, TypeOK
  <1>5. CASE v.impl = None
    BY <1>1, <1>2, <1>3, <1>4, <1>5, UsedInv DEF InUse, Inv, TypeOK
  <1>6. CASE v.impl # None
    <2>1. device' \in Processors /\ device'.state = v.device.state
          /\ device'.tile = v.device.tile /\ device'.size = v.device.size
          /\ device'.vi = [v.device.vi EXCEPT ![r] = x]
      BY <1>1, <1>3, <1>6 DEF InUse, Processors
    <2>2. SameRegisters(k, device')
      <3>1. CASE NeedsRebuild
        <4>1. v.device = Restored(k)
          BY <1>3, <1>6, <3>1 DEF InUse
        <4>2. SameRegisters(k, v.device)
          BY <1>2, <4>1, RestoredIsKept DEF SameRegisters
        <4>3. [k.vi EXCEPT ![r] = x] = k.vi
          BY <1>2 DEF Kepts
        <4>4. QED
          BY <2>1, <4>2, <4>3 DEF SameRegisters
      <3>2. CASE ~NeedsRebuild
        BY <1>2, <1>3, <1>6, <2>1, <3>2 DEF InUse, KeptIsSent, SameRegisters, Inv
      <3>3. QED
        BY <3>1, <3>2
    <2>3. SameRegisters(kept', device')
      BY <1>1, <1>3, <2>2 DEF InUse, SameRegisters
    <2>4. /\ kept' \in Kepts /\ impl' \in Implementations \union {None}
          /\ ram' \in Memory /\ impl' = v.impl /\ kept' = v.kept
      BY <1>1, <1>3, <1>4 DEF InUse, Inv, TypeOK
    <2>5. QED
      BY <1>1, <1>2, <1>4, <1>6, <2>1, <2>3, <2>4, UsedInv
  <1>7. QED
    BY <1>5, <1>6

\* scanoutAsync, frame and idle: whatever processor was checked, unchanged in its
\* registers.
LEMMA PlainUseInv ==
    ASSUME Inv, NEW made \in Makes, UNCHANGED <<context, states>>,
           work' \in 0 .. MaxWork, work <= work', fresh' = None,
           running' \in BOOLEAN, running' => running, ram' \in Memory,
           enable' = Checked(kept, made).enable, kept' = Checked(kept, made).kept,
           impl' = Checked(kept, made).impl, crossed' = Uses(Checked(kept, made)),
           device' \in Processors,
           device'.state = Checked(kept, made).device.state,
           device'.tile = Checked(kept, made).device.tile,
           device'.size = Checked(kept, made).device.size,
           device'.vi = Checked(kept, made).device.vi,
           ~running' \/ Checked(kept, made).impl = None => device'.pending = None,
           ~CutsAtFrameEnd /\ ~running' => Part' = None
    PROVE  Inv'
  <1> DEFINE v == Checked(kept, made)
  <1>1. kept \in Kepts
    BY DEF Inv, TypeOK
  <1>2. InUse(kept, v)
    BY <1>1, CheckedIsInUse
  <1>3. v.impl # None => SameRegisters(kept', device')
    BY CheckedIsSent DEF SameRegisters
  <1>4. kept' \in Kepts /\ impl' \in Implementations \union {None}
    BY <1>2 DEF InUse
  <1>5. QED
    BY <1>1, <1>3, <1>4, UsedInv

LEMMA ScanoutInv == Inv /\ ScanoutAsync => Inv'
  <1> SUFFICES ASSUME Inv, ScanoutAsync PROVE Inv'
    OBVIOUS
  <1>1. PICK made \in Makes :
          LET v == Checked(kept, made) IN
          /\ enable' = v.enable /\ kept' = v.kept /\ impl' = v.impl
          /\ crossed' = Uses(v)
          /\ device' = IF v.impl = None THEN v.device ELSE Scanned(v.device, ram)
    BY DEF ScanoutAsync
  <1> DEFINE v == Checked(kept, made)
  <1>2. /\ UNCHANGED <<context, states, running, ram>> /\ running /\ fresh' = None
        /\ work' \in 0 .. MaxWork /\ work <= work' /\ ram \in Memory /\ kept \in Kepts
    BY Assumptions DEF ScanoutAsync, Working, Inv, TypeOK
  <1>3. InUse(kept, v)
    BY <1>2, CheckedIsInUse
  <1>4. /\ device' \in Processors /\ device'.state = v.device.state
        /\ device'.tile = v.device.tile /\ device'.size = v.device.size
        /\ device'.vi = v.device.vi
    BY <1>1, <1>2, <1>3, ScannedIsProcessor DEF InUse
  <1>5. v.impl = None => device'.pending = None
    BY <1>1, <1>3 DEF InUse
  <1>6. QED
    BY <1>1, <1>2, <1>4, <1>5, PlainUseInv

LEMMA FrameInv == Inv /\ Frame => Inv'
  <1> SUFFICES ASSUME Inv, Frame PROVE Inv'
    OBVIOUS
  <1>1. PICK made \in Makes :
          LET v == Checked(kept, made) IN
          /\ enable' = v.enable /\ kept' = v.kept /\ impl' = v.impl
          /\ crossed' = Uses(v)
          /\ device' = v.device
    BY DEF Frame
  <1> DEFINE v == Checked(kept, made)
  <1>2. /\ UNCHANGED <<context, states, running, ram>> /\ running /\ fresh' = None
        /\ work' \in 0 .. MaxWork /\ work <= work' /\ ram \in Memory /\ kept \in Kepts
    BY Assumptions DEF Frame, Working, Inv, TypeOK
  <1>3. InUse(kept, v)
    BY <1>2, CheckedIsInUse
  <1>4. device' \in Processors /\ (v.impl = None => device'.pending = None)
    BY <1>1, <1>3 DEF InUse
  <1>5. QED
    BY <1>1, <1>2, <1>4, PlainUseInv

LEMMA IdleInv == Inv /\ Idle => Inv'
  <1> SUFFICES ASSUME Inv, Idle PROVE Inv'
    OBVIOUS
  <1>1. PICK made \in Makes :
          LET v == Checked(kept, made) IN
          /\ enable' = v.enable /\ kept' = v.kept /\ impl' = v.impl
          /\ crossed' = Uses(v)
          /\ IF v.impl = None
             THEN device' = v.device /\ ram' = ram
             ELSE device' = Landed(v.device) /\ ram' = View(v.device, ram)
    BY DEF Idle
  <1> DEFINE v == Checked(kept, made)
  <1>2. /\ UNCHANGED <<context, states, work>> /\ running /\ ~running' /\ running' \in BOOLEAN
        /\ fresh' = None /\ work' \in 0 .. MaxWork /\ work <= work'
        /\ ram \in Memory /\ kept \in Kepts
    <2>1. work \in 0 .. MaxWork /\ work' = work
      BY DEF Idle, Inv, TypeOK
    <2>2. work' \in 0 .. MaxWork /\ work <= work'
      BY <2>1, Assumptions
    <2>3. QED
      BY <2>2 DEF Idle, Inv, TypeOK
  <1>3. InUse(kept, v)
    BY <1>2, CheckedIsInUse
  <1>4. /\ device' \in Processors /\ device'.state = v.device.state
        /\ device'.tile = v.device.tile /\ device'.size = v.device.size
        /\ device'.vi = v.device.vi /\ device'.pending = None
    BY <1>1, <1>3, LandedIsProcessor DEF InUse
  <1>5. ram' \in Memory
    BY <1>1, <1>2, <1>3, ViewInMemory DEF InUse
  <1>6. ~CutsAtFrameEnd => Part' = None
    BY <1>1, <1>3 DEF Idle, Part, InUse
  <1>7. QED
    BY <1>1, <1>2, <1>4, <1>5, <1>6, PlainUseInv

\* The steps that leave the Vulkan object itself alone.
LEMMA OutsideInv ==
    ASSUME Inv, StartFrame \/ (\E m \in Memory : CpuWrite(m)) \/ CopyOut
    PROVE  Inv'
  <1> USE Assumptions
  <1>1. UNCHANGED <<kept, impl, context, states, enable>> /\ running'
    BY DEF StartFrame, CpuWrite, CopyOut, Working
  <1>2. /\ work' \in 0 .. MaxWork /\ work <= work' /\ fresh' \in Slots \union {None}
        /\ ram' \in Memory /\ running' \in BOOLEAN
    <2>1. work \in 0 .. MaxWork /\ ram \in Memory /\ fresh \in Slots \union {None}
          /\ running \in BOOLEAN /\ device.pending \in Memory \union {None}
      BY DEF Inv, TypeOK, Processors
    <2>2. CASE StartFrame
      BY <2>1, <2>2 DEF StartFrame
    <2>3. CASE \E m \in Memory : CpuWrite(m)
      BY <2>1, <2>3 DEF CpuWrite, Working
    <2>4. CASE CopyOut
      BY <2>1, <2>4 DEF CopyOut
    <2>5. QED
      BY <2>2, <2>3, <2>4
  <1>3. /\ device' \in Processors
        /\ device' = device \/ (device' = Landed(device) /\ impl # None /\ ~NeedsRebuild)
    BY LandedIsProcessor DEF StartFrame, CpuWrite, CopyOut, Inv, TypeOK
  <1>4. crossed' \subseteq {context}
    BY DEF StartFrame, CpuWrite, CopyOut, NeedsRebuild, Stale, Inv, ContextsGrow
  <1>5. NeedsRebuild' = NeedsRebuild /\ Part' = Part
    BY <1>1 DEF NeedsRebuild, Stale, Part
  <1>6. /\ context \in Contexts /\ context <= work /\ work \in 0 .. MaxWork
        /\ context <= work'
    BY <1>2 DEF Inv, TypeOK, ContextsGrow, Contexts
  <1>7. TypeOK'
    BY <1>1, <1>2, <1>3, <1>4, <1>6 DEF Inv, TypeOK
  <1>8. KeptIsSent'
    BY <1>1, <1>3, <1>5, LandedIsProcessor DEF KeptIsSent, SameRegisters, Inv, TypeOK
  <1>9. Landing'
    <2>1. (~running' \/ impl' = None \/ NeedsRebuild')
            => device' = device /\ (impl = None \/ NeedsRebuild)
      BY <1>1, <1>3, <1>5
    <2>2. QED
      BY <2>1 DEF Landing, Inv
  <1>10. ContextsGrow'
    BY <1>1, <1>6 DEF ContextsGrow, Inv
  <1>11. DeathIsForGood' /\ NoCut'
    BY <1>1, <1>5 DEF DeathIsForGood, NoCut, Inv
  <1>12. NothingGoneIsNamed'
    BY <1>1, <1>4 DEF NothingGoneIsNamed
  <1>13. QED
    BY <1>7, <1>8, <1>9, <1>10, <1>11, <1>12 DEF Inv

LEMMA ReadBackIsKept ==
    ASSUME Inv
    PROVE  /\ ReadBack \in Kepts
           /\ ReadBack.restorePending = kept.restorePending
           /\ ReadBack.state = kept.state /\ ReadBack.tile = kept.tile
           /\ ReadBack.size = kept.size /\ ReadBack.vi = kept.vi
  BY DEF ReadBack, Inv, TypeOK, Kepts, Processors

\* A state taken between frames changes nothing but what is kept: everything is
\* in RDRAM already.
LEMMA SavingIsQuiet ==
    ASSUME Inv, StateSaving
    PROVE  UNCHANGED <<ram, device, enable, impl, context, running, work>>
  <1>1. ~running /\ device \in Processors /\ device.pending = None
    BY DEF StateSaving, Inv, Landing, TypeOK
  <1>2. Landed(device) = device /\ View(device, ram) = ram
    BY <1>1, LandedIsProcessor DEF View
  <1>3. QED
    BY <1>2 DEF StateSaving

\* The machine as it is set aside now.
Taken == [enable |-> enable, kept |-> ReadBack, impl |-> impl, ram |-> ram]

LEMMA SavingInv ==
    ASSUME Inv, StateSaving, UNCHANGED fresh,
           states' \in [Slots -> Snapshots \union {Empty}],
           \A s \in Slots : states'[s] = states[s] \/ states'[s] = Taken
    PROVE  Inv'
  <1> USE Assumptions
  <1>1. UNCHANGED <<ram, device, enable, impl, context, running, work>> /\ ~running
    BY SavingIsQuiet DEF StateSaving
  <1>2. kept' = ReadBack /\ kept'.restorePending = kept.restorePending
        /\ kept' \in Kepts /\ kept'.state = kept.state /\ kept'.tile = kept.tile
        /\ kept'.size = kept.size /\ kept'.vi = kept.vi
    BY ReadBackIsKept DEF StateSaving
  <1>3. NeedsRebuild' = NeedsRebuild /\ Part' = Part
    BY <1>1, <1>2 DEF NeedsRebuild, Stale, Part
  <1>4. crossed' \subseteq {context}
    BY DEF StateSaving, NothingToRead, NeedsRebuild, Stale, Inv, ContextsGrow
  <1>5. TypeOK'
    <2>1. context \in Contexts
      BY DEF Inv, TypeOK
    <2>2. QED
      BY <1>1, <1>2, <1>4, <2>1 DEF Inv, TypeOK
  <1>6. KeptIsSent'
    BY <1>1, <1>2, <1>3 DEF KeptIsSent, SameRegisters, Inv
  <1>7. Landing'
    BY <1>1, <1>3 DEF Landing, Inv
  <1>8. /\ Taken.impl = impl
        /\ impl # None => impl.context <= context
    BY DEF Taken, Inv, ContextsGrow
  <1>9. ContextsGrow'
    BY <1>1, <1>8 DEF ContextsGrow, Inv
  <1>10. DeathIsForGood'
    BY <1>1, <1>8 DEF DeathIsForGood, Inv
  <1>11. NoCut'
    BY <1>1, <1>3, <1>8 DEF NoCut, Part, Inv
  <1>12. NothingGoneIsNamed'
    BY <1>1, <1>4 DEF NothingGoneIsNamed
  <1>13. QED
    BY <1>5, <1>6, <1>7, <1>9, <1>10, <1>11, <1>12 DEF Inv

LEMMA SaveInv == Inv /\ (\E s \in Slots : Save(s)) => Inv'
  <1> SUFFICES ASSUME Inv, NEW s \in Slots, Save(s) PROVE Inv'
    OBVIOUS
  <1>1. UNCHANGED <<enable, impl, ram, fresh>> /\ kept' = ReadBack /\ StateSaving
    BY SavingIsQuiet DEF Save, StateSaving
  <1>2. states' = [states EXCEPT ![s] = Taken]
    BY <1>1 DEF Save, Taken
  <1>3. Taken \in Snapshots
    BY ReadBackIsKept DEF Taken, Snapshots, Inv, TypeOK
  <1>4. /\ states' \in [Slots -> Snapshots \union {Empty}]
        /\ \A t \in Slots : states'[t] = states[t] \/ states'[t] = Taken
    BY <1>2, <1>3 DEF Inv, TypeOK
  <1>5. QED
    BY <1>1, <1>4, SavingInv

LEMMA CaptureInv == Inv /\ CaptureState => Inv'
  BY SavingInv DEF CaptureState, Inv, TypeOK

LEMMA LoadInv == Inv /\ (\E s \in Slots : Load(s)) => Inv'
  <1> SUFFICES ASSUME Inv, NEW s \in Slots, Load(s) PROVE Inv'
    OBVIOUS
  <1> USE Assumptions
  <1> DEFINE snap == states[s]
  <1>1. snap \in Snapshots /\ snap.kept \in Kepts
        /\ snap.impl \in Implementations \union {None}
        /\ snap.ram \in Memory /\ snap.enable \in BOOLEAN
    BY DEF Load, Inv, TypeOK, Snapshots
  <1>2. /\ work' = work + 1 /\ work' \in 0 .. MaxWork /\ work \in 0 .. MaxWork
        /\ ~running /\ UNCHANGED <<running, states>>
        /\ fresh' = s /\ crossed' = {} /\ ram' = snap.ram
        /\ context <= work /\ context \in Contexts
    BY DEF Load, Inv, TypeOK, ContextsGrow
  <1>3. CASE Bridge
    <2>1. /\ kept' = snap.kept /\ enable' = snap.enable /\ impl' = snap.impl
          /\ context' = context + 1 /\ device' = FreshProcessor
      BY <1>3 DEF Load
    <2>2. context' \in Contexts /\ context' <= work'
      BY <1>2, <2>1 DEF Contexts
    <2>3. TypeOK'
      BY <1>1, <1>2, <2>1, <2>2, FreshIsProcessor DEF Inv, TypeOK
    <2>4. impl' # None => impl'.context <= context
      BY <1>2, <2>1 DEF Inv, ContextsGrow, Load
    <2>5. impl' # None => NeedsRebuild'
      BY <1>1, <1>2, <1>3, <2>1, <2>4
         DEF NeedsRebuild, Stale, Contexts, Implementations
    <2>6. KeptIsSent' /\ Landing'
      BY <2>1, <2>5 DEF KeptIsSent, Landing, FreshProcessor
    <2>7. ContextsGrow'
      <3>1. \A c \in Contexts : c <= context => c <= context'
        BY <1>2, <2>1 DEF Contexts
      <3>2. impl' # None => impl'.context <= context'
        BY <1>1, <2>1, <2>4, <3>1 DEF Implementations
      <3>3. ASSUME NEW t \in Slots, states[t] # Empty, states[t].impl # None
            PROVE  states[t].impl.context <= context'
        <4>1. states[t].impl \in Implementations /\ states[t].impl.context <= context
          BY <3>3 DEF Inv, TypeOK, Snapshots, ContextsGrow
        <4>2. QED
          BY <3>1, <4>1 DEF Implementations
      <3>4. QED
        BY <1>2, <1>3, <2>2, <3>2, <3>3 DEF ContextsGrow
    <2>8. DeathIsForGood'
      BY <1>3, <2>1 DEF DeathIsForGood
    <2>9. NoCut'
      BY <1>2, <2>1 DEF NoCut, Part, Inv, Load
    <2>10. NothingGoneIsNamed'
      BY <1>2 DEF NothingGoneIsNamed
    <2>11. QED
      BY <2>3, <2>6, <2>7, <2>8, <2>9, <2>10 DEF Inv
  <1>4. CASE ~Bridge
    <2>1. /\ kept' = [snap.kept EXCEPT !.restorePending = TRUE]
          /\ UNCHANGED <<enable, impl, context, device>>
      BY <1>4 DEF Load
    <2>2. kept' \in Kepts /\ kept'.restorePending
      BY <1>1, <2>1 DEF Kepts
    <2>3. TypeOK'
      BY <1>1, <1>2, <2>1, <2>2 DEF Inv, TypeOK
    <2>4. impl' # None => NeedsRebuild'
      BY <2>2 DEF NeedsRebuild
    <2>5. KeptIsSent' /\ Landing'
      BY <1>2, <2>1, <2>4 DEF KeptIsSent, Landing, Inv
    <2>6. context' <= work'
      BY <1>2, <2>1 DEF Contexts
    <2>7. ContextsGrow' /\ DeathIsForGood'
      BY <1>2, <2>1, <2>6 DEF ContextsGrow, DeathIsForGood, Inv
    <2>8. NoCut' /\ NothingGoneIsNamed'
      BY <1>2, <2>1 DEF NoCut, NothingGoneIsNamed, Part, Inv
    <2>9. QED
      BY <2>3, <2>5, <2>7, <2>8 DEF Inv
  <1>5. QED
    BY <1>3, <1>4

LEMMA NextInv == Inv /\ [Next]_vars => Inv'
  <1> SUFFICES ASSUME Inv, [Next]_vars PROVE Inv'
    OBVIOUS
  <1>1. CASE UNCHANGED vars
    BY <1>1 DEF vars, Inv, TypeOK, KeptIsSent, Landing, ContextsGrow, DeathIsForGood,
       NoCut, NothingGoneIsNamed, NeedsRebuild, Stale, Part, SameRegisters
  <1>2. CASE Next
    BY <1>2, RenderInv, WriteWordInv, ScanoutInv, FrameInv, IdleInv, OutsideInv,
       SaveInv, CaptureInv, LoadInv DEF Next
  <1>3. QED
    BY <1>1, <1>2

\* Every reachable state satisfies the invariant above.
THEOREM Invariance == Spec => []Inv
  <1>1. QED
    BY InitInv, NextInv, PTL DEF Spec

\* Every variable keeps its type: the kept state is never ill-formed.
THEOREM TypeCorrect == Spec => []TypeOK
  BY Invariance, PTL DEF Inv

\* No call ever names an object of a context a load has done away with.
THEOREM NeverNamesTheGone == Spec => []NothingGoneIsNamed
  BY Invariance, PTL DEF Inv
=============================================================================
