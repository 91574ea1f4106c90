------------------------------ MODULE VulkanRdp ------------------------------
(* ares' Vulkan object as the core patches it: the processor lives on a device *)
(* outside the machine, so the machine keeps a copy of everything it remembers *)
(* and makes it again after a load. In the sandbox (Bridge) a state is the     *)
(* whole arena and a load leaves the old device behind in another context;     *)
(* natively a state is ares' serializer's and the device outlives the load.    *)
EXTENDS Processor, FiniteSets

CONSTANTS
    Bridge,     \* built for the sandbox: CHIMERA_VK_BRIDGE
    Makes,      \* whether making a processor again may succeed, or fail, or both
    CutsAtFrameEnd, \* whether a game may end a frame within a command of a list
    Slots, Empty, Dead,
    MaxWork     \* bound: how much the game does, loads included

ASSUME BridgeAssumption == Bridge \in BOOLEAN
ASSUME MakesAssumption == Makes \subseteq BOOLEAN /\ Makes # {}
ASSUME CutsAssumption == CutsAtFrameEnd \in BOOLEAN
ASSUME WorkAssumption == MaxWork \in Nat

VARIABLES
    enable,     \* vulkan.enable
    kept,       \* vulkan.kept
    impl,       \* the Implementation object: its context and its command buffer
    device,     \* what that object stands for on the device
    context,    \* the host's current context
    crossed,    \* the contexts of the objects named to the host by the last step
    ram, running, states,
    fresh,      \* the slot loaded last, until something is done with the machine
    work

vars == <<enable, kept, impl, device, context, crossed, ram, running, states, fresh, work>>

Kepts ==
    [valid : BOOLEAN, restorePending : BOOLEAN,
     state : [Codes -> Values \union {Unset}],
     tile : [Tiles -> Values \union {Unset}],
     size : [Tiles -> Values \union {Unset}],
     vi : [VIRegs -> Values \union {Unset}],
     tmem : Memory, hidden : Memory, noise : Noise, history : Memory]

Contexts == 0 .. MaxWork
Implementations == [context : Contexts, part : Draws \union {None}]

\* A snapshot: of the arena, or of ares' serializer, which has only kept and
\* RDRAM to put back; enable and impl are then a note of what was left out.
Snapshots ==
    [enable : BOOLEAN, kept : Kepts, impl : Implementations \union {None}, ram : Memory]

ASSUME MarkAssumption ==
    /\ Dead \notin Processors
    /\ None \notin Implementations
    /\ None \notin Slots
    /\ Empty \notin Snapshots
    /\ Empty \notin [rdp : Processors \union {Dead}, part : Draws \union {None}, ram : Memory]

TypeOK ==
    /\ enable \in BOOLEAN
    /\ kept \in Kepts
    /\ impl \in Implementations \union {None}
    /\ device \in Processors
    /\ context \in Contexts
    /\ crossed \in SUBSET Contexts
    /\ ram \in Memory
    /\ running \in BOOLEAN
    /\ states \in [Slots -> Snapshots \union {Empty}]
    /\ fresh \in Slots \union {None}
    /\ work \in 0 .. MaxWork

NothingKept ==
    [valid |-> FALSE, restorePending |-> FALSE,
     state |-> [c \in Codes |-> Unset], tile |-> [t \in Tiles |-> Unset],
     size |-> [t \in Tiles |-> Unset], vi |-> [r \in VIRegs |-> Unset],
     tmem |-> Blank, hidden |-> Blank, noise |-> 0, history |-> Blank]

\* load(): a machine powered on, its device made when the machine is built.
Init ==
    /\ enable = TRUE
    /\ kept = NothingKept
    /\ impl = [context |-> 0, part |-> None]
    /\ device = FreshProcessor
    /\ context = 0
    /\ crossed = {}
    /\ ram = Blank
    /\ running = FALSE
    /\ states = [s \in Slots |-> Empty]
    /\ fresh = None
    /\ work = 0

-----------------------------------------------------------------------------
\* A mutant of Keep: the three loads are not kept as the size they leave.
KeepNotLoads(k, part, u) ==
    IF part # None THEN k
    ELSE CASE u.op = "state" -> [k EXCEPT !.state[u.at] = u.val]
           [] u.op = "tile" -> [k EXCEPT !.tile[u.at] = u.val]
           [] u.op = "size" -> [k EXCEPT !.size[u.at] = u.val]
           [] OTHER -> k

\* keep(): every state command as last sent, a load as the size it leaves.
Keep(k, part, u) ==
    IF part # None THEN k
    ELSE CASE u.op = "state" -> [k EXCEPT !.state[u.at] = u.val]
           [] u.op = "tile" -> [k EXCEPT !.tile[u.at] = u.val]
           [] u.op \in {"size", "load"} -> [k EXCEPT !.size[u.at] = u.val]
           [] OTHER -> k

\* What sending again what was kept leaves in a processor that had old.
Resent(keptOnes, old) ==
    [x \in DOMAIN old |-> IF keptOnes[x] # Unset THEN keptOnes[x] ELSE old[x]]

\* A mutant of Restored: without the count that seeds the dither noise, as the
\* renderer first was (its pictures then differed from frame 145 of a game).
RestoredNoNoise(k) ==
    [state |-> Resent(k.state, FreshProcessor.state),
     tile |-> Resent(k.tile, FreshProcessor.tile),
     size |-> Resent(k.size, FreshProcessor.size),
     vi |-> Resent(k.vi, FreshProcessor.vi),
     tmem |-> IF k.valid THEN k.tmem ELSE Blank,
     hidden |-> IF k.valid THEN k.hidden ELSE Blank,
     noise |-> 0,
     history |-> IF k.valid THEN k.history ELSE Blank,
     pending |-> None]

\* rebuild(): a new processor given everything kept.
Restored(k) ==
    [state |-> Resent(k.state, FreshProcessor.state),
     tile |-> Resent(k.tile, FreshProcessor.tile),
     size |-> Resent(k.size, FreshProcessor.size),
     vi |-> Resent(k.vi, FreshProcessor.vi),
     tmem |-> IF k.valid THEN k.tmem ELSE Blank,
     hidden |-> IF k.valid THEN k.hidden ELSE Blank,
     noise |-> IF k.valid THEN k.noise ELSE 0,
     history |-> IF k.valid THEN k.history ELSE Blank,
     pending |-> None]

\* A mutant of LetGo: the bridge is never quiet.
LetGoAloud == {impl.context}

\* unload(): objects of a context that is gone are let go with the bridge quiet.
LetGo == IF Bridge /\ impl.context # context THEN {} ELSE {impl.context}

\* checkContext()'s condition, for an implementation there is.
Stale == Bridge /\ impl.context # context
NeedsRebuild == impl # None /\ (Stale \/ kept.restorePending)

\* checkContext(): the object as the rest of the call finds it. k is what is
\* kept by then; made says whether a processor can be made again.
Checked(k, made) ==
    IF ~NeedsRebuild
    THEN [enable |-> enable, kept |-> k, impl |-> impl, device |-> device,
          crossed |-> {}]
    ELSE [enable |-> made,
          kept |-> [k EXCEPT !.restorePending = FALSE],
          impl |-> IF made THEN [impl EXCEPT !.context = context] ELSE None,
          device |-> IF made THEN Restored(k) ELSE FreshProcessor,
          crossed |-> LetGo \union {context}]

\* A draw still waiting for its data, if there is a processor to draw it.
Part == IF impl = None THEN None ELSE impl.part

Uses(v) == v.crossed \union (IF v.impl = None THEN {} ELSE {v.impl.context})

\* The game at work, within the bound; a draw begun may always be given its data.
Working(cost) ==
    /\ running
    /\ work + cost <= MaxWork
    /\ work' = work + cost
    /\ fresh' = None
    /\ UNCHANGED <<context, running, states>>

-----------------------------------------------------------------------------
StartFrame ==
    /\ ~running /\ work < MaxWork
    /\ running' = TRUE
    /\ fresh' = None
    /\ crossed' = {}
    /\ UNCHANGED <<enable, kept, impl, device, context, ram, states, work>>

CpuWrite(m) ==
    /\ Working(1)
    /\ ram' = m
    /\ crossed' = {}
    /\ UNCHANGED <<enable, kept, impl, device>>

\* render(), a unit at a time.
Render(u) ==
    /\ Working(IF Part = None THEN 1 ELSE 0)
    /\ \E made \in Makes : LET v == Checked(kept, made) IN
        /\ enable' = v.enable
        /\ crossed' = Uses(v)
        /\ IF v.impl = None
           THEN kept' = v.kept /\ impl' = None /\ device' = v.device /\ ram' = ram
           ELSE /\ kept' = Keep(v.kept, v.impl.part, u)
                /\ impl' = [v.impl EXCEPT !.part = PartAfter(@, u)]
                /\ device' = Fed(v.device, v.impl.part, ram, u)
                /\ ram' = RamAfter(v.device, v.impl.part, ram, u)

\* writeWord(): the register is kept before the processor is looked at.
WriteWord(r, x) ==
    /\ Working(1)
    /\ \E made \in Makes : LET v == Checked([kept EXCEPT !.vi[r] = x], made) IN
        /\ enable' = v.enable /\ kept' = v.kept /\ impl' = v.impl
        /\ crossed' = Uses(v)
        /\ device' = IF v.impl = None THEN v.device ELSE [v.device EXCEPT !.vi[r] = x]
    /\ UNCHANGED ram

\* scanoutAsync(), and frame(), which only begins a frame of the device's.
ScanoutAsync ==
    /\ Working(1)
    /\ \E made \in Makes : LET v == Checked(kept, made) IN
        /\ enable' = v.enable /\ kept' = v.kept /\ impl' = v.impl
        /\ crossed' = Uses(v)
        /\ device' = IF v.impl = None THEN v.device ELSE Scanned(v.device, ram)
    /\ UNCHANGED ram

Frame ==
    /\ Working(1)
    /\ \E made \in Makes : LET v == Checked(kept, made) IN
        /\ enable' = v.enable /\ kept' = v.kept /\ impl' = v.impl
        /\ crossed' = Uses(v)
        /\ device' = v.device
    /\ UNCHANGED ram

\* The renderer copies what it painted into RDRAM, at a point it chooses.
CopyOut ==
    /\ running /\ impl # None /\ ~NeedsRebuild
    /\ device.pending # None
    /\ ram' = device.pending
    /\ device' = Landed(device)
    /\ crossed' = {impl.context}
    /\ UNCHANGED <<enable, kept, impl, context, running, states, fresh, work>>

\* A mutant of Idle: the frame ends without waiting for the processor.
IdleNoWait ==
    /\ running
    /\ ~CutsAtFrameEnd => Part = None
    /\ running' = FALSE
    /\ fresh' = None
    /\ crossed' = {}
    /\ UNCHANGED <<enable, kept, impl, device, context, ram, states, work>>

\* machine::frame() ends with vulkan.idle().
Idle ==
    /\ running
    /\ ~CutsAtFrameEnd => Part = None
    /\ running' = FALSE
    /\ fresh' = None
    /\ \E made \in Makes : LET v == Checked(kept, made) IN
        /\ enable' = v.enable /\ kept' = v.kept /\ impl' = v.impl
        /\ crossed' = Uses(v)
        /\ IF v.impl = None
           THEN device' = v.device /\ ram' = ram
           ELSE device' = Landed(v.device) /\ ram' = View(v.device, ram)
    /\ UNCHANGED <<context, states, work>>

-----------------------------------------------------------------------------
\* A mutant of NothingToRead: a state taken right after a load reads the device
\* all the same.
ReadInAnyContext == impl = None \/ kept.restorePending

\* stateSaving()'s early returns: nothing has run since a load, or no processor.
NothingToRead == impl = None \/ NeedsRebuild

\* A mutant of ReadBack: the noise count read one ahead.
ReadBackAhead ==
    IF NothingToRead THEN kept
    ELSE [kept EXCEPT !.valid = TRUE, !.tmem = device.tmem, !.hidden = device.hidden,
                      !.noise = device.noise + 1, !.history = device.history]

\* What is kept once a state was taken.
ReadBack ==
    IF NothingToRead THEN kept
    ELSE [kept EXCEPT !.valid = TRUE, !.tmem = device.tmem, !.hidden = device.hidden,
                      !.noise = device.noise, !.history = device.history]

StateSaving ==
    /\ ~running
    /\ kept' = ReadBack
    /\ device' = IF NothingToRead THEN device ELSE Landed(device)
    /\ ram' = IF NothingToRead THEN ram ELSE View(device, ram)
    /\ crossed' = IF NothingToRead THEN {} ELSE {impl.context}
    /\ UNCHANGED <<enable, impl, context, running, work>>

\* The machine's own state asked for and not kept: the gate's digests do.
CaptureState == StateSaving /\ UNCHANGED <<states, fresh>>

Save(s) ==
    /\ StateSaving
    /\ states' = [states EXCEPT ![s] =
                    [enable |-> enable, kept |-> kept', impl |-> impl, ram |-> ram']]
    /\ UNCHANGED fresh

\* A mutant of Load: ares' own state is put back without a word to the processor.
LoadNotPending(s) ==
    /\ ~running /\ work < MaxWork /\ work' = work + 1
    /\ states[s] # Empty
    /\ kept' = states[s].kept
    /\ ram' = states[s].ram
    /\ crossed' = {}
    /\ fresh' = s
    /\ UNCHANGED <<enable, impl, device, context, running, states>>

\* The arena put back, in a new context of the host's; or ares' own state.
Load(s) ==
    /\ ~running /\ work < MaxWork /\ work' = work + 1
    /\ states[s] # Empty
    /\ IF Bridge
       THEN /\ kept' = states[s].kept
            /\ enable' = states[s].enable
            /\ impl' = states[s].impl
            /\ context' = context + 1
            /\ device' = FreshProcessor
       ELSE /\ kept' = [states[s].kept EXCEPT !.restorePending = TRUE]
            /\ UNCHANGED <<enable, impl, context, device>>
    /\ ram' = states[s].ram
    /\ crossed' = {}
    /\ fresh' = s
    /\ UNCHANGED <<running, states>>

Next ==
    \/ StartFrame \/ ScanoutAsync \/ Frame \/ CopyOut \/ Idle \/ CaptureState
    \/ \E m \in Memory : CpuWrite(m)
    \/ \E u \in Units : Render(u)
    \/ \E r \in VIRegs, x \in Values : WriteWord(r, x)
    \/ \E s \in Slots : Save(s) \/ Load(s)

Spec == Init /\ [][Next]_vars

-----------------------------------------------------------------------------
(* Properties *)

\* What the processor is, made already or still to be made again.
Effective == IF impl = None THEN Dead
             ELSE IF NeedsRebuild THEN Restored(kept) ELSE device

SavedMachine(snap) ==
    IF snap = Empty THEN Empty
    ELSE [rdp |-> IF snap.impl = None THEN Dead ELSE Restored(snap.kept),
          part |-> IF snap.impl = None THEN None ELSE snap.impl.part,
          ram |-> snap.ram]

\* vulkan.hpp: a processor made again "goes on exactly where the old one was".
Machine == INSTANCE RdpMachine WITH
    rdp <- Effective,
    part <- Part,
    loaded <- NeedsRebuild,
    states <- [s \in Slots |-> SavedMachine(states[s])]

\* The machine the kept state makes is the one processor that simply goes on:
\* every call, every state taken and every load, whatever they come in between.
GoesOnWhereItWas == Machine!Spec

\* Whenever a state may be taken, what is kept and what is read back then are
\* the whole processor: made again from them it would be the one there is.
NothingIsForgotten ==
    ~running /\ impl # None => Restored(ReadBack) = Effective

\* machine::frame(): "what the CPU finds there never depends on whether a state
\* was taken" - taking one changes neither RDRAM nor the processor.
TakingDisturbsNothing ==
    [][CaptureState \/ (\E s \in Slots : Save(s)) => UNCHANGED <<ram, device>>]_vars

\* core_snapshot: a state put back and taken again is the same state, byte for byte.
Serialized(k) == [k EXCEPT !.restorePending = FALSE]
SavedAgainIsTheSame ==
    fresh # None =>
        /\ Serialized(ReadBack) = Serialized(states[fresh].kept)
        /\ (IF NothingToRead THEN ram ELSE View(device, ram)) = states[fresh].ram
        /\ Bridge => enable = states[fresh].enable /\ impl = states[fresh].impl

\* vk_report: no call names an object of a context that is gone.
NothingGoneIsNamed == crossed \subseteq {context}

\* vulkan.hpp, for ares' own states too: a load puts back the command a list's
\* end had cut in two, as it was when the state was taken.
CutCommandComesBack ==
    fresh # None /\ impl # None /\ states[fresh].impl # None
        => impl.part = states[fresh].impl.part
=============================================================================
