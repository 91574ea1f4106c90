----------------------------- MODULE RdpMachine ------------------------------
(* What a Nintendo 64 promises about its display processor: one processor that *)
(* simply goes on. Taking a state changes nothing; a state put back is the     *)
(* machine exactly as it was when the state was taken. The one thing a load    *)
(* may cost is the processor itself, on a computer that can no longer make it: *)
(* then nothing is drawn any more, for good.                                   *)
EXTENDS Processor

CONSTANTS
    Slots,      \* where states are kept
    Empty,      \* a slot with none
    Dead        \* the processor of a computer that could not make it again

VARIABLES
    rdp,        \* the processor, or Dead
    part,       \* a draw whose list ended before its data, or None
    ram,        \* RDRAM
    running,    \* a frame is being run
    loaded,     \* a state was put back and the processor not used since
    states

machineVars == <<rdp, part, ram, running, loaded, states>>

Machines == [rdp : Processors \union {Dead}, part : Draws \union {None}, ram : Memory]

TypeOK ==
    /\ rdp \in Processors \union {Dead}
    /\ part \in Draws \union {None}
    /\ ram \in Memory
    /\ running \in BOOLEAN
    /\ loaded \in BOOLEAN
    /\ states \in [Slots -> Machines \union {Empty}]

Init ==
    /\ rdp = FreshProcessor
    /\ part = None
    /\ ram = Blank
    /\ running = FALSE
    /\ loaded = FALSE
    /\ states = [s \in Slots |-> Empty]

Lives == rdp # Dead

StartFrame ==
    /\ ~running
    /\ running' = TRUE
    /\ UNCHANGED <<rdp, part, ram, loaded, states>>

\* The game's own work touches RDRAM too.
CpuWrite(m) ==
    /\ running
    /\ ram' = m
    /\ UNCHANGED <<rdp, part, running, loaded, states>>

Feed(u) ==
    /\ running /\ Lives
    /\ loaded' = FALSE
    /\ \/ /\ rdp' = Fed(rdp, part, ram, u)
          /\ part' = PartAfter(part, u)
          /\ ram' = RamAfter(rdp, part, ram, u)
       \/ /\ loaded /\ rdp' = Dead /\ part' = None
          /\ UNCHANGED ram
    /\ UNCHANGED <<running, states>>

\* The steps that change the processor alone: a register, a picture, a frame.
Touch(p) ==
    /\ running /\ Lives
    /\ loaded' = FALSE
    /\ \/ rdp' = p /\ UNCHANGED part
       \/ loaded /\ rdp' = Dead /\ part' = None
    /\ UNCHANGED <<ram, running, states>>

SetRegister(r, v) == Touch([rdp EXCEPT !.vi[r] = v])
Scanout == Touch(Scanned(rdp, ram))
BeginFrame == Touch(rdp)

Land ==
    /\ running /\ Lives
    /\ rdp.pending # None
    /\ ram' = rdp.pending
    /\ rdp' = Landed(rdp)
    /\ UNCHANGED <<part, running, loaded, states>>

\* Every frame ends with all of the processor's work in RDRAM.
EndFrame ==
    /\ running /\ Lives
    /\ running' = FALSE /\ loaded' = FALSE
    /\ \/ /\ ram' = View(rdp, ram) /\ rdp' = Landed(rdp)
          /\ UNCHANGED part
       \/ /\ loaded /\ rdp' = Dead /\ part' = None
          /\ UNCHANGED ram
    /\ UNCHANGED states

\* A frame of a machine that draws nothing any more.
EndDeadFrame ==
    /\ running /\ ~Lives
    /\ running' = FALSE
    /\ UNCHANGED <<rdp, part, ram, loaded, states>>

Save(s) ==
    /\ ~running
    /\ states' = [states EXCEPT ![s] = [rdp |-> rdp, part |-> part, ram |-> ram]]
    /\ UNCHANGED <<rdp, part, ram, running, loaded>>

\* A state put back may find the processor lost already.
Load(s) ==
    /\ ~running
    /\ states[s] # Empty
    /\ ram' = states[s].ram
    /\ \/ rdp' = states[s].rdp /\ part' = states[s].part
       \/ rdp' = Dead /\ part' = None
    /\ loaded' = (rdp' # Dead)
    /\ UNCHANGED <<running, states>>

Next ==
    \/ StartFrame \/ BeginFrame \/ Scanout \/ Land \/ EndFrame \/ EndDeadFrame
    \/ \E m \in Memory : CpuWrite(m)
    \/ \E u \in Units : Feed(u)
    \/ \E r \in VIRegs, v \in Values : SetRegister(r, v)
    \/ \E s \in Slots : Save(s) \/ Load(s)

Spec == Init /\ [][Next]_machineVars
=============================================================================
