--------------------------------- MODULE Gate ---------------------------------
(* How a run of the gate drives a machine, and the other run it is compared    *)
(* with. The one under test may push its button only when that moves, save and *)
(* load before every frame, go back to a frame it has left, draw nothing, and  *)
(* go on in another process from a file; the straight run does none of it.     *)
(* Their sound, lag, memory and state must be the same, and their pictures     *)
(* when both draw. What the machine does is left open; of its buttons there is *)
(* one, and what becomes of several of them is for module Inputs.              *)
EXTENDS Integers, Sequences

CONSTANTS
    Sandbox,        \* run-wbx, whose states are the arena; or run-native, ares' own
    Moments,        \* what a machine may be, its button and its outputs aside
    PoweredOn,
    Outputs,        \* a frame's picture; or its sound, and whether it read its input
    NoOutput,       \* of a machine that has run no frame
    Step(_, _),     \* the machine after a frame, given its button
    Picture(_, _),  \* what that frame shows
    Sound(_, _),    \* and its sound and lag
    Presses(_),     \* the machines that press their button themselves
    Sync(_),        \* the machine at the point where its threads meet
    Frames,         \* the frames a run is given
    Every,          \* what --digest-every may be, 0 for not given
    Dumps,          \* and --dump-frame, -1 for not given
    Processes,      \* bound: the processes one after another
    None

Held == {0, 1}

ASSUME GateAssumption ==
    /\ Sandbox \in BOOLEAN
    /\ PoweredOn \in Moments
    /\ NoOutput \in Outputs
    /\ \A m \in Moments, h \in Held :
           Step(m, h) \in Moments /\ Picture(m, h) \in Outputs /\ Sound(m, h) \in Outputs
    /\ \A m \in Moments : Presses(m) \in BOOLEAN /\ Sync(m) \in Moments
    /\ Frames \in Nat \ {0} /\ Processes \in Nat
    /\ Every \subseteq Nat /\ Dumps \subseteq Int

VARIABLES
    movie,      \* what the button is to be in each frame, the one after the last too
    onChange, rerecord,
    render,     \* FALSE for --no-render
    rewindAt, dumpFrame,    \* -1 for not given
    digestEvery,
    f, at,      \* the frame the loop is in, and where in it
    guest,      \* the machine that is driven
    gate_sent,  \* what it was last told, -1 for unknown
    g_rewind,   \* the state set aside
    file,       \* the state the run left, for the next process
    process,
    straight,   \* the machine of the straight run, as many frames on
    drawn,      \* whether every process so far was to draw
    seen,       \* whether all pictures hashed are the straight run's
    digested    \* and all else that was digested

options == <<movie, onChange, rerecord, render, rewindAt, dumpFrame, digestEvery>>
compared == <<straight, drawn, seen, digested>>
vars == <<options, f, at, guest, gate_sent, g_rewind, file, process, compared>>

\* A machine as the arena holds it: ares' own state of it, the button's node,
\* g_buttonPushed, g_rendering, and what the adapter keeps of the last frame for
\* its caller (g_video; g_audio and g_inputWasRead).
Guests == [moment : Moments, node : Held, pushed : Held, draws : BOOLEAN,
           shown : Outputs, heard : Outputs]

Ends == {"done", "refused", "broken"}

TypeOK ==
    /\ movie \in [0 .. Frames -> Held]
    /\ onChange \in BOOLEAN /\ rerecord \in BOOLEAN /\ render \in BOOLEAN
    /\ rewindAt \in -1 .. Frames - 1 /\ dumpFrame \in Dumps
    /\ digestEvery \in Every
    /\ f \in 0 .. Frames
    /\ at \in {"start", "inputs", "frame", "rewind", "interim", "back", "hash", "over"} \union Ends
    /\ guest \in Guests /\ straight \in Guests
    /\ gate_sent \in Held \union {-1}
    /\ g_rewind \in Guests \union {None}
    /\ file \in Guests \union {None}
    /\ process \in Nat
    /\ drawn \in BOOLEAN /\ seen \in BOOLEAN /\ digested \in BOOLEAN

\* init(), and set_rendering().
Built(draws) ==
    [moment |-> PoweredOn, node |-> 0, pushed |-> 0, draws |-> draws,
     shown |-> NoOutput, heard |-> NoOutput]

\* Only run-wbx has --rerecord and state files.
Options ==
    /\ movie' \in [0 .. Frames -> Held]
    /\ onChange' \in BOOLEAN /\ render' \in BOOLEAN
    /\ rerecord' \in {FALSE, Sandbox}
    /\ rewindAt' \in -1 .. Frames - 1 /\ dumpFrame' \in Dumps
    /\ digestEvery' \in Every

Init ==
    /\ movie \in [0 .. Frames -> Held]
    /\ onChange \in BOOLEAN /\ render \in BOOLEAN
    /\ rerecord \in {FALSE, Sandbox}
    /\ rewindAt \in -1 .. Frames - 1 /\ dumpFrame \in Dumps
    /\ digestEvery \in Every
    /\ f = 0 /\ at = "start"
    /\ guest = Built(render) /\ straight = Built(TRUE)
    /\ gate_sent = 0
    /\ g_rewind = None /\ file = None
    /\ process = 1
    /\ drawn = render /\ seen = TRUE /\ digested = TRUE

-----------------------------------------------------------------------------
\* A mutant of Told: every push reaches the node, whatever it says.
ToldAgain(g, h) == [g EXCEPT !.pushed = h, !.node = h]

\* setButton(): a push that says what the last one said is dropped.
Told(g, h) == IF g.pushed = h THEN g ELSE [g EXCEPT !.pushed = h, !.node = h]

\* A mutant of Ran: a frame that is not drawn is not heard.
RanInSilence(g) ==
    [g EXCEPT !.moment = Step(g.moment, g.node),
              !.shown = IF g.draws THEN Picture(g.moment, g.node) ELSE @,
              !.heard = IF g.draws THEN Sound(g.moment, g.node) ELSE @,
              !.node = IF Presses(g.moment) THEN 1 ELSE @]

\* frame(): with drawing off the picture stays what it was, and no more.
Ran(g) ==
    [g EXCEPT !.moment = Step(g.moment, g.node),
              !.shown = IF g.draws THEN Picture(g.moment, g.node) ELSE @,
              !.heard = Sound(g.moment, g.node),
              !.node = IF Presses(g.moment) THEN 1 ELSE @]

\* captureState(): ares runs its threads to where they meet before it serializes.
Synced(g) == [g EXCEPT !.moment = Sync(g.moment)]

\* Taking a state: the arena as it stands, or what captureState() gives.
Saved(g) == IF Sandbox THEN g ELSE Synced(g)

\* restoreState(): only what ares serialized comes back.
Restored(g, s) == [g EXCEPT !.moment = s.moment]

\* A mutant of PutBack: what the last frame showed is not in a state.
PutBackUnseen(g, s) == IF Sandbox THEN [s EXCEPT !.shown = g.shown] ELSE Restored(g, s)

\* A state put back: the whole arena, or what ares serializes.
PutBack(g, s) == IF Sandbox THEN s ELSE Restored(g, s)

\* gate_set_inputs() for frame n.
SetInputs(g, n) ==
    LET h == movie[n]
    IN  IF onChange /\ gate_sent = h THEN guest' = g /\ UNCHANGED gate_sent
        ELSE /\ guest' = Told(g, h)
             /\ gate_sent' = IF onChange THEN h ELSE gate_sent

-----------------------------------------------------------------------------
\* The names on the command line are looked up once: the run starts,
Start ==
    /\ at = "start" /\ at' = "inputs"
    /\ UNCHANGED <<options, f, guest, gate_sent, g_rewind, file, process, compared>>

\* or prints what the machine declares and is over,
List ==
    /\ at = "start" /\ at' = "done"
    /\ UNCHANGED <<options, f, guest, gate_sent, g_rewind, file, process, compared>>

\* or the machine has no button of that name.
NoSuchButton ==
    /\ at = "start" /\ at' = "refused"
    /\ UNCHANGED <<options, f, guest, gate_sent, g_rewind, file, process, compared>>

\* A mutant of Inputs: the loop goes round once more.
InputsPastEnd ==
    /\ at = "inputs" /\ f <= Frames
    /\ SetInputs(guest, f)
    /\ at' = "frame"
    /\ UNCHANGED <<options, f, g_rewind, file, process, compared>>

Inputs ==
    /\ at = "inputs" /\ f < Frames
    /\ SetInputs(guest, f)
    /\ at' = "frame"
    /\ UNCHANGED <<options, f, g_rewind, file, process, compared>>

\* pre_frame(), which with --rerecord saves and loads, and the frame.
PreFrame(g) == IF rerecord THEN PutBack(g, Saved(g)) ELSE g

Frame ==
    /\ at = "frame"
    /\ guest' = Ran(PreFrame(guest))
    /\ at' = IF f = rewindAt THEN "rewind" ELSE "hash"
    /\ UNCHANGED <<options, f, gate_sent, g_rewind, file, process, compared>>

-----------------------------------------------------------------------------
\* --rewind-at: the machine set aside, told the next frame's inputs ...
SetAside ==
    /\ at = "rewind"
    /\ g_rewind' = Saved(guest)
    /\ SetInputs(Saved(guest), f + 1)
    /\ at' = "interim"
    /\ UNCHANGED <<options, f, file, process, compared>>

\* ... run through that frame ...
Interim ==
    /\ at = "interim"
    /\ guest' = Ran(guest)
    /\ at' = "back"
    /\ UNCHANGED <<options, f, gate_sent, g_rewind, file, process, compared>>

\* A mutant of Forget: the record is trusted after a load.
Trust == UNCHANGED gate_sent

\* gate_forget_sent().
Forget == gate_sent' = -1

\* ... and put back, the record of what it was told forgotten. run-wbx takes the
\* state once more, and gives up when it is not the one it put back.
Back ==
    /\ at = "back"
    /\ guest' = PutBack(guest, g_rewind)
    /\ Forget
    /\ at' = IF Sandbox /\ Saved(guest') # g_rewind THEN "broken" ELSE "hash"
    /\ UNCHANGED <<options, f, g_rewind, file, process, compared>>

-----------------------------------------------------------------------------
\* The frame of the straight run, which is told its button in every frame.
StraightFrame == Ran(Told(straight, movie[f]))

\* A mutant of Digests: the state is asked for first.
DigestsStateFirst(g) == [memory |-> Synced(g).moment, state |-> Synced(g).moment]

\* What is digested of a machine: its memory, and then its state, the asking for
\* which moves it.
Digests(g) == [memory |-> g.moment, state |-> Synced(g).moment]

\* What the digests of a machine are to say, whoever built the runner.
DigestsOf(g) == [memory |-> g.moment, state |-> Sync(g.moment)]

\* --digest-every, but not in the frame that was dumped.
Due == digestEvery > 0 /\ (f + 1) % digestEvery = 0 /\ f # dumpFrame

\* What the frame showed is asked for and hashed, here and in the straight run;
\* the frame that was to be dumped is the last.
Hash ==
    /\ at = "hash"
    /\ seen' = (seen /\ guest.shown = StraightFrame.shown)
    /\ digested' = (/\ digested /\ guest.heard = StraightFrame.heard
                    /\ Due => Digests(guest) = DigestsOf(StraightFrame))
    /\ guest' = IF Due THEN Synced(guest) ELSE guest
    /\ straight' = IF Due THEN Synced(StraightFrame) ELSE StraightFrame
    /\ f' = f + 1
    /\ at' = IF f = dumpFrame THEN "over" ELSE "inputs"
    /\ UNCHANGED <<options, gate_sent, g_rewind, file, process, drawn>>

\* The frames are over, or the last of them was dumped.
Over == at = "over" \/ (at = "inputs" /\ f = Frames)

\* Then --state-out, and the digests. --dump-state asks for the
\* state before them, and then they are of a machine that was moved.
End ==
    /\ Over
    /\ file' = IF Sandbox THEN guest ELSE None
    /\ \E dumped \in BOOLEAN :
          LET g == IF dumped THEN Synced(guest) ELSE guest
          IN  /\ digested' = (digested /\ (dumped \/ Digests(g) = DigestsOf(straight)))
              /\ guest' = Synced(g)
    /\ at' = "done"
    /\ UNCHANGED <<options, f, gate_sent, g_rewind, process, straight, drawn, seen>>

\* The state cannot be written.
NotWritten ==
    /\ Sandbox
    /\ Over
    /\ at' = "refused"
    /\ UNCHANGED <<options, f, guest, gate_sent, g_rewind, file, process, compared>>

\* The state is written, but --check-memories finds that the memories do not
\* agree (which is for module Memories to say): no digest is made.
MemoriesWrong ==
    /\ Over
    /\ file' = IF Sandbox THEN guest ELSE None
    /\ at' = "refused"
    /\ UNCHANGED <<options, f, guest, gate_sent, g_rewind, process, compared>>

-----------------------------------------------------------------------------
\* Another process builds the machine, sets it to draw or not, and --state-in
\* puts the file's there, which has its own say of that;
StateIn ==
    /\ at = "done" /\ file # None
    /\ process < Processes /\ process' = process + 1
    /\ Options
    /\ guest' = PutBack(Built(render'), file)
    /\ Forget
    /\ drawn' = (drawn /\ render')
    /\ f' = 0 /\ at' = "start"
    /\ g_rewind' = None
    /\ UNCHANGED <<file, straight, seen, digested>>

\* or it cannot read the file, whatever its options.
NoState ==
    /\ at = "done" /\ file # None
    /\ process < Processes /\ process' = process + 1
    /\ guest' = Built(render) /\ gate_sent' = 0
    /\ f' = 0 /\ at' = "refused"
    /\ g_rewind' = None
    /\ UNCHANGED <<options, file, compared>>

\* What gate_run() does by itself, once it has been started.
Run == Start \/ List \/ NoSuchButton \/ Inputs \/ Frame \/ SetAside \/ Interim \/ Back
           \/ Hash \/ End \/ NotWritten \/ MemoriesWrong

Next == Run \/ StateIn \/ NoState

Spec == Init /\ [][Next]_vars

\* The loop is one thread's and waits for nobody: it goes on while it can. That
\* somebody starts another process is not assumed.
FairSpec == Spec /\ WF_vars(Run)

-----------------------------------------------------------------------------
\* When every process was to draw, the pictures are the straight run's in every
\* frame ("the digests must match a straight run's exactly"); that a state left
\* by one that did not draws nothing either is why they must all have been.
PicturesMatch == drawn => seen

\* Drawing or not, the sound, the lag frames and the digests of the memory and
\* of the state are the straight run's: taken "in a defined order: asking for
\* the state SYNCHRONISES the machine, so a memory digest taken after it is a
\* digest of a different moment".
DigestsMatch == digested

\* The machine is the straight run's after every frame, what it pressed itself
\* and what it will take for news included ("a machine that is told the same
\* thing twice must not notice, and a machine put back to a frame it has already
\* left must be the machine that left it").
MachinesMatch ==
    at \in {"start", "inputs", "over"} =>
        /\ guest.moment = straight.moment
        /\ guest.node = straight.node
        /\ guest.pushed = straight.pushed

\* A run that was started comes to its digests or is refused for what it was
\* given or what its memories answer; it never ends because a state, put back,
\* was not the state it was.
RunEnds == at = "start" ~> at \in {"done", "refused"}
=============================================================================
