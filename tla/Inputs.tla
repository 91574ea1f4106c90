-------------------------------- MODULE Inputs --------------------------------
(* The way a button takes from a frontend to a machine. The frontend keeps a   *)
(* record of what it told the guest and pushes a button only when it moves;    *)
(* after a state load the record means nothing and every button is pushed      *)
(* again. The adapter, inside the state, drops a push that says nothing new.   *)
EXTENDS Controls

CONSTANTS RecordSize    \* the buttons a frontend's record holds (256)

ASSUME RecordAssumption == RecordSize \in Nat

VARIABLES
    onChange,   \* the frontend pushes only what moves (--set-on-change)
    told,       \* gate_sent: what the guest was last told, -1 for unknown
    pushed,     \* g_buttonPushed: the last push each button heard
    node,       \* the value of the node behind each button
    playing,    \* g_tape: whether it runs
    axis,
    turn,
    states      \* the states taken, in files and in memory

vars == <<onChange, told, pushed, node, playing, axis, turn, states>>

Recorded == {b \in Buttons : b < RecordSize}

\* What a state of the arena carries: the record below the boundary is in it,
\* the frontend's is not.
Snapshots ==
    [pushed : [Buttons -> Held], node : [Buttons -> Held], playing : BOOLEAN, axis : AxisValues]

ASSUME SnapshotAssumption ==
    /\ Empty \notin Snapshots
    /\ Empty \notin [asked : [Buttons -> Held], node : [Buttons -> Held],
                     playing : BOOLEAN, axis : AxisValues]

TypeOK ==
    /\ onChange \in BOOLEAN
    /\ told \in [Recorded -> Held \union {-1}]
    /\ pushed \in [Buttons -> Held]
    /\ node \in [Buttons -> Held]
    /\ playing \in BOOLEAN
    /\ axis \in AxisValues
    /\ turn \in {"ask", "run"}
    /\ states \in [Slots -> Snapshots \union {Empty}]

-----------------------------------------------------------------------------
\* gate_start_sent(), gate_forget_sent().
StartSent == [b \in Recorded |-> 0]
ForgetSent == [b \in Recorded |-> -1]

\* A mutant of BindInputs: the push record starts at "nothing yet".
BindNothingYet ==
    /\ node' = [b \in Buttons |-> 0]
    /\ pushed' = [b \in Buttons |-> -1]
    /\ playing' = FALSE
    /\ axis' = 0

\* bindInputs(), after the machine is built: every node holds false, and what
\* was pushed is what the nodes hold.
BindInputs ==
    /\ node' = [b \in Buttons |-> 0]
    /\ pushed' = [b \in Buttons |-> 0]
    /\ playing' = FALSE
    /\ axis' = 0

Init ==
    /\ onChange \in BOOLEAN
    /\ told = StartSent
    /\ pushed = [b \in Buttons |-> 0]
    /\ node = [b \in Buttons |-> 0]
    /\ playing = FALSE
    /\ axis = 0
    /\ turn = "ask"
    /\ states = [s \in Slots |-> Empty]

-----------------------------------------------------------------------------
\* The buttons a frontend pushes for h; what is beyond the record always is.
Pushes(h) == {b \in Buttons : onChange /\ b \in Recorded => told[b] # h[b]}

\* A mutant of Heard: setButton() without its change detection.
HeardAlways(h) == Pushes(h)

\* setButton(): of those, the ones that say something the last did not.
Heard(h) == {b \in Pushes(h) : pushed[b] # h[b]}

\* A mutant of Transport: the tape acts on a release as on a press.
TransportEither(h) == {b \in Heard(h) : Kind[b] \in {"play", "stop"}}

\* The transport buttons heard going down; buttons are pushed in their order,
\* so the highest of them has the last word.
Transport(h) == {b \in Heard(h) : Kind[b] \in {"play", "stop"} /\ h[b] = 1}

Tape(h) ==
    IF HasTape /\ Transport(h) # {}
    THEN \E b \in Transport(h) : Kind[b] = "play" /\ \A c \in Transport(h) : c <= b
    ELSE playing

\* A frame's inputs, as gate_set_inputs() pushes them and setButton() and
\* setAxis() take them. An axis is sent every frame.
SetInputs(h, x) ==
    /\ turn = "ask"
    /\ told' = IF onChange
               THEN [b \in Recorded |-> IF b \in Pushes(h) THEN h[b] ELSE told[b]]
               ELSE told
    /\ pushed' = [b \in Buttons |-> IF b \in Heard(h) THEN h[b] ELSE pushed[b]]
    /\ node' = [b \in Buttons |-> IF b \in Heard(h) /\ Kind[b] = "node" THEN h[b] ELSE node[b]]
    /\ playing' = Tape(h)
    /\ axis' = x
    /\ turn' = "run"
    /\ UNCHANGED <<onChange, states>>

\* frame(): the machine reads its nodes, may press some itself (CPU::main() on
\* a Neo Geo Pocket) and may come to the end of its tape.
Frame(own, ends) ==
    /\ turn = "run"
    /\ node' = [b \in Buttons |-> IF b \in own THEN 1 ELSE node[b]]
    /\ playing' = (playing /\ ~ends)
    /\ turn' = "ask"
    /\ UNCHANGED <<onChange, told, pushed, axis, states>>

\* core_snapshot(1), core_state_file(.., 1): the arena as it is.
Save(s) ==
    /\ turn = "ask"
    /\ states' = [states EXCEPT ![s] =
                    [pushed |-> pushed, node |-> node, playing |-> playing, axis |-> axis]]
    /\ UNCHANGED <<onChange, told, pushed, node, playing, axis, turn>>

\* A mutant of Forget: the frontend trusts its record after a load.
Trust == told' = told

\* After a load the frontend's record means nothing.
Forget == told' = ForgetSent

\* core_snapshot(0), core_state_file(.., 0).
Load(s) ==
    /\ turn = "ask"
    /\ states[s] # Empty
    /\ pushed' = states[s].pushed
    /\ node' = states[s].node
    /\ playing' = states[s].playing
    /\ axis' = states[s].axis
    /\ Forget
    /\ UNCHANGED <<onChange, turn, states>>

\* Another process, whose frontend keeps either record; state files survive.
Restart ==
    /\ turn = "ask"
    /\ BindInputs
    /\ told' = StartSent
    /\ onChange' \in BOOLEAN
    /\ UNCHANGED <<turn, states>>

Next ==
    \/ \E h \in [Buttons -> Held], x \in AxisValues : SetInputs(h, x)
    \/ \E own \in SUBSET OwnPresses, ends \in BOOLEAN : Frame(own, ends)
    \/ \E s \in Slots : Save(s) \/ Load(s)
    \/ Restart

Spec == Init /\ [][Next]_vars

-----------------------------------------------------------------------------
\* What the frontend's record holds of a button is what the guest last heard,
\* or unknown. Were it anything else, a button that has to move would not be
\* pushed ("that resend is correct and cannot be given up").
RecordIsTrue == onChange => \A b \in Recorded : told[b] \in {-1, pushed[b]}

\* A push reaches the machine only when it says something new: what the machine
\* pressed itself, and a tape it plays, stand through every resend that a load
\* forces. Nothing is disturbed by saying again what a state already held.
ResendIsNoOp ==
    [][turn = "ask" /\ turn' = "run" /\ pushed' = pushed => UNCHANGED <<node, playing>>]_vars

\* The refinement: whoever pushes, and whenever a state is put back, the
\* machine finds what the movie asks and keeps what it pressed itself.
Moment(s) ==
    IF states[s] = Empty THEN Empty
    ELSE [asked |-> states[s].pushed, node |-> states[s].node,
          playing |-> states[s].playing, axis |-> states[s].axis]

Machine == INSTANCE AskedMachine
    WITH asked <- pushed, states <- [s \in Slots |-> Moment(s)]

GoesOnAsAsked == Machine!Spec
=============================================================================
