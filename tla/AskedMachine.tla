----------------------------- MODULE AskedMachine -----------------------------
(* What the adapter promises of its buttons: the machine holds what the movie  *)
(* asks for, and what it pressed itself it keeps pressed until the movie asks  *)
(* something new of that button. A state put back is as though the machine had *)
(* never gone on: nothing of a frontend's record or of its resends is in here. *)
EXTENDS Controls

VARIABLES
    asked,      \* what the movie last asked of each button
    node,       \* what the machine finds held
    playing,    \* the tape
    axis,
    turn,       \* whose turn it is: the movie asks, then the machine runs a frame
    states

vars == <<asked, node, playing, axis, turn, states>>

JustBuilt ==
    /\ asked = [b \in Buttons |-> 0]
    /\ node = [b \in Buttons |-> 0]
    /\ playing = FALSE
    /\ axis = 0
    /\ turn = "ask"

Init == JustBuilt /\ states = [s \in Slots |-> Empty]

\* The transport buttons that go down with h, and what the last of them does.
GoDown(h) == {b \in Buttons : h[b] = 1 /\ asked[b] = 0 /\ Kind[b] \in {"play", "stop"}}

LastPlays(down) == \E b \in down : Kind[b] = "play" /\ \A c \in down : c <= b

\* The movie asks for a frame: only what it asks anew reaches the machine.
Ask(h, x) ==
    /\ turn = "ask"
    /\ node' = [b \in Buttons |->
                    IF Kind[b] = "node" /\ h[b] # asked[b] THEN h[b] ELSE node[b]]
    /\ playing' = IF HasTape /\ GoDown(h) # {} THEN LastPlays(GoDown(h)) ELSE playing
    /\ asked' = h
    /\ axis' = x
    /\ turn' = "run"
    /\ UNCHANGED states

\* A frame: the machine may press buttons of its own, and a tape may run out.
Run(own, ends) ==
    /\ turn = "run"
    /\ node' = [b \in Buttons |-> IF b \in own THEN 1 ELSE node[b]]
    /\ playing' = (playing /\ ~ends)
    /\ turn' = "ask"
    /\ UNCHANGED <<asked, axis, states>>

Save(s) ==
    /\ turn = "ask"
    /\ states' = [states EXCEPT ![s] =
                    [asked |-> asked, node |-> node, playing |-> playing, axis |-> axis]]
    /\ UNCHANGED <<asked, node, playing, axis, turn>>

Load(s) ==
    /\ turn = "ask"
    /\ states[s] # Empty
    /\ asked' = states[s].asked
    /\ node' = states[s].node
    /\ playing' = states[s].playing
    /\ axis' = states[s].axis
    /\ UNCHANGED <<turn, states>>

\* Another process: the machine built anew, the state files still there.
Restart == turn = "ask" /\ JustBuilt' /\ UNCHANGED states

Next ==
    \/ \E h \in [Buttons -> Held], x \in AxisValues : Ask(h, x)
    \/ \E own \in SUBSET OwnPresses, ends \in BOOLEAN : Run(own, ends)
    \/ \E s \in Slots : Save(s) \/ Load(s)
    \/ Restart

Spec == Init /\ [][Next]_vars
=============================================================================
