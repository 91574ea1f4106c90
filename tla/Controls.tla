------------------------------- MODULE Controls -------------------------------
(* The controls a machine offers: its buttons in the order they are numbered,  *)
(* what stands behind each, and what a state carries of them.                  *)
EXTENDS Integers, FiniteSets

CONSTANTS
    ButtonCount,    \* buttons 0 .. ButtonCount - 1
    Kind,           \* what a button is bound to
    OwnPresses,     \* the nodes the machine presses itself (a Pocket's power)
    HasTape,        \* whether a tape was found in the deck
    AxisValues,
    Slots, Empty

Buttons == 0 .. ButtonCount - 1
Kinds == {"node", "absent", "play", "stop"}
Held == {0, 1}

ASSUME ButtonAssumption ==
    /\ ButtonCount \in Nat
    /\ Kind \in [Buttons -> Kinds]
    /\ OwnPresses \subseteq {b \in Buttons : Kind[b] = "node"}
    /\ HasTape \in BOOLEAN
    /\ 0 \in AxisValues
=============================================================================
