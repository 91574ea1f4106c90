---------------------------- MODULE Inputs_proofs ----------------------------
(* Proofs that the way through two records is the promise of one: for any      *)
(* number of buttons, any kinds of them, any record and any axis values.       *)
EXTENDS Inputs, TLAPS

\* The promise's buttons are these buttons.
USE DEF Buttons, Held, Machine!Buttons, Machine!Held

Inv == TypeOK /\ RecordIsTrue

LEMMA Initially == Init => Inv
BY ButtonAssumption DEF Init, Inv, TypeOK, RecordIsTrue, StartSent, Recorded

LEMMA AskedKeeps ==
    ASSUME Inv, NEW h \in [Buttons -> Held], NEW x \in AxisValues, SetInputs(h, x)
    PROVE  Inv'
<1>1. Pushes(h) \subseteq Buttons /\ Heard(h) \subseteq Pushes(h) /\ Recorded \subseteq Buttons
  BY DEF Pushes, Heard, Recorded
<1>2. TypeOK'
  <2>1. playing' \in BOOLEAN
    BY DEF Inv, TypeOK, SetInputs, Tape
  <2>2. told' \in [Recorded -> Held \union {-1}]
    BY <1>1 DEF Inv, TypeOK, SetInputs
  <2>3. pushed' \in [Buttons -> Held] /\ node' \in [Buttons -> Held]
    BY DEF Inv, TypeOK, SetInputs
  <2> QED BY <2>1, <2>2, <2>3 DEF Inv, TypeOK, SetInputs
<1>3. ASSUME onChange', NEW b \in Recorded
      PROVE  told'[b] \in {-1, pushed'[b]}
  <2>1. onChange /\ b \in Buttons
    BY <1>1, <1>3 DEF SetInputs
  <2>2. CASE b \in Pushes(h)
    <3>1. told'[b] = h[b]
      BY <2>1, <2>2 DEF SetInputs
    <3>2. pushed'[b] = h[b]
      BY <2>1, <2>2 DEF SetInputs, Heard, Inv, TypeOK
    <3> QED BY <3>1, <3>2
  <2>3. CASE b \notin Pushes(h)
    BY <1>1, <2>1, <2>3 DEF SetInputs, Inv, RecordIsTrue
  <2> QED BY <2>2, <2>3
<1> QED BY <1>2, <1>3 DEF Inv, RecordIsTrue

LEMMA Keeps == Inv /\ [Next]_vars => Inv'
<1> SUFFICES ASSUME Inv, [Next]_vars PROVE Inv'
  OBVIOUS
<1>1. ASSUME NEW h \in [Buttons -> Held], NEW x \in AxisValues, SetInputs(h, x) PROVE Inv'
  BY <1>1, AskedKeeps
<1>2. ASSUME NEW own \in SUBSET OwnPresses, NEW ends \in BOOLEAN, Frame(own, ends) PROVE Inv'
  BY <1>2 DEF Inv, TypeOK, RecordIsTrue, Frame
<1>3. ASSUME NEW s \in Slots, Save(s) PROVE Inv'
  BY <1>3 DEF Inv, TypeOK, RecordIsTrue, Save, Snapshots
<1>4. ASSUME NEW s \in Slots, Load(s) PROVE Inv'
  <2>1. states[s] \in Snapshots
    BY <1>4 DEF Inv, TypeOK, Load
  <2> QED BY <1>4, <2>1 DEF Inv, TypeOK, RecordIsTrue, Load, Snapshots, Forget, ForgetSent
<1>5. ASSUME Restart PROVE Inv'
  BY <1>5, ButtonAssumption
  DEF Inv, TypeOK, RecordIsTrue, Restart, BindInputs, StartSent, Recorded
<1>6. CASE UNCHANGED vars
  BY <1>6 DEF Inv, TypeOK, RecordIsTrue, vars
<1> QED BY <1>1, <1>2, <1>3, <1>4, <1>5, <1>6 DEF Next

LEMMA Always == Spec => []Inv
BY Initially, Keeps, PTL DEF Spec

\* Both records, the tape and every kept state hold values a button can have:
\* nothing a load brings back leaves them outside their types.
THEOREM TypesHold == Spec => []TypeOK
BY Always, PTL DEF Inv

\* Whatever is loaded and whenever, a record below the boundary and one above
\* it never disagree but where the frontend knows it does not know.
THEOREM RecordsAgree == Spec => []RecordIsTrue
BY Always, PTL DEF Inv

-----------------------------------------------------------------------------
\* What a frame's pushes are heard as is what the movie asks anew.
LEMMA HeardIsNew ==
    ASSUME Inv, NEW h \in [Buttons -> Held]
    PROVE  Heard(h) = {b \in Buttons : pushed[b] # h[b]}
<1> SUFFICES ASSUME NEW b \in Buttons, pushed[b] # h[b] PROVE b \in Pushes(h)
  BY DEF Heard, Pushes
<1> SUFFICES ASSUME onChange, b \in Recorded PROVE told[b] # h[b]
  BY DEF Pushes
<1>1. told[b] \in {-1, pushed[b]} /\ h[b] \in {0, 1}
  BY DEF Inv, RecordIsTrue
<1> QED BY <1>1

LEMMA NothingNew ==
    ASSUME Inv, NEW h \in [Buttons -> Held], NEW x \in AxisValues, SetInputs(h, x),
           pushed' = pushed
    PROVE  UNCHANGED <<node, playing>>
<1>1. Heard(h) = {}
  <2> SUFFICES ASSUME NEW b \in Heard(h) PROVE FALSE
    OBVIOUS
  <2>1. b \in Buttons /\ pushed[b] # h[b] /\ pushed'[b] = h[b]
    BY DEF Heard, Pushes, SetInputs, Inv, TypeOK
  <2> QED BY <2>1
<1>2. node' = node
  BY <1>1 DEF SetInputs, Inv, TypeOK
<1>3. playing' = playing
  BY <1>1 DEF SetInputs, Tape, Transport
<1> QED BY <1>2, <1>3

\* The resend a load forces never reaches a machine that has nothing new to be
\* told: a press of its own and a running tape stand.
THEOREM ResendsAreNoOps == Spec => ResendIsNoOp
<1>1. Inv /\ [Next]_vars
      => [turn = "ask" /\ turn' = "run" /\ pushed' = pushed => UNCHANGED <<node, playing>>]_vars
  <2> SUFFICES ASSUME Inv, Next, turn = "ask", turn' = "run", pushed' = pushed
               PROVE  UNCHANGED <<node, playing>>
    OBVIOUS
  <2>1. PICK h \in [Buttons -> Held], x \in AxisValues : SetInputs(h, x)
    BY DEF Next, Frame, Save, Load, Restart
  <2> QED BY <2>1, NothingNew
<1> QED BY <1>1, Always, PTL DEF Spec, ResendIsNoOp

-----------------------------------------------------------------------------
LEMMA InitRefines == Init => Machine!Init
BY DEF Init, Machine!Init, Machine!JustBuilt, Moment

LEMMA AskRefines ==
    ASSUME Inv, NEW h \in [Buttons -> Held], NEW x \in AxisValues, SetInputs(h, x)
    PROVE  Machine!Ask(h, x)
<1>1. Heard(h) = {b \in Buttons : pushed[b] # h[b]}
  BY HeardIsNew
<1>2. node' = [b \in Buttons |->
                    IF Kind[b] = "node" /\ h[b] # pushed[b] THEN h[b] ELSE node[b]]
  BY <1>1 DEF SetInputs
<1>3. pushed' = h
  BY <1>1 DEF SetInputs, Inv, TypeOK
<1>4. Transport(h) = Machine!GoDown(h)
  BY <1>1 DEF Transport, Machine!GoDown, Inv, TypeOK
<1>5. playing' = IF HasTape /\ Machine!GoDown(h) # {}
                 THEN Machine!LastPlays(Machine!GoDown(h)) ELSE playing
  BY <1>4 DEF SetInputs, Tape, Machine!LastPlays
<1>6. [s \in Slots |-> Moment(s)]' = [s \in Slots |-> Moment(s)]
  BY DEF SetInputs, Moment
<1> QED BY <1>2, <1>3, <1>5, <1>6 DEF Machine!Ask, SetInputs

LEMMA FrameRefines ==
    ASSUME Inv, NEW own \in SUBSET OwnPresses, NEW ends \in BOOLEAN, Frame(own, ends)
    PROVE  Machine!Run(own, ends)
BY DEF Frame, Machine!Run, Moment

LEMMA SaveRefines ==
    ASSUME Inv, NEW s \in Slots, Save(s)
    PROVE  Machine!Save(s)
<1>1. states'[s] # Empty
  BY SnapshotAssumption DEF Inv, TypeOK, Save, Snapshots
<1>2. Moment(s)' = [asked |-> pushed, node |-> node, playing |-> playing, axis |-> axis]
  BY <1>1 DEF Save, Moment, Inv, TypeOK
<1>3. \A t \in Slots \ {s} : Moment(t)' = Moment(t)
  BY DEF Save, Moment, Inv, TypeOK
<1> QED BY <1>2, <1>3 DEF Machine!Save, Save

LEMMA LoadRefines ==
    ASSUME Inv, NEW s \in Slots, Load(s)
    PROVE  Machine!Load(s)
<1>1. Moment(s) = [asked |-> states[s].pushed, node |-> states[s].node,
                   playing |-> states[s].playing, axis |-> states[s].axis]
  BY DEF Load, Moment
<1>2. states[s] \in Snapshots
  BY DEF Load, Inv, TypeOK
<1>3. Moment(s) # Empty
  BY <1>1, <1>2, SnapshotAssumption DEF Snapshots
<1>4. [t \in Slots |-> Moment(t)]' = [t \in Slots |-> Moment(t)]
  BY DEF Load, Moment
<1> QED BY <1>1, <1>3, <1>4 DEF Machine!Load, Load

LEMMA RestartRefines == Restart => Machine!Restart
BY DEF Restart, BindInputs, Machine!Restart, Machine!JustBuilt, Moment

\* Two records, resends and states in another process come to one machine that
\* is told what the movie asks anew, and keeps what it pressed itself.
THEOREM AsAsked == Spec => GoesOnAsAsked
<1>1. Inv /\ [Next]_vars => [Machine!Next]_(Machine!vars)
  <2> SUFFICES ASSUME Inv, [Next]_vars PROVE [Machine!Next]_(Machine!vars)
    OBVIOUS
  <2>1. CASE Next
    BY <2>1, AskRefines, FrameRefines, SaveRefines, LoadRefines, RestartRefines
    DEF Next, Machine!Next
  <2>2. CASE UNCHANGED vars
    BY <2>2 DEF vars, Machine!vars, Moment
  <2> QED BY <2>1, <2>2
<1> QED BY <1>1, InitRefines, Always, PTL DEF Spec, GoesOnAsAsked, Machine!Spec
=============================================================================
