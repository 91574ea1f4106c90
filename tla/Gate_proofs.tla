------------------------------ MODULE Gate_proofs ------------------------------
(* The gate's digests agree in the sandbox for every machine there could be,   *)
(* every movie and every option: the invariant says, at each point of the      *)
(* loop, how far the driven machine is ahead of the straight run's.            *)
EXTENDS Gate, TLAPS

\* One machine is the other but for what is drawn, and altogether when every
\* process so far was to draw.
Alike(g, s) ==
    /\ g.moment = s.moment /\ g.node = s.node /\ g.pushed = s.pushed /\ g.heard = s.heard
    /\ drawn => g = s

\* The straight run's machine once it is told this frame's button, and after.
ToldStraight == Told(straight, movie[f])
\* Where the driven machine is at each point of the loop.
Together ==
    /\ at \in {"start", "inputs", "over"} => Alike(guest, straight)
    /\ at = "frame" => Alike(guest, ToldStraight)
    /\ at \in {"rewind", "hash"} => Alike(guest, StraightFrame)
    /\ at \in {"interim", "back"} => Alike(g_rewind, StraightFrame) /\ g_rewind \in Guests
    /\ at \in {"frame", "rewind", "interim", "back", "hash"} => f < Frames
    /\ file # None => file \in Guests /\ (at \in {"start", "done"} => Alike(file, straight))
    /\ at # "broken"

\* The straight run draws, and so does the driven one when all were to.
Draws == straight.draws /\ (drawn => render)

\* The record of a button is what the machine last heard of it, or unknown.
RecordHolds == onChange => gate_sent \in {-1, guest.pushed}

\* A run in which no state is taken or put back.
Plain == file = None /\ rerecord = FALSE /\ rewindAt = -1 /\ at \notin {"rewind", "interim", "back"}

IInv == TypeOK /\ Together /\ Draws /\ (at \notin Ends => RecordHolds) /\ (drawn => seen) /\ digested

LEMMA ToldType == ASSUME NEW g \in Guests, NEW h \in Held
                  PROVE  Told(g, h) \in Guests /\ Told(g, h).pushed = h
BY DEF Told, Guests

LEMMA RanType == ASSUME NEW g \in Guests
                 PROVE  Ran(g) \in Guests /\ Ran(g).pushed = g.pushed
BY GateAssumption DEF Ran, Guests, Held

LEMMA SyncedType == ASSUME NEW g \in Guests
                    PROVE  Synced(g) \in Guests /\ Synced(g).pushed = g.pushed
BY GateAssumption DEF Synced, Guests

\* Being told, being run and being synchronised tell no two machines apart that
\* are alike.
LEMMA StaysAlike ==
    ASSUME NEW g \in Guests, NEW s \in Guests, NEW h \in Held, Alike(g, s)
    PROVE  Alike(Told(g, h), Told(s, h)) /\ Alike(Ran(g), Ran(s)) /\ Alike(Synced(g), Synced(s))
<1>1. Alike(Told(g, h), Told(s, h))
  BY DEF Alike, Told, Guests
<1>2. Alike(Ran(g), Ran(s))
  BY DEF Alike, Ran, Guests
<1>3. Alike(Synced(g), Synced(s))
  BY DEF Alike, Synced, Guests
<1> QED
  BY <1>1, <1>2, <1>3

\* Whether or not the frontend pushes it, the machine is told its button.
LEMMA SetInputsTells ==
    ASSUME TypeOK, RecordHolds, NEW n \in 0 .. Frames, SetInputs(guest, n)
    PROVE  /\ guest' = Told(guest, movie[n]) /\ guest' \in Guests
           /\ gate_sent' \in Held \union {-1}
           /\ onChange => gate_sent' \in {-1, guest'.pushed}
<1>1. movie[n] \in Held
  BY DEF TypeOK
<1>2. CASE onChange /\ gate_sent = movie[n]
  <2>1. guest.pushed = movie[n]
    BY <1>1, <1>2 DEF RecordHolds, Held
  <2>2. Told(guest, movie[n]) = guest
    BY <2>1 DEF Told
  <2> QED
    BY <1>2, <2>1, <2>2 DEF SetInputs, TypeOK
<1>3. CASE ~(onChange /\ gate_sent = movie[n])
  BY <1>1, <1>3, ToldType DEF SetInputs, TypeOK
<1> QED
  BY <1>2, <1>3

LEMMA StraightType ==
    ASSUME TypeOK, f < Frames
    PROVE  movie[f] \in Held /\ ToldStraight \in Guests /\ StraightFrame \in Guests
<1>1. movie[f] \in Held
  BY DEF TypeOK
<1>2. ToldStraight \in Guests
  BY <1>1, ToldType DEF TypeOK, ToldStraight
<1> QED
  BY <1>1, <1>2, RanType DEF StraightFrame, ToldStraight

LEMMA BuiltType == ASSUME NEW d \in BOOLEAN
                   PROVE  Built(d) \in Guests /\ Built(d).pushed = 0
BY GateAssumption DEF Built, Guests, Held

\* What options may be given keeps their types.
LEMMA OptionsType ==
    ASSUME Options
    PROVE  /\ movie' \in [0 .. Frames -> Held]
           /\ onChange' \in BOOLEAN /\ rerecord' \in BOOLEAN /\ render' \in BOOLEAN
           /\ rewindAt' \in -1 .. Frames - 1 /\ dumpFrame' \in Dumps
           /\ digestEvery' \in Every
<1>1. rerecord' \in BOOLEAN
  BY GateAssumption, Zenon DEF Options
<1> QED
  BY <1>1 DEF Options

LEMMA InitHolds == Init => IInv
<1> SUFFICES ASSUME Init PROVE IInv
  OBVIOUS
<1>1. rerecord \in BOOLEAN
  BY GateAssumption, Zenon DEF Init
<1>2. /\ seen \in BOOLEAN /\ digested \in BOOLEAN /\ drawn \in BOOLEAN
      /\ (drawn => seen) /\ digested
  BY Zenon DEF Init
<1>3. guest \in Guests /\ straight \in Guests /\ guest.pushed = 0
  BY BuiltType DEF Init
<1>a. /\ movie \in [0 .. Frames -> Held] /\ onChange \in BOOLEAN /\ render \in BOOLEAN
      /\ rewindAt \in -1 .. Frames - 1 /\ dumpFrame \in Dumps /\ digestEvery \in Every
  BY DEF Init
<1>b. f \in 0 .. Frames /\ gate_sent \in Held \union {-1} /\ process \in Nat
  BY GateAssumption DEF Init, Held
<1>4. TypeOK
  BY <1>1, <1>2, <1>3, <1>a, <1>b DEF Init, TypeOK, Ends
<1>5. Alike(guest, straight) /\ straight.draws /\ (drawn => render)
  BY <1>2 DEF Init, Alike, Built
<1>6. Together /\ Draws /\ RecordHolds
  BY <1>3, <1>5 DEF Init, Together, Draws, RecordHolds
<1> QED
  BY <1>2, <1>4, <1>6 DEF IInv

LEMMA StepHolds == (Sandbox \/ Plain) /\ IInv /\ [Next]_vars => IInv'
<1> SUFFICES ASSUME Sandbox \/ Plain, IInv, [Next]_vars PROVE IInv'
  OBVIOUS
<1>types. Frames \in Nat /\ f \in 0 .. Frames /\ TypeOK
  BY GateAssumption DEF IInv, TypeOK
<1>0. CASE Start \/ List \/ NoSuchButton \/ NotWritten
  <2>1. UNCHANGED <<options, f, guest, gate_sent, g_rewind, file, process, compared>>
    BY <1>0 DEF Start, List, NoSuchButton, NotWritten
  <2>2. \/ at = "start" /\ at' \in {"inputs", "done", "refused"}
        \/ at' = "refused"
    BY <1>0 DEF Start, List, NoSuchButton, NotWritten
  <2>3. TypeOK'
    BY <2>1, <2>2 DEF IInv, TypeOK, options, compared, Ends
  <2>4. Together'
    BY <2>1, <2>2 DEF IInv, Together, Alike, options, compared
  <2> QED
    BY <2>1, <2>2, <2>3, <2>4 DEF IInv, Draws, RecordHolds, options, compared, Ends
<1>1. CASE Inputs
  <2>1. f \in 0 .. Frames /\ f < Frames
    BY <1>1, <1>types DEF Inputs
  <2>2. RecordHolds /\ Alike(guest, straight)
    BY <1>1 DEF IInv, Inputs, Together, Ends
  <2>3. /\ guest' = Told(guest, movie[f]) /\ guest' \in Guests
        /\ gate_sent' \in Held \union {-1}
        /\ onChange => gate_sent' \in {-1, guest'.pushed}
    BY <1>1, <1>types, <2>1, <2>2, SetInputsTells DEF Inputs
  <2>4. Alike(guest', ToldStraight)
    BY <2>1, <2>2, <2>3, <1>types, StraightType, StaysAlike DEF TypeOK, ToldStraight
  <2>5. TypeOK'
    BY <1>1, <2>1, <2>3 DEF IInv, TypeOK, Inputs, options, compared
  <2> QED
    BY <1>1, <2>1, <2>3, <2>4, <2>5
       DEF IInv, Inputs, Together, Draws, RecordHolds, ToldStraight, Alike, options, compared
<1>2. CASE Frame
  <2>1. PreFrame(guest) = guest /\ f < Frames
    BY <1>2 DEF PreFrame, PutBack, Saved, IInv, Together, Frame, Plain
  <2>2. guest' \in Guests /\ guest'.pushed = guest.pushed
    BY <1>2, <1>types, <2>1, RanType DEF TypeOK, Frame
  <2>3. Alike(guest', StraightFrame)
    BY <1>2, <1>types, <2>1, StaysAlike, StraightType
       DEF IInv, TypeOK, Together, Frame, ToldStraight, StraightFrame, Held
  <2>4. TypeOK'
    BY <1>2, <2>2 DEF IInv, TypeOK, Frame, options, compared
  <2> QED
    BY <1>2, <2>1, <2>2, <2>3, <2>4
       DEF IInv, Frame, Together, Draws, RecordHolds, StraightFrame, Alike, options, compared, Ends
<1>3. CASE SetAside
  <2>0. Sandbox
    BY <1>3 DEF SetAside, Plain
  <2>1. f < Frames /\ f + 1 \in 0 .. Frames /\ RecordHolds
    BY <1>3, <1>types DEF IInv, SetAside, Together, Ends
  <2>2. Saved(guest) = guest /\ Alike(g_rewind', StraightFrame) /\ g_rewind' \in Guests
    BY <1>3, <2>0 DEF Saved, IInv, TypeOK, SetAside, Together
  <2>3. /\ guest' \in Guests /\ gate_sent' \in Held \union {-1}
        /\ onChange => gate_sent' \in {-1, guest'.pushed}
    BY <1>3, <1>types, <2>1, <2>2, SetInputsTells DEF SetAside
  <2>4. TypeOK'
    BY <1>3, <2>2, <2>3 DEF IInv, TypeOK, SetAside, options, compared
  <2> QED
    BY <1>3, <2>1, <2>2, <2>3, <2>4
       DEF IInv, SetAside, Together, Draws, RecordHolds, StraightFrame, Alike, options, compared, Ends
<1>4. CASE Interim
  <2>1. guest' \in Guests /\ guest'.pushed = guest.pushed
    BY <1>4, RanType DEF IInv, TypeOK, Interim
  <2>2. TypeOK'
    BY <1>4, <2>1 DEF IInv, TypeOK, Interim, options, compared
  <2> QED
    BY <1>4, <2>1, <2>2
       DEF IInv, Interim, Together, Draws, RecordHolds, StraightFrame, Alike, options, compared, Ends
<1>5. CASE Back
  <2>0. Sandbox
    BY <1>5 DEF Back, Plain
  <2>1. /\ guest' = g_rewind /\ guest' \in Guests /\ Saved(guest') = g_rewind
        /\ Alike(guest', StraightFrame)
    BY <1>5, <2>0 DEF IInv, Back, PutBack, Saved, Together
  <2>2. at' = "hash"
    BY <1>5, <2>1 DEF Back
  <2>3. TypeOK'
    BY <1>5, <2>1, <2>2 DEF IInv, TypeOK, Back, Forget, options, compared
  <2> QED
    BY <1>5, <2>1, <2>2, <2>3
       DEF IInv, Back, Forget, Together, Draws, RecordHolds, StraightFrame, Alike, options, compared, Ends
<1>6. CASE Hash
  <2>1. f < Frames /\ Alike(guest, StraightFrame) /\ StraightFrame \in Guests
    BY <1>6, <1>types, StraightType DEF IInv, Hash, Together
  <2>2. seen' \in BOOLEAN /\ digested' \in BOOLEAN /\ (drawn => seen') /\ digested'
    BY <1>6, <2>1 DEF IInv, TypeOK, Hash, Alike, Digests, DigestsOf, Synced
  <2>3. guest' \in Guests /\ guest'.pushed = guest.pushed /\ straight' \in Guests
    BY <1>6, <1>types, <2>1, SyncedType DEF TypeOK, Hash
  <2>4. Alike(guest', straight')
    BY <1>6, <1>types, <2>1, StaysAlike DEF TypeOK, Hash, Held
  <2>5. straight'.draws
    BY <1>6, <1>types, <2>1 DEF IInv, Draws, Hash, StraightFrame, Synced, Ran, Told, TypeOK, Guests
  <2>6. TypeOK'
    BY <1>6, <1>types, <2>1, <2>2, <2>3 DEF TypeOK, Hash, options
  <2> QED
    BY <1>6, <2>2, <2>3, <2>4, <2>5, <2>6
       DEF IInv, Hash, Together, Draws, RecordHolds, Alike, options, Ends
<1>7. CASE End
  <2>1. Alike(guest, straight) /\ guest \in Guests
    BY <1>7 DEF IInv, TypeOK, End, Over, Together
  <2>2. PICK dumped \in BOOLEAN :
          LET g == IF dumped THEN Synced(guest) ELSE guest
          IN  /\ digested' = (digested /\ (dumped \/ Digests(g) = DigestsOf(straight)))
              /\ guest' = Synced(g)
    BY <1>7 DEF End
  <2>3. guest' \in Guests
    BY <2>1, <2>2, SyncedType
  <2>4. Digests(guest) = DigestsOf(straight)
    BY <2>1 DEF Digests, DigestsOf, Synced, Alike, Guests
  <2>5. digested' /\ digested' \in BOOLEAN
    BY <2>2, <2>4 DEF IInv
  <2>6. TypeOK'
    BY <1>7, <2>1, <2>3, <2>5 DEF IInv, TypeOK, End, options, Ends
  <2>7. file' \in {guest, None}
    BY <1>7 DEF End
  <2> QED
    BY <1>7, <2>1, <2>5, <2>6, <2>7 DEF IInv, End, Together, Draws, Alike, options, Ends
<1>11. CASE MemoriesWrong
  <2>1. guest \in Guests /\ file' \in {guest, None} /\ at' = "refused"
    BY <1>11 DEF IInv, TypeOK, MemoriesWrong
  <2>2. TypeOK'
    BY <1>11, <2>1 DEF IInv, TypeOK, MemoriesWrong, options, compared, Ends
  <2> QED
    BY <1>11, <2>1, <2>2 DEF IInv, MemoriesWrong, Together, Draws, Alike, options, compared, Ends
<1>8. CASE StateIn
  <2>0. Sandbox
    BY <1>8 DEF StateIn, Plain
  <2>1. guest' = file /\ file \in Guests /\ Alike(file, straight) /\ (drawn' => drawn /\ render')
    BY <1>8, <2>0 DEF IInv, StateIn, PutBack, Together
  <2>2. Alike(guest, straight)'
    BY <1>8, <2>1 DEF StateIn, Alike
  <2>3. drawn' \in BOOLEAN
    BY <1>8, OptionsType DEF StateIn, IInv, TypeOK
  <2>4. TypeOK'
    BY <1>8, <2>1, <2>3, <1>types, OptionsType DEF TypeOK, StateIn, Forget, Ends
  <2> QED
    BY <1>8, <2>1, <2>2, <2>4 DEF IInv, StateIn, Forget, Together, Draws, RecordHolds, Alike
<1>9. CASE NoState
  <2>1. guest' \in Guests
    BY <1>9, <1>types, BuiltType DEF TypeOK, NoState
  <2>2. TypeOK'
    BY <1>9, <2>1, <1>types DEF TypeOK, NoState, Ends, Held, options, compared
  <2> QED
    BY <1>9, <2>2 DEF IInv, NoState, Together, Draws, Alike, Ends, options, compared
<1>10. CASE UNCHANGED vars
  BY <1>10 DEF IInv, TypeOK, Together, Draws, RecordHolds, ToldStraight, StraightFrame, Alike,
               vars, options, compared
<1> QED
  BY <1>0, <1>1, <1>2, <1>3, <1>4, <1>5, <1>6, <1>7, <1>8, <1>9, <1>10, <1>11
     DEF Next, Run

\* Of every machine the sandbox runs, for every movie and whatever states are
\* taken and put back on the way, the gate hashes the pictures of the straight
\* run, when it was to draw in every process.
THEOREM SamePictures == ASSUME Sandbox PROVE Spec => []PicturesMatch
<1>1. IInv /\ [Next]_vars => IInv'
  BY StepHolds
<1>2. IInv => PicturesMatch
  BY DEF IInv, PicturesMatch
<1> QED
  BY InitHolds, <1>1, <1>2, PTL DEF Spec

\* Its sound and lag, and its digests of memory and state whenever it makes
\* them, are the straight run's whether it draws or not.
THEOREM SameDigests == ASSUME Sandbox PROVE Spec => []DigestsMatch
<1>1. IInv /\ [Next]_vars => IInv'
  BY StepHolds
<1>2. IInv => DigestsMatch
  BY DEF IInv, DigestsMatch
<1> QED
  BY InitHolds, <1>1, <1>2, PTL DEF Spec

\* And the machine itself, with what it pressed on its own and what it would
\* take for news, is the straight run's after every frame.
THEOREM SameMachine == ASSUME Sandbox PROVE Spec => []MachinesMatch
<1>1. IInv /\ [Next]_vars => IInv'
  BY StepHolds
<1>2. IInv => MachinesMatch
  BY DEF IInv, Together, Alike, MachinesMatch
<1> QED
  BY InitHolds, <1>1, <1>2, PTL DEF Spec

-----------------------------------------------------------------------------
(* The two runners.                                                            *)

LEMMA PlainStays == ~Sandbox /\ Plain /\ f \in Nat /\ [Next]_vars => Plain'
<1> SUFFICES ASSUME ~Sandbox, Plain, f \in Nat, [Next]_vars PROVE Plain'
  OBVIOUS
<1>1. CASE Start \/ List \/ NoSuchButton \/ Inputs \/ NotWritten
  BY <1>1 DEF Start, List, NoSuchButton, Inputs, NotWritten, Plain, options
<1>2. CASE Frame
  BY <1>2 DEF Frame, Plain, options
<1>3. CASE SetAside \/ Interim \/ Back
  BY <1>3 DEF SetAside, Interim, Back, Plain
<1>4. CASE Hash \/ End \/ MemoriesWrong
  BY <1>4 DEF Hash, End, MemoriesWrong, Plain, options
<1>5. CASE StateIn \/ NoState
  BY <1>5 DEF StateIn, NoState, Plain
<1>6. CASE UNCHANGED vars
  BY <1>6 DEF vars, options, Plain
<1> QED
  BY <1>1, <1>2, <1>3, <1>4, <1>5, <1>6 DEF Next, Run

\* What is so of the native runner: it has no file of a state to go on from.
Native == file = None /\ rerecord = FALSE /\ (rewindAt = -1 => Plain /\ IInv)

LEMMA NativeStays == ~Sandbox /\ Native /\ [Next]_vars => Native'
<1> SUFFICES ASSUME ~Sandbox, Native, [Next]_vars PROVE Native'
  OBVIOUS
<1>1. UNCHANGED options /\ file' = None
  BY DEF Native, Next, Run, Start, List, NoSuchButton, Inputs, Frame, SetAside, Interim, Back, Hash, End,
         NotWritten, MemoriesWrong, StateIn, NoState, vars
<1>2. CASE rewindAt = -1
  <2>1. Plain /\ IInv /\ f \in Nat
    BY <1>2, GateAssumption DEF Native, IInv, TypeOK
  <2> QED BY <1>1, <2>1, PlainStays, StepHolds DEF Native, options
<1> QED BY <1>1, <1>2 DEF Native, options

\* The run the others are compared with may be the native runner's: unless it
\* is asked to rewind, its pictures, its sound, its digests and its machine are
\* the straight run's too, pushed on change or not, drawn or not, with whatever
\* digests in mid-run and dumps.
THEOREM ReferenceIsStraight ==
    ASSUME ~Sandbox PROVE Spec => [](rewindAt = -1 => PicturesMatch /\ DigestsMatch /\ MachinesMatch)
<1>1. Init => Native
  <2> SUFFICES ASSUME Init PROVE Native
    OBVIOUS
  <2>1. rerecord = FALSE
    BY GateAssumption, Zenon DEF Init
  <2>2. file = None /\ at = "start" /\ IInv
    BY InitHolds DEF Init
  <2>3. at \notin {"rewind", "interim", "back"}
    BY <2>2
  <2> QED BY <2>1, <2>2, <2>3, Zenon DEF Native, Plain
<1>2. Native => (rewindAt = -1 => PicturesMatch /\ DigestsMatch /\ MachinesMatch)
  BY DEF Native, IInv, Together, Alike, PicturesMatch, DigestsMatch, MachinesMatch
<1> QED BY <1>1, <1>2, NativeStays, PTL DEF Spec

\* What types need, whatever the runner: the loop is within its frames, and what
\* is to be put back was set aside.
TypesInv ==
    /\ TypeOK
    /\ at \in {"frame", "rewind", "interim", "back", "hash"} => f < Frames
    /\ at \in {"interim", "back"} => g_rewind \in Guests
    /\ at # "broken" \/ Sandbox

LEMMA SavedType == ASSUME NEW g \in Guests
                   PROVE  Saved(g) \in Guests
BY SyncedType DEF Saved

LEMMA PutBackType == ASSUME NEW g \in Guests, NEW s \in Guests
                     PROVE  PutBack(g, s) \in Guests
BY DEF PutBack, Restored, Guests

LEMMA SetInputsType ==
    ASSUME TypeOK, NEW g \in Guests, NEW n \in 0 .. Frames, SetInputs(g, n)
    PROVE  guest' \in Guests /\ gate_sent' \in Held \union {-1}
<1>1. movie[n] \in Held
  BY DEF TypeOK
<1> QED BY <1>1, ToldType DEF SetInputs, TypeOK

LEMMA TypesStay == TypesInv /\ [Next]_vars => TypesInv'
<1> SUFFICES ASSUME TypesInv, [Next]_vars PROVE TypesInv'
  OBVIOUS
<1>types. Frames \in Nat /\ f \in 0 .. Frames /\ TypeOK /\ guest \in Guests
  BY GateAssumption DEF TypesInv, TypeOK
<1>0. CASE Start \/ List \/ NoSuchButton \/ NotWritten
  <2>1. UNCHANGED <<options, f, guest, gate_sent, g_rewind, file, process, compared>>
    BY <1>0 DEF Start, List, NoSuchButton, NotWritten
  <2>2. at' \in {"inputs", "done", "refused"}
    BY <1>0 DEF Start, List, NoSuchButton, NotWritten
  <2> QED BY <2>1, <2>2 DEF TypesInv, TypeOK, options, compared, Ends
<1>1. CASE Inputs
  <2>1. f < Frames /\ guest' \in Guests /\ gate_sent' \in Held \union {-1}
    BY <1>1, <1>types, SetInputsType DEF Inputs
  <2> QED BY <1>1, <2>1 DEF TypesInv, TypeOK, Inputs, options, compared
<1>2. CASE Frame
  <2>1. guest' \in Guests
    BY <1>2, <1>types, SavedType, PutBackType, RanType DEF Frame, PreFrame
  <2> QED BY <1>2, <2>1 DEF TypesInv, TypeOK, Frame, options, compared
<1>3. CASE SetAside
  <2>1. f + 1 \in 0 .. Frames
    BY <1>3, <1>types DEF TypesInv, SetAside
  <2>2. guest' \in Guests /\ gate_sent' \in Held \union {-1} /\ g_rewind' \in Guests
    BY <1>3, <1>types, <2>1, SavedType, SetInputsType DEF SetAside
  <2> QED BY <1>3, <2>2 DEF TypesInv, TypeOK, SetAside, options, compared
<1>4. CASE Interim
  <2>1. guest' \in Guests
    BY <1>4, <1>types, RanType DEF Interim
  <2> QED BY <1>4, <2>1 DEF TypesInv, TypeOK, Interim, options, compared
<1>5. CASE Back
  <2>1. guest' \in Guests
    BY <1>5, <1>types, PutBackType DEF TypesInv, Back
  <2> QED BY <1>5, <2>1 DEF TypesInv, TypeOK, Back, Forget, options, compared, Ends
<1>6. CASE Hash
  <2>1. f < Frames /\ StraightFrame \in Guests
    BY <1>6, <1>types, StraightType DEF TypesInv, Hash
  <2>2. guest' \in Guests /\ straight' \in Guests
    BY <1>6, <1>types, <2>1, SyncedType DEF Hash
  <2>3. seen' \in BOOLEAN /\ digested' \in BOOLEAN
    BY <1>6, <1>types DEF TypeOK, Hash
  <2> QED BY <1>6, <1>types, <2>1, <2>2, <2>3 DEF TypesInv, TypeOK, Hash, options
<1>7. CASE End
  <2>1. PICK dumped \in BOOLEAN :
          LET g == IF dumped THEN Synced(guest) ELSE guest
          IN  /\ digested' = (digested /\ (dumped \/ Digests(g) = DigestsOf(straight)))
              /\ guest' = Synced(g)
    BY <1>7 DEF End
  <2>2. guest' \in Guests
    BY <1>types, <2>1, SyncedType
  <2>3. digested' \in BOOLEAN
    BY <2>1, <1>types DEF TypeOK
  <2> QED BY <1>7, <1>types, <2>2, <2>3 DEF TypesInv, TypeOK, End, options, Ends
<1>11. CASE MemoriesWrong
  <2>1. file' \in {guest, None}
    BY <1>11 DEF MemoriesWrong
  <2> QED BY <1>11, <1>types, <2>1 DEF TypesInv, TypeOK, MemoriesWrong, options, compared, Ends
<1>8. CASE StateIn
  <2>1. guest' \in Guests
    BY <1>8, <1>types, OptionsType, BuiltType, PutBackType DEF StateIn, TypeOK
  <2>2. drawn' \in BOOLEAN
    BY <1>8, <1>types, OptionsType DEF StateIn, TypeOK
  <2> QED BY <1>8, <1>types, <2>1, <2>2, OptionsType DEF TypesInv, TypeOK, StateIn, Forget
<1>9. CASE NoState
  <2>1. guest' \in Guests
    BY <1>9, <1>types, BuiltType DEF TypeOK, NoState
  <2> QED BY <1>9, <2>1, <1>types DEF TypesInv, TypeOK, NoState, Ends, Held, options, compared
<1>10. CASE UNCHANGED vars
  BY <1>10 DEF TypesInv, TypeOK, vars, options, compared
<1> QED
  BY <1>0, <1>1, <1>2, <1>3, <1>4, <1>5, <1>6, <1>7, <1>8, <1>9, <1>10, <1>11
     DEF Next, Run

\* Every variable keeps its type, with either runner and every option.
THEOREM TypesHold == Spec => []TypeOK
<1>1. Init => TypesInv
  BY InitHolds DEF Init, IInv, Together, TypesInv
<1>2. TypesInv => TypeOK
  BY DEF TypesInv
<1> QED BY <1>1, <1>2, TypesStay, PTL DEF Spec

\* No state that is put back is another than was taken: the sandbox runner's own
\* comparison of the two never ends a run, and the native one makes none.
THEOREM NeverBroken == Spec => [](at # "broken")
<1>1. CASE Sandbox
  <2>1. IInv /\ [Next]_vars => IInv'
    BY <1>1, StepHolds
  <2>2. IInv => at # "broken"
    BY DEF IInv, Together
  <2> QED BY InitHolds, <2>1, <2>2, PTL DEF Spec
<1>2. CASE ~Sandbox
  <2>1. Init => TypesInv
    BY InitHolds DEF Init, IInv, Together, TypesInv
  <2>2. TypesInv => at # "broken"
    BY <1>2 DEF TypesInv
  <2> QED BY <2>1, <2>2, TypesStay, PTL DEF Spec
<1> QED BY <1>1, <1>2

-----------------------------------------------------------------------------
(* How far a run is from its end.                                              *)

\* How many steps at the most are left of the frame the loop is in,
StepsLeft(where) ==
    CASE where = "start" -> 7 [] where = "inputs" -> 6 [] where = "frame" -> 5 [] where = "rewind" -> 4
      [] where = "interim" -> 3 [] where = "back" -> 2 [] where \in {"hash", "over"} -> 1 [] OTHER -> 0

\* and of the run.
Left == 7 * (Frames - f) + StepsLeft(at)

LEMMA StepsLeftAre ==
    /\ StepsLeft("start") = 7 /\ StepsLeft("inputs") = 6 /\ StepsLeft("frame") = 5 /\ StepsLeft("rewind") = 4
    /\ StepsLeft("interim") = 3 /\ StepsLeft("back") = 2 /\ StepsLeft("hash") = 1 /\ StepsLeft("over") = 1
    /\ StepsLeft("done") = 0 /\ StepsLeft("refused") = 0 /\ StepsLeft("broken") = 0
BY DEF StepsLeft

LEMMA RunGoesOn == TypesInv /\ Run => Left' \in Nat /\ Left' < Left
<1> SUFFICES ASSUME TypesInv, Run PROVE Left' \in Nat /\ Left' < Left
  OBVIOUS
<1>1. Frames \in Nat /\ f \in 0 .. Frames
  BY GateAssumption DEF TypesInv, TypeOK
<1>2. ASSUME NEW a \in Nat, NEW b \in Nat, StepsLeft(at) = a, StepsLeft(at') = b, f' = f, b < a
      PROVE  Left' \in Nat /\ Left' < Left
  <2>1. Left = 7 * (Frames - f) + a /\ Left' = 7 * (Frames - f) + b
    BY <1>2 DEF Left
  <2> QED BY <1>1, <1>2, <2>1
<1>3. CASE Start \/ List \/ NoSuchButton
  <2>1. at = "start" /\ at' \in {"inputs", "done", "refused"} /\ f' = f
    BY <1>3 DEF Start, List, NoSuchButton
  <2> QED BY <1>2, <2>1, StepsLeftAre
<1>4. CASE Inputs
  <2>1. at = "inputs" /\ at' = "frame" /\ f' = f
    BY <1>4 DEF Inputs
  <2> QED BY <1>2, <2>1, StepsLeftAre
<1>5. CASE Frame
  <2>1. at = "frame" /\ at' \in {"rewind", "hash"} /\ f' = f
    BY <1>5 DEF Frame
  <2> QED BY <1>2, <2>1, StepsLeftAre
<1>6. CASE SetAside
  <2>1. at = "rewind" /\ at' = "interim" /\ f' = f
    BY <1>6 DEF SetAside
  <2> QED BY <1>2, <2>1, StepsLeftAre
<1>7. CASE Interim
  <2>1. at = "interim" /\ at' = "back" /\ f' = f
    BY <1>7 DEF Interim
  <2> QED BY <1>2, <2>1, StepsLeftAre
<1>8. CASE Back
  <2>1. at = "back" /\ at' \in {"broken", "hash"} /\ f' = f
    BY <1>8 DEF Back
  <2> QED BY <1>2, <2>1, StepsLeftAre
<1>9. CASE Hash
  <2>1. at = "hash" /\ at' \in {"over", "inputs"} /\ f' = f + 1 /\ f < Frames
    BY <1>9 DEF Hash, TypesInv
  <2>2. StepsLeft(at) = 1 /\ StepsLeft(at') \in {1, 6}
    BY <2>1, StepsLeftAre
  <2>3. Left = 7 * (Frames - f) + 1 /\ Left' = 7 * (Frames - (f + 1)) + StepsLeft(at')
    BY <2>1, <2>2 DEF Left
  <2> QED BY <1>1, <2>1, <2>2, <2>3
<1>10. CASE End \/ NotWritten \/ MemoriesWrong
  <2>1. at \in {"over", "inputs"} /\ at' \in {"done", "refused"} /\ f' = f
    BY <1>10 DEF End, NotWritten, MemoriesWrong, Over
  <2> QED BY <1>2, <2>1, StepsLeftAre
<1> QED BY <1>3, <1>4, <1>5, <1>6, <1>7, <1>8, <1>9, <1>10 DEF Run

\* Whatever gate_run() does by itself brings it nearer its end: it cannot go
\* round for ever. What RunEnds needs besides is that it can always go on.
THEOREM RunComesCloser == Spec => [][Run => Left' \in Nat /\ Left' < Left]_vars
<1>1. Init => TypesInv
  BY InitHolds DEF Init, IInv, Together, TypesInv
<1>2. TypesInv /\ [Next]_vars => [Run => Left' \in Nat /\ Left' < Left]_vars
  BY RunGoesOn
<1> QED BY <1>1, <1>2, TypesStay, PTL DEF Spec
=============================================================================
