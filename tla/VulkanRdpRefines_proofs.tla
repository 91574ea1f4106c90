------------------------ MODULE VulkanRdpRefines_proofs ------------------------
(* That the Vulkan object, its kept state and its rebuilding implement the one *)
(* processor that simply goes on (RdpMachine), for every game and every        *)
(* sequence of states taken and put back.                                      *)
EXTENDS VulkanRdp_proofs

\* RdpMachine's processor is this module's.
LEMMA SameProcessor ==
    /\ Machine!Processors = Processors
    /\ Machine!FreshProcessor = FreshProcessor
    /\ Machine!Units = Units
    /\ Machine!Draws = Draws
    /\ \A p, m : Machine!View(p, m) = View(p, m)
    /\ \A p : Machine!Landed(p) = Landed(p)
    /\ \A p, m : Machine!Scanned(p, m) = Scanned(p, m)
    /\ \A p, q, m, u : Machine!Fed(p, q, m, u) = Fed(p, q, m, u)
    /\ \A q, u : Machine!PartAfter(q, u) = PartAfter(q, u)
    /\ \A p, q, m, u : Machine!RamAfter(p, q, m, u) = RamAfter(p, q, m, u)
  <1>1. \A p, m : Machine!View(p, m) = View(p, m)
    BY DEF View, Machine!View
  <1>2. \A p : Machine!Landed(p) = Landed(p)
    BY DEF Landed, Machine!Landed
  <1>3. \A p, m, u : Machine!Draw(p, m, u) = Draw(p, m, u)
    BY <1>1 DEF Draw, Machine!Draw
  <1>4. \A p, m, u : Machine!Obey(p, m, u) = Obey(p, m, u)
    BY <1>1, <1>2 DEF Obey, Machine!Obey
  <1>5. \A p, q, m, u : Machine!Fed(p, q, m, u) = Fed(p, q, m, u)
    BY <1>3, <1>4 DEF Fed, Machine!Fed
  <1>6. \A p, m : Machine!Scanned(p, m) = Scanned(p, m)
    BY <1>1 DEF Scanned, Machine!Scanned
  <1>7. /\ \A q, u : Machine!PartAfter(q, u) = PartAfter(q, u)
        /\ \A p, q, m, u : Machine!RamAfter(p, q, m, u) = RamAfter(p, q, m, u)
    BY <1>1 DEF PartAfter, Machine!PartAfter, RamAfter, Machine!RamAfter
  <1>8. /\ Machine!Processors = Processors
        /\ Machine!FreshProcessor = FreshProcessor
        /\ Machine!Units = Units
        /\ Machine!Draws = Draws
    BY DEF Machine!Processors, Processors, Machine!Noise, Noise, Machine!FreshProcessor,
       FreshProcessor, Machine!Units, Units, Machine!Draws, Draws
  <1>9. QED
    BY <1>1, <1>2, <1>5, <1>6, <1>7, <1>8

\* Whenever a state may be taken, what is kept then makes the processor there is.
LEMMA ReadBackRestores ==
    ASSUME Inv, ~running, impl # None
    PROVE  Restored(ReadBack) = Effective
  <1>1. CASE NeedsRebuild
    BY <1>1 DEF ReadBack, NothingToRead, Effective
  <1>2. CASE ~NeedsRebuild
    <2>1. ReadBack = [kept EXCEPT !.valid = TRUE, !.tmem = device.tmem,
                                  !.hidden = device.hidden, !.noise = device.noise,
                                  !.history = device.history]
      BY <1>2 DEF ReadBack, NothingToRead
    <2>2. kept \in Kepts /\ device \in Processors
      BY DEF Inv, TypeOK
    <2>3. /\ ReadBack.valid /\ ReadBack.tmem = device.tmem /\ ReadBack.hidden = device.hidden
          /\ ReadBack.noise = device.noise /\ ReadBack.history = device.history
      BY <2>1, <2>2 DEF Kepts
    <2>4. /\ Restored(ReadBack).state = device.state /\ Restored(ReadBack).tile = device.tile
          /\ Restored(ReadBack).size = device.size /\ Restored(ReadBack).vi = device.vi
          /\ Restored(ReadBack).pending = device.pending
          /\ Restored(ReadBack) \in Processors
      BY <1>2, ReadBackIsKept, RestoredIsKept DEF Inv, KeptIsSent, SameRegisters, Landing
    <2>5. /\ Restored(ReadBack).tmem = device.tmem
          /\ Restored(ReadBack).hidden = device.hidden
          /\ Restored(ReadBack).noise = device.noise
          /\ Restored(ReadBack).history = device.history
      BY <2>3 DEF Restored
    <2>6. Restored(ReadBack) = device
      BY <2>2, <2>4, <2>5 DEF Processors
    <2>7. QED
      BY <1>2, <2>6 DEF Effective
  <1>3. QED
    BY <1>1, <1>2

\* Whenever a state may be taken, kept state and what is read back are all there is.
THEOREM ForgetsNothing == Spec => []NothingIsForgotten
  <1>1. Inv => NothingIsForgotten
    BY ReadBackRestores DEF NothingIsForgotten
  <1>2. QED
    BY <1>1, Invariance, PTL

\* What the CPU finds never depends on whether a state was taken.
THEOREM TakingIsQuiet == Spec => TakingDisturbsNothing
  <1>1. Inv /\ [Next]_vars =>
          [CaptureState \/ (\E s \in Slots : Save(s)) => UNCHANGED <<ram, device>>]_vars
    BY SavingIsQuiet DEF CaptureState, Save
  <1>2. QED
    BY <1>1, Invariance, PTL DEF Spec, TakingDisturbsNothing

-----------------------------------------------------------------------------
(* The steps *)

Promised == [s \in Slots |-> SavedMachine(states[s])]

LEMMA Unmoved ==
    ASSUME Effective' = Effective, Part' = Part, NeedsRebuild' <=> NeedsRebuild,
           UNCHANGED <<ram, running, Promised>>
    PROVE  UNCHANGED Machine!machineVars
  <1>1. NeedsRebuild' = NeedsRebuild
    BY DEF NeedsRebuild, Stale
  <1>2. QED
    BY <1>1, Zenon DEF Machine!machineVars, Promised

LEMMA EffectiveIsLive ==
    ASSUME Inv
    PROVE  /\ impl # None => Effective \in Processors
           /\ impl = None <=> Effective = Dead
           /\ impl = None => Part = None /\ ~NeedsRebuild
  BY RestoredIsKept, Assumptions DEF Effective, Part, NeedsRebuild, Inv, TypeOK

\* A processor checked with what is kept now is the one there is, or is lost; and
\* only one still to be made again can be lost.
LEMMA CheckedIsEffective ==
    ASSUME Inv, NEW made \in Makes
    PROVE  LET v == Checked(kept, made) IN
           /\ InUse(kept, v)
           /\ v.impl # None => v.device = Effective /\ v.impl.part = Part /\ impl # None
           /\ v.impl = None /\ impl # None => NeedsRebuild
           /\ v.impl = None /\ impl = None => v.kept = kept /\ v.device = device
  <1> DEFINE v == Checked(kept, made)
  <1>1. kept \in Kepts
    BY DEF Inv, TypeOK
  <1>2. InUse(kept, v)
    BY <1>1, CheckedIsInUse
  <1>3. QED
    BY <1>2 DEF InUse, Effective, Part, NeedsRebuild

LEMMA RenderSteps ==
    ASSUME Inv, Inv', NEW u \in Units, Render(u)
    PROVE  Machine!Next \/ UNCHANGED Machine!machineVars
  <1>1. PICK made \in Makes :
          LET v == Checked(kept, made) IN
          /\ enable' = v.enable
          /\ crossed' = Uses(v)
          /\ IF v.impl = None
             THEN kept' = v.kept /\ impl' = None /\ device' = v.device /\ ram' = ram
             ELSE /\ kept' = Keep(v.kept, v.impl.part, u)
                  /\ impl' = [v.impl EXCEPT !.part = PartAfter(@, u)]
                  /\ device' = Fed(v.device, v.impl.part, ram, u)
                  /\ ram' = RamAfter(v.device, v.impl.part, ram, u)
    BY DEF Render
  <1> DEFINE v == Checked(kept, made)
  <1>2. InUse(kept, v)
        /\ (v.impl # None => v.device = Effective /\ v.impl.part = Part /\ impl # None)
        /\ (v.impl = None /\ impl # None => NeedsRebuild)
    BY CheckedIsEffective
  <1>3. running /\ UNCHANGED <<context, states, running>>
    BY DEF Render, Working
  <1>4. UNCHANGED Promised
    BY <1>3 DEF Promised
  <1>5. CASE v.impl # None
    <2>1. v.impl \in Implementations /\ v.impl.context = context /\ ~v.kept.restorePending
          /\ v.kept \in Kepts
      BY <1>2, <1>5 DEF InUse
    <2>2. impl' = [v.impl EXCEPT !.part = PartAfter(Part, u)]
      BY <1>1, <1>2, <1>5
    <2>3. PartAfter(Part, u) \in Draws \union {None}
      BY DEF PartAfter, Units, Draws
    <2>4. /\ impl' \in Implementations /\ impl'.context = context
          /\ impl'.part = PartAfter(Part, u)
      BY <2>1, <2>2, <2>3 DEF Implementations
    <2>5. impl' # None
      BY <2>4, Assumptions
    <2>6. ~kept'.restorePending
      BY <1>1, <1>5, <2>1 DEF Keep, Kepts
    <2>7. ~NeedsRebuild'
      BY <1>3, <2>4, <2>6 DEF NeedsRebuild, Stale
    <2>8. Effective' = Fed(Effective, Part, ram, u) /\ Part' = PartAfter(Part, u)
          /\ ram' = RamAfter(Effective, Part, ram, u)
      BY <1>1, <1>2, <1>5, <2>4, <2>5, <2>7 DEF Effective, Part
    <2>9. Effective # Dead
      BY <1>2, <1>5, EffectiveIsLive
    <2>10. Machine!Feed(u)
      BY <1>3, <1>4, <2>7, <2>8, <2>9, SameProcessor
         DEF Machine!Feed, Machine!Lives, Promised
    <2>11. QED
      BY <2>10, SameProcessor DEF Machine!Next
  <1>6. CASE v.impl = None
    <2>1. impl' = None /\ ram' = ram
      BY <1>1, <1>6
    <2>2. Effective' = Dead /\ Part' = None /\ ~NeedsRebuild'
      BY <2>1 DEF Effective, Part, NeedsRebuild
    <2>3. CASE impl = None
      <3>1. Effective = Dead /\ Part = None /\ ~NeedsRebuild
        BY <2>3 DEF Effective, Part, NeedsRebuild
      <3>2. UNCHANGED Machine!machineVars
        BY <1>3, <1>4, <2>1, <2>2, <3>1, Unmoved
      <3>3. QED
        BY <3>2
    <2>4. CASE impl # None
      <3>1. NeedsRebuild /\ Effective # Dead
        BY <1>2, <1>6, <2>4, EffectiveIsLive
      <3>2. Machine!Feed(u)
        BY <1>3, <1>4, <2>1, <2>2, <3>1 DEF Machine!Feed, Machine!Lives, Promised
      <3>3. QED
        BY <3>2, SameProcessor DEF Machine!Next
    <2>5. QED
      BY <2>3, <2>4
  <1>7. QED
    BY <1>5, <1>6

\* A step that touches the processor alone, which becomes p unless it was lost.
LEMMA TouchSteps ==
    ASSUME Inv, running, UNCHANGED <<running, ram, states>>, NEW p,
           impl' # None => impl # None /\ Effective' = p /\ Part' = Part /\ ~NeedsRebuild',
           impl' = None /\ impl # None => NeedsRebuild
    PROVE  Machine!Touch(p) \/ UNCHANGED Machine!machineVars
  <1>1. UNCHANGED Promised
    BY DEF Promised
  <1>2. CASE impl' # None
    BY <1>1, <1>2, EffectiveIsLive DEF Machine!Touch, Machine!Lives, Promised
  <1>3. CASE impl' = None
    <2>1. Effective' = Dead /\ Part' = None /\ ~NeedsRebuild'
      BY <1>3 DEF Effective, Part, NeedsRebuild
    <2>2. CASE impl = None
      BY <1>1, <2>1, <2>2, EffectiveIsLive, Unmoved
    <2>3. CASE impl # None
      BY <1>1, <1>3, <2>1, <2>3, EffectiveIsLive DEF Machine!Touch, Machine!Lives, Promised
    <2>4. QED
      BY <2>2, <2>3
  <1>4. QED
    BY <1>2, <1>3

LEMMA WriteWordSteps ==
    ASSUME Inv, Inv', NEW r \in VIRegs, NEW x \in Values, WriteWord(r, x)
    PROVE  Machine!Next \/ UNCHANGED Machine!machineVars
  <1> DEFINE k == [kept EXCEPT !.vi[r] = x]
  <1>1. PICK made \in Makes :
          LET v == Checked(k, made) IN
          /\ enable' = v.enable /\ kept' = v.kept /\ impl' = v.impl
          /\ crossed' = Uses(v)
          /\ device' = IF v.impl = None THEN v.device ELSE [v.device EXCEPT !.vi[r] = x]
    BY DEF WriteWord
  <1> DEFINE v == Checked(k, made)
  <1>2. /\ kept \in Kepts /\ k \in Kepts /\ k.restorePending = kept.restorePending
        /\ k.vi = [kept.vi EXCEPT ![r] = x]
    BY DEF Inv, TypeOK, Kepts
  <1>3. InUse(k, v)
    BY <1>2, CheckedIsInUse
  <1>4. running /\ UNCHANGED <<context, states, running, ram>>
    BY DEF WriteWord, Working
  <1>5. v.impl = None /\ impl # None => NeedsRebuild
    BY <1>3 DEF InUse
  <1>6. ASSUME v.impl # None
        PROVE  impl # None /\ Effective' = [Effective EXCEPT !.vi[r] = x]
               /\ Part' = Part /\ ~NeedsRebuild'
    <2>1. impl # None /\ impl' # None /\ impl'.context = context /\ ~kept'.restorePending
          /\ impl'.part = impl.part /\ device' = [v.device EXCEPT !.vi[r] = x]
      BY <1>1, <1>3, <1>6 DEF InUse
    <2>2. ~NeedsRebuild'
      BY <1>4, <2>1 DEF NeedsRebuild, Stale
    <2>3. [v.device EXCEPT !.vi[r] = x] = [Effective EXCEPT !.vi[r] = x]
      <3>1. CASE NeedsRebuild
        <4>1. v.device = Restored(k) /\ Effective = Restored(kept)
          BY <1>3, <1>6, <2>1, <3>1 DEF InUse, Effective
        <4>2. /\ Restored(k).vi = [Restored(kept).vi EXCEPT ![r] = x]
              /\ [Restored(k).vi EXCEPT ![r] = x] = Restored(k).vi
          BY <1>2, RestoredIsKept DEF Kepts
        <4>3. [Restored(k) EXCEPT !.vi = Restored(k).vi]
                = [Restored(kept) EXCEPT !.vi = Restored(k).vi]
          BY DEF Restored, Kepts
        <4>4. [Restored(k) EXCEPT !.vi[r] = x] = [Restored(kept) EXCEPT !.vi[r] = x]
          BY <4>2, <4>3
        <4>5. QED
          BY <4>1, <4>4
      <3>2. CASE ~NeedsRebuild
        BY <1>3, <1>6, <2>1, <3>2 DEF InUse, Effective
      <3>3. QED
        BY <3>1, <3>2
    <2>4. QED
      BY <2>1, <2>2, <2>3 DEF Effective, Part
  <1>7. Machine!Touch([Effective EXCEPT !.vi[r] = x]) \/ UNCHANGED Machine!machineVars
    BY <1>1, <1>4, <1>5, <1>6, TouchSteps
  <1>8. QED
    BY <1>7 DEF Machine!Next, Machine!SetRegister

\* scanoutAsync and frame: the processor checked, then changed or not.
LEMMA PlainSteps ==
    ASSUME Inv, Inv', NEW made \in Makes, running,
           UNCHANGED <<running, ram, states, context>>, NEW p,
           kept' = Checked(kept, made).kept, impl' = Checked(kept, made).impl,
           Checked(kept, made).impl # None => device' = p
    PROVE  Machine!Touch(p) \/ UNCHANGED Machine!machineVars
  <1> DEFINE v == Checked(kept, made)
  <1>1. InUse(kept, v)
        /\ (v.impl # None => v.device = Effective /\ v.impl.part = Part /\ impl # None)
        /\ (v.impl = None /\ impl # None => NeedsRebuild)
    BY CheckedIsEffective
  <1>2. impl' # None => ~NeedsRebuild'
    BY <1>1 DEF InUse, NeedsRebuild, Stale
  <1>3. impl' # None => impl # None /\ Effective' = p /\ Part' = Part
    BY <1>1, <1>2 DEF Effective, Part
  <1>4. QED
    BY <1>1, <1>2, <1>3, TouchSteps

LEMMA ScanoutSteps ==
    ASSUME Inv, Inv', ScanoutAsync
    PROVE  Machine!Next \/ UNCHANGED Machine!machineVars
  <1>1. PICK made \in Makes :
          LET v == Checked(kept, made) IN
          /\ enable' = v.enable /\ kept' = v.kept /\ impl' = v.impl
          /\ crossed' = Uses(v)
          /\ device' = IF v.impl = None THEN v.device ELSE Scanned(v.device, ram)
    BY DEF ScanoutAsync
  <1>2. running /\ UNCHANGED <<context, states, running, ram>>
    BY DEF ScanoutAsync, Working
  <1>3. Checked(kept, made).impl # None => device' = Scanned(Effective, ram)
    BY <1>1, CheckedIsEffective
  <1>4. Machine!Touch(Scanned(Effective, ram)) \/ UNCHANGED Machine!machineVars
    BY <1>1, <1>2, <1>3, PlainSteps
  <1>5. QED
    BY <1>4, SameProcessor DEF Machine!Next, Machine!Scanout

LEMMA FrameSteps ==
    ASSUME Inv, Inv', Frame
    PROVE  Machine!Next \/ UNCHANGED Machine!machineVars
  <1>1. PICK made \in Makes :
          LET v == Checked(kept, made) IN
          /\ enable' = v.enable /\ kept' = v.kept /\ impl' = v.impl
          /\ crossed' = Uses(v)
          /\ device' = v.device
    BY DEF Frame
  <1>2. running /\ UNCHANGED <<context, states, running, ram>>
    BY DEF Frame, Working
  <1>3. Checked(kept, made).impl # None => device' = Effective
    BY <1>1, CheckedIsEffective
  <1>4. Machine!Touch(Effective) \/ UNCHANGED Machine!machineVars
    BY <1>1, <1>2, <1>3, PlainSteps
  <1>5. QED
    BY <1>4 DEF Machine!Next, Machine!BeginFrame

LEMMA IdleSteps ==
    ASSUME Inv, Inv', Idle
    PROVE  Machine!Next
  <1>1. PICK made \in Makes :
          LET v == Checked(kept, made) IN
          /\ enable' = v.enable /\ kept' = v.kept /\ impl' = v.impl
          /\ crossed' = Uses(v)
          /\ IF v.impl = None
             THEN device' = v.device /\ ram' = ram
             ELSE device' = Landed(v.device) /\ ram' = View(v.device, ram)
    BY DEF Idle
  <1> DEFINE v == Checked(kept, made)
  <1>2. InUse(kept, v)
        /\ (v.impl # None => v.device = Effective /\ v.impl.part = Part /\ impl # None)
        /\ (v.impl = None /\ impl # None => NeedsRebuild)
    BY CheckedIsEffective
  <1>3. running /\ ~running' /\ UNCHANGED <<context, states>> /\ running' \in BOOLEAN
    BY DEF Idle
  <1>4. UNCHANGED Promised /\ running' = FALSE
    BY <1>3 DEF Promised, Idle
  <1>5. CASE v.impl # None
    <2>1. impl' # None /\ ~NeedsRebuild'
      BY <1>1, <1>2, <1>3, <1>5 DEF InUse, NeedsRebuild, Stale
    <2>2. Effective' = Landed(Effective) /\ Part' = Part /\ ram' = View(Effective, ram)
      BY <1>1, <1>2, <1>5, <2>1 DEF Effective, Part
    <2>3. Machine!EndFrame
      BY <1>2, <1>3, <1>4, <1>5, <2>1, <2>2, EffectiveIsLive, SameProcessor
         DEF Machine!EndFrame, Machine!Lives, Promised
    <2>4. QED
      BY <2>3 DEF Machine!Next
  <1>6. CASE v.impl = None
    <2>1. impl' = None /\ ram' = ram
      BY <1>1, <1>6
    <2>2. Effective' = Dead /\ Part' = None /\ ~NeedsRebuild'
      BY <2>1 DEF Effective, Part, NeedsRebuild
    <2>3. CASE impl # None
      <3>1. Machine!EndFrame
        BY <1>2, <1>3, <1>4, <1>6, <2>1, <2>2, <2>3, EffectiveIsLive
           DEF Machine!EndFrame, Machine!Lives, Promised
      <3>2. QED
        BY <3>1 DEF Machine!Next
    <2>4. CASE impl = None
      <3>1. Effective = Dead /\ Part = None /\ ~NeedsRebuild
        BY <2>4, EffectiveIsLive
      <3>2. NeedsRebuild' = NeedsRebuild
        BY <2>2, <3>1 DEF NeedsRebuild, Stale
      <3>3. Machine!EndDeadFrame
        BY <1>3, <1>4, <2>1, <2>2, <3>1, <3>2, Zenon
           DEF Machine!EndDeadFrame, Machine!Lives, Promised
      <3>4. QED
        BY <3>3 DEF Machine!Next
    <2>5. QED
      BY <2>3, <2>4
  <1>7. QED
    BY <1>5, <1>6

LEMMA OutsideSteps ==
    ASSUME Inv, Inv', StartFrame \/ (\E m \in Memory : CpuWrite(m)) \/ CopyOut
    PROVE  Machine!Next
  <1>1. UNCHANGED <<kept, impl, context, states>>
    BY DEF StartFrame, CpuWrite, CopyOut, Working
  <1>2. UNCHANGED Promised /\ (NeedsRebuild' <=> NeedsRebuild) /\ Part' = Part
    BY <1>1 DEF Promised, NeedsRebuild, Stale, Part
  <1>3. NeedsRebuild' = NeedsRebuild
    BY <1>2 DEF NeedsRebuild, Stale
  <1>4. CASE StartFrame
    <2>1. UNCHANGED <<device, ram>> /\ ~running /\ running' = TRUE
      BY <1>4 DEF StartFrame
    <2>2. Effective' = Effective
      BY <1>1, <1>2, <2>1 DEF Effective
    <2>3. Machine!StartFrame
      BY <1>2, <1>3, <2>1, <2>2, Zenon DEF Machine!StartFrame, Promised
    <2>4. QED
      BY <2>3 DEF Machine!Next
  <1>5. CASE \E m \in Memory : CpuWrite(m)
    <2>1. PICK m \in Memory : CpuWrite(m)
      BY <1>5
    <2>2. UNCHANGED <<device, running>> /\ running /\ ram' = m
      BY <2>1 DEF CpuWrite, Working
    <2>3. Effective' = Effective
      BY <1>1, <1>2, <2>2 DEF Effective
    <2>4. Machine!CpuWrite(m)
      BY <1>2, <1>3, <2>2, <2>3, Zenon DEF Machine!CpuWrite, Promised
    <2>5. QED
      BY <2>4 DEF Machine!Next
  <1>6. CASE CopyOut
    <2>1. /\ impl # None /\ ~NeedsRebuild /\ running /\ UNCHANGED running
          /\ device.pending # None /\ ram' = device.pending /\ device' = Landed(device)
      BY <1>6 DEF CopyOut
    <2>2. Effective = device /\ Effective' = Landed(device) /\ Effective # Dead
      BY <1>1, <1>2, <2>1, EffectiveIsLive DEF Effective
    <2>3. Machine!Land
      BY <1>2, <1>3, <2>1, <2>2, SameProcessor DEF Machine!Land, Machine!Lives, Promised
    <2>4. QED
      BY <2>3 DEF Machine!Next
  <1>7. QED
    BY <1>4, <1>5, <1>6

LEMMA SavingSteps ==
    ASSUME Inv, Inv', StateSaving
    PROVE  Effective' = Effective /\ Part' = Part /\ NeedsRebuild' = NeedsRebuild
  <1>1. UNCHANGED <<device, impl, context>> /\ kept' = ReadBack
    BY SavingIsQuiet DEF StateSaving
  <1>2. kept'.restorePending = kept.restorePending
    BY <1>1, ReadBackIsKept
  <1>3. (NeedsRebuild' <=> NeedsRebuild) /\ Part' = Part
    BY <1>1, <1>2 DEF NeedsRebuild, Stale, Part
  <1>4. NeedsRebuild => kept' = kept
    BY <1>1 DEF ReadBack, NothingToRead
  <1>5. Effective' = Effective
    BY <1>1, <1>3, <1>4 DEF Effective
  <1>6. NeedsRebuild' = NeedsRebuild
    BY <1>3 DEF NeedsRebuild, Stale
  <1>7. QED
    BY <1>3, <1>5, <1>6

LEMMA SaveSteps ==
    ASSUME Inv, Inv', NEW s \in Slots, Save(s)
    PROVE  Machine!Next
  <1>1. StateSaving /\ ~running /\ UNCHANGED <<ram, running, impl>> /\ kept' = ReadBack
        /\ UNCHANGED enable
    BY SavingIsQuiet DEF Save, StateSaving
  <1>2. Effective' = Effective /\ Part' = Part /\ NeedsRebuild' = NeedsRebuild
    BY <1>1, SavingSteps
  <1>3. states' = [states EXCEPT ![s] = Taken]
    BY <1>1 DEF Save, Taken
  <1>4. Taken \in Snapshots
    BY ReadBackIsKept DEF Taken, Snapshots, Inv, TypeOK
  <1>5. Taken # Empty
    BY <1>4, Assumptions
  <1>6. SavedMachine(Taken) = [rdp |-> Effective, part |-> Part, ram |-> ram]
    <2>1. Taken.impl = impl /\ Taken.kept = ReadBack /\ Taken.ram = ram
      BY DEF Taken
    <2>2. CASE impl = None
      BY <1>5, <2>1, <2>2, EffectiveIsLive DEF SavedMachine
    <2>3. CASE impl # None
      BY <1>1, <1>5, <2>1, <2>3, ReadBackRestores DEF SavedMachine, Part
    <2>4. QED
      BY <2>2, <2>3
  <1>7. Promised' = [Promised EXCEPT ![s] = [rdp |-> Effective, part |-> Part, ram |-> ram]]
    BY <1>3, <1>6 DEF Promised, Inv, TypeOK
  <1>8. Machine!Save(s)
    BY <1>1, <1>2, <1>7, Zenon DEF Machine!Save, Promised
  <1>9. QED
    BY <1>8 DEF Machine!Next

LEMMA LoadSteps ==
    ASSUME Inv, Inv', NEW s \in Slots, Load(s), Bridge \/ ~CutsAtFrameEnd
    PROVE  Machine!Next
  <1> DEFINE snap == states[s]
  <1> DEFINE m == [rdp |-> IF snap.impl = None THEN Dead ELSE Restored(snap.kept),
                   part |-> IF snap.impl = None THEN None ELSE snap.impl.part,
                   ram |-> snap.ram]
  <1>1. /\ snap # Empty /\ snap \in Snapshots /\ snap.kept \in Kepts
        /\ snap.impl \in Implementations \union {None} /\ snap.ram \in Memory
        /\ ~running /\ UNCHANGED <<running, states>> /\ ram' = snap.ram
    BY DEF Load, Inv, TypeOK, Snapshots
  <1>2. Promised[s] = m
    BY <1>1 DEF Promised, SavedMachine
  <1>3. m \in [rdp : Processors \union {Dead}, part : Draws \union {None}, ram : Memory]
    BY <1>1, RestoredIsKept DEF Implementations
  <1>4. Promised[s] # Empty
    BY <1>2, <1>3, Assumptions
  <1>5. UNCHANGED Promised
    BY <1>1 DEF Promised
  <1>6. ASSUME impl' # None
        PROVE  Effective' = m.rdp /\ Part' = m.part /\ NeedsRebuild' /\ Effective' # Dead
    <2>1. CASE Bridge
      <3>1. kept' = snap.kept /\ impl' = snap.impl /\ context' = context + 1
        BY <2>1 DEF Load
      <3>2. impl'.context <= context /\ context \in Contexts /\ impl'.context \in Contexts
        BY <1>1, <1>6, <3>1 DEF Inv, TypeOK, ContextsGrow, Implementations
      <3>3. NeedsRebuild'
        BY <1>6, <2>1, <3>1, <3>2 DEF NeedsRebuild, Stale, Contexts
      <3>4. QED
        BY <1>1, <1>6, <3>1, <3>3, EffectiveIsLive, RestoredIsKept, Assumptions
           DEF Effective, Part
    <2>2. CASE ~Bridge
      <3>1. kept' = [snap.kept EXCEPT !.restorePending = TRUE] /\ impl' = impl
        BY <2>2 DEF Load
      <3>2. NeedsRebuild'
        BY <1>1, <1>6, <3>1 DEF NeedsRebuild, Kepts
      <3>3. snap.impl # None
        BY <1>1, <1>6, <2>2, <3>1 DEF DeathIsForGood, Inv
      <3>4. Part = None /\ snap.impl.part = None
        BY <1>1, <2>2, <3>3 DEF NoCut, Inv
      <3>5. Restored(kept') = Restored(snap.kept)
        BY <1>1, <3>1 DEF Restored, Kepts
      <3>6. QED
        BY <1>1, <1>6, <3>1, <3>2, <3>3, <3>4, <3>5, RestoredIsKept, Assumptions
           DEF Effective, Part
    <2>3. QED
      BY <2>1, <2>2
  <1>7. CASE impl' # None
    <2>1. Effective' = m.rdp /\ Part' = m.part /\ NeedsRebuild' /\ Effective' # Dead
      BY <1>6, <1>7
    <2>2. NeedsRebuild' = (Effective' # Dead)
      BY <2>1 DEF NeedsRebuild, Stale
    <2>3. Effective' = Promised[s].rdp /\ Part' = Promised[s].part /\ ram' = Promised[s].ram
      BY <1>1, <1>2, <2>1
    <2>4. Machine!Load(s)
      BY <1>1, <1>4, <1>5, <2>2, <2>3, Zenon DEF Machine!Load, Promised
    <2>5. QED
      BY <2>4 DEF Machine!Next
  <1>8. CASE impl' = None
    <2>1. Effective' = Dead /\ Part' = None /\ ~NeedsRebuild'
      BY <1>8 DEF Effective, Part, NeedsRebuild
    <2>2. NeedsRebuild' = (Effective' # Dead)
      BY <2>1 DEF NeedsRebuild, Stale
    <2>3. Machine!Load(s)
      BY <1>1, <1>2, <1>4, <1>5, <2>1, <2>2 DEF Machine!Load, Promised
    <2>4. QED
      BY <2>3 DEF Machine!Next
  <1>9. QED
    BY <1>7, <1>8

LEMMA InitSteps == Init => Machine!Init
  <1> SUFFICES ASSUME Init PROVE Machine!Init
    OBVIOUS
  <1>1. impl # None
    <2>1. impl \in Implementations
      BY Assumptions DEF Init, Implementations, Contexts
    <2>2. QED
      BY <2>1, Assumptions
  <1>2. ~NeedsRebuild
    BY DEF Init, NeedsRebuild, Stale, NothingKept
  <1>3. Effective = FreshProcessor /\ Part = None
    BY <1>1, <1>2 DEF Init, Effective, Part
  <1>4. \A s \in Slots : SavedMachine(states[s]) = Empty
    BY DEF Init, SavedMachine
  <1>5. NeedsRebuild = FALSE
    BY <1>2 DEF NeedsRebuild, Stale
  <1>6. QED
    BY <1>3, <1>4, <1>5, SameProcessor DEF Init, Machine!Init

\* Built for the sandbox, whatever a game does and whenever states are taken and
\* put back, the Nintendo 64 has the one processor that simply goes on. Natively
\* it has where no list is cut at a frame's end.
THEOREM GoesOn ==
    ASSUME Bridge \/ ~CutsAtFrameEnd
    PROVE  Spec => GoesOnWhereItWas
  <1>1. Inv /\ Inv' /\ [Next]_vars => [Machine!Next]_Machine!machineVars
    <2> SUFFICES ASSUME Inv, Inv', [Next]_vars
                 PROVE  Machine!Next \/ UNCHANGED Machine!machineVars
      OBVIOUS
    <2>1. CASE UNCHANGED vars
      <3>1. /\ Effective' = Effective /\ Part' = Part /\ (NeedsRebuild' <=> NeedsRebuild)
            /\ UNCHANGED <<ram, running, Promised>>
        BY <2>1 DEF vars, Effective, Part, NeedsRebuild, Stale, Promised
      <3>2. QED
        BY <3>1, Unmoved
    <2>2. CASE CaptureState
      <3>1. UNCHANGED <<ram, running, states>>
        BY <2>2, SavingIsQuiet DEF CaptureState
      <3>2. QED
        BY <2>2, <3>1, SavingSteps, Unmoved DEF CaptureState, Promised
    <2>3. CASE Next
      BY <2>2, <2>3, RenderSteps, WriteWordSteps, ScanoutSteps, FrameSteps, IdleSteps,
         OutsideSteps, SaveSteps, LoadSteps DEF Next
    <2>4. QED
      BY <2>1, <2>3
  <1>2. QED
    BY <1>1, InitSteps, Invariance, PTL DEF Spec, Machine!Spec, GoesOnWhereItWas

-----------------------------------------------------------------------------
(* A state put back and taken again *)

\* From a load until something runs, nothing is read back, and the machine is the
\* slot's: the invariant behind the byte-for-byte round trip.
JustLoaded ==
    fresh # None =>
        /\ fresh \in Slots /\ ~running /\ NothingToRead
        /\ states[fresh] \in Snapshots
        /\ Serialized(kept) = Serialized(states[fresh].kept)
        /\ ram = states[fresh].ram
        /\ Bridge => enable = states[fresh].enable /\ impl = states[fresh].impl

LEMMA JustLoadedStep == Inv /\ Inv' /\ JustLoaded /\ [Next]_vars => JustLoaded'
  <1> SUFFICES ASSUME Inv, Inv', JustLoaded, [Next]_vars PROVE JustLoaded'
    OBVIOUS
  <1>1. CASE UNCHANGED vars
    BY <1>1 DEF vars, JustLoaded, NothingToRead, NeedsRebuild, Stale
  <1>2. ASSUME NEW s \in Slots, Load(s) PROVE JustLoaded'
    <2>1. /\ fresh' = s /\ ~running /\ UNCHANGED <<running, states>>
          /\ states[s] \in Snapshots /\ states[s].kept \in Kepts /\ ram' = states[s].ram
      BY <1>2 DEF Load, Inv, TypeOK, Snapshots
    <2>2. Serialized(kept') = Serialized(states[s].kept)
      BY <1>2, <2>1 DEF Load, Serialized, Kepts
    <2>3. Bridge => enable' = states[s].enable /\ impl' = states[s].impl
      BY <1>2 DEF Load
    <2>4. NothingToRead'
      <3>1. CASE Bridge
        <4>1. impl' # None => impl'.context <= context /\ context' = context + 1
          BY <1>2, <2>1, <3>1 DEF Load, Inv, ContextsGrow
        <4>2. impl' # None => impl'.context \in Contexts /\ context \in Contexts
          BY DEF Inv, TypeOK, Implementations
        <4>3. QED
          BY <3>1, <4>1, <4>2 DEF NothingToRead, NeedsRebuild, Stale, Contexts
      <3>2. CASE ~Bridge
        BY <1>2, <2>1, <3>2 DEF Load, NothingToRead, NeedsRebuild, Kepts
      <3>3. QED
        BY <3>1, <3>2
    <2>5. QED
      BY <2>1, <2>2, <2>3, <2>4 DEF JustLoaded
  <1>3. ASSUME StateSaving, UNCHANGED fresh, fresh # None,
               \A s \in Slots : states'[s] = states[s] \/ states'[s] = Taken
        PROVE  JustLoaded'
    <2>1. UNCHANGED <<ram, device, enable, impl, context, running>>
      BY <1>3, SavingIsQuiet
    <2>2. kept' = kept /\ ReadBack = kept
      BY <1>3 DEF JustLoaded, StateSaving, ReadBack
    <2>3. NothingToRead'
      BY <1>3, <2>1, <2>2 DEF JustLoaded, NothingToRead, NeedsRebuild, Stale
    <2>4. Taken.kept = kept /\ Taken.ram = ram /\ Taken.enable = enable /\ Taken.impl = impl
      BY <2>2 DEF Taken
    <2>5. Taken \in Snapshots
      BY ReadBackIsKept DEF Taken, Snapshots, Inv, TypeOK
    <2>6. fresh \in Slots
      BY <1>3 DEF JustLoaded
    <2>7. CASE states'[fresh] = states[fresh]
      BY <1>3, <2>1, <2>2, <2>3, <2>7 DEF JustLoaded
    <2>8. CASE states'[fresh] = Taken
      BY <1>3, <2>1, <2>2, <2>3, <2>4, <2>5, <2>6, <2>8 DEF JustLoaded
    <2>9. QED
      BY <1>3, <2>6, <2>7, <2>8
  <1>4. ASSUME NEW s \in Slots, Save(s) PROVE JustLoaded'
    <2>1. UNCHANGED <<enable, impl, ram, fresh>> /\ kept' = ReadBack /\ StateSaving
      BY <1>4, SavingIsQuiet DEF Save, StateSaving
    <2>2. states' = [states EXCEPT ![s] = Taken]
      BY <1>4, <2>1 DEF Save, Taken
    <2>3. \A t \in Slots : states'[t] = states[t] \/ states'[t] = Taken
      BY <2>2 DEF Inv, TypeOK
    <2>4. QED
      BY <1>3, <2>1, <2>3 DEF JustLoaded
  <1>5. CASE CaptureState
    BY <1>3, <1>5 DEF CaptureState, JustLoaded
  <1>6. CASE CopyOut
    BY <1>6 DEF CopyOut, JustLoaded
  <1>7. ASSUME fresh' = None PROVE JustLoaded'
    BY <1>7 DEF JustLoaded
  <1>8. QED
    BY <1>1, <1>2, <1>4, <1>5, <1>6, <1>7
       DEF Next, StartFrame, ScanoutAsync, Frame, Idle, CpuWrite, Render, WriteWord, Working

\* A state put back and taken again before anything runs is the same state.
THEOREM RoundTrip == Spec => []SavedAgainIsTheSame
  <1>1. Init => JustLoaded
    BY DEF Init, JustLoaded
  <1>2. Inv /\ JustLoaded => SavedAgainIsTheSame
    BY DEF JustLoaded, SavedAgainIsTheSame, ReadBack
  <1>3. QED
    BY <1>1, <1>2, JustLoadedStep, Invariance, PTL DEF Spec

\* In the sandbox a load puts back the command a list's end had cut in two.
THEOREM CutComesBack ==
    ASSUME Bridge
    PROVE  Spec => []CutCommandComesBack
  <1>1. Init => JustLoaded
    BY DEF Init, JustLoaded
  <1>2. JustLoaded => CutCommandComesBack
    BY DEF JustLoaded, CutCommandComesBack
  <1>3. QED
    BY <1>1, <1>2, JustLoadedStep, Invariance, PTL DEF Spec
=============================================================================
