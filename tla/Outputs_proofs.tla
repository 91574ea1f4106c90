----------------------------- MODULE Outputs_proofs -----------------------------
(* What a frontend is given by a machine, its sound, its picture, its memory,  *)
(* its rate and its save, for any number of voices, any sizes and any rates,   *)
(* every chip and every disk. The components share nothing: each theorem is of *)
(* one component's own specification, and the last ones of their composition.  *)
EXTENDS Outputs, Lists_proofs

-----------------------------------------------------------------------------
(* The sums of functions.                                                      *)

\* SumFunction adds up in some order, the chosen element of what is left first.
Chosen(s) == CHOOSE x \in s : TRUE

SumUpTo(f, it, s) == IF s = {} THEN 0 ELSE f[Chosen(s)] + it[s \ {Chosen(s)}]

\* The partial sums of f over the subsets of T.
Sums(f, it, T) == it = [s \in SUBSET T |-> SumUpTo(f, it, s)]

LEMMA ChosenIsIn == ASSUME NEW s, s # {} PROVE Chosen(s) \in s
BY DEF Chosen

\* Two ways to sum agree wherever both do.
LEMMA SumsAgree ==
    ASSUME NEW D, IsFiniteSet(D), NEW f, NEW T \in SUBSET D, NEW U \in SUBSET D,
           NEW g, NEW h, Sums(f, g, T), Sums(f, h, U), NEW s \in SUBSET T, s \in SUBSET U
    PROVE  g[s] = h[s]
<1> DEFINE Wrong == {r \in SUBSET (T \cap U) : g[r] # h[r]}
<1> SUFFICES ASSUME Wrong # {} PROVE FALSE
  OBVIOUS
<1>1. PICK r \in Wrong : \A q \in Wrong : ~(q \subseteq r /\ q # r)
  <2>1. Wrong \subseteq SUBSET D
    OBVIOUS
  <2> HIDE DEF Wrong
  <2> QED BY <2>1, SmallestSet
<1>2. g[r] = SumUpTo(f, g, r) /\ h[r] = SumUpTo(f, h, r)
  BY DEF Sums
<1>3. r # {}
  BY <1>2 DEF SumUpTo
<1>4. Chosen(r) \in r
  BY <1>3, ChosenIsIn
<1>5. r \ {Chosen(r)} \notin Wrong
  BY <1>1, <1>4
<1>6. g[r \ {Chosen(r)}] = h[r \ {Chosen(r)}]
  BY <1>5
<1> QED BY <1>2, <1>6 DEF SumUpTo

LEMMA SumsExist ==
    ASSUME NEW D, IsFiniteSet(D), NEW f
    PROVE  \A T \in SUBSET D : \E it : Sums(f, it, T)
<1> DEFINE Without == {T \in SUBSET D : ~ \E it : Sums(f, it, T)}
           Of(s) == CHOOSE it : Sums(f, it, s)
<1> SUFFICES ASSUME Without # {} PROVE FALSE
  OBVIOUS
<1>1. PICK T \in Without : \A U \in Without : ~(U \subseteq T /\ U # T)
  <2>1. Without \subseteq SUBSET D
    OBVIOUS
  <2> HIDE DEF Without
  <2> QED BY <2>1, SmallestSet
<1>2. \A s \in SUBSET T : s # T => Sums(f, Of(s), s)
  <2> SUFFICES ASSUME NEW s \in SUBSET T, s # T PROVE Sums(f, Of(s), s)
    OBVIOUS
  <2>1. s \notin Without
    BY <1>1
  <2>2. \E it : Sums(f, it, s)
    BY <2>1
  <2> QED BY <2>2
<1> DEFINE Top == IF T = {} THEN 0 ELSE f[Chosen(T)] + Of(T \ {Chosen(T)})[T \ {Chosen(T)}]
           g == [s \in SUBSET T |-> IF s = T THEN Top ELSE Of(s)[s]]
<1> HIDE DEF Of
<1>3. ASSUME NEW s \in SUBSET T PROVE g[s] = SumUpTo(f, g, s)
  <2>1. CASE s = {} /\ s = T
    BY <2>1 DEF SumUpTo
  <2>2. CASE s = {} /\ s # T
    BY <1>2, <2>2 DEF SumUpTo, Sums
  <2>3. CASE s # {}
    <3> DEFINE r == s \ {Chosen(s)}
    <3>1. Chosen(s) \in s /\ r \in SUBSET T /\ r # T /\ r \in SUBSET s
      BY <2>3, ChosenIsIn
    <3>2. g[r] = Of(r)[r]
      BY <3>1
    <3>3. CASE s = T
      BY <2>3, <3>2, <3>3 DEF SumUpTo
    <3>4. CASE s # T
      <4>1. g[s] = Of(s)[s] /\ Sums(f, Of(s), s) /\ Sums(f, Of(r), r)
        BY <1>2, <3>1, <3>4
      <4>2. Of(s)[s] = f[Chosen(s)] + Of(s)[r]
        BY <2>3, <4>1 DEF Sums, SumUpTo
      <4>3. Of(s)[r] = Of(r)[r]
        BY <3>1, <4>1, SumsAgree
      <4> QED BY <2>3, <3>2, <4>1, <4>2, <4>3 DEF SumUpTo
    <3> QED BY <3>3, <3>4
  <2> QED BY <2>1, <2>2, <2>3
<1>4. Sums(f, g, T)
  BY <1>3 DEF Sums
<1> QED BY <1>1, <1>4

\* The sum of integers is one.
LEMMA SumType ==
    ASSUME NEW D, IsFiniteSet(D), NEW f \in [D -> Int]
    PROVE  SumFunction(f) \in Int
<1> DEFINE it == CHOOSE it : Sums(f, it, D)
           Wrong == {s \in SUBSET D : it[s] \notin Int}
<1>1. SumFunction(f) = it[D]
  BY DEF SumFunction, SumFunctionOnSet, FoldFunctionOnSet, MapThenFoldSet, Sums, SumUpTo, Chosen
<1>2. Sums(f, it, D)
  BY SumsExist
<1> HIDE DEF it
<1> SUFFICES ASSUME Wrong # {} PROVE FALSE
  BY <1>1
<1>3. PICK s \in Wrong : \A U \in Wrong : ~(U \subseteq s /\ U # s)
  <2>1. Wrong \subseteq SUBSET D
    OBVIOUS
  <2> HIDE DEF Wrong
  <2> QED BY <2>1, SmallestSet
<1>4. it[s] = SumUpTo(f, it, s)
  BY <1>2 DEF Sums
<1>5. s # {}
  BY <1>4 DEF SumUpTo
<1>6. Chosen(s) \in s
  BY <1>5, ChosenIsIn
<1>7. it[s \ {Chosen(s)}] \in Int /\ f[Chosen(s)] \in Int
  BY <1>3, <1>6
<1> QED BY <1>4, <1>7 DEF SumUpTo

-----------------------------------------------------------------------------
(* The sound.                                                                  *)

\* What the frame has of the voices, as the host reads it.
Together ==
    \A s \in g_streams :
        /\ Len(g_audio) = Min({MaxSamplesPerFrame, taken[s] - earlier})
        /\ \A i \in 1 .. Len(g_audio) :
              g_audio[i] = [left |-> Loudness(earlier + i, "left"), right |-> Loudness(earlier + i, "right")]

\* The inductive invariant: the voices' queues have their types and are empty
\* before the machine is built; every voice was read as far as the slowest has
\* written, the frame began before that, and it is the voices mixed.
AudioInv ==
    /\ g_streams \subseteq Streams
    /\ powered \in BOOLEAN
    /\ written = [s \in Streams |-> written[s]]
    /\ \A s \in Streams : written[s] \in Seq(Samples(s)) /\ Len(written[s]) <= MaxWritten
    /\ taken \in [Streams -> Nat]
    /\ \A s \in Streams : taken[s] <= Len(written[s])
    /\ g_audio \in Seq(Outputs) /\ Len(g_audio) <= MaxSamplesPerFrame
    /\ earlier \in Nat
    /\ \A s \in g_streams : earlier <= taken[s]
    /\ NothingWaits
    /\ Together
    /\ g_streams = {} => earlier = 0
    /\ ~powered => /\ \A s \in Streams : written[s] = <<>> /\ taken[s] = 0
                   /\ g_audio = <<>> /\ earlier = 0

LEMMA ClampIsBetween ==
    ASSUME NEW v \in Int
    PROVE  Clamp16(v) = Max({Least, Min({Most, v})}) /\ Clamp16(v) \in Least .. Most
<1>1. Least \in Int /\ Most \in Int /\ Least <= Most
  BY AudioAssumption
<1>2. Min({Most, v}) = IF Most <= v THEN Most ELSE v
  BY <1>1, MinOfTwo
<1>3. Max({Least, Min({Most, v})}) = IF Least >= Min({Most, v}) THEN Least ELSE Min({Most, v})
  BY <1>1, <1>2, MaxOfTwo
<1> QED BY <1>1, <1>2, <1>3 DEF Clamp16

\* A stream's samples are heard on both sides, as numbers.
LEMMA HeardType ==
    ASSUME NEW s \in Streams, NEW x \in Samples(s)
    PROVE  /\ Left(s, x) \in Int /\ Right(s, x) \in Int
           /\ Left(s, x) = x[IF "left" = "right" /\ Channels[s] = 2 THEN 2 ELSE 1]
           /\ Right(s, x) = x[IF "right" = "right" /\ Channels[s] = 2 THEN 2 ELSE 1]
<1>1. Channels[s] \in {1, 2} /\ Amplitudes \subseteq Int
  BY AudioAssumption
<1>2. x \in [1 .. Channels[s] -> Amplitudes]
  BY DEF Samples
<1>3. CASE Channels[s] = 1
  <2>1. x \in [1 .. 1 -> Amplitudes] /\ 1 \in 1 .. 1
    BY <1>2, <1>3
  <2>2. x[1] \in Int
    BY <1>1, <2>1
  <2> QED BY <1>3, <2>2 DEF Left, Right
<1>4. CASE Channels[s] = 2
  <2>1. x \in [1 .. 2 -> Amplitudes] /\ 1 \in 1 .. 2 /\ 2 \in 1 .. 2
    BY <1>2, <1>4
  <2>2. x[1] \in Int /\ x[2] \in Int
    BY <1>1, <2>1
  <2>3. Left(s, x) = x[1] /\ Right(s, x) = x[2]
    BY <1>4 DEF Left, Right
  <2>4. "left" # "right"
    OBVIOUS
  <2> QED BY <1>4, <2>2, <2>3, <2>4
<1> QED BY <1>1, <1>3, <1>4

\* What audio() mixes of the voices' i-th samples is how loud they are together.
MixesAsHeard ==
    \A i \in Nat :
        g_streams \subseteq Streams /\ (\A s \in g_streams : written[s][i] \in Samples(s))
        => LET mixed == Mixed([s \in g_streams |-> written[s][i]])
           IN  /\ mixed = [left |-> Loudness(i, "left"), right |-> Loudness(i, "right")]
               /\ mixed \in Outputs

LEMMA MixedIsLoudness == MixesAsHeard
<1> SUFFICES ASSUME NEW i \in Nat, g_streams \subseteq Streams,
                    \A s \in g_streams : written[s][i] \in Samples(s)
             PROVE  LET mixed == Mixed([s \in g_streams |-> written[s][i]])
                    IN  /\ mixed = [left |-> Loudness(i, "left"), right |-> Loudness(i, "right")]
                        /\ mixed \in Outputs
  BY DEF MixesAsHeard
<1> DEFINE samples == [s \in g_streams |-> written[s][i]]
           lefts == [s \in g_streams |-> Left(s, samples[s])]
           rights == [s \in g_streams |-> Right(s, samples[s])]
<1>1. IsFiniteSet(g_streams)
  BY AudioAssumption, FS_Subset
<1>2. lefts = [s \in g_streams |-> Heard(s, i, "left")] /\ lefts \in [g_streams -> Int]
  BY HeardType DEF Heard
<1>3. rights = [s \in g_streams |-> Heard(s, i, "right")] /\ rights \in [g_streams -> Int]
  BY HeardType DEF Heard
<1>4. SumFunction(lefts) \in Int /\ SumFunction(rights) \in Int
  BY <1>1, <1>2, <1>3, SumType
<1>5. Clamp16(SumFunction(lefts)) = Loudness(i, "left") /\ Clamp16(SumFunction(lefts)) \in Least .. Most
  BY <1>2, <1>4, ClampIsBetween DEF Loudness
<1>6. Clamp16(SumFunction(rights)) = Loudness(i, "right") /\ Clamp16(SumFunction(rights)) \in Least .. Most
  BY <1>3, <1>4, ClampIsBetween DEF Loudness
<1>7. Mixed(samples) = [left |-> Clamp16(SumFunction(lefts)), right |-> Clamp16(SumFunction(rights))]
  BY DEF Mixed
<1> QED BY <1>5, <1>6, <1>7 DEF Outputs

\* While the machine is put together nothing was written, whoever is attached.
Silent ==
    /\ g_streams \subseteq Streams
    /\ \A s \in Streams : written[s] = <<>> /\ taken[s] = 0
    /\ g_audio = <<>> /\ earlier = 0

LEMMA NothingBeforePower == Silent => NothingWaits /\ Together
<1> SUFFICES ASSUME Silent PROVE NothingWaits /\ Together
  OBVIOUS
<1> USE DEF Silent
<1>1. ASSUME NEW s \in g_streams
      PROVE  taken[s] = Min({Len(written[r]) : r \in g_streams})
  <2>1. {Len(written[r]) : r \in g_streams} = {0}
    BY <1>1
  <2>2. Min({0}) = 0
    BY LeastIsMin
  <2> QED BY <1>1, <2>1, <2>2
<1>2. Min({MaxSamplesPerFrame, 0}) = 0
  BY AudioAssumption, MinOfTwo
<1>3. \A s \in g_streams : taken[s] - earlier = 0
  OBVIOUS
<1>4. Len(g_audio) = 0 /\ 1 .. 0 = {}
  OBVIOUS
<1> QED BY <1>1, <1>2, <1>3, <1>4 DEF NothingWaits, Together

LEMMA AudioBegins == Init => AudioInv
<1> SUFFICES ASSUME Init PROVE AudioInv
  OBVIOUS
<1>1. Silent
  BY DEF Init, Silent
<1>2. NothingWaits /\ Together
  BY <1>1, NothingBeforePower
<1>3. MaxWritten \in Nat /\ MaxSamplesPerFrame \in Nat
  BY AudioAssumption
<1>4. ASSUME NEW s \in Streams
      PROVE  written[s] \in Seq(Samples(s)) /\ Len(written[s]) = 0 /\ taken[s] = 0
  <2>1. written[s] = <<>> /\ taken[s] = 0
    BY <1>1 DEF Silent
  <2>2. <<>> \in Seq(Samples(s)) /\ Len(<<>>) = 0
    OBVIOUS
  <2> QED BY <2>1, <2>2
<1>5. g_audio \in Seq(Outputs) /\ Len(g_audio) = 0
  BY <1>1 DEF Silent
<1>6. written = [s \in Streams |-> written[s]] /\ taken \in [Streams -> Nat]
  BY DEF Init
<1>7. g_streams \subseteq Streams /\ g_streams = {} /\ powered = FALSE /\ earlier = 0
  BY DEF Init
<1>8. \A s \in Streams : Len(written[s]) <= MaxWritten /\ taken[s] <= Len(written[s])
  BY <1>3, <1>4
<1>9. Len(g_audio) <= MaxSamplesPerFrame /\ earlier \in Nat
  BY <1>3, <1>5, <1>7
<1>10. ~powered => /\ \A s \in Streams : written[s] = <<>> /\ taken[s] = 0
                  /\ g_audio = <<>> /\ earlier = 0
  BY <1>1 DEF Silent
<1>11. \A s \in g_streams : earlier <= taken[s]
  BY <1>7
<1> QED BY <1>2, <1>4, <1>5, <1>6, <1>7, <1>8, <1>9, <1>10, <1>11 DEF AudioInv

\* attach(), detach() and power().
LEMMA PuttingTogetherKeeps ==
    ASSUME AudioInv, ~powered, g_streams' \subseteq Streams, powered' \in BOOLEAN,
           UNCHANGED <<written, taken, g_audio, earlier>>
    PROVE  AudioInv'
<1>1. Silent'
  BY DEF AudioInv, Silent
<1>2. NothingWaits' /\ Together'
  BY <1>1, NothingBeforePower, PTL
<1>3. \A s \in Streams : earlier' = 0 /\ taken'[s] = 0
  BY <1>1 DEF Silent
<1> QED BY <1>1, <1>2, <1>3 DEF AudioInv, Silent

\* What was heard of a sample is heard of it however much is written after it.
LEMMA SameLoudness ==
    ASSUME g_streams' = g_streams, NEW i, \A s \in g_streams : written'[s][i] = written[s][i]
    PROVE  /\ Loudness(i, "left")' = Loudness(i, "left")
           /\ Loudness(i, "right")' = Loudness(i, "right")
<1>1. [s \in g_streams |-> Heard(s, i, "left")]' = [s \in g_streams |-> Heard(s, i, "left")]
  BY DEF Heard
<1>2. [s \in g_streams |-> Heard(s, i, "right")]' = [s \in g_streams |-> Heard(s, i, "right")]
  BY DEF Heard
<1> QED BY <1>1, <1>2 DEF Loudness

\* Every voice was read as far.
LEMMA ReadAlike ==
    ASSUME AudioInv, g_streams # {}
    PROVE  \E t \in Nat : \A r \in g_streams : taken[r] = t /\ earlier <= t /\ t <= Len(written[r])
<1>1. PICK s \in g_streams : TRUE
  OBVIOUS
<1>2. \A r \in g_streams : taken[r] = taken[s]
  BY DEF AudioInv, NothingWaits
<1> QED BY <1>2 DEF AudioInv

\* A voice's queue with what it writes behind it.
LEMMA WrittenGrows ==
    ASSUME AudioInv, NEW s \in Streams, NEW n \in Nat, NEW x \in [1 .. n -> Samples(s)], Write(s, x)
    PROVE  /\ written' = [r \in Streams |-> written'[r]]
           /\ \A r \in Streams : /\ written'[r] \in Seq(Samples(r)) /\ Len(written'[r]) <= MaxWritten
                                 /\ Len(written[r]) <= Len(written'[r])
                                 /\ \A i \in 1 .. Len(written[r]) : written'[r][i] = written[r][i]
<1>1. x \in Seq(Samples(s)) /\ written[s] \in Seq(Samples(s))
  BY FunctionIsSequence DEF AudioInv
<1>2. written' = [written EXCEPT ![s] = @ \o x] /\ Len(written[s]) + Len(x) <= MaxWritten
  BY DEF Write
<1>3. written' = [r \in Streams |-> IF r = s THEN written[s] \o x ELSE written[r]]
  BY <1>2 DEF AudioInv
<1>4. ASSUME NEW r \in Streams
      PROVE  /\ written'[r] \in Seq(Samples(r)) /\ Len(written'[r]) <= MaxWritten
             /\ Len(written[r]) <= Len(written'[r])
             /\ \A i \in 1 .. Len(written[r]) : written'[r][i] = written[r][i]
  <2>1. CASE r = s
    <3>1. written'[r] = written[s] \o x
      BY <1>3, <2>1
    <3> QED BY <1>1, <1>2, <2>1, <3>1
  <2>2. CASE r # s
    <3>1. written'[r] = written[r]
      BY <1>3, <2>2
    <3> QED BY <3>1 DEF AudioInv
  <2> QED BY <2>1, <2>2
<1> QED BY <1>3, <1>4

\* What is left of a frame that began at sample e, once the voices were read
\* from t to m: what it had of them and what is mixed behind it, up to its room.
Fills(t, m, e, room, audio, more, kept) ==
    /\ {t, m, e, room} \subseteq Nat /\ e <= t /\ t <= m
    /\ audio \in Seq(Outputs) /\ more \in Seq(Outputs)
    /\ Len(audio) = Min({room, t - e}) /\ Len(more) = m - t
    /\ kept = SubSeq(audio \o more, 1, Min({Len(audio \o more), room}))

Filled(t, m, e, room, audio, more, kept) ==
    /\ kept \in Seq(Outputs) /\ Len(kept) = Min({room, m - e}) /\ Len(kept) <= room
    /\ \A i \in 1 .. Len(kept) :
          IF i <= Len(audio) THEN kept[i] = audio[i] /\ e + i <= t
          ELSE kept[i] = more[e + i - t] /\ e + i - t \in 1 .. m - t

LEMMA FrameIsFilled ==
    ASSUME NEW t, NEW m, NEW e, NEW room, NEW audio, NEW more, NEW kept,
           Fills(t, m, e, room, audio, more, kept)
    PROVE  Filled(t, m, e, room, audio, more, kept)
<1> DEFINE out == audio \o more
           last == Min({Len(out), room})
<1>0. /\ t \in Nat /\ m \in Nat /\ e \in Nat /\ room \in Nat /\ e <= t /\ t <= m
      /\ Len(audio) \in Nat
  BY DEF Fills
<1>1. Len(audio) = IF room <= t - e THEN room ELSE t - e
  <2>1. Len(audio) = Min({room, t - e})
    BY DEF Fills
  <2> QED BY <1>0, <2>1, MinOfTwo
<1>2. Min({room, m - e}) = IF room <= m - e THEN room ELSE m - e
  BY <1>0, MinOfTwo
<1>3. /\ out \in Seq(Outputs) /\ Len(out) = Len(audio) + (m - t)
      /\ \A i \in 1 .. Len(audio) : out[i] = audio[i]
      /\ \A j \in 1 .. m - t : out[Len(audio) + j] = more[j]
  <2>1. audio \in Seq(Outputs) /\ more \in Seq(Outputs) /\ Len(more) = m - t
    BY DEF Fills
  <2>2. out \in Seq(Outputs) /\ Len(out) = Len(audio) + Len(more)
    BY <2>1, BothSequences
  <2>3. \A i \in 1 .. Len(audio) : out[i] = audio[i]
    BY <2>1, BothSequences
  <2>4. \A j \in 1 .. Len(more) : out[Len(audio) + j] = more[j]
    BY <2>1, BothSequences
  <2> HIDE DEF out
  <2> QED BY <2>1, <2>2, <2>3, <2>4
<1>31. kept = SubSeq(out, 1, last)
  BY DEF Fills
<1> HIDE DEF out
<1>4. last = IF Len(out) <= room THEN Len(out) ELSE room
  <2>1. Len(out) \in Int /\ room \in Int
    BY <1>0, <1>3
  <2> QED BY <2>1, MinOfTwo
<1> HIDE DEF last
<1>5. last \in 0 .. Len(out) /\ last = Min({room, m - e}) /\ last <= room
  <2>1. Len(out) = Len(audio) + (m - t)
    BY <1>3
  <2> QED BY <1>0, <1>1, <1>2, <1>4, <2>1
<1>6. kept \in Seq(Outputs) /\ Len(kept) = last /\ \A i \in 1 .. last : kept[i] = out[i]
  BY <1>3, <1>31, <1>5, FrontOfSequence
<1>7. ASSUME NEW i \in 1 .. last, i <= Len(audio)
      PROVE  out[i] = audio[i] /\ e + i <= t
  <2>1. i \in 1 .. Len(audio)
    BY <1>0, <1>5, <1>7
  <2>2. e + i <= t
    BY <1>0, <1>1, <1>7, <2>1
  <2> QED BY <1>3, <2>1, <2>2
<1>8. ASSUME NEW i \in 1 .. last, ~(i <= Len(audio))
      PROVE  out[i] = more[e + i - t] /\ e + i - t \in 1 .. m - t
  <2>1. i \in Nat /\ i <= room /\ i <= Len(audio) + (m - t) /\ Len(audio) < i
    BY <1>0, <1>3, <1>4, <1>5, <1>8
  <2>2. Len(audio) = t - e
    BY <1>0, <1>1, <2>1
  <2>3. e + i - t \in 1 .. m - t /\ Len(audio) + (e + i - t) = i
    BY <1>0, <2>1, <2>2
  <2> QED BY <1>3, <2>3
<1> QED BY <1>5, <1>6, <1>7, <1>8 DEF Filled

\* audio(), where m is how far the slowest voice has written by then.
LEMMA AudioMixesToTheSlowest ==
    ASSUME AudioInv, NEW s \in g_streams, NEW n \in Nat, NEW x \in [1 .. n -> Samples(s)], Write(s, x)
    PROVE  \E t \in Nat, m \in Nat :
              /\ t <= m
              /\ \A r \in g_streams : /\ taken[r] = t /\ earlier <= t /\ t <= Len(written[r])
                                      /\ taken'[r] = m /\ m <= Len(written'[r])
              /\ m = Min({Len(written'[r]) : r \in g_streams})
              /\ taken' \in [Streams -> Nat]
              /\ \A r \in Streams \ g_streams : taken'[r] = taken[r]
              /\ g_audio' = Kept(g_audio \o
                    [i \in 1 .. m - t |-> Mixed([r \in g_streams |-> written'[r][t + i]])])
<1>1. PICK t \in Nat : \A r \in g_streams : taken[r] = t /\ earlier <= t /\ t <= Len(written[r])
  BY ReadAlike
<1> DEFINE lens == {Len(written'[r]) : r \in g_streams}
           m == Min(lens)
<1>2. g_streams \subseteq Streams
  BY DEF AudioInv
<1>3. \A r \in g_streams : /\ Len(written'[r]) \in Nat
                           /\ Len(written[r]) <= Len(written'[r]) /\ t <= Len(written'[r])
  <2>1. \A r \in Streams : /\ written'[r] \in Seq(Samples(r))
                           /\ Len(written[r]) <= Len(written'[r])
    BY <1>2, WrittenGrows
  <2>2. \A r \in Streams : Len(written'[r]) \in Nat /\ Len(written[r]) \in Nat
    BY <2>1 DEF AudioInv
  <2> QED BY <1>1, <1>2, <2>1, <2>2
<1>4. m \in lens /\ (\A l \in lens : m <= l) /\ m \in Nat /\ t <= m
  <2>1. lens \subseteq Nat /\ lens # {}
    BY <1>3
  <2>2. m \in lens /\ \A l \in lens : m <= l
    <3> HIDE DEF lens
    <3> QED BY <2>1, MinIsLeast
  <2> HIDE DEF m
  <2> QED BY <1>3, <2>1, <2>2
<1> HIDE DEF m
<1>5. Ready(written') = m - t
  <2> DEFINE waiting == {Pending(written', r) : r \in g_streams}
  <2>1. waiting = {Len(written'[r]) - t : r \in g_streams}
    BY <1>1 DEF Pending
  <2>2. m - t \in waiting /\ (\A l \in waiting : m - t <= l) /\ waiting \subseteq Int
    <3>1. PICK r \in g_streams : m = Len(written'[r])
      BY <1>4
    <3>2. m - t \in waiting
      BY <2>1, <3>1
    <3>3. ASSUME NEW q \in g_streams PROVE m <= Len(written'[q]) /\ Len(written'[q]) \in Nat
      BY <1>3, <1>4
    <3>4. \A q \in g_streams : m - t <= Len(written'[q]) - t /\ Len(written'[q]) - t \in Int
      BY <1>4, <3>3
    <3> QED BY <2>1, <3>2, <3>4
  <2>3. Min(waiting) = m - t
    <3> HIDE DEF waiting
    <3> QED BY <2>2, LeastIsMin
  <2> QED BY <2>3 DEF Ready
<1>6. /\ taken' = [r \in Streams |-> IF r \in g_streams THEN taken[r] + (m - t) ELSE taken[r]]
      /\ g_audio' = Kept(g_audio \o
            [i \in 1 .. m - t |-> Mixed([r \in g_streams |-> written'[r][taken[r] + i]])])
  BY <1>5 DEF Write, Audio, Read
<1>7. \A i \in 1 .. m - t : [r \in g_streams |-> written'[r][taken[r] + i]]
                            = [r \in g_streams |-> written'[r][t + i]]
  BY <1>1
<1>8. g_audio' = Kept(g_audio \o
            [i \in 1 .. m - t |-> Mixed([r \in g_streams |-> written'[r][t + i]])])
  BY <1>6, <1>7
<1>9. ASSUME NEW r \in g_streams PROVE taken'[r] = m /\ m <= Len(written'[r])
  <2>1. taken'[r] = t + (m - t)
    BY <1>1, <1>2, <1>6
  <2>2. t + (m - t) = m
    BY <1>4
  <2> QED BY <1>4, <2>1, <2>2
<1>10. taken' \in [Streams -> Nat] /\ \A r \in Streams \ g_streams : taken'[r] = taken[r]
  BY <1>1, <1>4, <1>6 DEF AudioInv
<1>11. m = Min({Len(written'[r]) : r \in g_streams})
  BY DEF m
<1> QED BY <1>1, <1>4, <1>8, <1>9, <1>10, <1>11

LEMMA WriteKeeps ==
    ASSUME AudioInv, NEW s \in Streams, NEW n \in Nat, NEW x \in [1 .. n -> Samples(s)], Write(s, x)
    PROVE  AudioInv'
<1>1. /\ powered /\ s \in g_streams /\ g_streams' = g_streams /\ powered' = powered
      /\ earlier' = earlier /\ g_streams \subseteq Streams /\ earlier \in Nat
      /\ g_audio \in Seq(Outputs)
  BY DEF Write, AudioInv
<1>2. PICK t \in Nat, m \in Nat :
              /\ t <= m
              /\ \A r \in g_streams : /\ taken[r] = t /\ earlier <= t /\ t <= Len(written[r])
                                      /\ taken'[r] = m /\ m <= Len(written'[r])
              /\ m = Min({Len(written'[r]) : r \in g_streams})
              /\ taken' \in [Streams -> Nat]
              /\ \A r \in Streams \ g_streams : taken'[r] = taken[r]
              /\ g_audio' = Kept(g_audio \o
                    [i \in 1 .. m - t |-> Mixed([r \in g_streams |-> written'[r][t + i]])])
  BY <1>1, AudioMixesToTheSlowest
<1>21. /\ t <= m
       /\ \A r \in g_streams : /\ taken[r] = t /\ earlier <= t /\ t <= Len(written[r])
                               /\ taken'[r] = m /\ m <= Len(written'[r])
  BY <1>2
<1>3. /\ written' = [r \in Streams |-> written'[r]]
      /\ \A r \in Streams : /\ written'[r] \in Seq(Samples(r)) /\ Len(written'[r]) <= MaxWritten
                            /\ Len(written[r]) <= Len(written'[r])
                            /\ \A i \in 1 .. Len(written[r]) : written'[r][i] = written[r][i]
  BY WrittenGrows
<1>22. PICK e \in Nat : e = earlier /\ e = earlier'
  BY <1>1
<1> DEFINE Sound(i) == [left |-> Loudness(i, "left"), right |-> Loudness(i, "right")]
           more == [i \in 1 .. m - t |-> Mixed([r \in g_streams |-> written'[r][t + i]])]
<1>4. \A i \in 1 .. m - t : more[i] = Sound(t + i)' /\ more[i] \in Outputs
  <2> SUFFICES ASSUME NEW i \in 1 .. m - t PROVE more[i] = Sound(t + i)' /\ more[i] \in Outputs
    OBVIOUS
  <2>1. t + i \in Nat /\ \A r \in g_streams : t + i \in 1 .. Len(written'[r])
    <3>1. ASSUME NEW r \in g_streams PROVE t + i \in 1 .. Len(written'[r])
      <4>1. Len(written'[r]) \in Nat /\ t + i <= m /\ m <= Len(written'[r])
        BY <1>1, <1>21, <1>3
      <4> QED BY <4>1
    <3> QED BY <3>1
  <2>2. \A r \in g_streams : written'[r][t + i] \in Samples(r)
    BY <1>1, <1>3, <2>1
  <2>3. MixesAsHeard'
    BY MixedIsLoudness, PTL
  <2>4. Mixed([r \in g_streams |-> written[r][t + i]])' = Mixed([r \in g_streams |-> written'[r][t + i]])
    BY <1>1 DEF Mixed
  <2> QED BY <1>1, <2>1, <2>2, <2>3, <2>4 DEF MixesAsHeard
<1>5. more \in Seq(Outputs) /\ Len(more) = m - t
  <2>1. m - t \in Nat
    BY <1>21
  <2>2. more \in [1 .. m - t -> Outputs]
    BY <1>4
  <2> HIDE DEF more
  <2> QED BY <2>1, <2>2, FunctionIsSequence
<1>6. Len(g_audio) = Min({MaxSamplesPerFrame, t - e})
      /\ \A i \in 1 .. Len(g_audio) : g_audio[i] = Sound(e + i)
  BY <1>1, <1>2, <1>22 DEF AudioInv, Together
<1>7. /\ g_audio' \in Seq(Outputs) /\ Len(g_audio') = Min({MaxSamplesPerFrame, m - e})
      /\ Len(g_audio') <= MaxSamplesPerFrame
      /\ \A i \in 1 .. Len(g_audio') :
            IF i <= Len(g_audio) THEN g_audio'[i] = g_audio[i] /\ e + i <= t
            ELSE g_audio'[i] = more[e + i - t] /\ e + i - t \in 1 .. m - t
  <2>1. MaxSamplesPerFrame \in Nat /\ e <= t
    BY <1>1, <1>21, <1>22, AudioAssumption
  <2>2. g_audio' = SubSeq(g_audio \o more, 1, Min({Len(g_audio \o more), MaxSamplesPerFrame}))
    BY <1>2 DEF Kept
  <2>3. t <= m /\ Len(g_audio) = Min({MaxSamplesPerFrame, t - e}) /\ Len(more) = m - t
    BY <1>21, <1>5, <1>6
  <2> HIDE DEF more
  <2>4. Fills(t, m, e, MaxSamplesPerFrame, g_audio, more, g_audio')
    BY <1>1, <1>5, <2>1, <2>2, <2>3 DEF Fills
  <2>5. Filled(t, m, e, MaxSamplesPerFrame, g_audio, more, g_audio')
    BY <2>4, FrameIsFilled
  <2> QED BY <2>5 DEF Filled
<1>8. ASSUME NEW i \in 1 .. Len(g_audio') PROVE g_audio'[i] = Sound(e + i)'
  <2>0. i \in Nat /\ i >= 1
    BY <1>7
  <2>1. CASE i <= Len(g_audio)
    <3>1. i \in 1 .. Len(g_audio) /\ g_audio'[i] = Sound(e + i) /\ e + i <= t
      <4>1. Len(g_audio) \in Nat
        BY <1>1
      <4>2. i \in 1 .. Len(g_audio)
        BY <2>0, <2>1, <4>1
      <4>3. g_audio'[i] = g_audio[i] /\ e + i <= t
        BY <1>7, <2>1
      <4>4. g_audio[i] = Sound(e + i)
        BY <1>6, <4>2
      <4> HIDE DEF Sound
      <4> QED BY <4>2, <4>3, <4>4
    <3>2. \A r \in g_streams : written'[r][e + i] = written[r][e + i]
      <4>1. ASSUME NEW r \in g_streams PROVE e + i \in 1 .. Len(written[r])
        <5>1. Len(written[r]) \in Nat
          BY <1>1 DEF AudioInv
        <5>2. e + i <= t /\ t <= Len(written[r]) /\ e + i \in Nat /\ e + i >= 1
          BY <1>1, <1>21, <1>22, <2>0, <3>1
        <5> QED BY <5>1, <5>2
      <4> QED BY <1>1, <1>3, <4>1
    <3>3. Sound(e + i)' = Sound(e + i)
      BY <1>1, <3>2, SameLoudness
    <3> QED BY <3>1, <3>3
  <2>2. CASE ~(i <= Len(g_audio))
    <3>1. g_audio'[i] = more[e + i - t] /\ e + i - t \in 1 .. m - t
      BY <1>7, <2>2
    <3>2. t + (e + i - t) = e + i
      BY <1>1, <2>0
    <3>3. more[e + i - t] = Sound(t + (e + i - t))'
      <4> HIDE DEF more
      <4> QED BY <1>4, <3>1
    <3> HIDE DEF more
    <3> QED BY <3>1, <3>2, <3>3
  <2> QED BY <2>1, <2>2
<1>9. Together'
  BY <1>1, <1>21, <1>22, <1>7, <1>8 DEF Together
<1>10. NothingWaits'
  BY <1>1, <1>2 DEF NothingWaits
<1>11. \A r \in Streams : taken'[r] <= Len(written'[r])
  <2> SUFFICES ASSUME NEW r \in Streams PROVE taken'[r] <= Len(written'[r])
    OBVIOUS
  <2>1. CASE r \in g_streams
    BY <1>2, <2>1
  <2>2. CASE r \notin g_streams
    BY <1>2, <1>3, <2>2 DEF AudioInv
  <2> QED BY <2>1, <2>2
<1>12. \A r \in g_streams' : earlier' <= taken'[r]
  <2>1. ASSUME NEW r \in g_streams PROVE earlier <= m /\ taken'[r] = m
    BY <1>1, <1>21
  <2> QED BY <1>1, <2>1
<1> QED BY <1>1, <1>2, <1>3, <1>7, <1>9, <1>10, <1>11, <1>12 DEF AudioInv

\* frame(): the host has read the samples, and the next are of a new frame.
LEMMA FrameKeeps == AudioInv /\ Frame => AudioInv'
<1> SUFFICES ASSUME AudioInv, Frame PROVE AudioInv'
  OBVIOUS
<1>1. /\ powered /\ g_audio' = <<>> /\ g_streams' = g_streams /\ powered' = powered
      /\ written' = written /\ taken' = taken
      /\ earlier' = IF g_streams = {} THEN 0 ELSE Min({taken[r] : r \in g_streams})
  BY DEF Frame, Emptied
<1>2. NothingWaits' /\ MaxSamplesPerFrame \in Nat /\ g_audio' \in Seq(Outputs) /\ Len(g_audio') = 0
  <2>1. NothingWaits'
    BY <1>1 DEF AudioInv, NothingWaits
  <2>2. <<>> \in Seq(Outputs) /\ Len(<<>>) = 0
    OBVIOUS
  <2> QED BY <1>1, <2>1, <2>2, AudioAssumption
<1>3. CASE g_streams = {}
  BY <1>1, <1>2, <1>3 DEF AudioInv, Together
<1>4. CASE g_streams # {}
  <2>1. PICK t \in Nat : \A r \in g_streams : taken[r] = t /\ earlier <= t /\ t <= Len(written[r])
    BY <1>4, ReadAlike
  <2>2. {taken[r] : r \in g_streams} = {t}
    BY <1>4, <2>1
  <2>3. Min({t}) = t
    BY LeastIsMin
  <2>4. earlier' = t
    BY <1>1, <1>4, <2>2, <2>3
  <2>5. Min({MaxSamplesPerFrame, 0}) = 0
    BY <1>2, MinOfTwo
  <2>6. \A r \in g_streams : taken'[r] - earlier' = 0 /\ earlier' <= taken'[r]
    BY <1>1, <2>1, <2>4
  <2>7. Together'
    BY <1>1, <1>2, <2>5, <2>6 DEF Together
  <2>8. \A r \in g_streams' : earlier' <= taken'[r]
    BY <1>1, <2>6
  <2>9. earlier' \in Nat /\ Len(g_audio') <= MaxSamplesPerFrame
    BY <1>2, <2>1, <2>4
  <2> QED BY <1>1, <1>2, <1>4, <2>7, <2>8, <2>9 DEF AudioInv
<1> QED BY <1>3, <1>4

LEMMA SoundKeeps == AudioInv /\ [Next]_vars => AudioInv'
<1> SUFFICES ASSUME AudioInv, [Next]_vars PROVE AudioInv'
  OBVIOUS
<1>1. ASSUME NEW s \in Streams, Attach(s) \/ Detach(s) PROVE AudioInv'
  <2>1. /\ ~powered /\ g_streams' \subseteq Streams /\ powered' \in BOOLEAN
        /\ UNCHANGED <<written, taken, g_audio, earlier>>
    BY <1>1 DEF Attach, Detach, AudioInv
  <2> QED BY <2>1, PuttingTogetherKeeps
<1>2. CASE Power
  <2>1. /\ ~powered /\ g_streams' \subseteq Streams /\ powered' \in BOOLEAN
        /\ UNCHANGED <<written, taken, g_audio, earlier>>
    BY <1>2 DEF Power, AudioInv
  <2> QED BY <2>1, PuttingTogetherKeeps
<1>3. ASSUME NEW s \in Streams, NEW n \in 1 .. Burst, NEW x \in [1 .. n -> Samples(s)], Write(s, x)
      PROVE  AudioInv'
  <2>1. n \in Nat
    BY AudioAssumption
  <2> QED BY <1>3, <2>1, WriteKeeps
<1>4. CASE Frame
  BY <1>4, FrameKeeps
<1>5. CASE UNCHANGED vars
  <2>1. (Together <=> Together') /\ (NothingWaits <=> NothingWaits')
    BY <1>5 DEF vars, Together, NothingWaits, Loudness, Heard
  <2> QED BY <1>5, <2>1 DEF vars, AudioInv
<1> QED BY <1>1, <1>2, <1>3, <1>4, <1>5 DEF Next

LEMMA SoundHolds == Spec => []AudioInv
BY AudioBegins, SoundKeeps, PTL DEF Spec

\* Every variable of the mixer keeps its type: what is heard fits 16 bits and
\* the frame its buffer, and no voice was read further than it has written.
THEOREM SoundTypesHold == Spec => []TypeOK
<1>1. AudioInv => TypeOK
  <2> SUFFICES ASSUME AudioInv PROVE TypeOK
    OBVIOUS
  <2>1. ASSUME NEW s \in Streams
        PROVE  /\ Len(written[s]) <= MaxWritten
               /\ \A i \in 1 .. Len(written[s]) : written[s][i] \in Samples(s)
               /\ taken[s] \in 0 .. Len(written[s])
    <3>1. written[s] \in Seq(Samples(s)) /\ Len(written[s]) \in Nat
          /\ taken[s] \in Nat /\ taken[s] <= Len(written[s]) /\ Len(written[s]) <= MaxWritten
      BY DEF AudioInv
    <3> QED BY <3>1
  <2>2. earlier \in 0 .. MaxWritten
    <3>1. CASE g_streams = {}
      BY <3>1, AudioAssumption DEF AudioInv
    <3>2. CASE g_streams # {}
      <4>1. PICK s \in g_streams : TRUE
        BY <3>2
      <4>2. earlier \in Nat /\ earlier <= taken[s] /\ s \in Streams
        BY <4>1 DEF AudioInv
      <4>3. taken[s] \in Nat /\ Len(written[s]) \in Nat /\ taken[s] <= Len(written[s]) /\ Len(written[s]) <= MaxWritten
        BY <4>2 DEF AudioInv
      <4> QED BY <4>2, <4>3, AudioAssumption
    <3> QED BY <3>1, <3>2
  <2> QED BY <2>1, <2>2 DEF AudioInv, TypeOK
<1> QED BY <1>1, SoundHolds, PTL

\* Every voice is read as far as the slowest has written, whatever the order
\* in which they write and wherever a frame ends (audio()).
THEOREM NothingEverWaits == Spec => []NothingWaits
<1>1. AudioInv => NothingWaits
  BY DEF AudioInv
<1> QED BY <1>1, SoundHolds, PTL

\* A frame's samples are the voices' samples of one time together, clamped, for
\* any number of voices: none slides, none is heard twice, and a frame that is
\* full loses its end and nothing else (audio(), clamp16(), frame()).
THEOREM VoicesAreAlwaysTogether == Spec => []VoicesAreTogether
<1>1. AudioInv => VoicesAreTogether
  <2> SUFFICES ASSUME AudioInv, NEW s \in g_streams
               PROVE  g_audio = [i \in 1 .. Min({MaxSamplesPerFrame, taken[s] - earlier}) |->
                         [left |-> Loudness(earlier + i, "left"), right |-> Loudness(earlier + i, "right")]]
    BY DEF VoicesAreTogether
  <2>1. g_audio \in Seq(Outputs)
    BY DEF AudioInv
  <2>2. /\ Len(g_audio) = Min({MaxSamplesPerFrame, taken[s] - earlier})
        /\ \A i \in 1 .. Len(g_audio) :
              g_audio[i] = [left |-> Loudness(earlier + i, "left"), right |-> Loudness(earlier + i, "right")]
    BY DEF AudioInv, Together
  <2>3. g_audio = [i \in 1 .. Len(g_audio) |-> g_audio[i]]
    BY <2>1
  <2> QED BY <2>2, <2>3
<1> QED BY <1>1, SoundHolds, PTL

-----------------------------------------------------------------------------
(* The picture.                                                                *)

\* What a quotient and a remainder are.
LEMMA Quotient ==
    ASSUME NEW w \in Nat \ {0}, NEW a \in Int, NEW y \in Int, y * w <= a, a < y * w + w
    PROVE  a \div w = y /\ a % w = a - y * w
<1> DEFINE q == a \div w
<1>1. q \in Int /\ a % w \in 0 .. w - 1
  OBVIOUS
<1>0. w > 0 /\ w \in Int
  OBVIOUS
<1>3. a = w * (a \div w) + (a % w)
  BY <1>0, SMT
<1>2. q = y
  <2>1. w * q <= a /\ a < w * q + w
    BY <1>1, <1>3
  <2>2. CASE q < y
    <3>1. q + 1 <= y
      BY <1>1, <2>2
    <3>2. w * (q + 1) <= w * y
      BY <1>1, <3>1
    <3> QED BY <1>1, <2>1, <3>2
  <2>3. CASE q > y
    <3>1. y + 1 <= q
      BY <1>1, <2>3
    <3>2. w * (y + 1) <= w * q
      BY <1>1, <3>1
    <3> QED BY <1>1, <2>1, <3>2
  <2> QED BY <1>1, <2>2, <2>3
<1> QED BY <1>1, <1>2, <1>3

\* The places of lines laid end to end.
LEMMA PlaceInLines ==
    ASSUME NEW w \in Nat \ {0}, NEW h \in Nat, NEW x \in 0 .. w - 1, NEW y \in 0 .. h - 1
    PROVE  /\ y * w + x + 1 \in 1 .. w * h
           /\ (y * w + x) \div w = y
           /\ (y * w + x) % w = x
<1>1. y * w + x \in Int /\ y * w <= y * w + x /\ y * w + x < y * w + w /\ y * w >= 0
  OBVIOUS
<1>2. (y + 1) * w <= h * w
  OBVIOUS
<1>3. (y + 1) * w = y * w + w /\ h * w = w * h
  OBVIOUS
<1> QED BY <1>1, <1>2, <1>3, Quotient

\* Sizes that were cut, or doubled, are sizes.
LEMMA LesserType ==
    ASSUME NEW a \in Nat, NEW b \in Nat
    PROVE  Lesser(a, b) \in Nat /\ Lesser(a, b) <= a /\ Lesser(a, b) <= b
BY DEF Lesser

Pixels == [1 .. 3 -> Nat]

\* A picture as ares' screen hands it over: its pixels cover it, and those of
\* a Bob Deinterlaced one are of one drawing.
Handed(picture) ==
    /\ picture.width \in Nat /\ picture.height \in Nat
    /\ picture # NoFrame
    /\ \A x \in 0 .. picture.width - 1, y \in 0 .. picture.height - 1 :
          /\ picture.pixels[y][x] \in Pixels
          /\ renderer = "bob" => picture.pixels[y][x][1] = picture.of

\* The inductive invariant: what is shown is what was handed over, and the
\* software renderer's frame, which the next one is woven with, has pixels.
PictureInv ==
    /\ PictureTypeOK
    /\ renderer \in {"ares", "software", "bob"}
    /\ \A x, y \in Nat : x < g_fb.width /\ y < g_fb.height => g_fb.pixels[y][x] \in Pixels
    /\ ShownIsHanded

LEMMA PixelType ==
    ASSUME NEW d \in Nat, NEW x \in Nat, NEW y \in Nat
    PROVE  Pixel(d, x, y) \in Pixels /\ Pixel(d, x, y)[1] = d
BY DEF Pixel, Pixels

LEMMA NextDrawingType == PictureTypeOK => NextDrawing \in 1 .. Drawings
<1> SUFFICES ASSUME PictureTypeOK PROVE NextDrawing \in 1 .. Drawings
  OBVIOUS
<1>1. drawn \in Nat /\ Drawings \in Nat /\ Drawings > 0
  BY PictureAssumption DEF PictureTypeOK
<1>2. drawn % Drawings \in 0 .. Drawings - 1
  BY <1>1
<1> QED BY <1>1, <1>2 DEF NextDrawing

\* The line and the column of a place.
LEMMA LineOfPlace ==
    ASSUME NEW w \in Nat, NEW h \in Nat, NEW i \in 1 .. w * h
    PROVE  w \in Nat \ {0} /\ (i - 1) \div w \in 0 .. h - 1 /\ (i - 1) % w \in 0 .. w - 1
<1>1. w # 0
  <2>1. CASE w = 0
    <3>1. w * h = 0
      BY <2>1
    <3> QED BY <3>1
  <2> QED BY <2>1
<1>2. w \in Int /\ w > 0 /\ i - 1 \in Nat /\ i - 1 < w * h
  BY <1>1
<1>3. (i - 1) % w \in 0 .. w - 1 /\ (i - 1) \div w \in Int
  BY <1>2
<1>4. i - 1 = w * ((i - 1) \div w) + ((i - 1) % w)
  BY <1>2, SMT
<1> DEFINE q == (i - 1) \div w
<1>5. q >= 0 /\ q < h
  <2>1. q \in Int /\ w * q <= i - 1 /\ i - 1 < w * q + w
    BY <1>2, <1>3, <1>4
  <2> HIDE DEF q
  <2>2. CASE q >= h
    <3>1. w * h <= w * q
      BY <1>2, <2>1, <2>2
    <3> QED BY <1>2, <2>1, <3>1
  <2>3. CASE q < 0
    <3>1. w * (q + 1) <= w * 0
      BY <1>2, <2>1, <2>3
    <3>2. w * (q + 1) = w * q + w /\ w * 0 = 0
      BY <1>2, <2>1
    <3> QED BY <1>2, <2>1, <3>1, <3>2
  <2> QED BY <2>1, <2>2, <2>3
<1> QED BY <1>1, <1>3, <1>5

\* So many lines of a picture are laid down, and each comes from one of its own.
Tall(h) == IF Doubled(h) THEN 2 * h ELSE h
LineFrom(h, y) == IF Doubled(h) THEN y \div 2 ELSE y

LEMMA LinesComeFrom ==
    ASSUME NEW h \in Nat, NEW y \in 0 .. Tall(h) - 1
    PROVE  LineFrom(h, y) \in 0 .. h - 1 /\ (y * h) \div Tall(h) = LineFrom(h, y)
<1>1. CASE Doubled(h)
  <2>1. y \in Nat /\ y < 2 * h /\ y \div 2 \in Nat /\ 2 * (y \div 2) <= y /\ y < 2 * (y \div 2) + 2
    BY <1>1 DEF Tall
  <2>2. 2 * (y \div 2) * h <= y * h
    BY <2>1
  <2>3. y + 1 <= 2 * (y \div 2) + 2
    BY <2>1
  <2>4. (y + 1) * h <= (2 * (y \div 2) + 2) * h
    BY <2>1, <2>3
  <2>5. (y \div 2) * (2 * h) <= y * h /\ y * h + h <= (y \div 2) * (2 * h) + 2 * h
    BY <2>1, <2>2, <2>4
  <2>6. 2 * h \in Nat \ {0} /\ h > 0
    BY <2>1
  <2>7. (y * h) \div (2 * h) = y \div 2
    BY <2>1, <2>5, <2>6, Quotient
  <2> QED BY <1>1, <2>1, <2>7 DEF Tall, LineFrom
<1>2. CASE ~Doubled(h)
  <2>1. h \in Nat \ {0} /\ y \in Int /\ y * h \in Int /\ y * h <= y * h /\ y * h < y * h + h
    BY <1>2 DEF Tall
  <2>2. (y * h) \div h = y
    BY <2>1, Quotient
  <2> QED BY <1>2, <2>2 DEF Tall, LineFrom
<1> QED BY <1>1, <1>2

LEMMA TallFits ==
    ASSUME NEW h \in Nat, h <= HeightMax
    PROVE  Tall(h) \in Nat /\ Tall(h) <= HeightMax
BY PictureAssumption DEF Tall, Doubled

\* The picture laid down fits the buffer.
LEMMA RowsFit ==
    ASSUME NEW w \in Nat, NEW h \in Nat, w <= WidthMax, h <= HeightMax
    PROVE  1 .. w * h \subseteq 1 .. WidthMax * HeightMax
<1>1. WidthMax \in Nat /\ HeightMax \in Nat
  BY PictureAssumption
<1>2. w * h <= WidthMax * h
  BY <1>1
<1>3. WidthMax * h <= WidthMax * HeightMax
  BY <1>1
<1> QED BY <1>1, <1>2, <1>3

\* What is handed over while the machine draws is what is shown then, wherever
\* the lines of earlier pictures lay.
LEMMA VideoShows ==
    ASSUME PictureInv, NEW picture, Handed(picture), Video(picture), renderer' = renderer
    PROVE  /\ buffer' \in [1 .. WidthMax * HeightMax -> Pixels]
           /\ width' \in 0 .. WidthMax /\ height' \in 0 .. HeightMax
           /\ ShownIsHanded'
<1> DEFINE w == Lesser(picture.width, WidthMax)
           h == Lesser(picture.height, HeightMax)
           rows == Rows(picture.pixels, w, h)
<1>1. WidthMax \in Nat /\ HeightMax \in Nat
  BY PictureAssumption
<1>2. /\ w \in Nat /\ w <= WidthMax /\ w <= picture.width
      /\ h \in Nat /\ h <= HeightMax /\ h <= picture.height
  BY <1>1, LesserType DEF Handed
<1>3. CASE rendering
  <2>1. /\ buffer' = Put(rows) /\ width' = w /\ height' = Tall(h) /\ handed' = picture
    BY <1>3 DEF Video, Tall
  <2> HIDE DEF w, h
  <2>2. rows = [i \in 1 .. w * Tall(h) |-> picture.pixels[LineFrom(h, (i - 1) \div w)][(i - 1) % w]]
    BY DEF Rows, Tall, LineFrom
  <2> HIDE DEF rows
  <2>3. Tall(h) \in Nat /\ Tall(h) <= HeightMax
    BY <1>2, TallFits
  <2>4. 1 .. w * Tall(h) \subseteq 1 .. WidthMax * HeightMax
    BY <1>2, <2>3, RowsFit
  <2>5. ASSUME NEW x \in 0 .. w - 1, NEW l \in 0 .. h - 1
        PROVE  /\ picture.pixels[l][x] \in Pixels
               /\ renderer = "bob" => picture.pixels[l][x][1] = picture.of
    <3>1. x \in 0 .. picture.width - 1 /\ l \in 0 .. picture.height - 1
      BY <1>2 DEF Handed
    <3> QED BY <3>1 DEF Handed
  <2>6. ASSUME NEW i \in 1 .. w * Tall(h) PROVE rows[i] \in Pixels
    <3>1. (i - 1) \div w \in 0 .. Tall(h) - 1 /\ (i - 1) % w \in 0 .. w - 1
      BY <1>2, <2>3, LineOfPlace
    <3>2. LineFrom(h, (i - 1) \div w) \in 0 .. h - 1
      BY <1>2, <3>1, LinesComeFrom
    <3> QED BY <2>2, <2>5, <3>1, <3>2
  <2>7. buffer' \in [1 .. WidthMax * HeightMax -> Pixels]
    <3>1. buffer \in [1 .. WidthMax * HeightMax -> Pixels] /\ DOMAIN rows = 1 .. w * Tall(h)
      BY <2>2 DEF PictureInv, PictureTypeOK, Pixels
    <3> QED BY <2>1, <2>6, <3>1 DEF Put
  <2>8. ASSUME NEW x \in 0 .. w - 1, NEW y \in 0 .. Tall(h) - 1
        PROVE  buffer'[y * w + x + 1] = picture.pixels[LineFrom(h, y)][x]
    <3>1. w \in Nat \ {0}
      BY <1>2
    <3>2. /\ y * w + x + 1 \in 1 .. w * Tall(h)
          /\ (y * w + x) \div w = y
          /\ (y * w + x) % w = x
      <4> HIDE DEF Tall
      <4> QED BY <2>3, <3>1, PlaceInLines
    <3>5. (y * w + x + 1) - 1 = y * w + x
      BY <3>1
    <3>3. rows[y * w + x + 1] = picture.pixels[LineFrom(h, y)][x]
      BY <2>2, <3>2, <3>5
    <3>4. y * w + x + 1 \in DOMAIN rows /\ y * w + x + 1 \in 1 .. WidthMax * HeightMax
      BY <2>2, <2>4, <3>2
    <3> QED BY <2>1, <3>3, <3>4 DEF Put
  <2>9. ASSUME NEW y \in 0 .. Tall(h) - 1
        PROVE  LineFrom(h, y) \in 0 .. h - 1 /\ (y * h) \div Tall(h) = LineFrom(h, y)
    BY <1>2, LinesComeFrom
  <2>10. ShownIsHanded'
    <3>1. handed'.width = picture.width /\ handed'.height = picture.height /\ handed'.pixels = picture.pixels
          /\ handed'.of = picture.of
      BY <2>1
    <3>2. w = Lesser(handed'.width, WidthMax) /\ h = Lesser(handed'.height, HeightMax)
      BY <3>1 DEF w, h
    <3>3. \A x \in 0 .. width' - 1, y \in 0 .. height' - 1 :
             buffer'[y * width' + x + 1] = handed'.pixels[(y * Lesser(handed'.height, HeightMax)) \div height'][x]
      BY <2>1, <2>8, <2>9, <3>1, <3>2
    <3>4. renderer' = "bob" =>
             \A x \in 0 .. width' - 1, y \in 0 .. height' - 1 : buffer'[y * width' + x + 1][1] = handed'.of
      BY <2>1, <2>5, <2>8, <2>9, <3>1
    <3> QED BY <2>1, <3>2, <3>3, <3>4 DEF ShownIsHanded
  <2> QED BY <1>1, <1>2, <2>1, <2>3, <2>7, <2>10
<1>4. CASE ~rendering
  <2>1. UNCHANGED <<buffer, width, height, handed>>
    BY <1>4 DEF Video
  <2> QED BY <2>1 DEF PictureInv, PictureTypeOK, ShownIsHanded, Pixels
<1> QED BY <1>3, <1>4

\* A frame angrylion made: whole, and of a Bob Deinterlaced one the newest
\* field, or all of it if it is not woven, is of one drawing.
Made(fb) ==
    /\ fb.width \in Nat \ {0} /\ fb.height \in Nat \ {0} /\ fb.lower \in BOOLEAN
    /\ \A x, y \in Nat : x < fb.width /\ y < fb.height =>
          /\ fb.pixels[y][x] \in Pixels
          /\ ByField(fb) /\ (y % 2 = 1) = fb.lower => fb.pixels[y][x][1] = fb.of
          /\ renderer = "bob" /\ ~ByField(fb) => fb.pixels[y][x][1] = fb.of

LEMMA FullType == Full \in Nat \ {0} /\ AtFirst[1] \in Nat \ {0} /\ Full \in {AtFirst[2], AtFirst[3]}
BY PictureAssumption DEF Full

\* A woven frame has more lines than half a picture, and is shown by the field.
LEMMA UpdatedIsMade ==
    ASSUME PictureInv, NEW f \in Frames, NEW lower \in BOOLEAN
    PROVE  Made(Updated(f, lower)) /\ Updated(f, lower) # NoFrame
<1> DEFINE fb == Updated(f, lower)
<1>1. /\ f.width \in Nat \ {0} /\ f.height \in Nat \ {0} /\ f.woven \in BOOLEAN
      /\ f.woven => f.height > Full \div 2
  <2>1. /\ f.width \in Nat \ {0} /\ f.height \in Nat \ {0} /\ f.woven \in BOOLEAN
        /\ f.woven => f.height > AtFirst[2] \div 2 /\ f.height > AtFirst[3] \div 2
    BY PictureAssumption
  <2>2. Full = AtFirst[2] \/ Full = AtFirst[3]
    BY FullType
  <2> QED BY <2>1, <2>2
<1>2. fb.width = f.width /\ fb.height = f.height /\ fb.lower = lower /\ fb.of = NextDrawing
  BY DEF Updated
<1>3. NextDrawing \in Nat
  BY NextDrawingType, PictureAssumption DEF PictureInv
<1>4. ASSUME NEW x \in Nat, NEW y \in Nat, x < f.width, y < f.height
      PROVE  /\ fb.pixels[y][x] \in Pixels
             /\ ~f.woven \/ (y % 2 = 1) = lower => fb.pixels[y][x][1] = NextDrawing
  <2>1. x \in 0 .. f.width - 1 /\ y \in 0 .. f.height - 1
    BY <1>1, <1>4
  <2>2. fb.pixels[y][x] = IF ~f.woven \/ (y % 2 = 1) = lower THEN Pixel(NextDrawing, x, y)
                          ELSE IF x < g_fb.width /\ y < g_fb.height THEN g_fb.pixels[y][x]
                          ELSE Blank
    BY <2>1 DEF Updated
  <2>3. Pixel(NextDrawing, x, y) \in Pixels /\ Pixel(NextDrawing, x, y)[1] = NextDrawing /\ Blank \in Pixels
    BY <1>3, PixelType DEF Blank
  <2>4. x < g_fb.width /\ y < g_fb.height => g_fb.pixels[y][x] \in Pixels
    BY DEF PictureInv
  <2> QED BY <2>2, <2>3, <2>4
<1>5. renderer = "bob" /\ ~ByField(fb) => ~f.woven
  BY <1>1, <1>2 DEF ByField
<1>6. fb # NoFrame
  BY <1>1, <1>2 DEF NoFrame
<1> HIDE DEF fb
<1>7. Made(fb)
  BY <1>1, <1>2, <1>4, <1>5 DEF Made
<1> QED BY <1>6, <1>7 DEF fb

\* A column of the frame for each of the picture's.
LEMMA StretchedColumn ==
    ASSUME NEW across \in Nat \ {0}, NEW columns \in Nat \ {0}, NEW x \in 0 .. across - 1
    PROVE  (x * columns) \div across \in 0 .. columns - 1
<1> DEFINE i == x * columns + 1
<1>1. x * columns >= 0 /\ (x + 1) * columns <= across * columns
  OBVIOUS
<1>2. (x + 1) * columns = x * columns + columns
  OBVIOUS
<1>3. i \in 1 .. across * columns /\ i - 1 = x * columns
  BY <1>1, <1>2
<1> HIDE DEF i
<1>4. (i - 1) \div across \in 0 .. columns - 1
  BY <1>3, LineOfPlace
<1> QED BY <1>3, <1>4

\* refresh() takes its lines and columns from within the frame, and those of
\* the newest field alone if it shows a field.
LEMMA RefreshedIsHanded ==
    ASSUME NEW fb, Made(fb), fb # NoFrame
    PROVE  Handed(Refreshed(fb))
<1> DEFINE first == IF ByField(fb) /\ fb.lower THEN 1 ELSE 0
           step  == IF ByField(fb) THEN 2 ELSE 1
           shown == Lesser(fb.height \div step, Full)
<1>1. /\ step \in {1, 2} /\ first \in {0, 1} /\ fb.height \in Nat \ {0} /\ fb.width \in Nat \ {0}
      /\ first <= step - 1
      /\ step = 2 => ByField(fb) /\ (first = 1) = fb.lower
  BY DEF Made
<1>2. Refreshed(fb) = [width |-> AtFirst[1], height |-> shown, of |-> fb.of,
                       pixels |-> [y \in 0 .. shown - 1 |-> [x \in 0 .. AtFirst[1] - 1 |->
                                     fb.pixels[first + y * step][(x * fb.width) \div AtFirst[1]]]]]
  BY DEF Refreshed
<1>3. shown \in Nat /\ shown <= fb.height \div step
  <2>1. fb.height \div step \in Nat
    BY <1>1
  <2> QED BY <2>1, LesserType, FullType
<1> HIDE DEF shown
<1>4. ASSUME NEW x \in 0 .. AtFirst[1] - 1, NEW y \in 0 .. shown - 1
      PROVE  /\ Refreshed(fb).pixels[y][x] \in Pixels
             /\ renderer = "bob" => Refreshed(fb).pixels[y][x][1] = fb.of
  <2> DEFINE column == (x * fb.width) \div AtFirst[1]
             line == first + y * step
  <2>1. column \in Nat /\ column < fb.width
    <3>1. AtFirst[1] \in Nat \ {0} /\ fb.width \in Nat \ {0}
      BY <1>1, FullType
    <3>2. column \in 0 .. fb.width - 1
      BY <3>1, StretchedColumn
    <3> QED BY <3>1, <3>2
  <2>2. line \in Nat /\ line < fb.height
    <3>1. CASE step = 1
      BY <1>1, <1>3, <3>1
    <3>2. CASE step = 2
      <4>1. y < fb.height \div 2 /\ first <= 1 /\ y \in Nat
        BY <1>1, <1>3, <3>2
      <4>2. 2 * (fb.height \div 2) <= fb.height
        BY <1>1
      <4> QED BY <1>1, <4>1, <4>2, <3>2
    <3> QED BY <1>1, <3>1, <3>2
  <2>3. step = 2 => ByField(fb) /\ (line % 2 = 1) = fb.lower
    <3> SUFFICES ASSUME step = 2 PROVE ByField(fb) /\ (line % 2 = 1) = fb.lower
      OBVIOUS
    <3>1. line = first + y * 2 /\ first \in {0, 1} /\ y \in Nat
      OBVIOUS
    <3>2. (line % 2 = 1) <=> first = 1
      BY <3>1
    <3> QED BY <1>1, <3>2
  <2>4. step = 1 => ~ByField(fb)
    OBVIOUS
  <2>5. Refreshed(fb).pixels[y][x] = fb.pixels[line][column]
    BY <1>2
  <2> HIDE DEF line, column, step, first
  <2> QED BY <1>1, <2>1, <2>2, <2>3, <2>4, <2>5 DEF Made
<1>5. Refreshed(fb) # NoFrame
  BY <1>2, FullType, PictureAssumption DEF NoFrame
<1>6. Refreshed(fb).width = AtFirst[1] /\ Refreshed(fb).height = shown /\ Refreshed(fb).of = fb.of
  BY <1>2
<1> QED BY <1>3, <1>4, <1>5, <1>6, FullType DEF Handed

LEMMA NoFrameIsHanded == Handed(Refreshed(NoFrame))
<1>1. Refreshed(NoFrame) = [width |-> 1, height |-> 1, of |-> 0, pixels |-> [y \in {0} |-> [x \in {0} |-> Blank]]]
  BY DEF Refreshed
<1>2. Blank \in Pixels /\ Blank[1] = 0
  BY PixelType DEF Blank
<1> QED BY <1>1, <1>2 DEF Handed, NoFrame

LEMMA PictureBegins == PictureInit => PictureInv
<1> SUFFICES ASSUME PictureInit PROVE PictureInv
  OBVIOUS
<1>1. PictureTypeOK
  <2>1. Blank \in [1 .. 3 -> Nat]
    BY PixelType DEF Blank, Pixels
  <2>2. WidthMax \in Nat /\ HeightMax \in Nat /\ Drawings \in Nat
        /\ AtFirst[1] \in 0 .. WidthMax /\ AtFirst[2] \in 0 .. HeightMax /\ AtFirst[3] \in 0 .. HeightMax
    BY PictureAssumption
  <2>3. declared \in Declarations \union {<<0, 0>>} /\ {n64, pal, rendering} \subseteq BOOLEAN
    BY DEF PictureInit
  <2>4. buffer \in [1 .. WidthMax * HeightMax -> [1 .. 3 -> Nat]]
    BY <2>1 DEF PictureInit
  <2>5. width \in 0 .. WidthMax /\ height \in 0 .. HeightMax
    BY <2>2 DEF PictureInit
  <2> QED BY <2>2, <2>3, <2>4, <2>5 DEF PictureInit, PictureTypeOK
<1>2. renderer \in {"ares", "software", "bob"}
  BY DEF PictureInit
<1> QED BY <1>1, <1>2 DEF PictureInit, PictureInv, NoFrame, ShownIsHanded

LEMMA PictureKeeps == PictureInv /\ [PictureNext]_pictureVars => PictureInv'
<1> SUFFICES ASSUME PictureInv, [PictureNext]_pictureVars PROVE PictureInv'
  OBVIOUS
<1>1. ASSUME NEW screen \in Screens, Draw(screen) PROVE PictureInv'
  <2> DEFINE picture == [width |-> screen[1], height |-> screen[2], of |-> NextDrawing,
                         pixels |-> [y \in 0 .. screen[2] - 1 |-> [x \in 0 .. screen[1] - 1 |->
                                       Pixel(NextDrawing, x, y)]]]
  <2>1. screen[1] \in Nat /\ screen[2] \in Nat /\ NextDrawing \in Nat /\ NextDrawing \in 0 .. Drawings
    BY NextDrawingType, PictureAssumption DEF PictureInv
  <2>2. ASSUME NEW x \in 0 .. screen[1] - 1, NEW y \in 0 .. screen[2] - 1
        PROVE  picture.pixels[y][x] \in Pixels /\ picture.pixels[y][x][1] = NextDrawing
    <3>1. Pixel(NextDrawing, x, y) \in Pixels /\ Pixel(NextDrawing, x, y)[1] = NextDrawing
      BY <2>1, PixelType
    <3> QED BY <3>1
  <2>3. picture # NoFrame
    <3>1. DOMAIN picture # DOMAIN NoFrame
      BY DEF NoFrame
    <3> QED BY <3>1
  <2>4. Handed(picture)
    BY <2>1, <2>2, <2>3 DEF Handed
  <2>5. Video(picture) /\ renderer' = renderer
    BY <1>1 DEF Draw
  <2> HIDE DEF picture
  <2>6. /\ buffer' \in [1 .. WidthMax * HeightMax -> Pixels]
        /\ width' \in 0 .. WidthMax /\ height' \in 0 .. HeightMax
        /\ ShownIsHanded'
    BY <2>4, <2>5, VideoShows
  <2> QED BY <1>1, <2>1, <2>6 DEF Draw, PictureInv, PictureTypeOK, Pixels
<1>2. ASSUME NEW fb, SoftwareFrame(fb), fb = NoFrame \/ Made(fb), Handed(Refreshed(fb)) PROVE PictureInv'
  <2>1. drawn' \in 0 .. Drawings
    <3>1. drawn \in 0 .. Drawings
      BY DEF PictureInv, PictureTypeOK
    <3>2. NextDrawing \in 0 .. Drawings
      BY NextDrawingType, PictureAssumption DEF PictureInv
    <3>3. drawn' = drawn \/ drawn' = NextDrawing
      BY <1>2 DEF SoftwareFrame
    <3> QED BY <3>1, <3>2, <3>3
  <2>2. Video(Refreshed(fb)) /\ renderer' = renderer
    BY <1>2 DEF SoftwareFrame
  <2>3. /\ buffer' \in [1 .. WidthMax * HeightMax -> Pixels]
        /\ width' \in 0 .. WidthMax /\ height' \in 0 .. HeightMax
        /\ ShownIsHanded'
    BY <1>2, <2>2, VideoShows
  <2>4. \A x, y \in Nat : x < g_fb'.width /\ y < g_fb'.height => g_fb'.pixels[y][x] \in Pixels
    <3>1. CASE fb = NoFrame
      BY <1>2, <3>1 DEF SoftwareFrame, NoFrame
    <3>2. CASE Made(fb)
      BY <1>2, <3>2 DEF SoftwareFrame, Made
    <3> QED BY <1>2, <3>1, <3>2
  <2> QED BY <1>2, <2>1, <2>3, <2>4 DEF SoftwareFrame, PictureInv, PictureTypeOK, Pixels
<1>3. ASSUME NEW f \in Frames, NEW lower \in BOOLEAN, SoftwareFrame(Updated(f, lower)) PROVE PictureInv'
  BY <1>2, <1>3, UpdatedIsMade, RefreshedIsHanded
<1>4. ASSUME SoftwareFrame(NoFrame) PROVE PictureInv'
  BY <1>2, <1>4, NoFrameIsHanded
<1>5. ASSUME NEW on \in BOOLEAN, SetRendering(on) PROVE PictureInv'
  BY <1>5 DEF SetRendering, PictureInv, PictureTypeOK, ShownIsHanded
<1>6. ASSUME NEW r \in Hints, RefreshRateHint(r) PROVE PictureInv'
  BY <1>6 DEF RefreshRateHint, PictureInv, PictureTypeOK, ShownIsHanded
<1>7. CASE UNCHANGED pictureVars
  BY <1>7 DEF pictureVars, PictureInv, PictureTypeOK, ShownIsHanded
<1> QED BY <1>1, <1>3, <1>4, <1>5, <1>6, <1>7 DEF PictureNext, Shows, SaysItsRate

LEMMA PictureHolds == PictureSpec => []PictureInv
BY PictureBegins, PictureKeeps, PTL DEF PictureSpec

\* Every variable of the picture keeps its type: whatever is handed over, and
\* whatever the sizes, the picture fits the buffer (video()).
THEOREM PictureTypesHold == PictureSpec => []PictureTypeOK
BY PictureHolds, PTL DEF PictureInv

\* What is shown is the last picture handed over while the machine drew, cut to
\* the buffer and doubled where it is a field's, whatever came before; of a
\* woven one Bob Deinterlacing shows the newest field alone (video(), refresh()).
THEOREM ShownIsAlwaysHanded == PictureSpec => []ShownIsHanded
BY PictureHolds, PTL DEF PictureInv

-----------------------------------------------------------------------------
(* The rate. What the loop keeps is that the rate lies between two convergents *)
(* in turn, which are as close as fractions of their denominators can be.      *)

LEMMA Divided ==
    ASSUME NEW a \in Nat, NEW b \in Nat \ {0}
    PROVE  /\ a \div b \in Nat /\ a % b \in 0 .. b - 1 /\ a = (a \div b) * b + (a % b)
           /\ a >= b => a \div b >= 1
<1>1. a \div b \in Nat /\ a % b \in 0 .. b - 1 /\ a = b * (a \div b) + (a % b)
  OBVIOUS
<1>2. ASSUME a \div b = 0 PROVE a < b
  BY <1>1, <1>2
<1> QED BY <1>1, <1>2

LEMMA StrictlyLarger ==
    ASSUME NEW a \in Nat, NEW b \in Nat, NEW c \in Nat \ {0}, a < b PROVE a * c < b * c
OBVIOUS

LEMMA Cancelled ==
    ASSUME NEW a \in Int, NEW b \in Int, NEW c \in Nat \ {0}, a * c <= b * c PROVE a <= b
OBVIOUS

LEMMA Unfolded ==
    ASSUME NEW a \in Int, NEW b \in Int, NEW l \in Int, NEW w \in Int, NEW h \in Int, NEW g \in Int, a = w * b + l
    PROVE  h * a + g * b = (w * h + g) * b + h * l
OBVIOUS

LEMMA UnitTurns ==
    ASSUME NEW h \in Int, NEW g \in Int, NEW k \in Int, NEW e \in Int, NEW w \in Int
    PROVE  (w * h + g) * k - h * (w * k + e) = -(h * e - g * k)
OBVIOUS

\* The unit a turn's two convergents are apart by.
Units == {1, -1}

LEMMA UnitsOwn == ASSUME NEW s \in Units PROVE s \in Int /\ -s \in Units /\ s * s = 1
BY DEF Units

\* h / k misses p / q by so many units, over both denominators; n / d is p / q.
Misses(p, q, h, k, s, l) == {p, q, h, k, l} \subseteq Nat /\ s \in Units /\ h * q - p * k = s * l
Equals(n, d, p, q) == {n, d, p, q} \subseteq Nat /\ n * q = p * d

\* How many parts of a convergent's miss the fraction n / d has.
Share(s, h, k, n, d) == s * (h * d - n * k)
Shares(q, h, k, s, l, n, d) == q * Share(s, h, k, n, d) = d * l

\* A fraction n / d that is r lies in as many parts of a convergent's error as it has.
LEMMA PartsOfAMiss ==
    ASSUME NEW p, NEW q, NEW h, NEW k, NEW l, NEW s, NEW n, NEW d, Misses(p, q, h, k, s, l), Equals(n, d, p, q)
    PROVE  Shares(q, h, k, s, l, n, d)
<1>0. /\ p \in Nat /\ q \in Nat /\ h \in Nat /\ k \in Nat /\ l \in Nat /\ n \in Nat /\ d \in Nat
      /\ s \in Units /\ h * q - p * k = s * l /\ n * q = p * d
  BY DEF Misses, Equals
<1> USE <1>0
<1>1. s \in Int /\ s * s = 1
  BY UnitsOwn
<1>2. q * (h * d - n * k) = d * (h * q) - (n * q) * k
  OBVIOUS
<1>3. (n * q) * k = d * (p * k)
  <2>1. (n * q) * k = (p * d) * k
    OBVIOUS
  <2>2. (p * d) * k = d * (p * k)
    OBVIOUS
  <2> QED BY <2>1, <2>2
<1>4. d * (h * q) - d * (p * k) = d * (h * q - p * k)
  OBVIOUS
<1>5. q * (h * d - n * k) = d * (s * l)
  BY <1>2, <1>3, <1>4
<1> DEFINE x == h * d - n * k
<1>6. x \in Int
  OBVIOUS
<1> HIDE DEF x
<1>7. q * (s * x) = s * (q * x)
  BY <1>1, <1>6
<1>8. s * (d * (s * l)) = d * l
  <2>1. s * (d * (s * l)) = (s * s) * (d * l)
    BY <1>1
  <2> QED BY <2>1, <1>1
<1> QED BY <1>5, <1>7, <1>8 DEF x, Share, Shares

\* A fraction that is r, and is not the convergent the loop stops at, is not a
\* simple one.
LEMMA SimpleOnesAreReached ==
    ASSUME NEW p \in Nat \ {0}, NEW q \in Nat \ {0}, NEW h \in Nat, NEW k \in Nat \ {0}, NEW g \in Nat, NEW e \in Nat,
           NEW b \in Nat \ {0}, NEW l \in Nat \ {0}, l < b, NEW s \in Units, NEW near \in Nat,
           Misses(p, q, h, k, s, l), Misses(p, q, g, e, -s, b), k * b <= q, l * near < p * k,
           NEW n \in Nat \ {0}, NEW d \in Nat \ {0}, Equals(n, d, p, q)
    PROVE  n * d > 2 * near
<1> DEFINE x == Share(s, h, k, n, d)
           y == Share(-s, g, e, n, d)
<1>1. x \in Int /\ y \in Int /\ -s \in Units
  BY UnitsOwn DEF Share
<1>a. n * q = p * d
  BY DEF Equals
<1>b. Shares(q, h, k, s, l, n, d) /\ Shares(q, g, e, -s, b, n, d)
  BY PartsOfAMiss, Zenon
<1>2. q * x = d * l
  BY <1>b DEF Shares
<1>3. q * y = d * b
  BY <1>b DEF Shares
<1> HIDE DEF x, y
<1>4. d * l < d * b /\ 0 < d * l
  OBVIOUS
<1>5. q * x < q * y /\ q * 0 < q * x
  BY <1>2, <1>3, <1>4
<1>6. x < y /\ 0 < x
  <2>1. ASSUME NEW u \in Int, NEW v \in Int, q * u < q * v PROVE u < v
    BY <2>1
  <2> QED BY <1>1, <1>5, <2>1
<1>7. 2 <= y /\ 1 <= x
  BY <1>1, <1>6
<1>8. d >= 2 * k
  <2>1. q * 2 <= q * y
    BY <1>1, <1>7
  <2>2. (2 * k) * b <= d * b
    <3>1. (2 * k) * b = 2 * (k * b)
      OBVIOUS
    <3> QED BY <2>1, <3>1, <1>3
  <2> QED BY <2>2, Cancelled
<1>9. n * l >= p
  <2>1. q * (n * l) = q * (p * x)
    <3>1. q * (n * l) = (n * q) * l
      OBVIOUS
    <3>2. (p * d) * l = p * (d * l)
      OBVIOUS
    <3>3. p * (q * x) = q * (p * x)
      BY <1>1
    <3>4. (n * q) * l = (p * d) * l
      BY <1>a
    <3>5. p * (d * l) = p * (q * x)
      BY <1>2
    <3> QED BY <3>1, <3>2, <3>3, <3>4, <3>5
  <2>2. p * x >= p
    BY <1>1, <1>7
  <2>3. p * x \in Int /\ n * l \in Int
    BY <1>1
  <2>4. q * p <= q * (n * l)
    <3>1. q * p <= q * (p * x)
      BY <2>2, <2>3
    <3> QED BY <2>1, <3>1
  <2>5. p * q <= (n * l) * q
    BY <2>4, <2>3
  <2> QED BY <2>3, <2>5, Cancelled
<1>10. p * d <= (n * l) * d
  BY <1>9
<1>11. p * (2 * k) <= p * d
  BY <1>8
<1>12. (n * l) * d = l * (n * d) /\ p * (2 * k) = 2 * (p * k) /\ 2 * (l * near) = l * (2 * near)
  OBVIOUS
<1>13. l * (2 * near) < l * (n * d)
  BY <1>10, <1>11, <1>12
<1> QED BY <1>13

\* What two convergents in turn have to do with the rate p / q, of whose
\* expansion a / b is left: it is between them, and they are as close as two
\* fractions of their denominators are.
Expands(p, q, h, k, g, e, a, b) ==
    /\ {h, k, g, e, a, b} \subseteq Nat /\ 0 < b /\ b < a /\ h >= 1 /\ k + e >= 1
    /\ h * a + g * b = p /\ k * a + e * b = q /\ h * e - g * k \in Units

\* The same after a turn, where all there is of the rate may be found.
Found(p, q, h, k, g, e, b, l) ==
    /\ {h, k, g, e, b, l} \subseteq Nat /\ l < b /\ h >= 1 /\ k >= 1 /\ k * b <= q /\ h * b <= p
    /\ h * b + g * l = p /\ k * b + e * l = q
    /\ h * e - g * k \in Units
    /\ Misses(p, q, h, k, h * e - g * k, l) /\ Misses(p, q, g, e, -(h * e - g * k), b)

LEMMA ConvergentsMiss ==
    ASSUME NEW h \in Nat, NEW k \in Nat, NEW g \in Nat, NEW e \in Nat, NEW b \in Nat, NEW l \in Nat,
           NEW p \in Nat, NEW q \in Nat, h * b + g * l = p, k * b + e * l = q, h * e - g * k \in Units
    PROVE  Misses(p, q, h, k, h * e - g * k, l) /\ Misses(p, q, g, e, -(h * e - g * k), b)
<1> DEFINE s == h * e - g * k
<1>1. h * q - p * k = s * l
  <2>1. h * (k * b + e * l) - (h * b + g * l) * k = (h * e - g * k) * l
    OBVIOUS
  <2> QED BY <2>1
<1>2. g * q - p * e = (-s) * b
  <2>1. g * (k * b + e * l) - (h * b + g * l) * e = -((h * e - g * k) * b)
    OBVIOUS
  <2>2. -(s * b) = (-s) * b
    OBVIOUS
  <2> QED BY <2>1, <2>2
<1>3. -s \in Units
  BY UnitsOwn
<1> HIDE DEF s
<1>4. Misses(p, q, h, k, s, l) /\ Misses(p, q, g, e, -s, b)
  BY <1>1, <1>2, <1>3 DEF Misses, s
<1> QED BY <1>4 DEF s

LEMMA ATurn ==
    ASSUME NEW p \in Nat, NEW q \in Nat, NEW h, NEW k, NEW g, NEW e, NEW a, NEW b, Expands(p, q, h, k, g, e, a, b)
    PROVE  /\ Found(p, q, (a \div b) * h + g, (a \div b) * k + e, h, k, b, a % b)
           /\ (a \div b) * k + e >= k + e
<1>0. /\ h \in Nat /\ k \in Nat /\ g \in Nat /\ e \in Nat /\ a \in Nat /\ b \in Nat \ {0}
      /\ b < a /\ h >= 1 /\ k + e >= 1 /\ h * a + g * b = p /\ k * a + e * b = q /\ h * e - g * k \in Units
  BY DEF Expands
<1> USE <1>0
<1> DEFINE w == a \div b
           l == a % b
           hh == w * h + g
           kk == w * k + e
<1>1. w \in Nat /\ l \in 0 .. b - 1 /\ a = w * b + l /\ w >= 1
  <2>1. a >= b
    OBVIOUS
  <2>2. w \in Nat /\ l \in 0 .. b - 1 /\ a = w * b + l /\ (a >= b => w >= 1)
    BY Divided, Zenon
  <2> QED BY <2>1, <2>2
<1> HIDE DEF w, l
<1>2. hh * b + h * l = p /\ kk * b + k * l = q
  BY <1>1, Unfolded
<1>3. w * h >= h /\ w * k >= k /\ w * h \in Nat /\ w * k \in Nat
  BY <1>1
<1>4. hh \in Nat /\ kk \in Nat /\ hh >= 1 /\ kk >= k + e /\ kk >= 1
  BY <1>3
<1>5. hh * k - h * kk \in Units
  <2>1. hh * k - h * kk = -(h * e - g * k)
    BY <1>1, UnitTurns
  <2> QED BY <2>1, UnitsOwn
<1> HIDE DEF hh, kk
<1>6. l \in Nat /\ l < b
  BY <1>1
<1>7. Misses(p, q, hh, kk, hh * k - h * kk, l) /\ Misses(p, q, h, k, -(hh * k - h * kk), b)
  BY <1>2, <1>4, <1>5, <1>6, ConvergentsMiss
<1>8. h * l \in Nat /\ k * l \in Nat /\ hh * b \in Nat /\ kk * b \in Nat
  BY <1>4, <1>6
<1>9. Found(p, q, hh, kk, h, k, b, l)
  BY <1>2, <1>4, <1>5, <1>6, <1>7, <1>8 DEF Found
<1> QED BY <1>4, <1>9 DEF hh, kk, w, l

Magnitude(n) == IF n < 0 THEN -n ELSE n

\* What the loop promises of the fraction h / k it stops at.
IsRecovered(p, q, h, k) ==
    /\ h \in Nat \ {0} /\ k \in 1 .. q
    /\ Magnitude(h * q - p * k) * Nearly < p * k
    /\ \A n \in 1 .. p, d \in 1 .. q : n * q = p * d /\ n * d <= 2 * Nearly => h * q - p * k = 0

LEMMA MissIsWhatIsLeft ==
    ASSUME NEW p, NEW q, NEW h, NEW k, NEW s, NEW l, Misses(p, q, h, k, s, l)
    PROVE  Magnitude(h * q - p * k) = l
BY DEF Misses, Units, Magnitude

LEMMA FoundIsRecovered ==
    ASSUME NEW p \in Nat \ {0}, NEW q \in Nat \ {0}, NEW h, NEW k, NEW g, NEW e, NEW b, NEW l,
           Found(p, q, h, k, g, e, b, l), l = 0 \/ l * Nearly < p * k, Nearly \in Nat
    PROVE  IsRecovered(p, q, h, k)
<1>0. /\ h \in Nat \ {0} /\ k \in Nat \ {0} /\ g \in Nat /\ e \in Nat /\ b \in Nat \ {0} /\ l \in Nat /\ l < b /\ k * b <= q
      /\ Misses(p, q, h, k, h * e - g * k, l) /\ Misses(p, q, g, e, -(h * e - g * k), b) /\ h * e - g * k \in Units
  <2>1. {h, k, g, e, b, l} \subseteq Nat /\ l < b /\ h >= 1 /\ k >= 1 /\ k * b <= q
    BY DEF Found
  <2>2. Misses(p, q, h, k, h * e - g * k, l) /\ Misses(p, q, g, e, -(h * e - g * k), b) /\ h * e - g * k \in Units
    BY Zenon DEF Found
  <2> QED BY <2>1, <2>2
<1>1. Magnitude(h * q - p * k) = l
  BY <1>0, MissIsWhatIsLeft
<1>2. k <= q
  <2>1. k * 1 <= k * b
    BY <1>0
  <2> QED BY <1>0, <2>1
<1>3. l * Nearly < p * k
  <2>1. p * k > 0
    BY <1>0
  <2> QED BY <2>1
<1>4. ASSUME NEW n \in 1 .. p, NEW d \in 1 .. q, n * q = p * d, n * d <= 2 * Nearly, l # 0 PROVE FALSE
  <2>1. Equals(n, d, p, q) /\ n \in Nat \ {0} /\ d \in Nat \ {0} /\ l \in Nat \ {0}
    BY <1>0, <1>4 DEF Equals
  <2>2. n * d > 2 * Nearly
    <3> DEFINE s == h * e - g * k
    <3>1. s \in Units /\ Misses(p, q, h, k, s, l) /\ Misses(p, q, g, e, -s, b)
      BY <1>0
    <3> HIDE DEF s
    <3> QED BY <1>0, <1>3, <2>1, <3>1, SimpleOnesAreReached
  <2> QED BY <2>1, <2>2, <1>4
<1>5. l = 0 => h * q - p * k = 0
  <2> DEFINE x == h * q - p * k
  <2>1. x \in Int
    BY <1>0
  <2> HIDE DEF x
  <2>2. Magnitude(x) = l
    BY <1>1 DEF x
  <2>3. l = 0 => x = 0
    BY <2>1, <2>2 DEF Magnitude
  <2> QED BY <2>3 DEF x
<1>6. \A n \in 1 .. p, d \in 1 .. q : n * q = p * d /\ n * d <= 2 * Nearly => h * q - p * k = 0
  BY <1>4, <1>5, Zenon
<1>7. Magnitude(h * q - p * k) * Nearly < p * k
  BY <1>1, <1>3
<1>8. h \in Nat \ {0} /\ k \in 1 .. q
  BY <1>0, <1>2
<1> QED BY <1>6, <1>7, <1>8, Zenon DEF IsRecovered

Turns == [num : Nat, den : Nat, prevNum : Nat, prevDen : Nat, value : Nat \X Nat, done : BOOLEAN]

UnderWay(r, c) ==
    ~c.done /\ Expands(r[1], r[2], c.num, c.den, c.prevNum, c.prevDen, c.value[1], c.value[2])

Done(r, c) == c.done /\ IsRecovered(r[1], r[2], c.num, c.den)

\* A rate a screen could have, none of whose convergents is too large.
IsRate(r) == r = <<r[1], r[2]>> /\ r[1] \in 1 .. NumMax /\ r[2] \in 1 .. DenMax /\ InBand(r)


\* What applies g up to n times to x, which is in S, where g stays.
Iterates(f, S, x, g, n) == f \in [0 .. n -> S] /\ \A i \in 0 .. n : f[i] = IF i = 0 THEN x ELSE g[f[i - 1]]

LEMMA IterationsExist ==
    ASSUME NEW S, NEW x \in S, NEW g \in [S -> S], NEW last \in Nat
    PROVE  \E f : Iterates(f, S, x, g, last)
<1> DEFINE Without == {n \in Nat : ~ \E f : Iterates(f, S, x, g, n)}
<1> SUFFICES ASSUME Without # {} PROVE FALSE
  OBVIOUS
<1>1. PICK n \in Without : \A m \in Without : n <= m
  <2>1. Without \subseteq Nat
    OBVIOUS
  <2> HIDE DEF Without
  <2> QED BY <2>1, LeastOfNaturals
<1>2. CASE n = 0
  <2>1. Iterates([i \in 0 .. 0 |-> x], S, x, g, 0)
    BY DEF Iterates
  <2> QED BY <1>2, <2>1
<1>3. CASE n # 0
  <2>1. n - 1 \in Nat /\ n - 1 \notin Without
    BY <1>1, <1>3
  <2>2. PICK h : Iterates(h, S, x, g, n - 1)
    BY <2>1
  <2> DEFINE f == [i \in 0 .. n |-> IF i = n THEN g[h[n - 1]] ELSE h[i]]
  <2>3. f \in [0 .. n -> S]
    <3>1. h[n - 1] \in S /\ \A i \in 0 .. n : i # n => h[i] \in S
      BY <2>1, <2>2 DEF Iterates
    <3> QED BY <3>1
  <2>4. ASSUME NEW i \in 0 .. n PROVE f[i] = IF i = 0 THEN x ELSE g[f[i - 1]]
    <3>1. CASE i = n
      BY <1>3, <2>1, <3>1
    <3>2. CASE i # n
      <4>1. i \in 0 .. n - 1 /\ f[i] = h[i]
        BY <3>2
      <4>2. i # 0 => i - 1 \in 0 .. n /\ i - 1 # n /\ f[i - 1] = h[i - 1]
        OBVIOUS
      <4>3. h[i] = IF i = 0 THEN x ELSE g[h[i - 1]]
        BY <2>2, <4>1 DEF Iterates
      <4> HIDE DEF f
      <4> QED BY <4>1, <4>2, <4>3
    <3> QED BY <3>1, <3>2
  <2>5. Iterates(f, S, x, g, n)
    <3> HIDE DEF f
    <3> QED BY <2>3, <2>4 DEF Iterates
  <2> QED BY <2>5
<1> QED BY <1>2, <1>3

\* What holds at first and of each turn if of the one before holds of them all.
LEMMA TurnByTurn ==
    ASSUME NEW n \in Nat, NEW P, 0 \in P, \A i \in 1 .. n : i - 1 \in P => i \in P
    PROVE  0 .. n \subseteq P
<1> DEFINE Wrong == (0 .. n) \ P
<1> SUFFICES ASSUME Wrong # {} PROVE FALSE
  OBVIOUS
<1>1. PICK m \in Wrong : \A i \in Wrong : m <= i
  <2>1. Wrong \subseteq Nat
    OBVIOUS
  <2> HIDE DEF Wrong
  <2> QED BY <2>1, LeastOfNaturals
<1>2. m \in 1 .. n /\ m - 1 \notin Wrong /\ m - 1 \in 0 .. n
  <2>1. m # 0 /\ m \in 0 .. n
    OBVIOUS
  <2>2. m - 1 \notin Wrong
    <3> HIDE DEF Wrong
    <3> QED BY <1>1, <2>1
  <2> QED BY <2>1, <2>2
<1> QED BY <1>2

Doubles(f, n) == f = [i \in 0 .. n |-> IF i = 0 THEN 1 ELSE 2 * f[i - 1]]

LEMMA DoublingsExist ==
    ASSUME NEW n \in Nat
    PROVE  \E f : Doubles(f, n)
<1> DEFINE g == [y \in Nat |-> 2 * y]
<1>1. g \in [Nat -> Nat] /\ 1 \in Nat
  OBVIOUS
<1>2. PICK f : Iterates(f, Nat, 1, g, n)
  <2> HIDE DEF g
  <2> QED BY <1>1, IterationsExist
<1>3. ASSUME NEW i \in 0 .. n PROVE f[i] = IF i = 0 THEN 1 ELSE 2 * f[i - 1]
  <2>1. f[i] = IF i = 0 THEN 1 ELSE g[f[i - 1]]
    BY <1>2 DEF Iterates
  <2>2. i # 0 => i - 1 \in 0 .. n
    OBVIOUS
  <2>3. i # 0 => f[i - 1] \in Nat
    BY <1>2, <2>2 DEF Iterates
  <2> QED BY <2>1, <2>3
<1>4. f = [i \in 0 .. n |-> f[i]]
  BY <1>2 DEF Iterates
<1>5. Doubles(f, n)
  BY <1>3, <1>4 DEF Doubles
<1> QED BY <1>5

LEMMA DoublingsAgree ==
    ASSUME NEW n \in Nat, NEW f, Doubles(f, n), NEW m \in Nat, NEW h, Doubles(h, m), n <= m
    PROVE  \A i \in 0 .. n : f[i] \in Nat /\ f[i] = h[i]
<1> DEFINE P == {i \in Nat : f[i] \in Nat /\ f[i] = h[i]}
<1>1. 0 \in P
  BY DEF Doubles
<1>2. ASSUME NEW i \in 1 .. n, i - 1 \in P PROVE i \in P
  <2>1. f[i] = 2 * f[i - 1] /\ h[i] = 2 * h[i - 1]
    BY DEF Doubles
  <2> QED BY <1>2, <2>1
<1> HIDE DEF P
<1>3. 0 .. n \subseteq P
  BY <1>1, <1>2, TurnByTurn
<1> QED BY <1>3 DEF P

LEMMA TwoToIs ==
    ASSUME NEW n \in Nat
    PROVE  TwoTo(n) \in Nat /\ TwoTo(0) = 1 /\ TwoTo(n + 1) = 2 * TwoTo(n)
<1> DEFINE Of(m) == CHOOSE f : Doubles(f, m)
<1>1. ASSUME NEW m \in Nat PROVE TwoTo(m) = Of(m)[m]
  BY DEF TwoTo, Doubles
<1>2. ASSUME NEW m \in Nat PROVE Doubles(Of(m), m)
  BY DoublingsExist
<1> HIDE DEF Of
<1>3. \A i \in 0 .. n : Of(n)[i] \in Nat /\ Of(n)[i] = Of(n + 1)[i]
  BY <1>2, DoublingsAgree
<1>4. Of(n + 1)[n + 1] = 2 * Of(n + 1)[n]
  <2>1. Doubles(Of(n + 1), n + 1)
    BY <1>2
  <2> QED BY <2>1 DEF Doubles
<1>5. Of(0)[0] = 1
  <2>1. Doubles(Of(0), 0)
    BY <1>2
  <2> QED BY <2>1 DEF Doubles
<1> QED BY <1>1, <1>3, <1>4, <1>5

LEMMA RatesTypes ==
    /\ Band[1] \in Nat \ {0} /\ Nearly \in Nat \ {0} /\ NumMax \in Nat /\ DenMax \in Nat
    /\ Convergents \in Nat /\ Convergents >= 2 /\ TwoTo(Convergents - 2) \in Nat
    /\ Nearly <= Band[1] * TwoTo(Convergents - 2)
<1>1. /\ Band[1] \in Nat /\ Nearly \in Nat \ {0} /\ NumMax \in Nat /\ DenMax \in Nat
      /\ Convergents \in Nat /\ Convergents >= 2 /\ Nearly <= Band[1] * TwoTo(Convergents - 2)
  BY RatesAssumption
<1>2. TwoTo(Convergents - 2) \in Nat
  BY <1>1, TwoToIs
<1>3. Band[1] # 0
  BY <1>1, <1>2
<1> QED BY <1>1, <1>2, <1>3

LEMMA RateTypes ==
    ASSUME NEW r, IsRate(r)
    PROVE  r[1] \in Nat \ {0} /\ r[2] \in Nat \ {0} /\ r[1] <= NumMax /\ r[2] <= DenMax /\ r[1] > Band[1] * r[2] /\ r[1] > r[2]
<1>1. r[1] \in Nat \ {0} /\ r[2] \in Nat \ {0} /\ r[1] <= NumMax /\ r[2] <= DenMax /\ r[1] > Band[1] * r[2]
  BY RatesTypes DEF IsRate, InBand
<1>2. Band[1] * r[2] >= 1 * r[2]
  BY <1>1, RatesTypes
<1>3. Band[1] * r[2] \in Nat
  BY <1>1, RatesTypes
<1> QED BY <1>1, <1>2, <1>3

LEMMA SeedsExpand ==
    ASSUME NEW r, IsRate(r)
    PROVE  ConvergentSeeds(r) \in Turns /\ UnderWay(r, ConvergentSeeds(r))
<1> DEFINE c == ConvergentSeeds(r)
<1>1. /\ c.num = 1 /\ c.den = 0 /\ c.prevNum = 0 /\ c.prevDen = 1 /\ c.done = FALSE
      /\ c.value[1] = r[1] /\ c.value[2] = r[2]
  BY DEF ConvergentSeeds
<1>2. r[1] \in Nat /\ r[2] \in Nat /\ 0 < r[2] /\ r[2] < r[1] /\ r = <<r[1], r[2]>>
  BY RateTypes DEF IsRate
<1>3. c \in Turns
  <2>1. r \in Nat \X Nat
    BY <1>2
  <2> QED BY <2>1 DEF Turns, ConvergentSeeds
<1>4. Expands(r[1], r[2], 1, 0, 0, 1, r[1], r[2])
  <2>1. 1 * r[1] + 0 * r[2] = r[1] /\ 0 * r[1] + 1 * r[2] = r[2] /\ 1 * 1 - 0 * 0 = 1
    BY <1>2
  <2> QED BY <1>2, <2>1 DEF Expands, Units
<1> HIDE DEF c
<1>5. UnderWay(r, c)
  BY <1>1, <1>4 DEF UnderWay
<1> QED BY <1>3, <1>5 DEF c

LEMMA NextTurn ==
    ASSUME NEW r, IsRate(r), NEW c \in Turns, UnderWay(r, c)
    PROVE  LET n == NextConvergent(r, c)
           IN  /\ n \in Turns
               /\ n.den >= c.den + c.prevDen /\ n.den >= 1 /\ n.prevDen = c.den
               /\ \/ Done(r, n)
                  \/ UnderWay(r, n) /\ ~(n.value[2] * Nearly < r[1] * n.den)
<1> DEFINE p == r[1]
           q == r[2]
           a == c.value[1]
           b == c.value[2]
           w == a \div b
           l == a % b
           h == w * c.num + c.prevNum
           k == w * c.den + c.prevDen
           off == h * q - p * k
           n == NextConvergent(r, c)
<1>1. p \in Nat \ {0} /\ q \in Nat \ {0} /\ p <= NumMax /\ q <= DenMax /\ NumMax \in Nat /\ DenMax \in Nat /\ Nearly \in Nat
  BY RateTypes, RatesTypes
<1>2. Expands(p, q, c.num, c.den, c.prevNum, c.prevDen, a, b) /\ c.done = FALSE
  BY DEF UnderWay, Turns
<1>3. Found(p, q, h, k, c.num, c.den, b, l) /\ k >= c.den + c.prevDen
  <2> HIDE DEF a, b, p, q
  <2> QED BY <1>1, <1>2, ATurn, Zenon
<1>4. n = IF c.done \/ k > DenMax \/ h > NumMax THEN [c EXCEPT !.done = TRUE]
          ELSE [num |-> h, den |-> k, prevNum |-> c.num, prevDen |-> c.den,
                done |-> (IF off < 0 THEN -off ELSE off) * Nearly < p * k \/ l = 0,
                value |-> IF l = 0 THEN c.value ELSE <<b, l>>]
  BY DEF NextConvergent
<1> HIDE DEF a, b, p, q, w, l, h, k, n
<1>5. h \in Nat /\ k \in Nat /\ c.num \in Nat /\ c.den \in Nat /\ b \in Nat /\ l \in Nat /\ k <= q /\ h <= p /\ k >= 1
  <2>1. {h, k, c.num, c.den, b, l} \subseteq Nat /\ l < b /\ k * b <= q /\ h * b <= p /\ k >= 1
    BY <1>3 DEF Found
  <2>2. k * 1 <= k * b /\ h * 1 <= h * b
    BY <2>1
  <2> QED BY <1>1, <2>1, <2>2
<1>6. Magnitude(off) = l
  <2>1. Misses(p, q, h, k, h * c.den - c.num * k, l)
    BY <1>3, Zenon DEF Found
  <2> HIDE DEF off
  <2>2. Magnitude(h * q - p * k) = l
    BY <2>1, MissIsWhatIsLeft
  <2> QED BY <2>2 DEF off
<1>7. n = [num |-> h, den |-> k, prevNum |-> c.num, prevDen |-> c.den,
           done |-> l * Nearly < p * k \/ l = 0, value |-> IF l = 0 THEN c.value ELSE <<b, l>>]
  <2>1. ~(c.done \/ k > DenMax \/ h > NumMax)
    BY <1>1, <1>2, <1>5
  <2>2. (IF off < 0 THEN -off ELSE off) = l
    BY <1>6 DEF Magnitude
  <2> HIDE DEF off
  <2> QED BY <1>4, <2>1, <2>2, Zenon
<1>8. /\ n.num = h /\ n.den = k /\ n.prevNum = c.num /\ n.prevDen = c.den
      /\ n.done = (l * Nearly < p * k \/ l = 0) /\ n.value = IF l = 0 THEN c.value ELSE <<b, l>>
  BY <1>7
<1>9. n \in Turns
  <2>1. c.value \in Nat \X Nat /\ <<b, l>> \in Nat \X Nat /\ (l * Nearly < p * k \/ l = 0) \in BOOLEAN
    BY <1>5 DEF Turns
  <2>2. (IF l = 0 THEN c.value ELSE <<b, l>>) \in Nat \X Nat
    BY <2>1
  <2> QED BY <1>5, <1>7, <2>1, <2>2 DEF Turns
<1>10. CASE l * Nearly < p * k \/ l = 0
  <2>1. IsRecovered(p, q, h, k)
    BY <1>1, <1>3, <1>10, FoundIsRecovered
  <2> QED BY <1>3, <1>5, <1>8, <1>9, <1>10, <2>1 DEF Done, p, q, n
<1>11. CASE ~(l * Nearly < p * k \/ l = 0)
  <2>1. Expands(p, q, h, k, c.num, c.den, b, l)
    <3>1. /\ {h, k, c.num, c.den, b, l} \subseteq Nat /\ l < b /\ h >= 1 /\ k >= 1
          /\ h * b + c.num * l = p /\ k * b + c.den * l = q /\ h * c.den - c.num * k \in Units
      BY <1>3, Zenon DEF Found
    <3>2. 0 < l /\ k + c.den >= 1
      BY <1>11, <3>1
    <3> QED BY <3>1, <3>2 DEF Expands
  <2>2. n.value[1] = b /\ n.value[2] = l /\ ~n.done
    <3>1. n.value = <<b, l>>
      BY <1>8, <1>11, Zenon
    <3>2. ~n.done
      BY <1>8, <1>11, Zenon
    <3> QED BY <3>1, <3>2
  <2> QED BY <1>3, <1>5, <1>8, <1>9, <1>11, <2>1, <2>2 DEF UnderWay, p, q, n
<1> QED BY <1>10, <1>11

\* The loop after a number of turns: it is done, or under way with denominators
\* that grow as fast as powers of 2 do, and is not near the rate yet.
Grown(i, c) ==
    /\ i >= 1 => c.den >= 1 /\ c.den >= c.prevDen
    /\ i >= 2 => c.den * c.prevDen >= TwoTo(i - 2)

After(r, i, c) ==
    /\ c \in Turns
    /\ Done(r, c) \/ (UnderWay(r, c) /\ Grown(i, c) /\ (i >= 1 => ~(c.value[2] * Nearly < r[1] * c.den)))

LEMMA DoneStays ==
    ASSUME NEW r, NEW c \in Turns, Done(r, c)
    PROVE  NextConvergent(r, c) \in Turns /\ Done(r, NextConvergent(r, c))
<1>1. NextConvergent(r, c) = [c EXCEPT !.done = TRUE]
  BY Zenon DEF NextConvergent, Done
<1>2. [c EXCEPT !.done = TRUE] \in Turns /\ [c EXCEPT !.done = TRUE].done = TRUE
      /\ [c EXCEPT !.done = TRUE].num = c.num /\ [c EXCEPT !.done = TRUE].den = c.den
  BY DEF Turns
<1> QED BY <1>1, <1>2 DEF Done

LEMMA TurnAfterTurn ==
    ASSUME NEW r, IsRate(r), NEW i \in Nat, NEW c, After(r, i, c)
    PROVE  After(r, i + 1, NextConvergent(r, c))
<1> DEFINE n == NextConvergent(r, c)
<1>1. c \in Turns
  BY DEF After
<1>2. CASE Done(r, c)
  BY <1>1, <1>2, DoneStays DEF After
<1>3. CASE UnderWay(r, c) /\ Grown(i, c) /\ (i >= 1 => ~(c.value[2] * Nearly < r[1] * c.den))
  <2>1. /\ n \in Turns
        /\ n.den >= c.den + c.prevDen /\ n.den >= 1 /\ n.prevDen = c.den
        /\ \/ Done(r, n)
           \/ UnderWay(r, n) /\ ~(n.value[2] * Nearly < r[1] * n.den)
    BY <1>1, <1>3, NextTurn
  <2>2. Grown(i + 1, n)
    <3> HIDE DEF n
    <3>1. n.den \in Nat /\ c.den \in Nat /\ c.prevDen \in Nat
      BY <1>1, <2>1 DEF Turns
    <3>2. n.den >= n.prevDen
      BY <2>1, <3>1
    <3>3. ASSUME i >= 1 PROVE n.den * n.prevDen >= TwoTo((i + 1) - 2)
      <4> DEFINE d == c.den
                 e == c.prevDen
                 m == n.den
      <4>1. d >= 1 /\ d >= e /\ d \in Nat /\ e \in Nat /\ m \in Nat /\ m >= d + e
        BY <1>3, <2>1, <3>1, <3>3 DEF Grown
      <4>3. m * d >= 1
        <5> HIDE DEF d, e, m
        <5>1. m >= 1
          BY <4>1
        <5> QED BY <4>1, <5>1
      <4>4. CASE i = 1
        <5>1. TwoTo((i + 1) - 2) = 1
          BY <4>4, TwoToIs
        <5> QED BY <2>1, <4>3, <5>1
      <4>5. CASE i # 1
        <5>1. i >= 2 /\ i - 2 \in Nat /\ (i - 2) + 1 = (i + 1) - 2
          BY <3>3, <4>5
        <5>2. d * e >= TwoTo(i - 2)
          BY <1>3, <5>1 DEF Grown
        <5>3. TwoTo(i - 2) \in Nat /\ TwoTo((i - 2) + 1) = 2 * TwoTo(i - 2)
          BY <5>1, TwoToIs
        <5>4. m * d >= 2 * (d * e)
          <6> HIDE DEF d, e, m
          <6>1. m * d >= (d + e) * d
            BY <4>1
          <6>2. (d + e) * d = d * d + d * e /\ d * d >= d * e
            BY <4>1
          <6> QED BY <4>1, <6>1, <6>2
        <5>5. m * d >= TwoTo((i + 1) - 2)
          <6>1. d * e \in Nat /\ m * d \in Nat
            BY <4>1
          <6> DEFINE t == TwoTo(i - 2)
                     x == d * e
                     y == m * d
          <6> HIDE DEF t, x, y
          <6>2. y >= 2 * x /\ x >= t /\ t \in Nat /\ x \in Nat /\ y \in Nat
            BY <5>2, <5>3, <5>4, <6>1 DEF t, x, y
          <6>3. y >= 2 * t
            BY <6>2
          <6> QED BY <5>1, <5>3, <6>3 DEF t, x, y
        <5> QED BY <2>1, <5>5
      <4> QED BY <4>4, <4>5
    <3> QED BY <2>1, <3>2, <3>3 DEF Grown
  <2> QED BY <2>1, <2>2 DEF After
<1> QED BY <1>2, <1>3 DEF After

Loops(f, r) == f = [i \in 0 .. Convergents |-> IF i = 0 THEN ConvergentSeeds(r) ELSE NextConvergent(r, f[i - 1])]

LEMMA LoopExists ==
    ASSUME NEW r, IsRate(r)
    PROVE  \E f : Loops(f, r)
<1> DEFINE S == {c \in Turns : Done(r, c) \/ UnderWay(r, c)}
           g == [c \in S |-> NextConvergent(r, c)]
<1>1. ConvergentSeeds(r) \in S
  BY SeedsExpand
<1>2. g \in [S -> S]
  <2>1. ASSUME NEW c \in S PROVE NextConvergent(r, c) \in S
    <3>1. CASE Done(r, c)
      BY <3>1, DoneStays
    <3>2. CASE UnderWay(r, c)
      <4>1. NextConvergent(r, c) \in Turns /\ (Done(r, NextConvergent(r, c)) \/ UnderWay(r, NextConvergent(r, c)))
        BY <3>2, NextTurn
      <4> QED BY <4>1
    <3> QED BY <3>1, <3>2
  <2> HIDE DEF S
  <2> QED BY <2>1
<1>3. Convergents \in Nat
  BY RatesTypes
<1>4. PICK f : Iterates(f, S, ConvergentSeeds(r), g, Convergents)
  <2> HIDE DEF S, g
  <2> QED BY <1>1, <1>2, <1>3, IterationsExist
<1> HIDE DEF S
<1>5. ASSUME NEW i \in 0 .. Convergents
      PROVE  f[i] = IF i = 0 THEN ConvergentSeeds(r) ELSE NextConvergent(r, f[i - 1])
  <2>1. f[i] = IF i = 0 THEN ConvergentSeeds(r) ELSE g[f[i - 1]]
    BY <1>4 DEF Iterates
  <2>2. i # 0 => i - 1 \in 0 .. Convergents
    BY <1>3
  <2>3. i # 0 => f[i - 1] \in S
    BY <1>4, <2>2 DEF Iterates
  <2> QED BY <2>1, <2>3
<1>6. f = [i \in 0 .. Convergents |-> f[i]]
  BY <1>4 DEF Iterates
<1>7. Loops(f, r)
  BY <1>5, <1>6 DEF Loops
<1> QED BY <1>7

\* In as many turns as there are the loop is done: while it is not, the
\* denominators of its last two have a product no less than a power of 2.
LEMMA LoopEnds ==
    ASSUME NEW r, IsRate(r), NEW c, After(r, Convergents, c)
    PROVE  Done(r, c)
<1> SUFFICES ASSUME UnderWay(r, c), Grown(Convergents, c), ~(c.value[2] * Nearly < r[1] * c.den) PROVE FALSE
  BY RatesTypes DEF After
<1> DEFINE p == r[1]
           q == r[2]
           k == c.den
           e == c.prevDen
           a == c.value[1]
           b == c.value[2]
           B == Band[1]
           t == TwoTo(Convergents - 2)
<1>1. c \in Turns
  BY DEF After
<1>2. /\ p \in Nat /\ q \in Nat /\ k \in Nat /\ e \in Nat /\ a \in Nat /\ b \in Nat
      /\ 0 < b /\ b < a /\ k * a + e * b = q
  <2>1. Expands(p, q, c.num, k, c.prevNum, e, a, b)
    BY DEF UnderWay
  <2>2. {k, e, a, b} \subseteq Nat /\ 0 < b /\ b < a /\ k * a + e * b = q
    BY <2>1, Zenon DEF Expands
  <2> HIDE DEF p, q, k, e, a, b
  <2>3. p \in Nat /\ q \in Nat
    BY RateTypes DEF p, q
  <2> QED BY <2>2, <2>3
<1>3. p > B * q /\ B \in Nat \ {0} /\ Nearly \in Nat \ {0} /\ t \in Nat /\ Nearly <= B * t
  BY RateTypes, RatesTypes
<1>4. k >= 1 /\ k >= e /\ k * e >= t
  BY RatesTypes DEF Grown
<1>5. b * Nearly >= p * k
  <2>1. ~(b * Nearly < p * k)
    OBVIOUS
  <2> HIDE DEF p, q, k, e, a, b
  <2>2. b * Nearly \in Nat /\ p * k \in Nat
    BY <1>2, <1>3
  <2> QED BY <2>1, <2>2
<1> HIDE DEF p, q, k, e, a, b, B, t
<1>6. q >= k * b
  <2>1. k * a >= k * b /\ e * b >= 0 /\ k * a \in Nat /\ e * b \in Nat /\ k * b \in Nat
    BY <1>2
  <2> QED BY <1>2, <2>1
<1>7. k * k >= t
  <2>1. k * k >= k * e /\ k * k \in Nat /\ k * e \in Nat
    BY <1>2, <1>4
  <2> QED BY <1>3, <1>4, <2>1
<1>8. B * (k * k) >= Nearly
  <2>1. B * (k * k) >= B * t /\ B * (k * k) \in Nat /\ B * t \in Nat
    BY <1>2, <1>3, <1>7
  <2> QED BY <1>3, <2>1
<1>9. p * k > (B * (k * b)) * k
  <2>1. B * q >= B * (k * b) /\ B * q \in Nat /\ B * (k * b) \in Nat
    BY <1>2, <1>3, <1>6
  <2>2. p > B * (k * b)
    BY <1>2, <1>3, <2>1
  <2> QED BY <1>2, <1>4, <2>1, <2>2, StrictlyLarger
<1>10. (B * (k * b)) * k = b * (B * (k * k))
  BY <1>2, <1>3
<1>11. b * (B * (k * k)) >= b * Nearly
  <2>1. B * (k * k) \in Nat
    BY <1>2, <1>3
  <2> QED BY <1>2, <1>3, <1>8, <2>1
<1>12. p * k \in Nat /\ b * Nearly \in Nat /\ b * (B * (k * k)) \in Nat
  BY <1>2, <1>3
<1> QED BY <1>5, <1>9, <1>10, <1>11, <1>12

LEMMA RecoveredIsTheRate ==
    ASSUME NEW r, IsRate(r)
    PROVE  IsRecovered(r[1], r[2], Recovered(r)[1], Recovered(r)[2])
<1> DEFINE f == CHOOSE f : Loops(f, r)
           P == {i \in 0 .. Convergents : After(r, i, f[i])}
<1>1. Recovered(r) = <<f[Convergents].num, f[Convergents].den>>
  BY DEF Recovered, Loops
<1>2. Loops(f, r)
  BY LoopExists
<1> HIDE DEF f
<1>3. Convergents \in Nat
  BY RatesTypes
<1>4. 0 \in P
  <2>1. f[0] = ConvergentSeeds(r)
    BY <1>2, <1>3 DEF Loops
  <2>2. After(r, 0, f[0])
    BY <2>1, SeedsExpand DEF After, Grown
  <2> QED BY <1>3, <2>2
<1>5. ASSUME NEW i \in 1 .. Convergents, i - 1 \in P PROVE i \in P
  <2>1. f[i] = NextConvergent(r, f[i - 1])
    BY <1>2, <1>3 DEF Loops
  <2>2. i - 1 \in Nat /\ (i - 1) + 1 = i /\ i \in 0 .. Convergents
    BY <1>3
  <2>3. After(r, (i - 1) + 1, NextConvergent(r, f[i - 1]))
    BY <1>5, <2>2, TurnAfterTurn
  <2> QED BY <2>1, <2>2, <2>3
<1>6. Convergents \in P
  <2> HIDE DEF P
  <2>1. 0 .. Convergents \subseteq P
    BY <1>3, <1>4, <1>5, TurnByTurn
  <2> QED BY <1>3, <2>1
<1>7. Done(r, f[Convergents])
  BY <1>6, LoopEnds
<1> QED BY <1>1, <1>7 DEF Done

\* What the machine has said is a screen's rate, and so is what is declared.
RateKept ==
    /\ declared \in Declarations \union {<<0, 0>>}
    /\ rate # <<0, 1>> => rate \in Hints /\ InBand(rate)

LEMMA RateBegins == PictureInit => RateKept
BY DEF PictureInit, RateKept

LEMMA RateStaysKept == RateKept /\ [PictureNext]_pictureVars => RateKept'
<1> SUFFICES ASSUME RateKept, [PictureNext]_pictureVars PROVE RateKept'
  OBVIOUS
<1>1. CASE \E r \in Hints : RefreshRateHint(r)
  <2> PICK r \in Hints : RefreshRateHint(r)
    BY <1>1
  <2>1. rate' = (IF InBand(r) THEN r ELSE rate) /\ declared' = declared
    BY DEF RefreshRateHint
  <2>2. CASE InBand(r)
    <3>1. rate' = r
      BY <2>1, <2>2
    <3>2. InBand(rate)'
      BY <2>2, <3>1 DEF InBand
    <3> QED BY <2>1, <3>1, <3>2 DEF RateKept
  <2>3. CASE ~InBand(r)
    <3>1. rate' = rate
      BY <2>1, <2>3
    <3>2. InBand(rate)' = InBand(rate)
      BY <3>1 DEF InBand
    <3> QED BY <2>1, <3>1, <3>2 DEF RateKept
  <2> QED BY <2>2, <2>3
<1>2. CASE UNCHANGED <<rate, declared>>
  <2>1. InBand(rate)' = InBand(rate)
    BY <1>2 DEF InBand
  <2> QED BY <1>2, <2>1 DEF RateKept
<1>3. CASE Shows
  <2>1. UNCHANGED <<rate, declared>>
    BY <1>3 DEF Shows, Draw, SoftwareFrame, SetRendering
  <2> QED BY <1>2, <2>1
<1>4. CASE UNCHANGED pictureVars
  BY <1>2, <1>4 DEF pictureVars
<1> QED BY <1>1, <1>3, <1>4 DEF PictureNext, SaysItsRate

LEMMA KeptRateIsTheMachines == RateKept => RateIsTheMachines
<1> SUFFICES ASSUME RateKept PROVE RateIsTheMachines
  OBVIOUS
<1>1. CASE rate = <<0, 1>>
  <2>1. rate[1] = 0 /\ rate[2] = 1
    BY <1>1
  <2>2. ~InBand(rate)
    BY <2>1, RatesTypes DEF InBand
  <2>3. ASSUME NEW d \in Declarations \union {<<50, 1>>, <<60, 1>>}, d # <<0, 0>>
        PROVE  d[1] > 0 /\ d[2] > 0 /\ InBand(d)
    <3>1. d[1] \in Nat /\ d[2] \in Nat \ {0} /\ InBand(d)
      BY <2>3, RatesAssumption
    <3>2. Band[1] * d[2] \in Nat /\ d[1] > Band[1] * d[2]
      BY <3>1, RatesTypes DEF InBand
    <3> QED BY <3>1, <3>2
  <2>4. CASE declared[1] > 0 /\ declared[2] > 0
    <3>1. RefreshAsRational = declared
      BY <2>2, <2>4 DEF RefreshAsRational
    <3>2. declared # <<0, 0>> /\ declared \in Declarations
      BY <2>4 DEF RateKept
    <3>3. InBand(declared)
      BY <2>3, <3>2
    <3>4. InBand(RefreshAsRational) /\ RefreshAsRational[1] > 0 /\ RefreshAsRational[2] > 0
      BY <2>4, <3>1, <3>3
    <3> QED BY <1>1, <3>4 DEF RateIsTheMachines
  <2>5. CASE ~(declared[1] > 0 /\ declared[2] > 0)
    <3>1. RefreshAsRational \in {<<50, 1>>, <<60, 1>>}
      BY <2>2, <2>5 DEF RefreshAsRational
    <3>2. RefreshAsRational # <<0, 0>>
      BY <3>1
    <3>3. InBand(RefreshAsRational) /\ RefreshAsRational[1] > 0 /\ RefreshAsRational[2] > 0
      BY <2>3, <3>1, <3>2
    <3> QED BY <1>1, <3>3 DEF RateIsTheMachines
  <2> QED BY <2>4, <2>5
<1>2. CASE rate # <<0, 1>>
  <2>1. rate \in Hints /\ InBand(rate)
    BY <1>2 DEF RateKept
  <2>2. IsRate(rate)
    <3>1. rate = <<rate[1], rate[2]>> /\ rate[1] \in 0 .. NumMax /\ rate[2] \in 1 .. DenMax
      BY <2>1, RatesAssumption
    <3>2. rate[1] # 0
      <4>1. Band[1] * rate[2] \in Nat
        BY <3>1, RatesTypes
      <4> QED BY <2>1, <3>1, <4>1 DEF InBand
    <3> QED BY <2>1, <3>1, <3>2, RatesTypes DEF IsRate
  <2>3. RefreshAsRational = Recovered(rate)
    BY <2>1 DEF RefreshAsRational
  <2>4. IsRecovered(rate[1], rate[2], RefreshAsRational[1], RefreshAsRational[2])
    BY <2>2, <2>3, RecoveredIsTheRate
  <2>5. RefreshAsRational[1] > 0 /\ RefreshAsRational[2] > 0 /\ RefreshAsRational[2] <= rate[2]
    BY <2>2, <2>4, RateTypes DEF IsRecovered
  <2>6. /\ (IF Off < 0 THEN -Off ELSE Off) * Nearly < rate[1] * RefreshAsRational[2]
        /\ \A n \in 1 .. rate[1], d \in 1 .. rate[2] :
              n * rate[2] = rate[1] * d /\ n * d <= 2 * Nearly => Off = 0
    BY <2>4, Zenon DEF IsRecovered, Off, Magnitude
  <2> QED BY <1>2, <2>5, <2>6 DEF RateIsTheMachines
<1> QED BY <1>1, <1>2

\* Once the machine has said a screen's rate, the fraction told is within a
\* part in a billion of it, in no higher terms, and the very rate where that
\* is a simple one; until then it is a screen's rate too. Whatever rates there
\* are: the loop ends in the convergents tried (refreshAsRational()).
THEOREM RateIsAlwaysTheMachines == PictureSpec => []RateIsTheMachines
<1>1. PictureSpec => []RateKept
  BY RateBegins, RateStaysKept, PTL DEF PictureSpec
<1> QED BY <1>1, KeptRateIsTheMachines, PTL

-----------------------------------------------------------------------------
(* The memory.                                                                 *)

\* What there is of a machine's memory, published once and never again.
Published == made \in Machines /\ g_domains = PublishDomains(made) /\ g_buses = PublishBuses(made, g_domains)

\* Blocks and buses are the same memory when they have the same name.
SameStore(m) ==
    \A d \in Range(m.blocks), b \in Range(m.buses) :
       StoreSize[d.store] > 0 => (SameMemory(b, d) <=> b.store = d.store)

LEMMA NamesTell == \A m \in Machines : m.n64 => SameStore(m)
<1> SUFFICES ASSUME NEW m \in Machines, m.n64, NEW d \in Range(m.blocks), NEW b \in Range(m.buses),
                    StoreSize[d.store] > 0
             PROVE  SameMemory(b, d) <=> b.store = d.store
  BY DEF SameStore
<1>1. b.store = d.store <=> b.name = d.name \/ b.name = "Cartridge " \o d.name
  BY MachinesAssumption
<1> QED BY <1>1 DEF SameMemory

LEMMA StoredHasBus ==
    ASSUME NEW m \in Machines, m.n64, NEW d \in Range(m.blocks), StoreSize[d.store] > 0
    PROVE  \E b \in Range(m.buses) : b.store = d.store
BY MachinesAssumption

\* The beginning of a list of different things is one, and begins as it does.
LEMMA FirstOfList ==
    ASSUME NEW s, IsList(s), IsInjective(s), NEW n \in 0 .. Len(s)
    PROVE  /\ IsList(SubSeq(s, 1, n)) /\ IsInjective(SubSeq(s, 1, n))
           /\ Len(SubSeq(s, 1, n)) = n
           /\ Range(SubSeq(s, 1, n)) \subseteq Range(s)
           /\ n > 0 => SubSeq(s, 1, n)[1] = s[1]
<1> DEFINE S == Range(s)
           x == SubSeq(s, 1, n)
<1>1. s \in Seq(S) /\ Len(s) \in Nat /\ DOMAIN s = 1 .. Len(s)
  BY DEF IsList
<1>2. \A i \in 1 .. Len(s) : s[i] \in S
  BY <1>1 DEF Range
<1> HIDE DEF S
<1>3. x \in Seq(S) /\ Len(x) = n /\ \A i \in 1 .. n : x[i] = s[i]
  BY <1>1, FrontOfSequence
<1>4. DOMAIN x = 1 .. n
  BY <1>3
<1> HIDE DEF x
<1>5. IsList(x)
  BY <1>3, SequenceIsList
<1>6. IsInjective(x)
  BY <1>1, <1>3, <1>4 DEF IsInjective
<1>7. Range(x) \subseteq S
  BY <1>1, <1>2, <1>3, <1>4 DEF Range
<1> QED BY <1>3, <1>5, <1>6, <1>7 DEF S, x

LEMMA ApartIsInjective ==
    ASSUME NEW s, Apart(s)
    PROVE  IsList(s) /\ IsInjective(s)
BY ListFacts DEF Apart, IsInjective

\* The blocks published: some of those that have a store, and RDRAM first.
LEMMA BlocksPublished ==
    ASSUME NEW m \in Machines
    PROVE  /\ IsList(PublishDomains(m)) /\ Len(PublishDomains(m)) <= MaxDomains
           /\ ~m.n64 => PublishDomains(m) = <<>>
           /\ m.n64 => /\ Len(PublishDomains(m)) > 0 /\ PublishDomains(m)[1] = m.blocks[1]
                       /\ \A d \in Range(PublishDomains(m)) : d \in Range(m.blocks) /\ StoreSize[d.store] > 0
<1>1. CASE ~m.n64
  BY <1>1, EmptyList, SizesAssumption DEF PublishDomains
<1>2. CASE m.n64
  <2> DEFINE wanted == {b \in Range(m.blocks) : StoreSize[b.store] > 0}
             stored == Only(m.blocks, wanted)
             n == Min({MaxDomains, Len(stored)})
  <2>1. IsList(m.blocks) /\ IsInjective(m.blocks) /\ m.blocks # <<>> /\ StoreSize[m.blocks[1].store] > 0
    BY <1>2, MachinesAssumption, ApartIsInjective
  <2>2. m.blocks[1] \in wanted
    <3>1. m.blocks[1] \in Range(m.blocks)
      BY <2>1, ListFacts DEF IsList
    <3> QED BY <2>1, <3>1
  <2>3. PublishDomains(m) = SubSeq(stored, 1, n)
    BY <1>2 DEF PublishDomains, Publish
  <2>4. Range(m.blocks) \intersect wanted = wanted
    OBVIOUS
  <2> HIDE DEF wanted
  <2>5. IsList(stored) /\ IsInjective(stored) /\ Range(stored) = wanted
    BY <2>1, <2>4, Selected
  <2>6. stored # <<>> /\ stored[1] = m.blocks[1]
    BY <2>1, <2>2, SelectionStarts
  <2> HIDE DEF stored
  <2>7. Len(stored) \in Nat /\ Len(stored) > 0
    BY <2>5, <2>6 DEF IsList
  <2>8. n \in 0 .. Len(stored) /\ n > 0 /\ n <= MaxDomains
    BY <2>7, MinOfTwo, SizesAssumption
  <2> HIDE DEF n
  <2>9. /\ IsList(SubSeq(stored, 1, n)) /\ Len(SubSeq(stored, 1, n)) = n
        /\ Range(SubSeq(stored, 1, n)) \subseteq wanted
        /\ SubSeq(stored, 1, n)[1] = m.blocks[1]
    BY <2>5, <2>6, <2>8, FirstOfList
  <2> QED BY <1>2, <2>3, <2>8, <2>9 DEF wanted
<1> QED BY <1>1, <1>2

\* The place of a bus is one of the blocks', the first that is the same
\* memory, or after them all.
LEMMA RankIsPlace ==
    ASSUME NEW domains, IsList(domains), NEW bus
    PROVE  /\ Rank(domains, bus) \in 1 .. Len(domains) + 1
           /\ Rank(domains, bus) <= Len(domains) => SameMemory(bus, domains[Rank(domains, bus)])
           /\ Len(domains) > 0 /\ SameMemory(bus, domains[1]) => Rank(domains, bus) = 1
<1> DEFINE same == {i \in 1 .. Len(domains) : SameMemory(bus, domains[i])}
           least == CHOOSE i \in same : \A j \in same : i <= j
<1>1. Rank(domains, bus) = IF same = {} THEN Len(domains) + 1 ELSE least
  BY DEF Rank
<1>2. Len(domains) \in Nat
  BY DEF IsList
<1>3. same \subseteq Nat
  OBVIOUS
<1>4. same # {} => least \in same /\ \A j \in same : least <= j
  <2> SUFFICES ASSUME same # {} PROVE least \in same /\ \A j \in same : least <= j
    OBVIOUS
  <2> HIDE DEF same
  <2>1. \E i \in same : \A j \in same : i <= j
    BY <1>3, LeastOfNaturals
  <2> QED BY <2>1
<1> HIDE DEF least
<1>5. CASE same = {}
  BY <1>1, <1>2, <1>5
<1>6. CASE same # {}
  <2>1. least \in 1 .. Len(domains) /\ SameMemory(bus, domains[least])
    BY <1>4, <1>6
  <2>2. Len(domains) > 0 /\ SameMemory(bus, domains[1]) => least <= 1
    <3>1. Len(domains) > 0 /\ SameMemory(bus, domains[1]) => 1 \in same
      BY <1>2
    <3> QED BY <1>4, <1>6, <3>1
  <2> QED BY <1>1, <1>2, <1>6, <2>1, <2>2
<1> QED BY <1>5, <1>6

\* The buses published are the machine's, each once; and the first is the bus
\* of the first block, if it has one.
LEMMA BusesPublished ==
    ASSUME NEW buses, IsList(buses), IsInjective(buses), NEW domains, IsList(domains),
           NEW m, m.buses = buses
    PROVE  /\ IsList(PublishBuses(m, domains)) /\ IsInjective(PublishBuses(m, domains))
           /\ Range(PublishBuses(m, domains)) = Range(buses)
           /\ Len(domains) > 0 /\ (\E b \in Range(buses) : SameMemory(b, domains[1]))
              => /\ PublishBuses(m, domains) # <<>>
                 /\ SameMemory(PublishBuses(m, domains)[1], domains[1])
<1> DEFINE n == Len(domains) + 1
           of(r) == {b \in Range(buses) : Rank(domains, b) = r}
           ss == [r \in 1 .. n |-> Only(buses, of(r))]
<1>1. PublishBuses(m, domains) = FlattenSeq(ss)
  BY DEF PublishBuses
<1>2. n \in Nat \ {0} /\ ss = [i \in 1 .. n |-> ss[i]] /\ \A r \in 1 .. n : ss[r] = Only(buses, of(r))
  BY DEF IsList
<1>3. \A r : Range(buses) \intersect of(r) = of(r)
  OBVIOUS
<1>4. \A r, q : r # q => of(r) \intersect of(q) = {}
  OBVIOUS
<1>5. \A b \in Range(buses) : Rank(domains, b) \in 1 .. n /\ b \in of(Rank(domains, b))
  BY RankIsPlace
<1>6. \A r : of(r) \subseteq Range(buses)
  OBVIOUS
<1>7. \A b \in of(1) : Rank(domains, b) = 1
  OBVIOUS
<1>8. Len(domains) > 0 => \A b \in of(1) : SameMemory(b, domains[1])
  BY <1>7, RankIsPlace DEF IsList
<1>9. \A b \in Range(buses) : Len(domains) > 0 /\ SameMemory(b, domains[1]) => b \in of(1)
  BY RankIsPlace
<1> HIDE DEF ss, n, of
<1>10. \A r \in 1 .. n : IsList(ss[r]) /\ IsInjective(ss[r]) /\ Range(ss[r]) = of(r)
  <2> SUFFICES ASSUME NEW r \in 1 .. n PROVE IsList(ss[r]) /\ IsInjective(ss[r]) /\ Range(ss[r]) = of(r)
    OBVIOUS
  <2> DEFINE wanted == of(r)
  <2>1. ss[r] = Only(buses, wanted) /\ Range(buses) \intersect wanted = wanted
    BY <1>2, <1>3
  <2> HIDE DEF wanted
  <2>2. IsList(ss[r]) /\ IsInjective(ss[r]) /\ Range(ss[r]) = wanted
    BY <2>1, Selected
  <2> QED BY <2>2 DEF wanted
<1>11. IsList(FlattenSeq(ss)) /\ \A x : x \in Range(FlattenSeq(ss)) <=> \E i \in 1 .. n : x \in Range(ss[i])
  BY <1>2, <1>10, Flattened
<1>12. IsInjective(FlattenSeq(ss))
  BY <1>2, <1>4, <1>10, FlattenedApart
<1>13. Range(FlattenSeq(ss)) = Range(buses)
  BY <1>5, <1>6, <1>10, <1>11
<1>14. ASSUME Len(domains) > 0, \E b \in Range(buses) : SameMemory(b, domains[1])
       PROVE  FlattenSeq(ss) # <<>> /\ SameMemory(FlattenSeq(ss)[1], domains[1])
  <2>1. 1 \in 1 .. n
    BY <1>2
  <2>2. IsList(ss[1]) /\ Range(ss[1]) = of(1) /\ of(1) # {}
    BY <1>9, <1>10, <1>14, <2>1
  <2>3. ss[1] # <<>>
    BY <2>2, EmptyList
  <2>4. ss[1][1] \in of(1)
    BY <2>2, <2>3, ListFacts DEF IsList
  <2>5. FlattenSeq(ss) # <<>> /\ FlattenSeq(ss)[1] = ss[1][1]
    BY <1>2, <1>10, <2>3, FlattenedStarts
  <2> QED BY <1>8, <1>14, <2>4, <2>5
<1> QED BY <1>1, <1>11, <1>12, <1>13, <1>14

\* No block is shown beside its bus, so the buses are all that is listed.
LEMMA BusesAreListed ==
    ASSUME Published
    PROVE  /\ Listed = g_buses /\ IsList(g_buses) /\ IsInjective(g_buses)
           /\ Range(g_buses) = Range(made.buses)
           /\ made.n64 => g_buses # <<>> /\ g_buses[1].store = made.blocks[1].store
<1>1. made \in Machines /\ g_domains = PublishDomains(made) /\ g_buses = PublishBuses(made, g_domains)
  BY DEF Published
<1>2. IsList(made.buses) /\ IsInjective(made.buses)
  BY <1>1, MachinesAssumption, ApartIsInjective
<1>3. /\ IsList(g_domains)
      /\ ~made.n64 => g_domains = <<>>
      /\ made.n64 => /\ Len(g_domains) > 0 /\ g_domains[1] = made.blocks[1]
                     /\ \A d \in Range(g_domains) : d \in Range(made.blocks) /\ StoreSize[d.store] > 0
  BY <1>1, BlocksPublished
<1>4. IsList(g_buses) /\ IsInjective(g_buses) /\ Range(g_buses) = Range(made.buses)
  BY <1>1, <1>2, <1>3, BusesPublished
<1>5. \A i \in 1 .. Len(g_domains) : g_domains[i] \in Range(g_domains)
  BY <1>3, ListFacts
<1>6. \A i \in 1 .. Len(g_domains) : \E b \in Range(made.buses) : b.store = g_domains[i].store /\ SameMemory(b, g_domains[i])
  <2> SUFFICES ASSUME NEW i \in 1 .. Len(g_domains)
               PROVE  \E b \in Range(made.buses) : b.store = g_domains[i].store /\ SameMemory(b, g_domains[i])
    OBVIOUS
  <2>1. made.n64
    <3>1. g_domains = <<>> => i \notin 1 .. Len(g_domains)
      OBVIOUS
    <3> QED BY <1>3, <3>1
  <2>2. g_domains[i] \in Range(made.blocks) /\ StoreSize[g_domains[i].store] > 0
    BY <1>3, <1>5, <2>1
  <2>3. PICK b \in Range(made.buses) : b.store = g_domains[i].store
    BY <1>1, <2>1, <2>2, StoredHasBus
  <2> QED BY <1>1, <2>1, <2>2, <2>3, NamesTell DEF SameStore
<1>7. \A i \in 1 .. Len(g_domains) : Hidden(i)
  <2> SUFFICES ASSUME NEW i \in 1 .. Len(g_domains) PROVE Hidden(i)
    OBVIOUS
  <2>1. PICK b \in Range(g_buses) : SameMemory(b, g_domains[i])
    BY <1>4, <1>6
  <2>2. PICK k \in 1 .. Len(g_buses) : b = g_buses[k]
    BY <1>4, ListFacts
  <2> QED BY <2>1, <2>2 DEF Hidden
<1>8. Listed = g_buses
  <2> DEFINE shown == {g_domains[i] : i \in {j \in 1 .. Len(g_domains) : ~Hidden(j)}}
             only == Only(g_domains, shown)
  <2>1. shown = {}
    BY <1>7
  <2>2. Listed = only \o g_buses
    BY DEF Listed
  <2> HIDE DEF shown
  <2>3. IsList(only) /\ Range(only) = {}
    BY <1>3, <2>1, Selected
  <2> HIDE DEF only
  <2>4. only = <<>>
    BY <2>3 DEF IsList, Range
  <2>5. <<>> \o g_buses = g_buses
    BY <1>4 DEF IsList
  <2> QED BY <2>2, <2>4, <2>5
<1>9. made.n64 => g_buses # <<>> /\ g_buses[1].store = made.blocks[1].store
  <2> SUFFICES ASSUME made.n64 PROVE g_buses # <<>> /\ g_buses[1].store = made.blocks[1].store
    OBVIOUS
  <2>1. 1 \in 1 .. Len(g_domains) /\ Len(g_domains) > 0
    BY <1>3 DEF IsList
  <2>2. g_buses # <<>> /\ SameMemory(g_buses[1], g_domains[1])
    BY <1>1, <1>2, <1>3, <1>6, <2>1, BusesPublished
  <2>3. g_buses[1] \in Range(made.buses)
    BY <1>4, <2>2, ListFacts DEF IsList
  <2>4. g_domains[1] \in Range(made.blocks) /\ StoreSize[g_domains[1].store] > 0
    BY <1>3, <1>5, <2>1
  <2> QED BY <1>1, <1>3, <2>2, <2>3, <2>4, NamesTell DEF SameStore
<1> QED BY <1>3, <1>4, <1>8, <1>9

LEMMA PublishedIsListedOnce == Published => ListedOnce
<1> SUFFICES ASSUME Published PROVE ListedOnce
  OBVIOUS
<1>1. /\ Listed = g_buses /\ IsList(g_buses) /\ IsInjective(g_buses)
      /\ Range(g_buses) = Range(made.buses)
      /\ made.n64 => g_buses[1].store = made.blocks[1].store
  BY BusesAreListed
<1>2. Apart(made.buses)
  BY MachinesAssumption DEF Published
<1>3. ASSUME NEW i \in 1 .. Len(g_buses), NEW j \in 1 .. Len(g_buses),
             g_buses[i].name = g_buses[j].name \/ g_buses[i].store = g_buses[j].store
      PROVE  i = j
  <2>1. g_buses[i] \in Range(made.buses) /\ g_buses[j] \in Range(made.buses)
    BY <1>1, ListFacts
  <2>2. PICK k \in 1 .. Len(made.buses) : g_buses[i] = made.buses[k]
    BY <1>2, <2>1, ListFacts DEF Apart
  <2>3. PICK l \in 1 .. Len(made.buses) : g_buses[j] = made.buses[l]
    BY <1>2, <2>1, ListFacts DEF Apart
  <2>4. k = l
    BY <1>2, <1>3, <2>2, <2>3 DEF Apart
  <2> QED BY <1>1, <2>2, <2>3, <2>4, ListFacts DEF IsInjective
<1> QED BY <1>1, <1>3 DEF ListedOnce

-----------------------------------------------------------------------------
\* ReadBus' buffer, and what it was asked for last.
Buffered ==
    /\ IsList(s_busChunk) /\ Len(s_busChunk) <= MaxChunk
    /\ answer # Nowhere => answer.len <= Len(s_busChunk) /\ answer.len \in Nat
    /\ ReadIsPeek

StoresOK ==
    /\ stores = [s \in DOMAIN StoreSize |-> stores[s]]
    /\ \A s \in DOMAIN StoreSize : stores[s] \in [1 .. StoreSize[s] -> Octets]

MemoriesInv == Published /\ StoresOK /\ Buffered

LEMMA TailOfSequence ==
    ASSUME NEW S, NEW x \in Seq(S), NEW n \in Nat
    PROVE  /\ SubSeq(x, n + 1, Len(x)) \in Seq(S)
           /\ Len(SubSeq(x, n + 1, Len(x))) = IF n <= Len(x) THEN Len(x) - n ELSE 0
OBVIOUS

\* A piece is put over the beginning of the buffer, which may have been longer.
LEMMA ReadKeeps ==
    ASSUME Buffered, NEW bus, NEW address \in Int, NEW len \in Nat, ReadBus(bus, address, len)
    PROVE  Buffered'
<1>1. CASE len <= 0 \/ len > MaxChunk \/ ~HasBus(bus)
  BY <1>1 DEF ReadBus, Buffered, ReadIsPeek
<1>2. CASE ~(len <= 0 \/ len > MaxChunk \/ ~HasBus(bus))
  <2> DEFINE piece == Piece(bus, address, len)
             rest == SubSeq(s_busChunk, len + 1, Len(s_busChunk))
             S == Range(s_busChunk) \union {piece[k] : k \in 1 .. len}
  <2>1. /\ s_busChunk' = piece \o rest
        /\ answer' = [bus |-> bus, address |-> address, len |-> len, of |-> stores[g_buses[bus].store]]
    BY <1>2 DEF ReadBus
  <2>2. \A k \in 1 .. len : piece[k] = stores[g_buses[bus].store][Place(address + k - 1)]
    BY <1>2 DEF Piece, PeekBus
  <2>3. piece \in [1 .. len -> S]
    BY DEF Piece
  <2>4. s_busChunk \in Seq(S) /\ Len(s_busChunk) \in Nat
    BY DEF Buffered, IsList
  <2> HIDE DEF piece, rest, S
  <2>5. rest \in Seq(S) /\ Len(rest) = IF len <= Len(s_busChunk) THEN Len(s_busChunk) - len ELSE 0
    BY <2>4, TailOfSequence DEF rest
  <2>6. piece \in Seq(S) /\ Len(piece) = len
    BY <2>3, FunctionIsSequence
  <2>7. /\ piece \o rest \in Seq(S) /\ Len(piece \o rest) = len + Len(rest) /\ Len(rest) \in Nat
        /\ \A k \in 1 .. len : (piece \o rest)[k] = piece[k]
    BY <2>5, <2>6, BothSequences
  <2>8. IsList(s_busChunk')
    <3>1. IsList(piece \o rest)
      BY <2>7, SequenceIsList
    <3> QED BY <2>1, <3>1, Zenon DEF IsList
  <2>9. Len(s_busChunk') <= MaxChunk /\ len <= Len(s_busChunk')
    <3>1. Len(s_busChunk) <= MaxChunk /\ len <= MaxChunk /\ MaxChunk \in Nat
      BY <1>2, SizesAssumption DEF Buffered
    <3> QED BY <2>1, <2>4, <2>5, <2>7, <3>1
  <2>10. ReadIsPeek'
    BY <2>1, <2>2, <2>7 DEF ReadIsPeek
  <2>11. answer'.len = len
    BY <2>1
  <2> QED BY <2>8, <2>9, <2>10, <2>11 DEF Buffered
<1> QED BY <1>1, <1>2

LEMMA MemoriesBegin == MemoriesInit => MemoriesInv
<1> SUFFICES ASSUME MemoriesInit PROVE MemoriesInv
  OBVIOUS
<1>1. Published
  BY DEF MemoriesInit, Published
<1>2. StoresOK
  <2>1. (CHOOSE b \in Octets : TRUE) \in Octets
    BY SizesAssumption
  <2> QED BY <2>1 DEF MemoriesInit, StoresOK
<1>3. Buffered
  BY EmptyList, SizesAssumption DEF MemoriesInit, Buffered, ReadIsPeek
<1> QED BY <1>1, <1>2, <1>3 DEF MemoriesInv

LEMMA ByteWritten ==
    ASSUME StoresOK, NEW s, NEW p, NEW v \in Octets, stores' = [stores EXCEPT ![s][p] = v]
    PROVE  StoresOK'
<1>1. stores' = [stores EXCEPT ![s] = [stores[s] EXCEPT ![p] = v]]
  OBVIOUS
<1>2. DOMAIN stores = DOMAIN StoreSize
  BY DEF StoresOK
<1>3. stores' = [t \in DOMAIN StoreSize |-> IF t = s THEN [stores[s] EXCEPT ![p] = v] ELSE stores[t]]
  BY <1>1, <1>2
<1>4. \A t \in DOMAIN StoreSize : stores'[t] = IF t = s THEN [stores[s] EXCEPT ![p] = v] ELSE stores[t]
  BY <1>3
<1>5. \A t \in DOMAIN StoreSize : stores[t] \in [1 .. StoreSize[t] -> Octets]
  BY DEF StoresOK
<1>6. \A t \in DOMAIN StoreSize : stores'[t] \in [1 .. StoreSize[t] -> Octets]
  <2> SUFFICES ASSUME NEW t \in DOMAIN StoreSize PROVE stores'[t] \in [1 .. StoreSize[t] -> Octets]
    OBVIOUS
  <2>1. stores[t] \in [1 .. StoreSize[t] -> Octets]
    BY <1>5
  <2>2. [stores[t] EXCEPT ![p] = v] \in [1 .. StoreSize[t] -> Octets]
    BY <2>1
  <2> QED BY <1>4, <2>1, <2>2
<1>7. stores' = [t \in DOMAIN StoreSize |-> stores'[t]]
  BY <1>3
<1> QED BY <1>6, <1>7 DEF StoresOK

LEMMA MemoriesKeep == MemoriesInv /\ [MemoriesNext]_memoriesVars => MemoriesInv'
<1> SUFFICES ASSUME MemoriesInv, [MemoriesNext]_memoriesVars PROVE MemoriesInv'
  OBVIOUS
<1>1. Published /\ StoresOK /\ Buffered
  BY DEF MemoriesInv
<1>2. ASSUME NEW bus, NEW a \in Int, NEW v \in Octets, PokeBus(bus, a, v) PROVE MemoriesInv'
  <2>1. Published' /\ Buffered'
    BY <1>1, <1>2 DEF PokeBus, Published, Buffered, ReadIsPeek
  <2>2. StoresOK'
    <3>1. CASE HasBus(bus)
      BY <1>1, <1>2, <3>1, ByteWritten DEF PokeBus
    <3>2. CASE ~HasBus(bus)
      BY <1>1, <1>2, <3>2 DEF PokeBus, StoresOK
    <3> QED BY <3>1, <3>2
  <2> QED BY <2>1, <2>2 DEF MemoriesInv
<1>3. ASSUME NEW s, NEW p, NEW v \in Octets, RunFrame(s, p, v) PROVE MemoriesInv'
  <2>1. Published' /\ Buffered'
    BY <1>1, <1>3 DEF RunFrame, Published, Buffered, ReadIsPeek
  <2>2. StoresOK'
    BY <1>1, <1>3, ByteWritten DEF RunFrame
  <2> QED BY <2>1, <2>2 DEF MemoriesInv
<1>4. ASSUME NEW bus, NEW a \in Int, NEW len \in Nat, ReadBus(bus, a, len) PROVE MemoriesInv'
  <2>1. Published' /\ StoresOK'
    BY <1>1, <1>4 DEF ReadBus, Published, StoresOK
  <2>2. Buffered'
    BY <1>1, <1>4, ReadKeeps
  <2> QED BY <2>1, <2>2 DEF MemoriesInv
<1>5. CASE UNCHANGED memoriesVars
  BY <1>1, <1>5 DEF memoriesVars, MemoriesInv, Published, StoresOK, Buffered, ReadIsPeek
<1>6. CASE MemoriesNext
  BY <1>2, <1>3, <1>4, <1>6 DEF MemoriesNext
<1> QED BY <1>5, <1>6

LEMMA MemoriesHold == MemoriesSpec => []MemoriesInv
BY MemoriesBegin, MemoriesKeep, PTL DEF MemoriesSpec

\* The stores keep their sizes, the buses are the machine's, and ReadBus' buffer
\* never outgrows what one call may hand out.
THEOREM MemoriesTypesHold == MemoriesSpec => []MemoriesTypeOK
<1>1. MemoriesInv => MemoriesTypeOK
  <2> SUFFICES ASSUME MemoriesInv PROVE MemoriesTypeOK
    OBVIOUS
  <2>1. made \in Machines /\ Len(g_domains) <= MaxDomains
    BY BlocksPublished DEF MemoriesInv, Published
  <2>2. Range(g_buses) = Range(made.buses)
    BY BusesAreListed DEF MemoriesInv
  <2> QED BY <2>1, <2>2 DEF MemoriesInv, StoresOK, Buffered, MemoriesTypeOK
<1> QED BY <1>1, MemoriesHold, PTL

\* For any machine whose blocks have a bus each, as a Nintendo 64's have, no
\* memory is listed in both of its orders and RDRAM comes first (publishBuses(),
\* memoryDomainHidden()); and what ReadBus handed out is what PeekBus would have
\* given byte by byte, whatever earlier pieces left in the buffer.
THEOREM MemoriesAlwaysAgree == MemoriesSpec => []MemoriesAgree
<1>1. MemoriesInv => MemoriesAgree
  BY PublishedIsListedOnce DEF MemoriesInv, Buffered, MemoriesAgree
<1> QED BY <1>1, MemoriesHold, PTL

\* The blocks of a machine that have a store.
Stored(m) == {b \in Range(m.blocks) : StoreSize[b.store] > 0}

\* There is room for every block that has a store, and every bus that has one
\* is some block's memory too.
Covered(m) ==
    /\ Len(Only(m.blocks, Stored(m))) <= MaxDomains
    /\ \A b \in Range(m.buses) : StoreSize[b.store] > 0 => \E d \in Range(m.blocks) : d.store = b.store

\* What is published of a machine's blocks: the first of those that have a store.
LEMMA FirstBlocksPublished ==
    ASSUME NEW m \in Machines, m.n64
    PROVE  \E x : /\ x = Only(m.blocks, Stored(m)) /\ IsList(x) /\ IsInjective(x) /\ Range(x) = Stored(m)
                  /\ Range(PublishDomains(m)) = {x[i] : i \in {j \in 1 .. Len(x) : j <= MaxDomains}}
<1> DEFINE stored == Only(m.blocks, Stored(m))
           n == Min({MaxDomains, Len(stored)})
<1>1. IsList(m.blocks) /\ IsInjective(m.blocks)
  BY MachinesAssumption, ApartIsInjective
<1>2. PublishDomains(m) = SubSeq(stored, 1, n)
  BY DEF PublishDomains, Publish, Stored
<1>3. Range(m.blocks) \intersect Stored(m) = Stored(m)
  BY DEF Stored
<1>4. IsList(stored) /\ IsInjective(stored) /\ Range(stored) = Stored(m)
  BY <1>1, <1>3, Selected
<1>5. stored = Only(m.blocks, Stored(m))
  OBVIOUS
<1> HIDE DEF stored
<1>6. PICK k \in Nat : k = Len(stored)
  BY <1>4, ListFacts
<1>7. n = IF k <= MaxDomains THEN k ELSE MaxDomains
  BY <1>6, MinOfTwo, SizesAssumption
<1> HIDE DEF n
<1>8. /\ n \in 0 .. k
      /\ \A j : j \in 1 .. n <=> j \in 1 .. k /\ j <= MaxDomains
  BY <1>6, <1>7, SizesAssumption
<1> DEFINE x == SubSeq(stored, 1, n)
<1>9. IsList(x) /\ Len(x) = n /\ \A i \in 1 .. n : x[i] = stored[i]
  BY <1>4, <1>6, <1>8, FirstOfList
<1> HIDE DEF x
<1>10. \A b : b \in Range(x) <=> \E i \in 1 .. n : b = stored[i]
  BY <1>9, ListFacts
<1>11. Range(x) = {stored[i] : i \in {j \in 1 .. Len(stored) : j <= MaxDomains}}
  BY <1>6, <1>8, <1>10
<1>12. PublishDomains(m) = x
  BY <1>2 DEF x
<1> QED BY <1>4, <1>5, <1>11, <1>12

\* Of one machine's blocks no two have the same store.
LEMMA BlocksAreApart ==
    ASSUME NEW m \in Machines, NEW b \in Range(m.blocks), NEW d \in Range(m.blocks), b.store = d.store
    PROVE  b = d
<1>1. Apart(m.blocks)
  BY MachinesAssumption
<1>2. IsList(m.blocks)
  BY <1>1 DEF Apart
<1>3. PICK i \in 1 .. Len(m.blocks) : b = m.blocks[i]
  BY <1>2, ListFacts
<1>4. PICK j \in 1 .. Len(m.blocks) : d = m.blocks[j]
  BY <1>2, ListFacts
<1>5. i = j
  BY <1>1, <1>3, <1>4 DEF Apart
<1> QED BY <1>3, <1>4, <1>5

\* A Nintendo 64's digest goes through what is published, which is never nothing.
LEMMA BlocksAreDigested ==
    ASSUME MemoriesInv, made.n64
    PROVE  made \in Machines /\ Digested = Range(PublishDomains(made))
BY BlocksPublished DEF MemoriesInv, Published, Digested

\* Nothing that has a store is missing from what gate_memory_digest goes through
\* exactly if the machine is no Nintendo 64, or g_domains (eight of them) has room
\* for its blocks and none of its buses is of a memory that is no block: that is
\* how a ninth block in publishDomains(), or a bus ares adds, would be found out.
THEOREM LeftOutIsKnown == MemoriesSpec => [](NothingIsLeftOut <=> (made.n64 => Covered(made)))
<1>1. ASSUME MemoriesInv, made.n64, Covered(made) PROVE NothingIsLeftOut
  <2>1. PICK x : /\ x = Only(made.blocks, Stored(made)) /\ IsList(x) /\ Range(x) = Stored(made)
                 /\ Range(PublishDomains(made)) = {x[i] : i \in {j \in 1 .. Len(x) : j <= MaxDomains}}
    BY <1>1, BlocksAreDigested, FirstBlocksPublished
  <2>2. Len(x) \in Nat /\ Len(x) <= MaxDomains /\ MaxDomains \in Nat
    BY <1>1, <2>1, ListFacts, SizesAssumption DEF Covered
  <2>3. \A j \in 1 .. Len(x) : j <= MaxDomains
    BY <2>2
  <2>4. Digested = Stored(made)
    <3>1. Digested = {x[i] : i \in 1 .. Len(x)}
      BY <1>1, <2>1, <2>3, BlocksAreDigested
    <3>2. \A b : b \in Range(x) <=> \E i \in 1 .. Len(x) : b = x[i]
      BY <2>1, ListFacts
    <3> QED BY <2>1, <3>1, <3>2
  <2>5. \A b \in Range(made.blocks) \union Range(made.buses) :
            StoreSize[b.store] > 0 => \E d \in Range(made.blocks) : d.store = b.store
    BY <1>1 DEF Covered
  <2> QED BY <2>4, <2>5 DEF Stored, NothingIsLeftOut
<1>2. ASSUME MemoriesInv, made.n64, NothingIsLeftOut PROVE Covered(made)
  <2>1. PICK x : /\ x = Only(made.blocks, Stored(made)) /\ IsList(x) /\ IsInjective(x) /\ Range(x) = Stored(made)
                 /\ Range(PublishDomains(made)) = {x[i] : i \in {j \in 1 .. Len(x) : j <= MaxDomains}}
    BY <1>2, BlocksAreDigested, FirstBlocksPublished
  <2>2. \A d \in Digested : \E i \in 1 .. Len(x) : i <= MaxDomains /\ d = x[i]
    BY <1>2, <2>1, BlocksAreDigested
  <2>3. \A i \in 1 .. Len(x) : x[i] \in Range(made.blocks) /\ StoreSize[x[i].store] > 0
    <3>1. \A i \in 1 .. Len(x) : x[i] \in Range(x)
      BY <2>1, ListFacts
    <3> QED BY <2>1, <3>1 DEF Stored
  <2>4. Len(x) <= MaxDomains
    <3> SUFFICES ASSUME ~(Len(x) <= MaxDomains) PROVE FALSE
      OBVIOUS
    <3>1. Len(x) \in Nat /\ MaxDomains \in Nat
      BY <2>1, ListFacts, SizesAssumption
    <3>2. MaxDomains + 1 \in 1 .. Len(x) /\ ~(MaxDomains + 1 <= MaxDomains)
      BY <3>1
    <3>3. PICK last : last = MaxDomains + 1
      OBVIOUS
    <3>4. x[last] \in Range(made.blocks) /\ StoreSize[x[last].store] > 0
      BY <2>3, <3>2, <3>3
    <3>5. PICK d \in Digested : d.store = x[last].store
      BY <1>2, <3>4, Zenon DEF NothingIsLeftOut
    <3>6. PICK i \in 1 .. Len(x) : i <= MaxDomains /\ d = x[i]
      BY <2>2
    <3>7. x[i] = x[last]
      BY <1>2, <2>3, <3>4, <3>5, <3>6, BlocksAreApart, BlocksAreDigested
    <3>8. i = last
      BY <2>1, <3>2, <3>3, <3>7, ListFacts DEF IsInjective
    <3> QED BY <3>2, <3>3, <3>6, <3>8
  <2>5. \A b \in Range(made.buses) : StoreSize[b.store] > 0 => \E d \in Range(made.blocks) : d.store = b.store
    BY <1>2, <2>2, <2>3 DEF NothingIsLeftOut
  <2> QED BY <2>1, <2>4, <2>5 DEF Covered
<1>3. ASSUME MemoriesInv, ~made.n64 PROVE NothingIsLeftOut
  <2>1. made \in Machines /\ g_domains = PublishDomains(made)
    BY <1>3 DEF MemoriesInv, Published
  <2>2. g_domains = <<>> /\ Range(g_buses) = Range(made.buses)
    BY <1>3, <2>1, BlocksPublished, BusesAreListed DEF MemoriesInv
  <2>3. Digested = Range(made.buses)
    BY <2>2 DEF Digested
  <2>4. made.blocks = <<>>
    BY <1>3, <2>1, MachinesAssumption
  <2> QED BY <2>3, <2>4, EmptyList DEF NothingIsLeftOut
<1>4. MemoriesInv => (NothingIsLeftOut <=> (made.n64 => Covered(made)))
  BY <1>1, <1>2, <1>3
<1> QED BY <1>4, MemoriesHold, PTL

-----------------------------------------------------------------------------
(* What a game saved is what the host is handed and what comes back, however   *)
(* often a state is taken and put back.                                        *)

\* How many bytes a medium's memory is of.
MediaSize(m) ==
    IF m.kind = "chip" THEN ChipSize[m.at] ELSE IF m.kind = "disk" THEN Len(m.at) ELSE 0

\* A machine's memory is of its medium's size, and a disk whose drive has not
\* said that it wrote is as it was put in.
Sound(m, bytes, marked) ==
    /\ m \in Media /\ bytes \in Contents /\ Len(bytes) = MediaSize(m)
    /\ marked \in BOOLEAN
    /\ m.kind = "disk" /\ ~marked => bytes = LoadedByAres(m.at)
    /\ m.kind = "disk" /\ marked => Len(bytes) > 0

SavedStates ==
    {st \in Media \X Contents \X BOOLEAN \X Contents : Sound(st[1], st[2], st[3])}

\* The inductive invariant: the machine is sound, so is every state of it, and
\* the file the host was handed was made of a sound machine's memory.
SaveInv ==
    /\ Sound(media, memory, chimeraWritten)
    /\ g_saveExport \in Contents
    /\ error \in {None, "error.save_n64_only", "error.no_save_chip", "error.save_size"}
    /\ states \in [Slots -> SavedStates \union {Empty}]
    /\ file # None => /\ saved.media \in Media
                      /\ saved.memory \in Contents
                      /\ Len(saved.memory) = MediaSize(saved.media)
                      /\ file = Swapped(saved.memory)

-----------------------------------------------------------------------------
LEMMA SizesAreOfWords ==
    ASSUME NEW m \in Media
    PROVE  MediaSize(m) \in Nat /\ MediaSize(m) % 4 = 0
<1>1. CASE m.kind = "chip"
  BY <1>1, SaveAssumption DEF MediaSize, Media
<1>2. CASE m.kind = "disk"
  <2>1. m.at \in Disks
    BY <1>2 DEF Media
  <2>2. m.at \in Seq(Bytes) /\ Len(m.at) % 4 = 0
    BY <2>1, SaveAssumption
  <2>3. Len(m.at) \in Nat
    BY <2>2
  <2>4. MediaSize(m) = Len(m.at)
    BY <1>2 DEF MediaSize
  <2> QED BY <2>2, <2>3, <2>4
<1>3. CASE m.kind = "none"
  BY <1>3 DEF MediaSize
<1> QED BY <1>1, <1>2, <1>3 DEF Media

\* A byte's place in its word, from the other end.
LEMMA WordsMirrored ==
    ASSUME NEW n \in Nat, n % 4 = 0, NEW i \in 1 .. n
    PROVE  LET j == 4 * ((i - 1) \div 4) + 4 - ((i - 1) % 4)
           IN  j \in 1 .. n /\ (j - 1) \div 4 = (i - 1) \div 4 /\ (j - 1) % 4 = 3 - ((i - 1) % 4)
<1>1. PICK q \in Int, r \in 0 .. 3 : i - 1 = 4 * q + r
  BY (i - 1) = 4 * ((i - 1) \div 4) + ((i - 1) % 4), (i - 1) % 4 \in 0 .. 3, (i - 1) \div 4 \in Int
<1>2. PICK k \in Int : n = 4 * k
  <2>1. n \div 4 \in Int /\ n = 4 * (n \div 4)
    OBVIOUS
  <2> QED BY <2>1
<1>3. (i - 1) \div 4 = q /\ (i - 1) % 4 = r
  BY <1>1
<1>4. 4 * q + 4 - r \in 1 .. n
  BY <1>1, <1>2
<1>5. (4 * q + 4 - r - 1) \div 4 = q /\ (4 * q + 4 - r - 1) % 4 = 3 - r
  BY <1>1
<1> QED BY <1>3, <1>4, <1>5

LEMMA SwappedType ==
    ASSUME NEW bytes \in Contents, Len(bytes) % 4 = 0
    PROVE  Swapped(bytes) \in Contents /\ Len(Swapped(bytes)) = Len(bytes)
<1>1. \A i \in 1 .. Len(bytes) : 4 * ((i - 1) \div 4) + 4 - ((i - 1) % 4) \in 1 .. Len(bytes)
  BY WordsMirrored DEF Contents
<1>2. Swapped(bytes) \in [1 .. Len(bytes) -> Bytes]
  BY <1>1 DEF Swapped, Contents
<1> QED BY <1>2 DEF Contents, Swapped

\* A word taken up in the order of the file is that word mirrored.
LEMMA LoadedIsMirrored ==
    ASSUME NEW bytes \in Contents, Len(bytes) % 4 = 0
    PROVE  LoadedByAres(bytes) = Swapped(bytes)
<1> DEFINE Word(w) == Reverse(SubSeq(bytes, 4 * w + 1, 4 * w + 4))
<1>1. 4 * (Len(bytes) \div 4) = Len(bytes)
  BY DEF Contents
<1>2. ASSUME NEW i \in 1 .. Len(bytes)
      PROVE  Word((i - 1) \div 4)[((i - 1) % 4) + 1] = bytes[4 * ((i - 1) \div 4) + 4 - ((i - 1) % 4)]
  <2> DEFINE q == (i - 1) \div 4
             r == (i - 1) % 4
             word == SubSeq(bytes, 4 * q + 1, 4 * q + 4)
  <2>1. q \in Nat /\ r \in 0 .. 3 /\ i - 1 = 4 * q + r /\ 4 * q + 4 <= Len(bytes)
    BY <1>1 DEF Contents
  <2>2. word \in Seq(Bytes) /\ Len(word) = 4 /\ \A k \in 1 .. 4 : word[k] = bytes[4 * q + k]
    <3> HIDE DEF q, r
    <3> QED BY <2>1 DEF Contents
  <2>3. Reverse(word)[r + 1] = word[4 - r]
    <3> HIDE DEF q, r, word
    <3> QED BY <2>1, <2>2 DEF Reverse
  <2>4. word[4 - r] = bytes[4 * q + 4 - r]
    <3> HIDE DEF q, r, word
    <3>1. 4 - r \in 1 .. 4 /\ 4 * q + (4 - r) = 4 * q + 4 - r
      BY <2>1
    <3> QED BY <2>2, <3>1
  <2> QED BY <2>3, <2>4
<1> QED BY <1>1, <1>2 DEF LoadedByAres, Swapped

\* Mirrored twice, a word is as it was: what the host is handed is taken up as
\* the memory it was made of.
LEMMA TakenUpAsItWas ==
    ASSUME NEW bytes \in Contents, Len(bytes) % 4 = 0
    PROVE  LoadedByAres(Swapped(bytes)) = bytes
<1>1. LoadedByAres(Swapped(bytes)) = Swapped(Swapped(bytes))
  BY SwappedType, LoadedIsMirrored
<1>2. ASSUME NEW i \in 1 .. Len(bytes)
      PROVE  Swapped(Swapped(bytes))[i] = bytes[i]
  <2> DEFINE j == 4 * ((i - 1) \div 4) + 4 - ((i - 1) % 4)
  <2>1. /\ j \in 1 .. Len(bytes)
        /\ (j - 1) \div 4 = (i - 1) \div 4 /\ (j - 1) % 4 = 3 - ((i - 1) % 4)
    BY WordsMirrored DEF Contents
  <2>2. Swapped(Swapped(bytes))[i] = Swapped(bytes)[j]
    BY SwappedType DEF Swapped
  <2>3. Swapped(bytes)[j] = bytes[4 * ((j - 1) \div 4) + 4 - ((j - 1) % 4)]
    BY <2>1 DEF Swapped
  <2>4. 4 * ((j - 1) \div 4) + 4 - ((j - 1) % 4) = i
    <3>1. i - 1 = 4 * ((i - 1) \div 4) + ((i - 1) % 4)
      BY DEF Contents
    <3> HIDE DEF j
    <3> QED BY <2>1, <3>1 DEF Contents
  <2> QED BY <2>2, <2>3, <2>4
<1>3. Swapped(Swapped(bytes)) \in Contents /\ Len(Swapped(Swapped(bytes))) = Len(bytes)
  BY SwappedType
<1> QED BY <1>1, <1>2, <1>3 DEF Contents

-----------------------------------------------------------------------------
\* A save that is taken is the chip's, whole.
LEMMA WholeSaveTaken ==
    ASSUME NEW m \in Media, m.kind = "chip",
           NEW seed \in Contents, seed # None, seed # <<>>, SeedError(m, seed) = None
    PROVE  /\ Len(seed) = MediaSize(m)
           /\ PluggedIn(m, seed) = LoadedByAres(seed)
<1>1. Len(seed) = ChipSize[m.at]
  BY SaveAssumption DEF SeedError
<1>2. SubSeq(seed, 1, ChipSize[m.at]) = seed
  BY <1>1 DEF Contents
<1> QED BY <1>1, <1>2 DEF MediaSize, PluggedIn

\* What is plugged in is sound: a new chip, a save's memory or a disk.
LEMMA PluggedInSound ==
    ASSUME NEW m \in Media, NEW seed, SeedError(m, seed) = None,
           seed \in {None, <<>>} \/ seed \in Contents
    PROVE  Sound(m, PluggedIn(m, seed), FALSE)
<1> DEFINE plugged == PluggedIn(m, seed)
<1> SUFFICES Sound(m, plugged, FALSE)
  OBVIOUS
<1>1. CASE m.kind = "chip" /\ seed \in {None, <<>>}
  <2>1. m.at \in 1 .. Len(Chips) /\ ChipSize[m.at] \in Nat
    BY <1>1, SaveAssumption DEF Media
  <2>2. plugged = [i \in 1 .. ChipSize[m.at] |-> Erased]
    BY <1>1 DEF PluggedIn
  <2>3. plugged \in Contents /\ Len(plugged) = ChipSize[m.at]
    BY <2>1, <2>2, SaveAssumption DEF Contents
  <2> QED BY <1>1, <2>3 DEF Sound, MediaSize
<1>2. CASE m.kind = "chip" /\ seed \notin {None, <<>>}
  <2>1. Len(seed) = MediaSize(m) /\ plugged = LoadedByAres(seed) /\ seed \in Contents
    BY <1>2, WholeSaveTaken
  <2>2. plugged = Swapped(seed)
    BY <2>1, SizesAreOfWords, LoadedIsMirrored
  <2>3. plugged \in Contents /\ Len(plugged) = MediaSize(m)
    BY <2>1, <2>2, SizesAreOfWords, SwappedType
  <2> HIDE DEF plugged
  <2> QED BY <1>2, <2>3 DEF Sound
<1>3. CASE m.kind = "disk"
  <2>1. m.at \in Disks
    BY <1>3 DEF Media
  <2>2. m.at \in Contents /\ Len(m.at) % 4 = 0
    BY <2>1, SaveAssumption DEF Contents
  <2>3. plugged = LoadedByAres(m.at)
    BY <1>3 DEF PluggedIn
  <2>4. plugged \in Contents /\ Len(plugged) = Len(m.at)
    BY <2>2, <2>3, LoadedIsMirrored, SwappedType
  <2>5. MediaSize(m) = Len(m.at)
    BY <1>3 DEF MediaSize
  <2> HIDE DEF plugged
  <2> QED BY <2>3, <2>4, <2>5 DEF Sound
<1>4. CASE m.kind = "none"
  <2>1. plugged = <<>> /\ MediaSize(m) = 0
    BY <1>4 DEF PluggedIn, MediaSize
  <2> HIDE DEF plugged
  <2> QED BY <1>4, <2>1 DEF Sound, Contents
<1> QED BY <1>1, <1>2, <1>3, <1>4 DEF Media

\* Where there is no machine there is nothing to be wrong.
LEMMA NothingIsSound == Sound(NoMedia, <<>>, FALSE)
BY DEF Sound, NoMedia, Media, Contents, MediaSize

LEMMA SaveInvInit == SaveInit => SaveInv
<1> SUFFICES ASSUME SaveInit PROVE SaveInv
  OBVIOUS
<1>1. Sound(media, memory, chimeraWritten)
  BY NothingIsSound DEF SaveInit
<1>2. states \in [Slots -> SavedStates \union {Empty}]
  BY DEF SaveInit
<1> QED BY <1>1, <1>2 DEF SaveInit, SaveInv, Contents

LEMMA StartKeepsInv ==
    ASSUME SaveInv, NEW m \in Media, NEW seed \in Seeds, StartProject(m, seed)
    PROVE  SaveInv'
<1>1. seed \in {None, <<>>} \/ seed \in Contents
  BY SwappedType, SizesAreOfWords DEF Seeds, SaveInv
<1>2. Sound(media, memory, chimeraWritten)'
  <2>1. CASE SeedError(m, seed) = None
    BY <1>1, <2>1, PluggedInSound DEF StartProject
  <2>2. CASE SeedError(m, seed) # None
    BY <2>2, NothingIsSound DEF StartProject
  <2> QED BY <2>1, <2>2
<1>3. error' \in {None, "error.save_n64_only", "error.no_save_chip", "error.save_size"}
  BY DEF StartProject, SeedError
<1> QED BY <1>2, <1>3 DEF StartProject, SaveInv, Contents

\* A frame leaves what is written to as large as it was, and marks a disk.
LEMMA FrameKeepsInv ==
    ASSUME SaveInv, NEW wrote \in BOOLEAN, NEW as \in Contents, SaveFrame(wrote, as),
           Len(as) = Len(memory),
           ~wrote => as = memory,
           wrote => Len(memory) > 0
    PROVE  SaveInv'
<1>1. Sound(media, as, chimeraWritten')
  <2>1. CASE ~wrote
    BY <2>1 DEF SaveFrame, SaveInv
  <2>2. CASE wrote
    <3>1. media \in Media /\ Len(memory) = MediaSize(media)
      BY DEF SaveInv, Sound
    <3>2. chimeraWritten' \in BOOLEAN /\ (media.kind = "disk" => chimeraWritten')
      BY <2>2 DEF SaveFrame, MarksWrite, SaveInv, Sound
    <3> QED BY <2>2, <3>1, <3>2 DEF Sound
  <2> QED BY <2>1, <2>2
<1>2. Sound(media, memory, chimeraWritten)'
  BY <1>1 DEF SaveFrame
<1>3. g_saveExport' \in Contents
  BY DEF SaveFrame, Contents
<1> QED BY <1>2, <1>3 DEF SaveFrame, SaveInv

LEMMA SaveStepKeepsInv == SaveInv /\ [SaveNext]_saveVars => SaveInv'
<1> SUFFICES ASSUME SaveInv, [SaveNext]_saveVars PROVE SaveInv'
  OBVIOUS
<1>1. CASE \E m \in Media, seed \in Seeds : StartProject(m, seed)
  BY <1>1, StartKeepsInv
<1>2. CASE SaveFrame(FALSE, memory)
  BY <1>2, FrameKeepsInv DEF SaveInv, Sound
<1>3. ASSUME NEW i \in 1 .. Len(memory), NEW v \in Bytes, SaveFrame(TRUE, Written(i, v))
      PROVE  SaveInv'
  <2>1. memory \in Seq(Bytes)
    BY DEF SaveInv, Sound, Contents
  <2>2. Written(i, v) \in [1 .. Len(memory) -> Bytes]
    BY <2>1 DEF Written
  <2>3. Written(i, v) \in Contents /\ Len(Written(i, v)) = Len(memory) /\ Len(memory) > 0
    BY <2>1, <2>2 DEF Contents
  <2> QED BY <1>3, <2>3, FrameKeepsInv
<1>4. CASE Export
  <2>1. Swapped(memory) \in Contents
    BY SwappedType, SizesAreOfWords DEF SaveInv, Sound
  <2> QED BY <1>4, <2>1 DEF Export, SaveInv, Sound
<1>5. ASSUME NEW s \in Slots, SaveState(s) PROVE SaveInv'
  <2>1. machine \in SavedStates
    BY DEF machine, SavedStates, SaveInv, Sound
  <2> QED BY <1>5, <2>1 DEF SaveState, SaveInv
<1>6. ASSUME NEW s \in Slots, LoadState(s) PROVE SaveInv'
  <2>1. states[s] \in SavedStates
    BY <1>6 DEF LoadState, SaveInv
  <2> QED BY <1>6, <2>1 DEF LoadState, SaveInv, SavedStates
<1>7. CASE UNCHANGED saveVars
  BY <1>7 DEF saveVars, SaveInv, Sound
<1> QED BY <1>1, <1>2, <1>3, <1>4, <1>5, <1>6, <1>7 DEF SaveNext

LEMMA SaveInvHolds == SaveSpec => []SaveInv
BY SaveInvInit, SaveStepKeepsInv, PTL DEF SaveSpec

-----------------------------------------------------------------------------
\* Every variable of the save data keeps its type, and what is exported is
\* whole bytes of the medium (machine.cpp's saveData() and its callers).
THEOREM SaveTypesHold == SaveSpec => []SaveTypeOK
<1>1. SaveInv => SaveTypeOK
  <2> SUFFICES ASSUME SaveInv PROVE SaveTypeOK
    OBVIOUS
  <2>1. file \in Contents \union {None}
    BY SwappedType, SizesAreOfWords DEF SaveInv
  <2>2. \A s \in Slots : states[s] = Empty \/ states[s] \in Media \X Contents \X BOOLEAN \X Contents
    BY DEF SaveInv, SavedStates
  <2> QED BY <2>1, <2>2 DEF SaveInv, SaveTypeOK, Sound
<1> QED BY <1>1, SaveInvHolds, PTL

\* The file the host is handed is in the console's order, for a chip or a disk
\* of any size (inFileOrder()).
THEOREM FileIsAlwaysTheConsoles == SaveSpec => []FileIsTheConsoles
<1>1. SaveInv => FileIsTheConsoles
  <2> SUFFICES ASSUME SaveInv, file # None, NEW a \in 0 .. Len(file) - 1
               PROVE  file[a + 1] = ReadByCpu(saved.memory, a)
    BY DEF FileIsTheConsoles
  <2>1. /\ saved.memory \in Contents /\ Len(saved.memory) % 4 = 0
        /\ file = Swapped(saved.memory)
    BY SizesAreOfWords DEF SaveInv
  <2>2. Len(file) = Len(saved.memory) /\ Len(saved.memory) \in Nat
    <3>1. Len(saved.memory) \in Nat
      BY <2>1 DEF Contents
    <3> QED BY <2>1, <3>1, SwappedType
  <2>3. a + 1 \in 1 .. Len(saved.memory) /\ (a + 1) - 1 = a
    BY <2>2
  <2>4. file[a + 1] = saved.memory[4 * (a \div 4) + 4 - (a % 4)]
    BY <2>1, <2>3 DEF Swapped
  <2>5. 4 * (a \div 4) + 4 - (a % 4) = (4 * (a \div 4)) + (3 - (a % 4)) + 1
    BY <2>2
  <2> QED BY <2>4, <2>5 DEF ReadByCpu
<1> QED BY <1>1, SaveInvHolds, PTL

\* A disk that is not as it was put in is offered to the host, whatever states
\* were taken of it and put back (saveDataSize(), dd.chimeraWritten).
THEOREM WrittenDiskIsAlwaysOffered == SaveSpec => []WrittenDiskIsOffered
<1>1. SaveInv => WrittenDiskIsOffered
  BY DEF SaveInv, WrittenDiskIsOffered, Sound, SaveDataSize
<1> QED BY <1>1, SaveInvHolds, PTL

-----------------------------------------------------------------------------
\* A chip's file put back: the memory it was made of, or no machine.
LEMMA ChipComesBack ==
    ASSUME SaveInv, NEW m \in Media, file # None, saved.media.kind = "chip", StartProject(m, file)
    PROVE  IF m.kind = "chip" /\ ChipSize[m.at] = ChipSize[saved.media.at]
           THEN error' = None /\ memory' = saved.memory
           ELSE error' # None /\ media' = NoMedia
<1>1. /\ saved.media \in Media /\ saved.memory \in Contents
      /\ Len(saved.memory) = MediaSize(saved.media) /\ Len(saved.memory) % 4 = 0
      /\ file = Swapped(saved.memory)
  BY SizesAreOfWords DEF SaveInv
<1>2. Len(saved.memory) = ChipSize[saved.media.at] /\ ChipSize[saved.media.at] > 0
  BY <1>1, SaveAssumption DEF MediaSize, Media
<1>3. file \in Contents /\ Len(file) = ChipSize[saved.media.at] /\ file # <<>>
  BY <1>1, <1>2, SwappedType DEF Contents
<1>4. CASE m.kind = "chip" /\ ChipSize[m.at] = ChipSize[saved.media.at]
  <2>1. SeedError(m, file) = None
    BY <1>3, <1>4 DEF SeedError
  <2>2. PluggedIn(m, file) = LoadedByAres(file)
    BY <1>3, <1>4, <2>1, WholeSaveTaken
  <2>3. LoadedByAres(file) = saved.memory
    BY <1>1, TakenUpAsItWas
  <2> QED BY <1>4, <2>1, <2>2, <2>3 DEF StartProject
<1>5. CASE ~(m.kind = "chip" /\ ChipSize[m.at] = ChipSize[saved.media.at])
  <2>1. SeedError(m, file) # None
    BY <1>3, <1>5, SaveAssumption DEF SeedError
  <2> QED BY <1>5, <2>1 DEF StartProject
<1> QED BY <1>4, <1>5

\* A disk's file put in as a disk is the disk it was made of.
LEMMA DiskComesBack ==
    ASSUME SaveInv, SaveNext, file # None,
           media'.kind = "disk", media'.at = file, media # media'
    PROVE  memory' = saved.memory
<1>1. PICK m \in Media, seed \in Seeds : StartProject(m, seed)
  BY DEF SaveNext, SaveFrame, Export, SaveState, LoadState
<1>2. media' = m /\ memory' = PluggedIn(m, seed)
  BY <1>1 DEF StartProject, NoMedia
<1>3. memory' = LoadedByAres(file)
  BY <1>2 DEF PluggedIn
<1>4. saved.memory \in Contents /\ Len(saved.memory) % 4 = 0 /\ file = Swapped(saved.memory)
  BY SizesAreOfWords DEF SaveInv
<1> QED BY <1>3, <1>4, TakenUpAsItWas

\* A save handed out goes back in, on every later start of a project: as it
\* was in a chip of its size, and in no other; and a disk as a disk.
THEOREM SaveAlwaysComesBack == SaveSpec => SaveComesBack
<1>1. SaveInv /\ [SaveNext]_saveVars => [ComesBack]_saveVars
  <2> SUFFICES ASSUME SaveInv, SaveNext PROVE ComesBack
    OBVIOUS
  <2> QED BY ChipComesBack, DiskComesBack DEF ComesBack
<1> QED BY <1>1, SaveInvHolds, PTL DEF SaveSpec, SaveComesBack

-----------------------------------------------------------------------------
(* All of them together.                                                       *)

LEMMA OnePartAtATime ==
    [OutputsNext]_outputsVars =>
        [Next]_vars /\ [PictureNext]_pictureVars /\ [MemoriesNext]_memoriesVars /\ [SaveNext]_saveVars
BY Zenon DEF OutputsNext, Alone, PictureNext, outputsVars

\* Whatever part of a machine is looked at, each of them keeps to its own
\* specification: what is proved of one is so of all of them together.
THEOREM OutputsAreOfTheirParts == OutputsSpec => Spec /\ PictureSpec /\ MemoriesSpec /\ SaveSpec
<1>1. OutputsInit => Init /\ PictureInit /\ MemoriesInit /\ SaveInit
  BY DEF OutputsInit
<1> QED BY <1>1, OnePartAtATime, PTL DEF OutputsSpec, Spec, PictureSpec, MemoriesSpec, SaveSpec

\* Every variable of every part keeps its type, in every behaviour of them.
THEOREM OutputsTypesHold == OutputsSpec => []TypesOK
<1>1. TypeOK /\ PictureTypeOK /\ MemoriesTypeOK /\ SaveTypeOK => TypesOK
  BY DEF TypesOK
<1> QED BY <1>1, OutputsAreOfTheirParts, SoundTypesHold, PictureTypesHold, MemoriesTypesHold, SaveTypesHold, PTL

\* All that is promised of what a frontend is given, in every behaviour of them:
\* what the parts promise one by one, a part that stands still included.
THEOREM OutputsKeepTheirWord ==
    OutputsSpec => /\ [](/\ VoicesAreTogether /\ NothingWaits /\ ShownIsHanded /\ RateIsTheMachines
                         /\ MemoriesAgree /\ FileIsTheConsoles /\ WrittenDiskIsOffered)
                   /\ SaveComesBack
<1> QED
  BY OutputsAreOfTheirParts, NothingEverWaits, VoicesAreAlwaysTogether, ShownIsAlwaysHanded, RateIsAlwaysTheMachines,
     MemoriesAlwaysAgree, FileIsAlwaysTheConsoles, WrittenDiskIsAlwaysOffered, SaveAlwaysComesBack, PTL
=============================================================================
