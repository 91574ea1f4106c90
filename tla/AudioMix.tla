------------------------------- MODULE AudioMix -------------------------------
(* The voices of a machine mixed into one output. Every voice resamples to the *)
(* same rate and calls back whenever it has written; they write in any order   *)
(* and a frame ends wherever it ends, between two voices of one sample too.    *)
EXTENDS Integers, Sequences, FiniteSetsExt

CONSTANTS
    Streams,            \* the audio streams ares may attach
    Channels,           \* of each, 1 or 2
    Amplitudes,         \* what a channel of a sample may be
    Least, Most,        \* what fits in 16 bits (-32768, 32767)
    MaxSamplesPerFrame,
    MaxWritten,         \* bound: the samples a voice writes
    Burst               \* bound: the samples one write may resample to

ASSUME AudioAssumption ==
    /\ IsFiniteSet(Streams)
    /\ Channels \in [Streams -> {1, 2}]
    /\ Amplitudes \subseteq Int
    /\ {Least, Most} \subseteq Int /\ Least <= Most
    /\ {MaxSamplesPerFrame, MaxWritten, Burst} \subseteq Nat

VARIABLES
    g_streams,      \* the streams attached
    powered,        \* the machine is built; before it, streams come and go
    written,        \* everything each stream has written (its queue is the end)
    taken,          \* how many of those were read
    g_audio,        \* this frame's samples, g_audioSamples of them
    earlier         \* how many samples had been mixed when the frame began

vars == <<g_streams, powered, written, taken, g_audio, earlier>>

\* A sample of stream s: its first channel, and its second if it has one.
Samples(s) == [1 .. Channels[s] -> Amplitudes]
Outputs == [left : Least .. Most, right : Least .. Most]

TypeOK ==
    /\ g_streams \subseteq Streams
    /\ powered \in BOOLEAN
    /\ \A s \in Streams :
          /\ Len(written[s]) <= MaxWritten
          /\ \A i \in 1 .. Len(written[s]) : written[s][i] \in Samples(s)
          /\ taken[s] \in 0 .. Len(written[s])
    /\ Len(g_audio) <= MaxSamplesPerFrame
    /\ \A i \in 1 .. Len(g_audio) : g_audio[i] \in Outputs
    /\ earlier \in 0 .. MaxWritten

Init ==
    /\ g_streams = {}
    /\ powered = FALSE
    /\ written = [s \in Streams |-> <<>>]
    /\ taken = [s \in Streams |-> 0]
    /\ g_audio = <<>>
    /\ earlier = 0

-----------------------------------------------------------------------------
\* attach(), detach(): while the machine is put together.
Attach(s) ==
    /\ ~powered /\ s \notin g_streams
    /\ g_streams' = g_streams \union {s}
    /\ UNCHANGED <<powered, written, taken, g_audio, earlier>>

Detach(s) ==
    /\ ~powered /\ s \in g_streams
    /\ g_streams' = g_streams \ {s}
    /\ UNCHANGED <<powered, written, taken, g_audio, earlier>>

Power ==
    /\ ~powered
    /\ powered' = TRUE
    /\ UNCHANGED <<g_streams, written, taken, g_audio, earlier>>

-----------------------------------------------------------------------------
\* clamp16().
Clamp16(v) == IF v > Most THEN Most ELSE IF v < Least THEN Least ELSE v

\* A mutant of Right: what read() leaves in the second slot for one channel.
RightUndoubled(s, x) == IF Channels[s] = 1 THEN 0 ELSE x[2]

\* A voice of one channel is heard on both sides.
Left(s, x) == x[1]
Right(s, x) == IF Channels[s] = 1 THEN x[1] ELSE x[2]

\* The sum of one sample of every voice.
Mixed(samples) ==
    [left |-> Clamp16(SumFunction([s \in g_streams |-> Left(s, samples[s])])),
     right |-> Clamp16(SumFunction([s \in g_streams |-> Right(s, samples[s])]))]

Pending(w, s) == Len(w[s]) - taken[s]

\* How often the loop of audio() comes round: while EVERY voice has one waiting.
Ready(w) == IF g_streams = {} THEN 0 ELSE Min({Pending(w, s) : s \in g_streams})

\* A mutant of Read: it stops reading where the frame is full.
ReadWhatFits(n) == Min({n, MaxSamplesPerFrame - Len(g_audio)})

\* Where the frame is full the voices are still read, for nothing.
Read(n) == n

\* A mutant of Kept: nothing is dropped of a frame that is full.
KeptAll(out) == out

Kept(out) == SubSeq(out, 1, Min({Len(out), MaxSamplesPerFrame}))

\* audio(), called by a stream that has just written; w is what is written.
Audio(w) ==
    LET n == Ready(w)
        Sum(i) == Mixed([s \in g_streams |-> w[s][taken[s] + i]])
    IN  /\ taken' = [s \in Streams |-> IF s \in g_streams THEN taken[s] + Read(n) ELSE taken[s]]
        /\ g_audio' = Kept(g_audio \o [i \in 1 .. n |-> Sum(i)])

\* A voice of the running machine writes, in whatever order its voices run.
Write(s, samples) ==
    /\ powered /\ s \in g_streams
    /\ Len(written[s]) + Len(samples) <= MaxWritten
    /\ written' = [written EXCEPT ![s] = @ \o samples]
    /\ Audio(written')
    /\ UNCHANGED <<g_streams, powered, earlier>>

\* A mutant of Emptied: the last frame's samples are still there.
NotEmptied == g_audio

Emptied == <<>>

\* frame(): the host has read the last one's samples; this one has none yet.
Frame ==
    /\ powered
    /\ g_audio' = Emptied
    /\ earlier' = IF g_streams = {} THEN 0 ELSE Min({taken[s] : s \in g_streams})
    /\ UNCHANGED <<g_streams, powered, written, taken>>

Next ==
    \/ \E s \in Streams : Attach(s) \/ Detach(s)
    \/ Power
    \/ \E s \in Streams : \E n \in 1 .. Burst : \E x \in [1 .. n -> Samples(s)] : Write(s, x)
    \/ Frame

Spec == Init /\ [][Next]_vars

-----------------------------------------------------------------------------
\* How a voice sounds on a side: one channel is both of them.
Heard(s, i, side) ==
    written[s][i][IF side = "right" /\ Channels[s] = 2 THEN 2 ELSE 1]

Loudness(i, side) ==
    LET sum == SumFunction([s \in g_streams |-> Heard(s, i, side)])
    IN  Max({Least, Min({Most, sum})})

\* What the host reads of a frame is the k-th sample of every voice together,
\* clamped: no voice slides against another, none is heard one after another,
\* and everything read within the frame is in it, up to the frame's room; a
\* frame too long loses its end without moving what comes after it.
VoicesAreTogether ==
    \A s \in g_streams :
        g_audio = [i \in 1 .. Min({MaxSamplesPerFrame, taken[s] - earlier}) |->
                      [left |-> Loudness(earlier + i, "left"), right |-> Loudness(earlier + i, "right")]]

\* Nothing that could have been mixed is left waiting, and nothing was read
\* that was not: the voices were read as far as the slowest has written.
NothingWaits ==
    \A s \in g_streams : taken[s] = Min({Len(written[r]) : r \in g_streams})
=============================================================================
