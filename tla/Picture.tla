------------------------------- MODULE Picture -------------------------------
(* What the machine shows: the picture ares' screen hands over, copied into    *)
(* the adapter's one buffer, and the rate it refreshes at, heard as a number   *)
(* and told as a fraction. A Nintendo 64 drawn in software comes by the frame  *)
(* buffer of that renderer first, a field at a time when it is interlaced.     *)
(* Lines and columns are counted in small units and a pixel is the drawing it  *)
(* is of and its place in it.                                                  *)
EXTENDS Integers, Sequences

CONSTANTS
    WidthMax, HeightMax,    \* the buffer's (1280 and 576)
    FieldHeight,            \* a progressive picture's lines at the most (288)
    AtFirst,                \* a Nintendo 64's picture before its first: <<640, 480, 576 for PAL>>
    Screens,                \* the sizes ares hands pictures over in, <<width, height>>
    Frames,                 \* the frames angrylion may make: [width, height, woven], a
                            \* woven one of more lines than a field has
    Drawings,               \* how many pictures are told apart
    Hints,                  \* the rates ares may hint, as fractions
    Declarations,           \* what machines.h may declare; <<0, 0>> is nothing
    Band,                   \* a television's rates: more than Band[1], less than Band[2]
    Nearly,                 \* a convergent is right to one part in this (a billion)
    NumMax, DenMax,         \* where a convergent stops being sane
    Convergents             \* how many are tried (32)

ASSUME PictureAssumption ==
    /\ WidthMax \in Nat /\ HeightMax \in Nat /\ FieldHeight \in Nat /\ Drawings \in Nat \ {0}
    /\ AtFirst \in (1 .. WidthMax) \X (1 .. HeightMax) \X (1 .. HeightMax)
    /\ Screens \subseteq Nat \X Nat
    /\ \A f \in Frames : /\ f.width \in Nat \ {0} /\ f.height \in Nat \ {0} /\ f.woven \in BOOLEAN
                         /\ f.woven => f.height > AtFirst[2] \div 2 /\ f.height > AtFirst[3] \div 2

\* Whether a rate is one a screen could have.
InBand(r) == r[1] > Band[1] * r[2] /\ r[1] < Band[2] * r[2]

\* 2 to the power of n.
TwoTo(n) == LET twice[i \in 0 .. n] == IF i = 0 THEN 1 ELSE 2 * twice[i - 1] IN twice[n]

\* A rate is a pixel clock over dots times lines, none so large that a fraction
\* of it would not be sane. What is declared is a screen's rate, as 50 and 60
\* are. The convergents tried are enough: 20 * 2^30 is more than a billion.
ASSUME RatesAssumption ==
    /\ Band \in Nat \X Nat /\ Nearly \in Nat \ {0} /\ NumMax \in Nat /\ DenMax \in Nat
    /\ \A h \in Hints : h = <<h[1], h[2]>> /\ h[1] \in 0 .. NumMax /\ h[2] \in 1 .. DenMax
    /\ \A d \in Declarations \union {<<50, 1>>, <<60, 1>>} :
          d # <<0, 0>> => d[1] \in Nat /\ d[2] \in Nat \ {0} /\ InBand(d)
    /\ Convergents \in Nat /\ Convergents >= 2 /\ Nearly <= Band[1] * TwoTo(Convergents - 2)

VARIABLES
    n64, pal, declared,     \* the machine
    renderer,               \* "ares"; "software", or that with Bob Deinterlacing, "bob"
    g_fb,                   \* the software renderer's frame, or NoFrame
    rendering,              \* g_rendering
    buffer,                 \* g_video, as far as it is used: its pixels one after the other
    width, height,          \* g_videoWidth and g_videoHeight
    handed,                 \* the last picture handed over while drawing, or NoFrame
    drawn,                  \* how many pictures were handed over
    rate                    \* g_refreshRate, <<0, 1>> until the machine has said

pictureVars == <<n64, pal, declared, renderer, g_fb, rendering, buffer, width, height, handed, drawn, rate>>

-----------------------------------------------------------------------------
Lesser(a, b) == IF a < b THEN a ELSE b
Pixel(d, x, y) == <<d, x, y>>

\* A pixel is blank until something is drawn there.
Blank == Pixel(0, 0, 0)

\* No frame yet, or none that is valid; a frame's pixels are its lines, of columns.
NoFrame == [width |-> 0, height |-> 0, pixels |-> <<>>]

\* The buffer after pixels were put at the places of a function, the rest left.
Put(pixels) == [i \in 1 .. WidthMax * HeightMax |-> IF i \in DOMAIN pixels THEN pixels[i] ELSE buffer[i]]

\* A Nintendo 64's progressive picture, each of whose lines is shown twice.
Doubled(h) == n64 /\ h > 1 /\ h <= FieldHeight /\ h * 2 <= HeightMax

\* A mutant of Rows: the lines lie as far apart as the widest picture's.
RowsApart(pixels, w, h) ==
    [i \in 1 .. WidthMax * (IF Doubled(h) THEN 2 * h ELSE h) |->
        LET y == (i - 1) \div WidthMax
        IN  IF (i - 1) % WidthMax < w THEN pixels[IF Doubled(h) THEN y \div 2 ELSE y][(i - 1) % WidthMax] ELSE Blank]

\* The picture as it is laid down, its lines end to end.
Rows(pixels, w, h) ==
    [i \in 1 .. w * (IF Doubled(h) THEN 2 * h ELSE h) |->
        LET y == (i - 1) \div w
        IN  pixels[IF Doubled(h) THEN y \div 2 ELSE y][(i - 1) % w]]

\* ares' screen hands a picture over, too wide or too tall ones cut.
Video(picture) ==
    LET w == Lesser(picture.width, WidthMax)
        h == Lesser(picture.height, HeightMax)
    IN  IF rendering
        THEN /\ buffer' = Put(Rows(picture.pixels, w, h))
             /\ width' = w
             /\ height' = IF Doubled(h) THEN 2 * h ELSE h
             /\ handed' = picture
        ELSE UNCHANGED <<buffer, width, height, handed>>

NextDrawing == (drawn % Drawings) + 1

\* A picture ares drew itself.
Draw(screen) ==
    /\ renderer = "ares"
    /\ drawn' = NextDrawing
    /\ Video([width |-> screen[1], height |-> screen[2], of |-> NextDrawing,
              pixels |-> [y \in 0 .. screen[2] - 1 |-> [x \in 0 .. screen[1] - 1 |-> Pixel(NextDrawing, x, y)]]])
    /\ UNCHANGED <<n64, pal, declared, renderer, g_fb, rendering, rate>>

-----------------------------------------------------------------------------
\* The lines of a Nintendo 64's picture, as many as its region has.
Full == AtFirst[IF pal THEN 3 ELSE 2]

\* What angrylion leaves: lines of this drawing, or, in a frame woven of two
\* fields, of this drawing in every other line, the odd ones if it is lower.
Updated(frame, lower) ==
    [width |-> frame.width, height |-> frame.height, lower |-> lower, of |-> NextDrawing,
     pixels |-> [y \in 0 .. frame.height - 1 |-> [x \in 0 .. frame.width - 1 |->
                   IF ~frame.woven \/ (y % 2 = 1) = lower THEN Pixel(NextDrawing, x, y)
                   ELSE IF x < g_fb.width /\ y < g_fb.height THEN g_fb.pixels[y][x]
                   ELSE Blank]]]

\* Whether a frame is shown a field at a time.
ByField(fb) == renderer = "bob" /\ fb.height > Full \div 2

\* refresh(): the frame, or the newest field of it, stretched to the width of a
\* Nintendo 64's picture. A frame that is not valid is a picture of one pixel.
Refreshed(fb) ==
    LET first == IF ByField(fb) /\ fb.lower THEN 1 ELSE 0
        step  == IF ByField(fb) THEN 2 ELSE 1
        shown == Lesser(fb.height \div step, Full)
    IN  IF fb = NoFrame THEN [width |-> 1, height |-> 1, of |-> 0, pixels |-> [y \in {0} |-> [x \in {0} |-> Blank]]]
        ELSE [width |-> AtFirst[1], height |-> shown, of |-> fb.of,
              pixels |-> [y \in 0 .. shown - 1 |-> [x \in 0 .. AtFirst[1] - 1 |->
                            fb.pixels[first + y * step][(x * fb.width) \div AtFirst[1]]]]]

\* frame() at the start of the video interface's frame, then refresh(): a
\* frame that angrylion could make, or none.
SoftwareFrame(fb) ==
    /\ renderer # "ares"
    /\ g_fb' = fb
    /\ drawn' = IF fb = NoFrame THEN drawn ELSE NextDrawing
    /\ Video(Refreshed(fb))
    /\ UNCHANGED <<n64, pal, declared, renderer, rendering, rate>>

SetRendering(on) ==
    /\ rendering' = on
    /\ UNCHANGED <<n64, pal, declared, renderer, g_fb, buffer, width, height, handed, drawn, rate>>

-----------------------------------------------------------------------------
\* A mutant of RefreshRateHint: whatever the machine says is taken.
HintTaken(r) ==
    /\ rate' = r
    /\ UNCHANGED <<n64, pal, declared, renderer, g_fb, rendering, buffer, width, height, handed, drawn>>

\* What is not a screen's rate is a machine still waking up.
RefreshRateHint(r) ==
    /\ rate' = IF InBand(r) THEN r ELSE rate
    /\ UNCHANGED <<n64, pal, declared, renderer, g_fb, rendering, buffer, width, height, handed, drawn>>

\* A mutant of ConvergentSeeds: the denominators' two are the numerators'.
ConvergentSeedsAlike(r) == [num |-> 1, den |-> 1, prevNum |-> 0, prevDen |-> 0, value |-> r, done |-> FALSE]

\* The convergents before the first.
ConvergentSeeds(r) == [num |-> 1, den |-> 0, prevNum |-> 0, prevDen |-> 1, value |-> r, done |-> FALSE]

\* One turn of the loop: the next convergent of r, of whose expansion c.value
\* is what is left. A double's error, far below a billionth, is left out.
NextConvergent(r, c) ==
    LET whole == c.value[1] \div c.value[2]
        num   == whole * c.num + c.prevNum
        den   == whole * c.den + c.prevDen
        off   == num * r[2] - r[1] * den
        left  == c.value[1] % c.value[2]
    IN  IF c.done \/ den > DenMax \/ num > NumMax THEN [c EXCEPT !.done = TRUE]
        ELSE [num |-> num, den |-> den, prevNum |-> c.num, prevDen |-> c.den,
              done |-> (IF off < 0 THEN -off ELSE off) * Nearly < r[1] * den \/ left = 0,
              value |-> IF left = 0 THEN c.value ELSE <<c.value[2], left>>]

Recovered(r) ==
    LET turn[i \in 0 .. Convergents] == IF i = 0 THEN ConvergentSeeds(r) ELSE NextConvergent(r, turn[i - 1])
    IN  <<turn[Convergents].num, turn[Convergents].den>>

\* What the frontend is told: the machine's own rate, else what is declared
\* for it, else its region's.
RefreshAsRational ==
    IF InBand(rate) THEN Recovered(rate)
    ELSE IF declared[1] > 0 /\ declared[2] > 0 THEN declared
    ELSE IF pal THEN <<50, 1>> ELSE <<60, 1>>

PictureInit ==
    /\ n64 \in BOOLEAN /\ pal \in BOOLEAN
    /\ declared \in (IF n64 THEN {<<0, 0>>} ELSE Declarations)
    /\ renderer \in (IF n64 THEN {"ares", "software", "bob"} ELSE {"ares"})
    /\ g_fb = NoFrame
    /\ rendering = TRUE
    /\ buffer = [i \in 1 .. WidthMax * HeightMax |-> Blank]
    /\ width = IF n64 THEN AtFirst[1] ELSE 0
    /\ height = IF n64 THEN AtFirst[IF pal THEN 3 ELSE 2] ELSE 0
    /\ handed = NoFrame
    /\ drawn = 0
    /\ rate = <<0, 1>>

Shows ==
    \/ \E s \in Screens : Draw(s)
    \/ \E f \in Frames, lower \in BOOLEAN : SoftwareFrame(Updated(f, lower))
    \/ SoftwareFrame(NoFrame)
    \/ \E on \in BOOLEAN : SetRendering(on)

SaysItsRate == \E r \in Hints : RefreshRateHint(r)

PictureNext == Shows \/ SaysItsRate

PictureSpec == PictureInit /\ [][PictureNext]_pictureVars

-----------------------------------------------------------------------------
\* Every variable of the picture has its type, and the picture fits the buffer.
PictureTypeOK ==
    /\ {n64, pal, rendering} \subseteq BOOLEAN
    /\ declared \in Declarations \union {<<0, 0>>}
    /\ buffer \in [1 .. WidthMax * HeightMax -> [1 .. 3 -> Nat]]
    /\ width \in 0 .. WidthMax /\ height \in 0 .. HeightMax
    /\ drawn \in 0 .. Drawings
    /\ rate \in Hints \union {<<0, 1>>}

\* What is shown, line by line out of the buffer, is the last picture handed
\* over while the machine drew, whole and of that picture alone: cut to the
\* buffer, each line of a Nintendo 64's progressive picture in two places,
\* whatever sizes the pictures before it had. Of a picture that two fields are
\* woven into, Bob Deinterlacing shows the newest field and nothing else.
ShownIsHanded ==
    LET shown(x, y) == buffer[y * width + x + 1]
        cut == Lesser(handed.height, HeightMax)
    IN  handed # NoFrame =>
            /\ width = Lesser(handed.width, WidthMax)
            /\ \A x \in 0 .. width - 1, y \in 0 .. height - 1 :
                  shown(x, y) = handed.pixels[(y * cut) \div height][x]
            /\ renderer = "bob" =>
                  \A x \in 0 .. width - 1, y \in 0 .. height - 1 : shown(x, y)[1] = handed.of

\* How far the rate told is off the machine's own, over both denominators.
Off == RefreshAsRational[1] * rate[2] - rate[1] * RefreshAsRational[2]

\* The rate told is the machine's own, to a part in a billion and in no higher
\* terms, as soon as it has said a sane one; and it is exactly that where the
\* machine's is a simple one, as a Game Boy's 262144/4389 is. Until then it is
\* a rate a screen could have.
RateIsTheMachines ==
    LET told == RefreshAsRational
    IN  /\ told[1] > 0 /\ told[2] > 0
        /\ rate = <<0, 1>> => InBand(told)
        /\ rate # <<0, 1>> =>
              /\ told[2] <= rate[2]
              /\ (IF Off < 0 THEN -Off ELSE Off) * Nearly < rate[1] * told[2]
              /\ \A n \in 1 .. rate[1], d \in 1 .. rate[2] :
                    n * rate[2] = rate[1] * d /\ n * d <= 2 * Nearly => Off = 0
=============================================================================
