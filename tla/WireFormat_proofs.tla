--------------------------- MODULE WireFormat_proofs ---------------------------
(* What a movie's numbers mean, for any machines, any trees ares may build for *)
(* them, and however often they are described, edited, gated and put together; *)
(* and what the package asks for, whoever generates it and with which files.   *)
EXTENDS Generated, Lists_proofs

-----------------------------------------------------------------------------
(* Trees, and the controls a walk of one finds.                                *)

\* What is assumed of each tree of a machine.
IsTree(t) ==
    /\ Controls(t.console)
    /\ IsList(t.ports) /\ NamedApart(t.ports)
    /\ \A p \in Range(t.ports) :
          /\ IsList(p.supported) /\ IsInjective(p.supported) /\ p.name \notin {"Controls", "@tape"}
          /\ \A d \in Range(p.supported) : Controls(t.inputs[d])

LEMMA TreesAreTrees == ASSUME NEW s \in Specs, NEW t \in s.trees PROVE IsTree(t)
BY TreesAssumption, PartsAssumption DEF IsTree

\* A name after a port's and a device's.
LEMMA PathOfThree == ASSUME NEW p, NEW d, NEW n PROVE Append(<<p, d>>, n) = <<p, d, n>>
<1> DEFINE S == {p, d, n}
           a == Append(<<p, d>>, n)
           b == <<p, d, n>>
<1>1. a \in Seq(S) /\ Len(a) = 3 /\ a[3] = n /\ a[1] = p /\ a[2] = d
  <2>1. <<p, d>> \in Seq(S) /\ Len(<<p, d>>) = 2
    OBVIOUS
  <2> QED BY <2>1
<1>2. b \in Seq(S) /\ Len(b) = 3 /\ b[1] = p /\ b[2] = d /\ b[3] = n
  OBVIOUS
<1>3. \A i \in 1 .. 3 : a[i] = b[i]
  <2>1. 1 .. 3 = {1, 2, 3}
    OBVIOUS
  <2> HIDE DEF a, b
  <2> QED BY <1>1, <1>2, <2>1
<1> HIDE DEF a, b
<1>4. a = [i \in 1 .. 3 |-> a[i]] /\ b = [i \in 1 .. 3 |-> b[i]]
  BY <1>1, <1>2
<1>5. a = b
  BY <1>3, <1>4, SameList
<1> QED BY <1>5 DEF a, b

LEMMA Single == ASSUME NEW x, NEW s, s = <<x>> PROVE Len(s) = 1 /\ s[1] = x
OBVIOUS

LEMMA Pair == ASSUME NEW x, NEW y, NEW s, s = <<x, y>> PROVE Len(s) = 2 /\ s[1] = x /\ s[2] = y
OBVIOUS

LEMMA Triple ==
    ASSUME NEW x, NEW y, NEW z, NEW s, s = <<x, y, z>>
    PROVE  Len(s) = 3 /\ s[1] = x /\ s[2] = y /\ s[3] = z
OBVIOUS

LEMMA PathOfTwo == ASSUME NEW p, NEW n PROVE Append(<<p>>, n) = <<p, n>>
<1> DEFINE S == {p, n}
           a == Append(<<p>>, n)
           b == <<p, n>>
<1>1. a \in Seq(S) /\ Len(a) = 2 /\ a[2] = n /\ a[1] = p
  <2>1. <<p>> \in Seq(S) /\ Len(<<p>>) = 1
    OBVIOUS
  <2> QED BY <2>1
<1>2. b \in Seq(S) /\ Len(b) = 2 /\ b[1] = p /\ b[2] = n
  OBVIOUS
<1>3. \A i \in 1 .. 2 : a[i] = b[i]
  <2>1. 1 .. 2 = {1, 2}
    OBVIOUS
  <2> HIDE DEF a, b
  <2> QED BY <1>1, <1>2, <2>1
<1> HIDE DEF a, b
<1>4. a = [i \in 1 .. 2 |-> a[i]] /\ b = [i \in 1 .. 2 |-> b[i]]
  BY <1>1, <1>2
<1>5. a = b
  BY <1>3, <1>4, SameList
<1> QED BY <1>5 DEF a, b

\* A name is in a path as one part or more, and is told by them.
LEMMA PartsHold ==
    /\ \A n : /\ IsList(Parted(n)) /\ Len(Parted(n)) \in Nat \ {0}
              /\ Len(Parted(n)) = 1 <=> n \notin DOMAIN Split
              /\ n \notin DOMAIN Split => Last(Parted(n)) = n
              /\ n \in DOMAIN Split => Parted(n) = Split[n]
    /\ \A m, n : Parted(m) = Parted(n) => m = n
<1>1. ASSUME NEW n, n \in DOMAIN Split
      PROVE  Parted(n) = Split[n] /\ IsList(Parted(n)) /\ Len(Parted(n)) \in Nat \ {0} /\ Len(Parted(n)) # 1
  <2>1. Parted(n) = Split[n]
    BY <1>1 DEF Parted
  <2>2. IsList(Split[n]) /\ Len(Split[n]) \in Nat /\ Len(Split[n]) > 1
    BY <1>1, PartsAssumption, ListFacts
  <2>3. PICK k \in Nat : k = Len(Split[n]) /\ k > 1
    BY <2>2
  <2>4. \A j \in Nat : j > 1 => j \in Nat \ {0} /\ j # 1
    OBVIOUS
  <2> QED BY <2>1, <2>2, <2>3, <2>4, Zenon
<1>2. ASSUME NEW n, n \notin DOMAIN Split
      PROVE  IsList(Parted(n)) /\ Len(Parted(n)) = 1 /\ Last(Parted(n)) = n /\ Parted(n)[1] = n
  <2>1. Parted(n) = <<n>>
    BY <1>2 DEF Parted
  <2>2. <<n>> \in Seq({n}) /\ Len(<<n>>) = 1 /\ <<n>>[1] = n
    OBVIOUS
  <2>3. Last(<<n>>) = n
    BY <2>2 DEF Last
  <2> QED BY <2>1, <2>2, <2>3, SequenceIsList
<1>3. ASSUME NEW m, NEW n, Parted(m) = Parted(n) PROVE m = n
  <2>1. CASE n \in DOMAIN Split
    <3>1. m \in DOMAIN Split
      BY <1>1, <1>2, <1>3, <2>1
    <3>2. Split[m] = Split[n]
      BY <1>1, <1>3, <2>1, <3>1
    <3> QED BY <2>1, <3>1, <3>2, PartsAssumption
  <2>2. CASE n \notin DOMAIN Split
    <3>1. m \notin DOMAIN Split
      BY <1>1, <1>2, <1>3, <2>2
    <3> QED BY <1>2, <1>3, <2>2, <3>1
  <2> QED BY <2>1, <2>2
<1>4. ASSUME NEW n
      PROVE  /\ IsList(Parted(n)) /\ Len(Parted(n)) \in Nat \ {0}
             /\ Len(Parted(n)) = 1 <=> n \notin DOMAIN Split
             /\ n \notin DOMAIN Split => Last(Parted(n)) = n
             /\ n \in DOMAIN Split => Parted(n) = Split[n]
  <2>1. CASE n \in DOMAIN Split
    BY <1>1, <2>1
  <2>2. CASE n \notin DOMAIN Split
    BY <1>2, <2>2
  <2> QED BY <2>1, <2>2
<1> QED BY <1>3, <1>4

\* What comes after a front of a path is told by the path.
Behind(path, front, rest) ==
    /\ IsList(path) /\ Len(path) = Len(front) + Len(rest) /\ Len(front) \in Nat
    /\ \A i \in 1 .. Len(front) : path[i] = front[i]
    /\ \A i \in 1 .. Len(rest) : path[Len(front) + i] = rest[i]

LEMMA JoinedBehind ==
    ASSUME NEW front, IsList(front), NEW rest, IsList(rest)
    PROVE  Behind(front \o rest, front, rest)
<1> DEFINE S == Range(front) \union Range(rest)
<1>1. front \in Seq(S) /\ rest \in Seq(S)
  BY ListsWithin
<1> HIDE DEF S
<1>2. /\ front \o rest \in Seq(S) /\ Len(front \o rest) = Len(front) + Len(rest)
      /\ Len(front) \in Nat /\ Len(rest) \in Nat
      /\ \A i \in 1 .. Len(front) : (front \o rest)[i] = front[i]
      /\ \A i \in 1 .. Len(rest) : (front \o rest)[Len(front) + i] = rest[i]
  BY <1>1
<1> QED BY <1>2, SequenceIsList DEF Behind

LEMMA RestIsTold ==
    ASSUME NEW path, NEW front, NEW a, IsList(a), NEW b, IsList(b), Behind(path, front, a), Behind(path, front, b)
    PROVE  a = b
<1>1. Len(a) \in Nat /\ Len(b) \in Nat /\ Len(a) = Len(b)
  <2>1. Len(a) \in Nat /\ Len(b) \in Nat
    BY ListFacts
  <2> QED BY <2>1 DEF Behind
<1>2. \A i \in 1 .. Len(a) : a[i] = b[i]
  BY <1>1 DEF Behind
<1>3. a = [i \in 1 .. Len(a) |-> a[i]] /\ b = [i \in 1 .. Len(a) |-> b[i]]
  <2>1. a \in Seq(Range(a)) /\ b \in Seq(Range(b))
    BY DEF IsList
  <2> QED BY <1>1, <2>1
<1> QED BY <1>1, <1>2, <1>3, SameList

LEMMA LastOfPath ==
    ASSUME NEW path, NEW front, NEW rest, IsList(rest), Len(rest) # 0, Behind(path, front, rest)
    PROVE  Last(path) = Last(rest)
<1>1. Len(rest) \in Nat
  BY ListFacts
<1> QED BY <1>1 DEF Behind, Last

\* A control of the console, and one of a device.
OfConsole(t, c) == \E i \in Range(t.console) : c = Control(<<"Controls">>, i)
OfDevice(t, p, d, c) == \E i \in Range(t.inputs[d]) : c = Control(<<p.name, d>>, i)

\* Where a control is, is in its path, and so is what it is called.
OnConsole(c) ==
    /\ Behind(c.path, <<"Controls">>, Parted(c.name)) /\ c.path[1] = "Controls" /\ c.path # <<>>
    /\ Len(c.path) = 2 <=> c.name \notin DOMAIN Split
    /\ Last(c.path) = Last(Parted(c.name))

OnDevice(c, port, d) ==
    /\ Behind(c.path, <<port, d>>, Parted(c.name)) /\ c.path[1] = port /\ c.path[2] = d /\ c.path # <<>>
    /\ Len(c.path) = 3 <=> c.name \notin DOMAIN Split
    /\ Last(c.path) = Last(Parted(c.name))

LEMMA PlacedOnConsole == ASSUME NEW t, NEW c, OfConsole(t, c) PROVE OnConsole(c)
<1>1. PICK i \in Range(t.console) : c = Control(<<"Controls">>, i)
  BY DEF OfConsole
<1>2. c.path = <<"Controls">> \o Parted(c.name)
  BY <1>1 DEF Control
<1> DEFINE front == <<"Controls">>
           rest == Parted(c.name)
<1>3. IsList(front) /\ Len(front) = 1 /\ front[1] = "Controls"
  <2>1. front \in Seq({"Controls"}) /\ Len(front) = 1 /\ front[1] = "Controls"
    OBVIOUS
  <2> QED BY <2>1, SequenceIsList
<1>4. IsList(rest) /\ Len(rest) \in Nat \ {0} /\ (Len(rest) = 1 <=> c.name \notin DOMAIN Split)
  BY PartsHold
<1> HIDE DEF front, rest
<1>5. Behind(c.path, front, rest)
  BY <1>2, <1>3, <1>4, JoinedBehind DEF front, rest
<1>6. c.path[1] = "Controls" /\ Len(c.path) = 1 + Len(rest)
  BY <1>3, <1>5 DEF Behind
<1>70. Len(c.path) # 0 /\ (Len(c.path) = 2 <=> c.name \notin DOMAIN Split)
  <2>1. PICK k \in Nat \ {0} : k = Len(rest)
    BY <1>4
  <2>2. Len(c.path) = 1 + k /\ (k = 1 <=> c.name \notin DOMAIN Split)
    BY <1>4, <1>6, <2>1
  <2>3. 1 + k # 0 /\ (1 + k = 2 <=> k = 1)
    OBVIOUS
  <2> QED BY <2>2, <2>3, Zenon
<1>7. c.path # <<>> /\ (Len(c.path) = 2 <=> c.name \notin DOMAIN Split)
  BY <1>70, EmptyList, Zenon
<1>8. Last(c.path) = Last(rest)
  BY <1>4, <1>5, LastOfPath
<1> QED BY <1>5, <1>6, <1>7, <1>8 DEF OnConsole, front, rest

LEMMA PlacedOnDevice == ASSUME NEW t, NEW p, NEW d, NEW c, OfDevice(t, p, d, c) PROVE OnDevice(c, p.name, d)
<1> DEFINE port == p.name
<1>1. PICK i \in Range(t.inputs[d]) : c = Control(<<port, d>>, i)
  BY DEF OfDevice
<1> HIDE DEF port
<1>2. c.path = <<port, d>> \o Parted(c.name)
  BY <1>1 DEF Control
<1> DEFINE front == <<port, d>>
           rest == Parted(c.name)
<1>3. IsList(front) /\ Len(front) = 2 /\ front[1] = port /\ front[2] = d
  <2>1. front \in Seq({port, d}) /\ Len(front) = 2 /\ front[1] = port /\ front[2] = d
    OBVIOUS
  <2> QED BY <2>1, SequenceIsList
<1>4. IsList(rest) /\ Len(rest) \in Nat \ {0} /\ (Len(rest) = 1 <=> c.name \notin DOMAIN Split)
  BY PartsHold
<1> HIDE DEF front, rest
<1>5. Behind(c.path, front, rest)
  BY <1>2, <1>3, <1>4, JoinedBehind DEF front, rest
<1>6. c.path[1] = port /\ c.path[2] = d /\ Len(c.path) = 2 + Len(rest)
  BY <1>3, <1>5 DEF Behind
<1>70. Len(c.path) # 0 /\ (Len(c.path) = 3 <=> c.name \notin DOMAIN Split)
  <2>1. PICK k \in Nat \ {0} : k = Len(rest)
    BY <1>4
  <2>2. Len(c.path) = 2 + k /\ (k = 1 <=> c.name \notin DOMAIN Split)
    BY <1>4, <1>6, <2>1
  <2>3. 2 + k # 0 /\ (2 + k = 3 <=> k = 1)
    OBVIOUS
  <2> QED BY <2>2, <2>3, Zenon
<1>7. c.path # <<>> /\ (Len(c.path) = 3 <=> c.name \notin DOMAIN Split)
  BY <1>70, EmptyList, Zenon
<1>8. Last(c.path) = Last(rest)
  BY <1>4, <1>5, LastOfPath
<1> QED BY <1>5, <1>6, <1>7, <1>8 DEF OnDevice, front, rest, port

\* In short:
LEMMA ConsoleFacts ==
    ASSUME NEW t, NEW c, OfConsole(t, c)
    PROVE  /\ c.path[1] = "Controls" /\ c.path # <<>>
           /\ Len(c.path) = 2 <=> c.name \notin DOMAIN Split
BY PlacedOnConsole DEF OnConsole

LEMMA DeviceFacts ==
    ASSUME NEW t, NEW p, NEW d, NEW c, OfDevice(t, p, d, c)
    PROVE  /\ c.path[1] = p.name /\ c.path[2] = d /\ c.path # <<>>
           /\ Len(c.path) = 3 <=> c.name \notin DOMAIN Split
           /\ Last(c.path) = Last(Parted(c.name))
<1>1. PICK port : port = p.name
  OBVIOUS
<1>2. OnDevice(c, port, d)
  BY <1>1, PlacedOnDevice
<1> QED BY <1>1, <1>2 DEF OnDevice

\* Controls of the console, or of one device, with one path have one name.
LEMMA PathsTellNames ==
    /\ \A a, b : OnConsole(a) /\ OnConsole(b) /\ a.path = b.path => a.name = b.name
    /\ \A port, d, a, b : OnDevice(a, port, d) /\ OnDevice(b, port, d) /\ a.path = b.path => a.name = b.name
<1>1. ASSUME NEW path, NEW front, NEW m, NEW n, Behind(path, front, Parted(m)), Behind(path, front, Parted(n))
      PROVE  m = n
  <2>1. Parted(m) = Parted(n)
    BY <1>1, PartsHold, RestIsTold
  <2> QED BY <2>1, PartsHold
<1> QED BY <1>1 DEF OnConsole, OnDevice

\* A list that is a function on the first numbers has no member twice if the
\* function is one to one.
LEMMA OneToOne ==
    ASSUME NEW n \in Nat, NEW s, s = [i \in 1 .. n |-> s[i]],
           \A i, j \in 1 .. n : s[i] = s[j] => i = j
    PROVE  IsInjective(s)
<1>1. DOMAIN s = 1 .. n
  OBVIOUS
<1> QED BY <1>1 DEF IsInjective

\* Controls under one path are as many as the inputs they are of.
Under(path, inputs) == [i \in 1 .. Len(inputs) |-> Control(path, inputs[i])]

LEMMA UnderHolds ==
    ASSUME NEW path, NEW inputs, Controls(inputs)
    PROVE  /\ IsList(Under(path, inputs)) /\ IsInjective(Under(path, inputs))
           /\ \A c : c \in Range(Under(path, inputs)) <=> \E i \in Range(inputs) : c = Control(path, i)
<1> DEFINE u == Under(path, inputs)
<1>1. IsList(inputs) /\ NamedApart(inputs)
  BY DEF Controls
<1>2. /\ Len(inputs) \in Nat /\ DOMAIN inputs = 1 .. Len(inputs)
      /\ \A x : x \in Range(inputs) <=> \E i \in 1 .. Len(inputs) : x = inputs[i]
  BY <1>1, ListFacts
<1>3. /\ u = [i \in 1 .. Len(inputs) |-> u[i]]
      /\ \A i \in 1 .. Len(inputs) : u[i] = Control(path, inputs[i]) /\ u[i].name = inputs[i].name
  BY DEF Under, Control
<1> HIDE DEF u
<1>4. IsList(u) /\ \A x : x \in Range(u) <=> \E i \in 1 .. Len(inputs) : x = u[i]
  BY <1>2, <1>3, FunctionIsList
<1>5. \A i, j \in 1 .. Len(inputs) : u[i] = u[j] => i = j
  BY <1>1, <1>2, <1>3 DEF NamedApart
<1>6. IsInjective(u)
  BY <1>2, <1>3, <1>5, OneToOne
<1>7. \A c : c \in Range(u) <=> \E i \in Range(inputs) : c = Control(path, i)
  BY <1>2, <1>3, <1>4
<1> QED BY <1>4, <1>6, <1>7 DEF u

\* What is found of one device of a port, of one port, and of a tree.
FoundOf(t, p, d, plugged) == IF <<p.name, d>> \in plugged THEN Under(<<p.name, d>>, t.inputs[d]) ELSE <<>>
FoundAt(t, p, plugged) == FlattenSeq([d \in 1 .. Len(p.supported) |-> FoundOf(t, p, p.supported[d], plugged)])

LEMMA WalkInParts ==
    ASSUME NEW t, NEW plugged
    PROVE  Walk(t, plugged) = Under(<<"Controls">>, t.console) \o
               FlattenSeq([k \in 1 .. Len(t.ports) |-> FoundAt(t, t.ports[k], plugged)])
BY DEF Walk, Under, FoundAt, FoundOf

LEMMA FoundOfHolds ==
    ASSUME NEW t, IsTree(t), NEW plugged, NEW p \in Range(t.ports), NEW d \in Range(p.supported)
    PROVE  /\ IsList(FoundOf(t, p, d, plugged)) /\ IsInjective(FoundOf(t, p, d, plugged))
           /\ \A c : c \in Range(FoundOf(t, p, d, plugged)) <=> <<p.name, d>> \in plugged /\ OfDevice(t, p, d, c)
<1>1. CASE <<p.name, d>> \in plugged
  <2>1. Controls(t.inputs[d])
    BY DEF IsTree
  <2>2. FoundOf(t, p, d, plugged) = Under(<<p.name, d>>, t.inputs[d])
    BY <1>1 DEF FoundOf
  <2> QED BY <1>1, <2>1, <2>2, UnderHolds DEF OfDevice
<1>2. CASE <<p.name, d>> \notin plugged
  BY <1>2, EmptyList DEF FoundOf
<1> QED BY <1>1, <1>2

LEMMA FoundAtHolds ==
    ASSUME NEW t, IsTree(t), NEW plugged, NEW p \in Range(t.ports)
    PROVE  /\ IsList(FoundAt(t, p, plugged)) /\ IsInjective(FoundAt(t, p, plugged))
           /\ \A c : c \in Range(FoundAt(t, p, plugged)) <=>
                  \E d \in Range(p.supported) : <<p.name, d>> \in plugged /\ OfDevice(t, p, d, c)
<1> DEFINE n == Len(p.supported)
           ss == [d \in 1 .. n |-> FoundOf(t, p, p.supported[d], plugged)]
<1>1. /\ n \in Nat /\ DOMAIN p.supported = 1 .. n /\ IsInjective(p.supported)
      /\ \A x : x \in Range(p.supported) <=> \E d \in 1 .. n : x = p.supported[d]
  <2>1. IsList(p.supported) /\ IsInjective(p.supported)
    BY DEF IsTree
  <2> QED BY <2>1, ListFacts
<1>2. ss = [d \in 1 .. n |-> ss[d]] /\ \A d \in 1 .. n : ss[d] = FoundOf(t, p, p.supported[d], plugged)
  OBVIOUS
<1>3. FoundAt(t, p, plugged) = FlattenSeq(ss)
  BY DEF FoundAt
<1> HIDE DEF n, ss
<1>4. ASSUME NEW d \in 1 .. n
      PROVE  /\ IsList(ss[d]) /\ IsInjective(ss[d])
             /\ \A c : c \in Range(ss[d]) <=> <<p.name, p.supported[d]>> \in plugged /\ OfDevice(t, p, p.supported[d], c)
  <2>1. p.supported[d] \in Range(p.supported) /\ ss[d] = FoundOf(t, p, p.supported[d], plugged)
    BY <1>1, <1>2
  <2> QED BY <2>1, FoundOfHolds
<1>5. ASSUME NEW d \in 1 .. n, NEW e \in 1 .. n, d # e PROVE Range(ss[d]) \intersect Range(ss[e]) = {}
  <2>1. p.supported[d] # p.supported[e]
    BY <1>1, <1>5 DEF IsInjective
  <2>2. \A c \in Range(ss[d]) : c.path[2] = p.supported[d]
    <3> SUFFICES ASSUME NEW c \in Range(ss[d]) PROVE c.path[2] = p.supported[d]
      OBVIOUS
    <3>1. OfDevice(t, p, p.supported[d], c)
      BY <1>4
    <3> QED BY <3>1, DeviceFacts
  <2>3. \A c \in Range(ss[e]) : c.path[2] = p.supported[e]
    <3> SUFFICES ASSUME NEW c \in Range(ss[e]) PROVE c.path[2] = p.supported[e]
      OBVIOUS
    <3>1. OfDevice(t, p, p.supported[e], c)
      BY <1>4
    <3> QED BY <3>1, DeviceFacts
  <2> QED BY <2>1, <2>2, <2>3
<1>6. /\ IsList(FlattenSeq(ss))
      /\ \A x : x \in Range(FlattenSeq(ss)) <=> \E d \in 1 .. n : x \in Range(ss[d])
  BY <1>1, <1>2, <1>4, Flattened
<1>7. IsInjective(FlattenSeq(ss))
  BY <1>1, <1>2, <1>4, <1>5, FlattenedApart
<1>8. \A c : c \in Range(FlattenSeq(ss)) <=>
         \E d \in Range(p.supported) : <<p.name, d>> \in plugged /\ OfDevice(t, p, d, c)
  <2>1. ASSUME NEW c \in Range(FlattenSeq(ss))
        PROVE  \E d \in Range(p.supported) : <<p.name, d>> \in plugged /\ OfDevice(t, p, d, c)
    <3>1. PICK d \in 1 .. n : c \in Range(ss[d])
      BY <1>6
    <3>2. p.supported[d] \in Range(p.supported)
      BY <1>1
    <3> QED BY <1>4, <3>1, <3>2
  <2>2. ASSUME NEW c, NEW d \in Range(p.supported), <<p.name, d>> \in plugged, OfDevice(t, p, d, c)
        PROVE  c \in Range(FlattenSeq(ss))
    <3>1. PICK k \in 1 .. n : d = p.supported[k]
      BY <1>1
    <3>2. c \in Range(ss[k])
      BY <1>4, <2>2, <3>1
    <3> QED BY <1>6, <3>2
  <2> QED BY <2>1, <2>2
<1> QED BY <1>3, <1>6, <1>7, <1>8

\* A walk finds the console's controls and those of the devices in the ports,
\* each once.
LEMMA WalkHolds ==
    ASSUME NEW t, IsTree(t), NEW plugged
    PROVE  /\ IsList(Walk(t, plugged)) /\ IsInjective(Walk(t, plugged))
           /\ \A c : c \in Range(Walk(t, plugged)) <=>
                  \/ OfConsole(t, c)
                  \/ \E p \in Range(t.ports) : \E d \in Range(p.supported) :
                        <<p.name, d>> \in plugged /\ OfDevice(t, p, d, c)
<1> DEFINE n == Len(t.ports)
           ss == [k \in 1 .. n |-> FoundAt(t, t.ports[k], plugged)]
           own == Under(<<"Controls">>, t.console)
<1>1. /\ n \in Nat /\ DOMAIN t.ports = 1 .. n /\ NamedApart(t.ports)
      /\ \A x : x \in Range(t.ports) <=> \E k \in 1 .. n : x = t.ports[k]
  <2>1. IsList(t.ports) /\ NamedApart(t.ports)
    BY DEF IsTree
  <2> QED BY <2>1, ListFacts
<1>2. ss = [k \in 1 .. n |-> ss[k]] /\ \A k \in 1 .. n : ss[k] = FoundAt(t, t.ports[k], plugged)
  OBVIOUS
<1>3. Walk(t, plugged) = own \o FlattenSeq(ss)
  BY WalkInParts
<1>4. IsList(own) /\ IsInjective(own) /\ \A c : c \in Range(own) <=> OfConsole(t, c)
  <2>1. Controls(t.console)
    BY DEF IsTree
  <2> QED BY <2>1, UnderHolds DEF OfConsole
<1> HIDE DEF n, ss, own
<1>5. ASSUME NEW k \in 1 .. n
      PROVE  /\ IsList(ss[k]) /\ IsInjective(ss[k])
             /\ \A c : c \in Range(ss[k]) <=> \E d \in Range(t.ports[k].supported) :
                    <<t.ports[k].name, d>> \in plugged /\ OfDevice(t, t.ports[k], d, c)
  BY <1>1, <1>2, FoundAtHolds
<1>6. ASSUME NEW k \in 1 .. n, NEW l \in 1 .. n, k # l PROVE Range(ss[k]) \intersect Range(ss[l]) = {}
  <2>1. t.ports[k].name # t.ports[l].name
    BY <1>1, <1>6 DEF NamedApart
  <2>2. \A c \in Range(ss[k]) : c.path[1] = t.ports[k].name
    <3> SUFFICES ASSUME NEW c \in Range(ss[k]) PROVE c.path[1] = t.ports[k].name
      OBVIOUS
    <3>1. \E d \in Range(t.ports[k].supported) : OfDevice(t, t.ports[k], d, c)
      BY <1>5
    <3> QED BY <3>1, DeviceFacts
  <2>3. \A c \in Range(ss[l]) : c.path[1] = t.ports[l].name
    <3> SUFFICES ASSUME NEW c \in Range(ss[l]) PROVE c.path[1] = t.ports[l].name
      OBVIOUS
    <3>1. \E d \in Range(t.ports[l].supported) : OfDevice(t, t.ports[l], d, c)
      BY <1>5
    <3> QED BY <3>1, DeviceFacts
  <2> QED BY <2>1, <2>2, <2>3
<1>7. /\ IsList(FlattenSeq(ss)) /\ IsInjective(FlattenSeq(ss))
      /\ \A x : x \in Range(FlattenSeq(ss)) <=> \E k \in 1 .. n : x \in Range(ss[k])
  <2>1. IsInjective(FlattenSeq(ss))
    BY <1>1, <1>2, <1>5, <1>6, FlattenedApart
  <2> QED BY <1>1, <1>2, <1>5, <2>1, Flattened
<1>8. Range(own) \intersect Range(FlattenSeq(ss)) = {}
  <2>1. \A c \in Range(own) : c.path[1] = "Controls"
    BY <1>4, ConsoleFacts
  <2>2. \A c \in Range(FlattenSeq(ss)) : c.path[1] # "Controls"
    <3> SUFFICES ASSUME NEW c \in Range(FlattenSeq(ss)) PROVE c.path[1] # "Controls"
      OBVIOUS
    <3>1. PICK k \in 1 .. n : c \in Range(ss[k])
      BY <1>7
    <3>2. \E d \in Range(t.ports[k].supported) : OfDevice(t, t.ports[k], d, c)
      BY <1>5, <3>1
    <3>3. t.ports[k] \in Range(t.ports) /\ c.path[1] = t.ports[k].name
      BY <1>1, <3>2, DeviceFacts
    <3> QED BY <3>3 DEF IsTree
  <2> QED BY <2>1, <2>2
<1> DEFINE rest == FlattenSeq(ss)
<1> HIDE DEF rest
<1>9. /\ IsList(own \o rest) /\ Range(own \o rest) = Range(own) \union Range(rest)
      /\ IsInjective(own \o rest)
  BY <1>4, <1>7, <1>8, TwoJoined DEF rest
<1>10. \A c : c \in Range(rest) <=> \E p \in Range(t.ports) : \E d \in Range(p.supported) :
                  <<p.name, d>> \in plugged /\ OfDevice(t, p, d, c)
  <2>1. ASSUME NEW c \in Range(FlattenSeq(ss))
        PROVE  \E p \in Range(t.ports) : \E d \in Range(p.supported) :
                  <<p.name, d>> \in plugged /\ OfDevice(t, p, d, c)
    <3>1. PICK k \in 1 .. n : c \in Range(ss[k])
      BY <1>7
    <3>2. t.ports[k] \in Range(t.ports)
      BY <1>1
    <3> QED BY <1>5, <3>1, <3>2
  <2>2. ASSUME NEW c, NEW p \in Range(t.ports), NEW d \in Range(p.supported),
               <<p.name, d>> \in plugged, OfDevice(t, p, d, c)
        PROVE  c \in Range(FlattenSeq(ss))
    <3>1. PICK k \in 1 .. n : p = t.ports[k]
      BY <1>1
    <3>2. c \in Range(ss[k])
      BY <1>5, <2>2, <3>1
    <3> QED BY <1>7, <3>2
  <2> QED BY <2>1, <2>2 DEF rest
<1>11. Walk(t, plugged) = own \o rest
  BY <1>3 DEF rest
<1> HIDE DEF rest
<1> QED BY <1>4, <1>9, <1>10, <1>11

-----------------------------------------------------------------------------
(* What gen-machines and gen-config make of a tree.                            *)

\* The tree is one of the machine's.
IsTreeOfSpec(t) == spec \in Specs /\ t \in spec.trees

LEMMA OfferedHolds ==
    ASSUME NEW t, IsTreeOfSpec(t), NEW p \in Range(t.ports), p.supported # <<>>
    PROVE  /\ IsList(Offered(p)) /\ IsInjective(Offered(p))
           /\ Range(Offered(p)) \subseteq Range(p.supported)
<1>1. IsList(p.supported) /\ IsList(spec.devices) /\ IsInjective(spec.devices)
  BY TreesAssumption DEF IsTreeOfSpec
<1>2. CASE spec.devices = <<>>
  <2> DEFINE h == Head(p.supported)
  <2>1. h \in Range(p.supported)
    <3>1. p.supported \in Seq(Range(p.supported)) /\ p.supported # <<>>
      BY <1>1 DEF IsList
    <3> QED BY <3>1
  <2>2. Offered(p) = <<h>>
    BY <1>2 DEF Offered
  <2> HIDE DEF h
  <2>3. DOMAIN <<h>> = {1} /\ <<h>>[1] = h
    OBVIOUS
  <2>4. <<h>> \in Seq({h}) /\ Range(<<h>>) = {h} /\ IsInjective(<<h>>)
    BY <2>3 DEF Range, IsInjective
  <2> QED BY <2>1, <2>2, <2>4, SequenceIsList
<1>3. CASE spec.devices # <<>>
  <2>1. Offered(p) = Only(spec.devices, Range(p.supported))
    BY <1>3 DEF Offered
  <2> QED BY <1>1, <2>1, Selected
<1> QED BY <1>2, <1>3

LEMMA PathsHold ==
    ASSUME NEW s, IsList(s)
    PROVE  \A x : x \in Paths(s) <=> \E c \in Range(s) : x = c.path
<1>1. Len(s) \in Nat /\ \A c : c \in Range(s) <=> \E i \in 1 .. Len(s) : c = s[i]
  BY ListFacts
<1> QED BY <1>1 DEF Paths

\* Ports are told apart by their names.
LEMMA PortsApart ==
    ASSUME NEW t, IsTree(t)
    PROVE  /\ IsList(t.ports) /\ IsInjective(t.ports)
           /\ \A p, q \in Range(t.ports) : p.name = q.name => p = q
<1>1. IsList(t.ports) /\ NamedApart(t.ports)
  BY DEF IsTree
<1>2. DOMAIN t.ports = 1 .. Len(t.ports) /\ \A x : x \in Range(t.ports) <=> \E k \in 1 .. Len(t.ports) : x = t.ports[k]
  BY <1>1, ListFacts
<1>3. IsInjective(t.ports)
  BY <1>1 DEF NamedApart, IsInjective
<1> QED BY <1>1, <1>2, <1>3 DEF NamedApart

LEMMA WalkWithNothing ==
    ASSUME NEW t, IsTree(t)
    PROVE  /\ IsList(Walk(t, {})) /\ IsInjective(Walk(t, {}))
           /\ \A c : c \in Range(Walk(t, {})) <=> OfConsole(t, c)
<1> DEFINE nothing == {}
<1>1. \A x : x \notin nothing
  OBVIOUS
<1> HIDE DEF nothing
<1>2. /\ IsList(Walk(t, nothing)) /\ IsInjective(Walk(t, nothing))
      /\ \A c : c \in Range(Walk(t, nothing)) <=>
            \/ OfConsole(t, c)
            \/ \E q \in Range(t.ports) : \E e \in Range(q.supported) :
                  <<q.name, e>> \in nothing /\ OfDevice(t, q, e, c)
  BY WalkHolds
<1>3. \A c : c \in Range(Walk(t, nothing)) <=> OfConsole(t, c)
  BY <1>1, <1>2
<1> QED BY <1>2, <1>3 DEF nothing

\* What a device adds to the console is its own controls, each once.
LEMMA AddedHolds ==
    ASSUME NEW t, IsTree(t), NEW p \in Range(t.ports), NEW d \in Range(p.supported)
    PROVE  /\ IsList(Added(t, p, d)) /\ IsInjective(Added(t, p, d))
           /\ \A c : c \in Range(Added(t, p, d)) <=> OfDevice(t, p, d, c)
<1> DEFINE one == Walk(t, {<<p.name, d>>})
           none == Walk(t, {})
           wanted == {c \in Range(one) : c.path \notin Paths(none)}
<1>1. Added(t, p, d) = Only(one, wanted)
  BY DEF Added
<1>2. /\ IsList(one) /\ IsInjective(one)
      /\ \A c : c \in Range(one) <=> OfConsole(t, c) \/ OfDevice(t, p, d, c)
  <2>1. ASSUME NEW q \in Range(t.ports), NEW e, <<q.name, e>> \in {<<p.name, d>>}
        PROVE  q = p /\ e = d
    <3>1. q.name = p.name /\ e = d
      BY <2>1
    <3> QED BY <3>1, PortsApart
  <2>2. <<p.name, d>> \in {<<p.name, d>>}
    OBVIOUS
  <2>3. /\ IsList(one) /\ IsInjective(one)
        /\ \A c : c \in Range(one) <=>
              \/ OfConsole(t, c)
              \/ \E q \in Range(t.ports) : \E e \in Range(q.supported) :
                    <<q.name, e>> \in {<<p.name, d>>} /\ OfDevice(t, q, e, c)
    BY WalkHolds
  <2>4. ASSUME NEW c \in Range(one) PROVE OfConsole(t, c) \/ OfDevice(t, p, d, c)
    <3> SUFFICES ASSUME ~OfConsole(t, c) PROVE OfDevice(t, p, d, c)
      OBVIOUS
    <3>1. PICK q \in Range(t.ports) : \E e \in Range(q.supported) :
             <<q.name, e>> \in {<<p.name, d>>} /\ OfDevice(t, q, e, c)
      BY <2>3
    <3>2. PICK e \in Range(q.supported) : <<q.name, e>> \in {<<p.name, d>>} /\ OfDevice(t, q, e, c)
      BY <3>1
    <3>3. q = p /\ e = d
      BY <2>1, <3>2
    <3> QED BY <3>2, <3>3
  <2>5. ASSUME NEW c, OfConsole(t, c) \/ OfDevice(t, p, d, c) PROVE c \in Range(one)
    BY <2>2, <2>3, <2>5
  <2> QED BY <2>3, <2>4, <2>5
<1>3. IsList(none) /\ \A c : c \in Range(none) <=> OfConsole(t, c)
  BY WalkWithNothing
<1> HIDE DEF one, none
<1>4. ASSUME NEW c, OfConsole(t, c) PROVE c.path \in Paths(none)
  BY <1>3, <1>4, PathsHold
<1>5. ASSUME NEW c, OfDevice(t, p, d, c) PROVE c.path \notin Paths(none)
  <2>1. c.path[1] # "Controls"
    <3>1. c.path[1] = p.name
      BY <1>5, DeviceFacts
    <3> QED BY <3>1 DEF IsTree
  <2>2. \A b \in Range(none) : b.path[1] = "Controls"
    BY <1>3, ConsoleFacts
  <2> QED BY <1>3, <2>1, <2>2, PathsHold
<1>6. \A c : c \in Range(one) \intersect wanted <=> OfDevice(t, p, d, c)
  BY <1>2, <1>4, <1>5
<1> HIDE DEF wanted
<1> QED BY <1>1, <1>2, <1>6, Selected

\* The ports of an account, and what is said of each.
Controllers(t) == Only(t.ports, {p \in Range(t.ports) : p.supported # <<>> /\ Offered(p) # <<>>})

PortAccount(t, p) ==
    [name |-> p.name,
     devices |-> [d \in 1 .. Len(Offered(p)) |-> [name |-> Offered(p)[d], inputs |-> Added(t, p, Offered(p)[d])]]]

LEMMA DescribeInParts ==
    ASSUME NEW t
    PROVE  /\ Describe(t).console = Walk(t, {})
           /\ Describe(t).ports = [k \in 1 .. Len(Controllers(t)) |-> PortAccount(t, Controllers(t)[k])]
BY DEF Describe, Controllers, PortAccount

LEMMA ControllersHold ==
    ASSUME NEW t, IsTreeOfSpec(t)
    PROVE  /\ IsList(Controllers(t)) /\ IsInjective(Controllers(t))
           /\ Range(Controllers(t)) = {p \in Range(t.ports) : p.supported # <<>> /\ Offered(p) # <<>>}
<1>1. IsTree(t)
  BY TreesAreTrees DEF IsTreeOfSpec
<1>2. IsList(t.ports) /\ IsInjective(t.ports)
  BY <1>1, PortsApart
<1> DEFINE wanted == {p \in Range(t.ports) : p.supported # <<>> /\ Offered(p) # <<>>}
<1>3. Range(t.ports) \intersect wanted = wanted
  OBVIOUS
<1>4. Controllers(t) = Only(t.ports, wanted)
  BY DEF Controllers
<1> HIDE DEF wanted
<1>5. /\ IsList(Controllers(t)) /\ IsInjective(Controllers(t))
      /\ Range(Controllers(t)) = wanted
  BY <1>2, <1>3, <1>4, Selected
<1> QED BY <1>5 DEF wanted

\* The order a keyboard is printed in loses no key and repeats none.
LEMMA InReadingOrderHolds ==
    ASSUME spec \in Specs, NEW inputs, IsList(inputs), IsInjective(inputs)
    PROVE  /\ IsList(InReadingOrder(inputs)) /\ IsInjective(InReadingOrder(inputs))
           /\ Range(InReadingOrder(inputs)) = Range(inputs)
<1> DEFINE n == Len(spec.order)
           named(k) == {i \in Range(inputs) : i.name = spec.order[k]}
           others == {i \in Range(inputs) : i.name \notin Range(spec.order)}
           ss == [k \in 1 .. n |-> Only(inputs, named(k))]
           printed == FlattenSeq(ss)
           rest == Only(inputs, others)
<1>1. /\ n \in Nat /\ DOMAIN spec.order = 1 .. n /\ IsInjective(spec.order)
      /\ \A x : x \in Range(spec.order) <=> \E k \in 1 .. n : x = spec.order[k]
  <2>1. IsList(spec.order) /\ IsInjective(spec.order)
    BY TreesAssumption
  <2> QED BY <2>1, ListFacts
<1>2. InReadingOrder(inputs) = printed \o rest
  BY DEF InReadingOrder
<1>3. ss = [k \in 1 .. n |-> ss[k]] /\ \A k \in 1 .. n : ss[k] = Only(inputs, named(k))
  OBVIOUS
<1>4. \A k \in 1 .. n : \A i : i \in named(k) <=> i \in Range(inputs) /\ i.name = spec.order[k]
  OBVIOUS
<1>5. IsList(rest) /\ IsInjective(rest) /\ \A i : i \in Range(rest) <=> i \in Range(inputs) /\ i.name \notin Range(spec.order)
  <2>1. \A i : i \in Range(inputs) \intersect others <=> i \in Range(inputs) /\ i.name \notin Range(spec.order)
    OBVIOUS
  <2> HIDE DEF others
  <2> QED BY <2>1, Selected
<1> HIDE DEF n, named, ss, rest
<1>6. ASSUME NEW k \in 1 .. n
      PROVE  /\ IsList(ss[k]) /\ IsInjective(ss[k])
             /\ \A i : i \in Range(ss[k]) <=> i \in Range(inputs) /\ i.name = spec.order[k]
  BY <1>3, <1>4, Selected
<1>7. ASSUME NEW k \in 1 .. n, NEW l \in 1 .. n, k # l PROVE Range(ss[k]) \intersect Range(ss[l]) = {}
  <2>1. spec.order[k] # spec.order[l]
    BY <1>1, <1>7 DEF IsInjective
  <2> QED BY <1>6, <2>1
<1>8. /\ IsList(printed) /\ IsInjective(printed)
      /\ \A i : i \in Range(printed) <=> \E k \in 1 .. n : i \in Range(ss[k])
  <2>1. IsInjective(printed)
    BY <1>1, <1>3, <1>6, <1>7, FlattenedApart
  <2> QED BY <1>1, <1>3, <1>6, <2>1, Flattened
<1> HIDE DEF printed
<1>9. \A i : i \in Range(printed) <=> i \in Range(inputs) /\ i.name \in Range(spec.order)
  BY <1>1, <1>6, <1>8
<1>10. Range(printed) \intersect Range(rest) = {} /\ Range(printed) \union Range(rest) = Range(inputs)
  BY <1>5, <1>9
<1> QED BY <1>2, <1>5, <1>8, <1>10, TwoJoined

-----------------------------------------------------------------------------
(* The rows of the table gen-config writes.                                    *)

\* The names of a tree's siblings tell them apart.
LEMMA NamesTell ==
    ASSUME NEW s, Controls(s)
    PROVE  \A i, j \in Range(s) : i.name = j.name => i = j
<1>1. IsList(s) /\ NamedApart(s)
  BY DEF Controls
<1>2. DOMAIN s = 1 .. Len(s) /\ \A x : x \in Range(s) <=> \E k \in 1 .. Len(s) : x = s[k]
  BY <1>1, ListFacts
<1> QED BY <1>1, <1>2 DEF NamedApart

LEMMA ConsoleControlsApart ==
    ASSUME NEW t, IsTree(t), NEW a, NEW b, OfConsole(t, a), OfConsole(t, b), a.name = b.name
    PROVE  a = b
<1>1. Controls(t.console)
  BY DEF IsTree
<1>2. PICK i \in Range(t.console) : a = Control(<<"Controls">>, i)
  BY DEF OfConsole
<1>3. PICK j \in Range(t.console) : b = Control(<<"Controls">>, j)
  BY DEF OfConsole
<1>4. a.name = i.name /\ b.name = j.name
  BY <1>2, <1>3 DEF Control
<1> QED BY <1>1, <1>2, <1>3, <1>4, NamesTell

LEMMA DeviceControlsApart ==
    ASSUME NEW t, IsTree(t), NEW p \in Range(t.ports), NEW d \in Range(p.supported),
           NEW a, NEW b, OfDevice(t, p, d, a), OfDevice(t, p, d, b), a.name = b.name
    PROVE  a = b
<1>1. Controls(t.inputs[d])
  BY DEF IsTree
<1>2. PICK i \in Range(t.inputs[d]) : a = Control(<<p.name, d>>, i)
  BY DEF OfDevice
<1>3. PICK j \in Range(t.inputs[d]) : b = Control(<<p.name, d>>, j)
  BY DEF OfDevice
<1>4. a.name = i.name /\ b.name = j.name
  BY <1>2, <1>3 DEF Control
<1> QED BY <1>1, <1>2, <1>3, <1>4, NamesTell

\* So do the paths they are reached by.
LEMMA ConsolePathsApart ==
    ASSUME NEW t, IsTree(t), NEW a, NEW b, OfConsole(t, a), OfConsole(t, b), a.path = b.path
    PROVE  a = b
<1>1. a.name = b.name
  BY PlacedOnConsole, PathsTellNames
<1> QED BY <1>1, ConsoleControlsApart

LEMMA DevicePathsApart ==
    ASSUME NEW t, IsTree(t), NEW p \in Range(t.ports), NEW d \in Range(p.supported),
           NEW a, NEW b, OfDevice(t, p, d, a), OfDevice(t, p, d, b), a.path = b.path
    PROVE  a = b
<1>1. OnDevice(a, p.name, d) /\ OnDevice(b, p.name, d)
  BY PlacedOnDevice
<1>2. a.name = b.name
  BY <1>1, PathsTellNames
<1> QED BY <1>2, DeviceControlsApart

\* Rows under one prefix are as many as the controls they are of.
RowsUnder(prefix, controls) == [i \in 1 .. Len(controls) |-> Row(prefix, controls[i])]

LEMMA RowsUnderHold ==
    ASSUME NEW prefix, NEW controls, IsList(controls), IsInjective(controls),
           \A a, b \in Range(controls) : a.path = b.path => a = b
    PROVE  /\ IsList(RowsUnder(prefix, controls)) /\ IsInjective(RowsUnder(prefix, controls))
           /\ \A r : r \in Range(RowsUnder(prefix, controls)) <=> \E c \in Range(controls) : r = Row(prefix, c)
<1> DEFINE u == RowsUnder(prefix, controls)
<1>1. /\ Len(controls) \in Nat /\ DOMAIN controls = 1 .. Len(controls)
      /\ \A x : x \in Range(controls) <=> \E i \in 1 .. Len(controls) : x = controls[i]
  BY ListFacts
<1>2. /\ u = [i \in 1 .. Len(controls) |-> u[i]]
      /\ \A i \in 1 .. Len(controls) : u[i] = Row(prefix, controls[i]) /\ u[i].path = controls[i].path
  BY DEF RowsUnder, Row
<1> HIDE DEF u
<1>3. IsList(u) /\ \A x : x \in Range(u) <=> \E i \in 1 .. Len(controls) : x = u[i]
  BY <1>1, <1>2, FunctionIsList
<1>4. \A i, j \in 1 .. Len(controls) : u[i] = u[j] => i = j
  <2> SUFFICES ASSUME NEW i \in 1 .. Len(controls), NEW j \in 1 .. Len(controls), u[i] = u[j] PROVE i = j
    OBVIOUS
  <2>1. controls[i].path = controls[j].path
    BY <1>2
  <2>2. controls[i] = controls[j]
    BY <1>1, <2>1
  <2> QED BY <1>1, <2>2 DEF IsInjective
<1>5. IsInjective(u)
  BY <1>1, <1>2, <1>4, OneToOne
<1>6. \A r : r \in Range(u) <=> \E c \in Range(controls) : r = Row(prefix, c)
  BY <1>1, <1>2, <1>3
<1> QED BY <1>3, <1>5, <1>6 DEF u

\* What a device's rows are under, and the rows of the console, a port, the
\* tape, and a tree.
PrefixFor(p, d) == IF Len(Offered(p)) > 1 THEN <<Prefix[p.name], d>> ELSE <<Prefix[p.name]>>

OwnRow(t, r) == \E c \in Range(Walk(t, {})) : r = Row(<<>>, c)
DeviceRow(t, p, d, r) == \E c \in Range(Added(t, p, d)) : r = Row(PrefixFor(p, d), c)
PortRow(t, p, r) == \E d \in Range(Offered(p)) : DeviceRow(t, p, d, r)
TapeRow(r) == spec.tape /\ r \in Range(Transport)
IsRow(t, r) == OwnRow(t, r) \/ (\E p \in Range(Controllers(t)) : PortRow(t, p, r)) \/ TapeRow(r)

\* A port of the account, and a device it offers.
InAccount(t, p) == IsTreeOfSpec(t) /\ p \in Range(Controllers(t))

LEMMA AccountPorts ==
    ASSUME NEW t, NEW p, InAccount(t, p)
    PROVE  /\ IsTree(t) /\ p \in Range(t.ports) /\ p.supported # <<>> /\ Offered(p) # <<>>
           /\ IsList(Offered(p)) /\ IsInjective(Offered(p)) /\ Len(Offered(p)) \in Nat
           /\ \A d \in Range(Offered(p)) : d \in Range(p.supported)
<1>1. IsTreeOfSpec(t) /\ IsTree(t)
  BY TreesAreTrees DEF InAccount, IsTreeOfSpec
<1>2. p \in Range(t.ports) /\ p.supported # <<>> /\ Offered(p) # <<>>
  BY <1>1, ControllersHold DEF InAccount
<1>3. IsList(Offered(p)) /\ IsInjective(Offered(p)) /\ \A d \in Range(Offered(p)) : d \in Range(p.supported)
  BY <1>1, <1>2, OfferedHolds
<1> QED BY <1>1, <1>2, <1>3, ListFacts

LEMMA OwnRowFacts ==
    ASSUME NEW t, IsTree(t), NEW r, OwnRow(t, r)
    PROVE  \E c : /\ OfConsole(t, c) /\ r = Row(<<>>, c)
                  /\ r.axis = c.axis /\ r.path = c.path /\ r.name = <<WireSafe(c.name)>>
<1>1. PICK c \in Range(Walk(t, {})) : r = Row(<<>>, c)
  BY DEF OwnRow
<1>2. OfConsole(t, c)
  BY WalkWithNothing
<1>3. r.axis = c.axis /\ r.path = c.path /\ r.name = Append(<<>>, WireSafe(c.name))
  BY <1>1 DEF Row
<1>4. Append(<<>>, WireSafe(c.name)) = <<WireSafe(c.name)>>
  OBVIOUS
<1> QED BY <1>1, <1>2, <1>3, <1>4

LEMMA DeviceRowPath ==
    ASSUME NEW t, NEW p, InAccount(t, p), NEW d \in Range(Offered(p)), NEW r, DeviceRow(t, p, d, r)
    PROVE  r.path[1] = p.name /\ r.path[2] = d /\ r.path[1] \notin {"Controls", "@tape"}
<1>1. PICK c \in Range(Added(t, p, d)) : r = Row(PrefixFor(p, d), c)
  BY DEF DeviceRow
<1>2. OfDevice(t, p, d, c)
  BY AccountPorts, AddedHolds
<1>3. r.path = c.path
  BY <1>1 DEF Row
<1>4. r.path[1] = p.name /\ r.path[2] = d
  BY <1>2, <1>3, DeviceFacts
<1>5. p.name \notin {"Controls", "@tape"}
  BY AccountPorts DEF IsTree
<1> QED BY <1>4, <1>5

\* The control a row is of, and what the row is called.
DeviceRowOf(t, p, d, r, c) ==
    /\ OfDevice(t, p, d, c) /\ r = Row(PrefixFor(p, d), c) /\ r.axis = c.axis /\ r.path = c.path
    /\ Len(Offered(p)) > 1 => r.name = <<Prefix[p.name], d, WireSafe(c.name)>> /\ r.name[2] = d
    /\ ~(Len(Offered(p)) > 1) => r.name = <<Prefix[p.name], WireSafe(c.name)>>

LEMMA DeviceRowFacts ==
    ASSUME NEW t, NEW p, InAccount(t, p), NEW d \in Range(Offered(p)), NEW r, DeviceRow(t, p, d, r)
    PROVE  \E c : DeviceRowOf(t, p, d, r, c)
<1>1. PICK c \in Range(Added(t, p, d)) : r = Row(PrefixFor(p, d), c)
  BY DEF DeviceRow
<1>2. OfDevice(t, p, d, c)
  BY AccountPorts, AddedHolds
<1>3. r.axis = c.axis /\ r.path = c.path /\ r.name = Append(PrefixFor(p, d), WireSafe(c.name))
  BY <1>1 DEF Row
<1>4. ASSUME Len(Offered(p)) > 1 PROVE r.name = <<Prefix[p.name], d, WireSafe(c.name)>> /\ r.name[2] = d
  <2>1. PrefixFor(p, d) = <<Prefix[p.name], d>>
    BY <1>4 DEF PrefixFor
  <2>2. r.name = <<Prefix[p.name], d, WireSafe(c.name)>>
    BY <1>3, <2>1, PathOfThree
  <2> QED BY <2>2, Triple
<1>5. ASSUME ~(Len(Offered(p)) > 1) PROVE r.name = <<Prefix[p.name], WireSafe(c.name)>>
  <2>1. PrefixFor(p, d) = <<Prefix[p.name]>>
    BY <1>5 DEF PrefixFor
  <2> QED BY <1>3, <2>1, PathOfTwo
<1> QED BY <1>1, <1>2, <1>3, <1>4, <1>5 DEF DeviceRowOf

\* The rows of a port: the list's parts, then what it holds.
LEMMA PortRowsInParts ==
    ASSUME NEW a
    PROVE  PortRows(a) = FlattenSeq([d \in 1 .. Len(a.devices) |->
               RowsUnder(IF Len(a.devices) > 1 THEN <<Prefix[a.name], a.devices[d].name>> ELSE <<Prefix[a.name]>>,
                         InReadingOrder(a.devices[d].inputs))])
BY DEF PortRows, RowsUnder

LEMMA PortRowsHold ==
    ASSUME NEW t, NEW p, InAccount(t, p)
    PROVE  /\ IsList(PortRows(PortAccount(t, p))) /\ IsInjective(PortRows(PortAccount(t, p)))
           /\ \A r : r \in Range(PortRows(PortAccount(t, p))) <=> PortRow(t, p, r)
<1> DEFINE n == Len(Offered(p))
           a == PortAccount(t, p)
           inputs(d) == InReadingOrder(a.devices[d].inputs)
           prefix(d) == IF Len(a.devices) > 1 THEN <<Prefix[a.name], a.devices[d].name>> ELSE <<Prefix[a.name]>>
           ss == [d \in 1 .. Len(a.devices) |-> RowsUnder(prefix(d), inputs(d))]
<1>1. /\ n \in Nat /\ DOMAIN Offered(p) = 1 .. n /\ IsInjective(Offered(p))
      /\ \A x : x \in Range(Offered(p)) <=> \E d \in 1 .. n : x = Offered(p)[d]
  BY AccountPorts, ListFacts
<1>2. spec \in Specs
  BY DEF InAccount, IsTreeOfSpec
<1>3. PortRows(a) = FlattenSeq(ss)
  BY PortRowsInParts
<1>4. /\ a.name = p.name
      /\ a.devices = [d \in 1 .. n |-> [name |-> Offered(p)[d], inputs |-> Added(t, p, Offered(p)[d])]]
  BY DEF PortAccount
<1>5. Len(a.devices) = n
  <2> DEFINE devices == a.devices
  <2>1. devices = [d \in 1 .. n |-> devices[d]]
    BY <1>4
  <2> HIDE DEF devices
  <2>2. Len(devices) = n
    BY <1>1, <2>1, FunctionIsList
  <2> QED BY <2>2 DEF devices
<1>6. ASSUME NEW d \in 1 .. n
      PROVE  ss[d] = RowsUnder(PrefixFor(p, Offered(p)[d]), InReadingOrder(Added(t, p, Offered(p)[d])))
  <2>1. a.devices[d].name = Offered(p)[d] /\ a.devices[d].inputs = Added(t, p, Offered(p)[d])
    BY <1>4
  <2>2. ss[d] = RowsUnder(prefix(d), inputs(d))
    BY <1>5
  <2>3. prefix(d) = PrefixFor(p, Offered(p)[d])
    BY <1>4, <1>5, <2>1 DEF PrefixFor
  <2> QED BY <2>1, <2>2, <2>3
<1>7. ss = [d \in 1 .. n |-> ss[d]]
  BY <1>5
<1> HIDE DEF n, a, ss
<1>8. ASSUME NEW d \in 1 .. n
      PROVE  /\ IsList(ss[d]) /\ IsInjective(ss[d])
             /\ \A r : r \in Range(ss[d]) <=> DeviceRow(t, p, Offered(p)[d], r)
  <2> DEFINE device == Offered(p)[d]
             controls == InReadingOrder(Added(t, p, device))
  <2>1. device \in Range(Offered(p)) /\ device \in Range(p.supported) /\ IsTree(t) /\ p \in Range(t.ports)
    <3>1. device \in Range(Offered(p))
      BY <1>1
    <3> HIDE DEF device
    <3> QED BY <3>1, AccountPorts
  <2>2. ss[d] = RowsUnder(PrefixFor(p, device), controls)
    BY <1>6
  <2> HIDE DEF device
  <2>3. /\ IsList(Added(t, p, device)) /\ IsInjective(Added(t, p, device))
        /\ \A c : c \in Range(Added(t, p, device)) <=> OfDevice(t, p, device, c)
    BY <2>1, AddedHolds
  <2>4. /\ IsList(controls) /\ IsInjective(controls)
        /\ Range(controls) = Range(Added(t, p, device))
    BY <1>2, <2>3, InReadingOrderHolds
  <2> HIDE DEF controls
  <2>5. \A b, c \in Range(controls) : b.path = c.path => b = c
    BY <2>1, <2>3, <2>4, DevicePathsApart
  <2>6. /\ IsList(ss[d]) /\ IsInjective(ss[d])
        /\ \A r : r \in Range(ss[d]) <=> \E c \in Range(controls) : r = Row(PrefixFor(p, device), c)
    BY <2>2, <2>4, <2>5, RowsUnderHold
  <2>7. \A r : r \in Range(ss[d]) <=> DeviceRow(t, p, device, r)
    BY <2>4, <2>6 DEF DeviceRow
  <2> QED BY <2>6, <2>7 DEF device
<1>9. ASSUME NEW d \in 1 .. n, NEW e \in 1 .. n, d # e PROVE Range(ss[d]) \intersect Range(ss[e]) = {}
  <2> SUFFICES ASSUME NEW r, r \in Range(ss[d]), r \in Range(ss[e]) PROVE FALSE
    OBVIOUS
  <2>1. Offered(p)[d] # Offered(p)[e]
    BY <1>1, <1>9 DEF IsInjective
  <2>2. Offered(p)[d] \in Range(Offered(p)) /\ Offered(p)[e] \in Range(Offered(p))
    BY <1>1
  <2>3. r.path[2] = Offered(p)[d]
    <3>1. DeviceRow(t, p, Offered(p)[d], r)
      BY <1>8
    <3> QED BY <2>2, <3>1, DeviceRowPath
  <2>4. r.path[2] = Offered(p)[e]
    <3>1. DeviceRow(t, p, Offered(p)[e], r)
      BY <1>8
    <3> QED BY <2>2, <3>1, DeviceRowPath
  <2> QED BY <2>1, <2>3, <2>4
<1>10. IsList(FlattenSeq(ss)) /\ \A r : r \in Range(FlattenSeq(ss)) <=> \E d \in 1 .. n : r \in Range(ss[d])
  BY <1>1, <1>7, <1>8, Flattened
<1>11. IsInjective(FlattenSeq(ss))
  BY <1>1, <1>7, <1>8, <1>9, FlattenedApart
<1>12. \A r : r \in Range(FlattenSeq(ss)) <=> PortRow(t, p, r)
  <2>1. ASSUME NEW r \in Range(FlattenSeq(ss)) PROVE PortRow(t, p, r)
    <3>1. PICK d \in 1 .. n : r \in Range(ss[d])
      BY <1>10
    <3>2. Offered(p)[d] \in Range(Offered(p)) /\ DeviceRow(t, p, Offered(p)[d], r)
      BY <1>1, <1>8, <3>1
    <3> QED BY <3>2 DEF PortRow
  <2>2. ASSUME NEW r, PortRow(t, p, r) PROVE r \in Range(FlattenSeq(ss))
    <3>1. PICK x \in Range(Offered(p)) : DeviceRow(t, p, x, r)
      BY <2>2 DEF PortRow
    <3>2. PICK d \in 1 .. n : x = Offered(p)[d]
      BY <1>1
    <3> QED BY <1>8, <1>10, <3>1, <3>2
  <2> QED BY <2>1, <2>2
<1> QED BY <1>3, <1>10, <1>11, <1>12 DEF a

\* The transport's rows.
LEMMA TransportHolds ==
    /\ IsList(Transport) /\ IsInjective(Transport)
    /\ \A r \in Range(Transport) :
          /\ r.axis = FALSE /\ r.path[1] = "@tape" /\ r.leaf \in {"play", "stop"}
          /\ Len(r.name) = 1 /\ r.name[1] \in {"Tape Play", "Tape Stop"}
    /\ \A r, q \in Range(Transport) : r.name = q.name \/ r.path = q.path => r = q
<1> DEFINE play == [name |-> <<"Tape Play">>, path |-> <<"@tape", "play">>, leaf |-> "play", axis |-> FALSE]
           stop == [name |-> <<"Tape Stop">>, path |-> <<"@tape", "stop">>, leaf |-> "stop", axis |-> FALSE]
<1>1. Transport = <<play, stop>>
  BY DEF Transport
<1>2. /\ play.axis = FALSE /\ play.path = <<"@tape", "play">> /\ play.leaf = "play" /\ play.name = <<"Tape Play">>
      /\ stop.axis = FALSE /\ stop.path = <<"@tape", "stop">> /\ stop.leaf = "stop" /\ stop.name = <<"Tape Stop">>
  OBVIOUS
<1>3. /\ Len(play.name) = 1 /\ play.name[1] = "Tape Play" /\ play.path[1] = "@tape" /\ play.path[2] = "play"
      /\ Len(stop.name) = 1 /\ stop.name[1] = "Tape Stop" /\ stop.path[1] = "@tape" /\ stop.path[2] = "stop"
  OBVIOUS
<1>4. play.name # stop.name /\ play.path # stop.path /\ play # stop
  <2>1. "Tape Play" # "Tape Stop" /\ "play" # "stop"
    OBVIOUS
  <2> HIDE DEF play, stop
  <2> QED BY <1>3, <2>1
<1>5. /\ play.axis = FALSE /\ play.path[1] = "@tape" /\ play.leaf \in {"play", "stop"}
      /\ Len(play.name) = 1 /\ play.name[1] \in {"Tape Play", "Tape Stop"}
  BY <1>2, <1>3
<1>6. /\ stop.axis = FALSE /\ stop.path[1] = "@tape" /\ stop.leaf \in {"play", "stop"}
      /\ Len(stop.name) = 1 /\ stop.name[1] \in {"Tape Play", "Tape Stop"}
  BY <1>2, <1>3
<1> HIDE DEF play, stop
<1>40. play # stop
  BY <1>4
<1>7. <<play, stop>> \in Seq({play, stop}) /\ DOMAIN <<play, stop>> = {1, 2} /\ <<play, stop>>[1] = play /\ <<play, stop>>[2] = stop
  OBVIOUS
<1>8. IsList(Transport) /\ IsInjective(Transport) /\ Range(Transport) = {play, stop}
  BY <1>1, <1>40, <1>7, SequenceIsList DEF IsInjective, Range
<1> QED BY <1>4, <1>5, <1>6, <1>8

LEMMA OwnNames ==
    ASSUME NEW t, IsTreeOfSpec(t), NEW c, OfConsole(t, c)
    PROVE  WireSafe(c.name) \notin {"Tape Play", "Tape Stop"}
<1>1. PICK i \in Range(t.console) : c = Control(<<"Controls">>, i)
  BY DEF OfConsole
<1>2. c.name = i.name
  BY <1>1 DEF Control
<1>3. WireSafe(i.name) \notin {"Tape Play", "Tape Stop"}
  BY NamesAssumption DEF IsTreeOfSpec
<1> QED BY <1>2, <1>3

\* A name that is spelt out has none of a log key's signs.
LEMMA SpellingsAreSafe == \A n : WireSafe(n) \notin DOMAIN Spelt
BY NamesAssumption DEF WireSafe

\* No control of a console is spelt as another, none of a device's is.
LEMMA OwnSpellings ==
    ASSUME NEW t, IsTreeOfSpec(t), NEW a, NEW b, OfConsole(t, a), OfConsole(t, b),
           WireSafe(a.name) = WireSafe(b.name)
    PROVE  a = b
<1>1. PICK i \in Range(t.console) : a = Control(<<"Controls">>, i)
  BY DEF OfConsole
<1>2. PICK j \in Range(t.console) : b = Control(<<"Controls">>, j)
  BY DEF OfConsole
<1>3. a.name = i.name /\ b.name = j.name
  BY <1>1, <1>2 DEF Control
<1>4. SpeltApart(t.console)
  BY NamesAssumption DEF IsTreeOfSpec
<1>5. a.name = b.name
  BY <1>3, <1>4 DEF SpeltApart
<1>6. IsTree(t)
  BY TreesAreTrees DEF IsTreeOfSpec
<1> QED BY <1>5, <1>6, ConsoleControlsApart

LEMMA DeviceSpellings ==
    ASSUME NEW t, IsTreeOfSpec(t), NEW p \in Range(t.ports), p.supported # <<>>, NEW d \in Range(p.supported),
           NEW a, NEW b, OfDevice(t, p, d, a), OfDevice(t, p, d, b), WireSafe(a.name) = WireSafe(b.name)
    PROVE  a = b
<1>1. PICK i \in Range(t.inputs[d]) : a = Control(<<p.name, d>>, i)
  BY DEF OfDevice
<1>2. PICK j \in Range(t.inputs[d]) : b = Control(<<p.name, d>>, j)
  BY DEF OfDevice
<1>3. a.name = i.name /\ b.name = j.name
  BY <1>1, <1>2 DEF Control
<1>4. SpeltApart(t.inputs[d])
  <2>1. p \in {o \in Range(t.ports) : o.supported # <<>>}
    OBVIOUS
  <2> QED BY <2>1, NamesAssumption DEF IsTreeOfSpec
<1>5. a.name = b.name
  BY <1>3, <1>4 DEF SpeltApart
<1>6. IsTree(t)
  BY TreesAreTrees DEF IsTreeOfSpec
<1> QED BY <1>5, <1>6, DeviceControlsApart

\* Ports of an account with one short name are one.
LEMMA PrefixesApart ==
    ASSUME NEW t, NEW p, NEW q, InAccount(t, p), InAccount(t, q), Prefix[p.name] = Prefix[q.name]
    PROVE  p = q
<1>1. p \in {o \in Range(t.ports) : o.supported # <<>>} /\ q \in {o \in Range(t.ports) : o.supported # <<>>}
  BY AccountPorts
<1>2. IsTreeOfSpec(t)
  BY DEF InAccount
<1> QED BY <1>1, <1>2, NamesAssumption DEF IsTreeOfSpec

\* What tells the rows of the console, of the ports and of the tape apart.
LEMMA OwnKind ==
    ASSUME NEW t, IsTreeOfSpec(t), NEW r, OwnRow(t, r)
    PROVE  /\ r.path[1] = "Controls" /\ Len(r.name) = 1
           /\ r.name[1] \notin {"Tape Play", "Tape Stop"} /\ r.name[Len(r.name)] \notin DOMAIN Spelt
<1>1. IsTree(t)
  BY TreesAreTrees DEF IsTreeOfSpec
<1>2. PICK c : OfConsole(t, c) /\ r.path = c.path /\ r.name = <<WireSafe(c.name)>>
  BY <1>1, OwnRowFacts
<1>3. Len(r.name) = 1 /\ r.name[1] = WireSafe(c.name)
  BY <1>2, Single
<1>4. r.path[1] = "Controls"
  BY <1>2, ConsoleFacts
<1> QED BY <1>2, <1>3, <1>4, OwnNames, SpellingsAreSafe

LEMMA PortKind ==
    ASSUME NEW t, IsTreeOfSpec(t), NEW p \in Range(Controllers(t)), NEW r, PortRow(t, p, r)
    PROVE  /\ r.path[1] = p.name /\ r.path[1] \notin {"Controls", "@tape"}
           /\ r.name[1] = Prefix[p.name] /\ Len(r.name) \in {2, 3} /\ r.name[Len(r.name)] \notin DOMAIN Spelt
<1>1. InAccount(t, p)
  BY DEF InAccount
<1>2. PICK d \in Range(Offered(p)) : DeviceRow(t, p, d, r)
  BY DEF PortRow
<1>3. r.path[1] = p.name /\ r.path[1] \notin {"Controls", "@tape"}
  BY <1>1, <1>2, DeviceRowPath
<1>4. PICK c : DeviceRowOf(t, p, d, r, c)
  BY <1>1, <1>2, DeviceRowFacts
<1>5. CASE r.name = <<Prefix[p.name], d, WireSafe(c.name)>>
  BY <1>3, <1>5, Triple, SpellingsAreSafe
<1>6. CASE r.name = <<Prefix[p.name], WireSafe(c.name)>>
  BY <1>3, <1>6, Pair, SpellingsAreSafe
<1> QED BY <1>4, <1>5, <1>6 DEF DeviceRowOf

LEMMA TapeKind ==
    ASSUME NEW r, TapeRow(r)
    PROVE  /\ r.path[1] = "@tape" /\ Len(r.name) = 1 /\ r.name[1] \in {"Tape Play", "Tape Stop"}
           /\ r.leaf \in {"play", "stop"} /\ r.axis = FALSE /\ r.name[Len(r.name)] \notin DOMAIN Spelt
<1>1. /\ r.path[1] = "@tape" /\ Len(r.name) = 1 /\ r.name[1] \in {"Tape Play", "Tape Stop"}
      /\ r.leaf \in {"play", "stop"} /\ r.axis = FALSE
  BY TransportHolds DEF TapeRow
<1> QED BY <1>1, NamesAssumption

\* No two rows lead to one control.
LEMMA RowsApart ==
    ASSUME NEW t, IsTreeOfSpec(t), NEW r, NEW q, IsRow(t, r), IsRow(t, q), r.path = q.path
    PROVE  r = q
<1>0. IsTree(t)
  BY TreesAreTrees DEF IsTreeOfSpec
<1>1. CASE OwnRow(t, r) /\ OwnRow(t, q)
  <2>1. PICK a : OfConsole(t, a) /\ r = Row(<<>>, a) /\ r.path = a.path
    BY <1>0, <1>1, OwnRowFacts
  <2>2. PICK b : OfConsole(t, b) /\ q = Row(<<>>, b) /\ q.path = b.path
    BY <1>0, <1>1, OwnRowFacts
  <2> QED BY <1>0, <2>1, <2>2, ConsolePathsApart
<1>2. ASSUME NEW p \in Range(Controllers(t)), NEW o \in Range(Controllers(t)), PortRow(t, p, r), PortRow(t, o, q)
      PROVE  r = q
  <2>1. InAccount(t, p) /\ InAccount(t, o)
    BY DEF InAccount
  <2>2. PICK d \in Range(Offered(p)) : DeviceRow(t, p, d, r)
    BY <1>2 DEF PortRow
  <2>3. PICK e \in Range(Offered(o)) : DeviceRow(t, o, e, q)
    BY <1>2 DEF PortRow
  <2>4. r.path[1] = p.name /\ r.path[2] = d
    BY <2>1, <2>2, DeviceRowPath
  <2>5. q.path[1] = o.name /\ q.path[2] = e
    BY <2>1, <2>3, DeviceRowPath
  <2>6. p \in Range(t.ports) /\ o \in Range(t.ports) /\ d \in Range(p.supported)
    BY <2>1, AccountPorts
  <2>7. p = o /\ d = e
    BY <1>0, <2>4, <2>5, <2>6, PortsApart
  <2>8. PICK a : OfDevice(t, p, d, a) /\ r = Row(PrefixFor(p, d), a) /\ r.path = a.path
    BY <2>1, <2>2, DeviceRowFacts DEF DeviceRowOf
  <2>9. PICK b : OfDevice(t, p, d, b) /\ q = Row(PrefixFor(p, d), b) /\ q.path = b.path
    BY <2>1, <2>3, <2>7, DeviceRowFacts DEF DeviceRowOf
  <2>10. a = b
    BY <1>0, <2>6, <2>8, <2>9, DevicePathsApart
  <2> QED BY <2>8, <2>9, <2>10
<1>3. CASE TapeRow(r) /\ TapeRow(q)
  BY <1>3, TransportHolds DEF TapeRow
<1>4. ASSUME NEW x, NEW y, x.path = y.path, OwnRow(t, x), TapeRow(y) PROVE FALSE
  <2>1. x.path[1] = "Controls" /\ y.path[1] = "@tape"
    BY <1>4, OwnKind, TapeKind
  <2> QED BY <1>4, <2>1
<1>5. ASSUME NEW x, NEW y, x.path = y.path, NEW p \in Range(Controllers(t)), PortRow(t, p, x),
             OwnRow(t, y) \/ TapeRow(y)
      PROVE  FALSE
  <2>1. x.path[1] \notin {"Controls", "@tape"}
    BY <1>5, PortKind
  <2>2. y.path[1] \in {"Controls", "@tape"}
    BY <1>5, OwnKind, TapeKind
  <2> QED BY <1>5, <2>1, <2>2
<1> QED BY <1>1, <1>2, <1>3, <1>4, <1>5 DEF IsRow

\* No two rows are called the same.
LEMMA RowsCalledApart ==
    ASSUME NEW t, IsTreeOfSpec(t), NEW r, NEW q, IsRow(t, r), IsRow(t, q), r.name = q.name
    PROVE  r = q
<1>0. IsTree(t)
  BY TreesAreTrees DEF IsTreeOfSpec
<1>2. CASE OwnRow(t, r) /\ OwnRow(t, q)
  <2>1. PICK a : OfConsole(t, a) /\ r = Row(<<>>, a) /\ r.name = <<WireSafe(a.name)>>
    BY <1>0, <1>2, OwnRowFacts
  <2>2. PICK b : OfConsole(t, b) /\ q = Row(<<>>, b) /\ q.name = <<WireSafe(b.name)>>
    BY <1>0, <1>2, OwnRowFacts
  <2>3. WireSafe(a.name) = WireSafe(b.name)
    BY <2>1, <2>2, Single
  <2> QED BY <2>1, <2>2, <2>3, OwnSpellings
<1>3. ASSUME NEW p \in Range(Controllers(t)), NEW o \in Range(Controllers(t)), PortRow(t, p, r), PortRow(t, o, q)
      PROVE  r = q
  <2>1. InAccount(t, p) /\ InAccount(t, o)
    BY DEF InAccount
  <2>2. Prefix[p.name] = Prefix[o.name]
    BY <1>3, PortKind
  <2>3. p = o
    BY <2>1, <2>2, PrefixesApart
  <2>4. PICK d \in Range(Offered(p)) : DeviceRow(t, p, d, r)
    BY <1>3 DEF PortRow
  <2>5. PICK e \in Range(Offered(p)) : DeviceRow(t, p, e, q)
    BY <1>3, <2>3 DEF PortRow
  <2>6. PICK a : DeviceRowOf(t, p, d, r, a)
    BY <2>1, <2>4, DeviceRowFacts
  <2>7. PICK b : DeviceRowOf(t, p, e, q, b)
    BY <2>1, <2>5, DeviceRowFacts
  <2>8. d = e /\ WireSafe(a.name) = WireSafe(b.name)
    <3>1. CASE Len(Offered(p)) > 1
      <4>1. r.name[2] = d /\ q.name[2] = e
        BY <2>6, <2>7, <3>1 DEF DeviceRowOf
      <4>2. r.name = <<Prefix[p.name], d, WireSafe(a.name)>> /\ q.name = <<Prefix[p.name], e, WireSafe(b.name)>>
        BY <2>6, <2>7, <3>1 DEF DeviceRowOf
      <4>3. r.name[3] = WireSafe(a.name) /\ q.name[3] = WireSafe(b.name)
        <5>1. r.name[3] = WireSafe(a.name)
          BY <4>2, Triple
        <5>2. q.name[3] = WireSafe(b.name)
          <6>1. q.name = <<Prefix[p.name], e, WireSafe(b.name)>>
            BY <4>2
          <6> QED BY <6>1, Triple
        <5> QED BY <5>1, <5>2
      <4> QED BY <4>1, <4>3
    <3>2. CASE ~(Len(Offered(p)) > 1)
      <4>1. Len(Offered(p)) \in Nat /\ \A x : x \in Range(Offered(p)) <=> \E i \in 1 .. Len(Offered(p)) : x = Offered(p)[i]
        BY <2>1, AccountPorts, ListFacts
      <4>2. \A i, j \in 1 .. Len(Offered(p)) : i = j
        BY <3>2, <4>1
      <4>3. r.name = <<Prefix[p.name], WireSafe(a.name)>> /\ q.name = <<Prefix[p.name], WireSafe(b.name)>>
        BY <2>6, <2>7, <3>2 DEF DeviceRowOf
      <4>4. r.name[2] = WireSafe(a.name) /\ q.name[2] = WireSafe(b.name)
        <5>1. r.name[2] = WireSafe(a.name)
          BY <4>3, Pair
        <5>2. q.name[2] = WireSafe(b.name)
          <6>1. q.name = <<Prefix[p.name], WireSafe(b.name)>>
            BY <4>3
          <6> QED BY <6>1, Pair
        <5> QED BY <5>1, <5>2
      <4> QED BY <4>1, <4>2, <4>4
    <3> QED BY <3>1, <3>2
  <2>9. p \in Range(t.ports) /\ p.supported # <<>> /\ d \in Range(p.supported)
    BY <2>1, AccountPorts
  <2>10. OfDevice(t, p, d, a) /\ OfDevice(t, p, d, b) /\ r = Row(PrefixFor(p, d), a) /\ q = Row(PrefixFor(p, d), b)
    BY <2>6, <2>7, <2>8 DEF DeviceRowOf
  <2>11. a = b
    BY <2>8, <2>9, <2>10, DeviceSpellings
  <2> QED BY <2>10, <2>11
<1>4. CASE TapeRow(r) /\ TapeRow(q)
  BY <1>4, TransportHolds DEF TapeRow
<1>5. ASSUME NEW x, NEW y, x.name = y.name, OwnRow(t, x), TapeRow(y) PROVE FALSE
  <2>1. x.name[1] \notin {"Tape Play", "Tape Stop"}
    BY <1>5, OwnKind
  <2>2. y.name[1] \in {"Tape Play", "Tape Stop"}
    BY <1>5, TapeKind
  <2> QED BY <1>5, <2>1, <2>2
<1>6. ASSUME NEW x, NEW y, x.name = y.name, NEW p \in Range(Controllers(t)), PortRow(t, p, x),
             OwnRow(t, y) \/ TapeRow(y)
      PROVE  FALSE
  <2>1. Len(x.name) \in {2, 3}
    BY <1>6, PortKind
  <2>2. Len(y.name) = 1
    BY <1>6, OwnKind, TapeKind
  <2> QED BY <1>6, <2>1, <2>2
<1> QED BY <1>2, <1>3, <1>4, <1>5, <1>6 DEF IsRow

\* The rows of a table: the list's parts, then what it holds.
RowsOf(account) ==
    RowsUnder(<<>>, account.console)
    \o FlattenSeq([k \in 1 .. Len(account.ports) |-> PortRows(account.ports[k])])
    \o (IF spec.tape THEN Transport ELSE <<>>)

LEMMA DeclareInParts ==
    ASSUME NEW a
    PROVE  Declare(a) = [buttons |-> Only(RowsOf(a), {r \in Range(RowsOf(a)) : ~r.axis}),
                         axes    |-> Only(RowsOf(a), {r \in Range(RowsOf(a)) : r.axis})]
BY DEF Declare, RowsOf, RowsUnder

LEMMA RowsOfHold ==
    ASSUME NEW t, IsTreeOfSpec(t)
    PROVE  /\ IsList(RowsOf(Describe(t))) /\ IsInjective(RowsOf(Describe(t)))
           /\ \A r : r \in Range(RowsOf(Describe(t))) <=> IsRow(t, r)
<1> DEFINE own == RowsUnder(<<>>, Walk(t, {}))
           ports == Describe(t).ports
           n == Len(Controllers(t))
           ss == [k \in 1 .. Len(ports) |-> PortRows(ports[k])]
           middle == FlattenSeq(ss)
           tape == IF spec.tape THEN Transport ELSE <<>>
<1>1. RowsOf(Describe(t)) = (own \o middle) \o tape
  BY DescribeInParts DEF RowsOf
<1>2. IsTree(t)
  BY TreesAreTrees DEF IsTreeOfSpec
<1>3. IsList(own) /\ IsInjective(own) /\ \A r : r \in Range(own) <=> OwnRow(t, r)
  <2>1. /\ IsList(Walk(t, {})) /\ IsInjective(Walk(t, {}))
        /\ \A c : c \in Range(Walk(t, {})) <=> OfConsole(t, c)
    BY <1>2, WalkWithNothing
  <2>2. \A a, b \in Range(Walk(t, {})) : a.path = b.path => a = b
    BY <1>2, <2>1, ConsolePathsApart
  <2> QED BY <2>1, <2>2, RowsUnderHold DEF OwnRow
<1>4. IsList(tape) /\ IsInjective(tape) /\ \A r : r \in Range(tape) <=> TapeRow(r)
  BY TransportHolds, EmptyList DEF TapeRow
<1>5. /\ n \in Nat /\ DOMAIN Controllers(t) = 1 .. n /\ IsInjective(Controllers(t))
      /\ \A x : x \in Range(Controllers(t)) <=> \E k \in 1 .. n : x = Controllers(t)[k]
  BY ControllersHold, ListFacts
<1>6. ports = [k \in 1 .. n |-> ports[k]] /\ \A k \in 1 .. n : ports[k] = PortAccount(t, Controllers(t)[k])
  BY DescribeInParts
<1> HIDE DEF ports
<1>7. Len(ports) = n
  BY <1>5, <1>6, FunctionIsList
<1>8. ss = [k \in 1 .. n |-> ss[k]] /\ \A k \in 1 .. n : ss[k] = PortRows(PortAccount(t, Controllers(t)[k]))
  BY <1>6, <1>7
<1> HIDE DEF own, n, ss, tape
<1>9. ASSUME NEW k \in 1 .. n
      PROVE  /\ IsList(ss[k]) /\ IsInjective(ss[k])
             /\ \A r : r \in Range(ss[k]) <=> PortRow(t, Controllers(t)[k], r)
  <2>1. InAccount(t, Controllers(t)[k])
    BY <1>5 DEF InAccount
  <2> QED BY <1>8, <2>1, PortRowsHold
<1>10. ASSUME NEW k \in 1 .. n, NEW l \in 1 .. n, k # l PROVE Range(ss[k]) \intersect Range(ss[l]) = {}
  <2> DEFINE p == Controllers(t)[k]
             q == Controllers(t)[l]
  <2> SUFFICES ASSUME NEW r, r \in Range(ss[k]), r \in Range(ss[l]) PROVE FALSE
    OBVIOUS
  <2>1. p # q /\ p \in Range(Controllers(t)) /\ q \in Range(Controllers(t))
    BY <1>5, <1>10 DEF IsInjective
  <2>2. PortRow(t, p, r) /\ PortRow(t, q, r)
    BY <1>9
  <2> HIDE DEF p, q
  <2>3. r.path[1] = p.name /\ r.path[1] = q.name
    BY <2>1, <2>2, PortKind
  <2>4. p \in Range(t.ports) /\ q \in Range(t.ports)
    BY <2>1, ControllersHold
  <2> QED BY <1>2, <2>1, <2>3, <2>4, PortsApart
<1>11. IsList(middle) /\ IsInjective(middle) /\ \A r : r \in Range(middle) <=> \E k \in 1 .. n : r \in Range(ss[k])
  <2>1. IsInjective(middle)
    BY <1>5, <1>8, <1>9, <1>10, FlattenedApart
  <2> QED BY <1>5, <1>8, <1>9, <2>1, Flattened
<1> HIDE DEF middle
<1>12. \A r : r \in Range(middle) <=> \E p \in Range(Controllers(t)) : PortRow(t, p, r)
  <2>1. ASSUME NEW r \in Range(middle) PROVE \E p \in Range(Controllers(t)) : PortRow(t, p, r)
    <3>1. PICK k \in 1 .. n : r \in Range(ss[k])
      BY <1>11
    <3>2. Controllers(t)[k] \in Range(Controllers(t)) /\ PortRow(t, Controllers(t)[k], r)
      BY <1>5, <1>9, <3>1
    <3> QED BY <3>2
  <2>2. ASSUME NEW r, NEW p \in Range(Controllers(t)), PortRow(t, p, r) PROVE r \in Range(middle)
    <3>1. PICK k \in 1 .. n : p = Controllers(t)[k]
      BY <1>5
    <3>2. r \in Range(ss[k])
      BY <1>9, <2>2, <3>1
    <3> QED BY <1>11, <3>2
  <2> QED BY <2>1, <2>2
<1>13. \A r \in Range(own) : r.path[1] = "Controls"
  BY <1>3, OwnKind
<1>14. \A r \in Range(middle) : r.path[1] \notin {"Controls", "@tape"}
  BY <1>12, PortKind
<1>15. \A r \in Range(tape) : r.path[1] = "@tape"
  BY <1>4, TapeKind
<1>16. /\ Range(own) \intersect Range(middle) = {}
       /\ (Range(own) \union Range(middle)) \intersect Range(tape) = {}
  BY <1>13, <1>14, <1>15
<1>17. /\ IsList(own \o middle) /\ IsInjective(own \o middle)
       /\ Range(own \o middle) = Range(own) \union Range(middle)
  BY <1>3, <1>11, <1>16, TwoJoined
<1> DEFINE front == own \o middle
<1> HIDE DEF front
<1>18. /\ IsList(front \o tape) /\ IsInjective(front \o tape)
       /\ Range(front \o tape) = Range(own) \union Range(middle) \union Range(tape)
  BY <1>4, <1>16, <1>17, TwoJoined DEF front
<1>19. RowsOf(Describe(t)) = front \o tape
  BY <1>1 DEF front
<1>20. \A r : r \in Range(front \o tape) <=> IsRow(t, r)
  BY <1>3, <1>4, <1>12, <1>18 DEF IsRow
<1> QED BY <1>18, <1>19, <1>20

\* A control's kind is a button's or an axis'.
LEMMA RowsAreOfAKind ==
    ASSUME NEW t, IsTreeOfSpec(t), NEW r, IsRow(t, r)
    PROVE  r.axis \in BOOLEAN
<1>1. IsTree(t)
  BY TreesAreTrees DEF IsTreeOfSpec
<1>2. CASE OwnRow(t, r)
  <2>1. PICK c : OfConsole(t, c) /\ r.axis = c.axis
    BY <1>1, <1>2, OwnRowFacts
  <2>2. PICK i \in Range(t.console) : c = Control(<<"Controls">>, i)
    BY <2>1 DEF OfConsole
  <2>3. c.axis = i.axis /\ Controls(t.console)
    BY <1>1, <2>2 DEF Control, IsTree
  <2> QED BY <2>1, <2>3 DEF Controls
<1>3. ASSUME NEW p \in Range(Controllers(t)), PortRow(t, p, r) PROVE r.axis \in BOOLEAN
  <2>1. InAccount(t, p)
    BY DEF InAccount
  <2>2. PICK d \in Range(Offered(p)) : DeviceRow(t, p, d, r)
    BY <1>3 DEF PortRow
  <2>3. PICK c : OfDevice(t, p, d, c) /\ r.axis = c.axis
    BY <2>1, <2>2, DeviceRowFacts DEF DeviceRowOf
  <2>4. PICK i \in Range(t.inputs[d]) : c = Control(<<p.name, d>>, i)
    BY <2>3 DEF OfDevice
  <2>5. c.axis = i.axis
    BY <2>4 DEF Control
  <2>6. Controls(t.inputs[d])
    BY <1>1, <2>1, AccountPorts DEF IsTree
  <2> QED BY <2>3, <2>5, <2>6 DEF Controls
<1>4. CASE TapeRow(r)
  BY <1>4, TapeKind
<1> QED BY <1>2, <1>3, <1>4 DEF IsRow

\* The table of a tree: its buttons and its axes are the rows, each once.
LEMMA DeclareHolds ==
    ASSUME NEW t, IsTreeOfSpec(t), NEW table, table = Declare(Describe(t))
    PROVE  /\ table = [buttons |-> table.buttons, axes |-> table.axes]
           /\ IsList(table.buttons) /\ IsInjective(table.buttons)
           /\ IsList(table.axes) /\ IsInjective(table.axes)
           /\ \A r : r \in Range(table.buttons) <=> IsRow(t, r) /\ ~r.axis
           /\ \A r : r \in Range(table.axes) <=> IsRow(t, r) /\ r.axis
<1> DEFINE rows == RowsOf(Describe(t))
           off == {r \in Range(rows) : ~r.axis}
           on == {r \in Range(rows) : r.axis}
<1>1. table = [buttons |-> Only(rows, off), axes |-> Only(rows, on)]
  BY DeclareInParts
<1>2. IsList(rows) /\ IsInjective(rows) /\ \A r : r \in Range(rows) <=> IsRow(t, r)
  BY RowsOfHold
<1>3. Range(rows) \intersect off = off /\ Range(rows) \intersect on = on
  OBVIOUS
<1>4. (\A r : r \in off <=> IsRow(t, r) /\ ~r.axis) /\ (\A r : r \in on <=> IsRow(t, r) /\ r.axis)
  BY <1>2
<1> HIDE DEF rows, off, on
<1>5. IsList(Only(rows, off)) /\ IsInjective(Only(rows, off)) /\ Range(Only(rows, off)) = off
  BY <1>2, <1>3, Selected
<1>6. IsList(Only(rows, on)) /\ IsInjective(Only(rows, on)) /\ Range(Only(rows, on)) = on
  BY <1>2, <1>3, Selected
<1>7. table.buttons = Only(rows, off) /\ table.axes = Only(rows, on)
  BY <1>1
<1> QED BY <1>1, <1>4, <1>5, <1>6, <1>7

-----------------------------------------------------------------------------
(* What the table of a tree is bound to in a machine.                          *)

\* Where a row of the table leads, whatever the machine is made of.
Answer(row, plugged) ==
    IF \/ row \in Range(Transport)
       \/ row.path[1] = "Controls" /\ Len(row.path) = 2
       \/ row.path[1] # "Controls" /\ Len(row.path) = 3 /\ <<row.path[1], row.path[2]>> \in plugged
    THEN row.path ELSE <<>>

LEMMA FindHolds ==
    ASSUME NEW t, IsTreeOfSpec(t), NEW plugged, NEW r, IsRow(t, r)
    PROVE  Find(Walk(t, plugged), r) = Answer(r, plugged)
<1> DEFINE controls == Walk(t, plugged)
           found == \E c \in Range(controls) : c.path = r.path /\ c.axis = r.axis /\ c.name \notin DOMAIN Split
<1>1. IsTree(t)
  BY TreesAreTrees DEF IsTreeOfSpec
<1>2. /\ IsList(controls)
      /\ \A c : c \in Range(controls) <=>
             \/ OfConsole(t, c)
             \/ \E p \in Range(t.ports) : \E d \in Range(p.supported) :
                   <<p.name, d>> \in plugged /\ OfDevice(t, p, d, c)
  BY <1>1, WalkHolds
<1> HIDE DEF controls
<1>3. Find(controls, r) = IF r \in Range(Transport) \/ found THEN r.path ELSE <<>>
  <2>1. \A c : c \in Range(controls) <=> \E i \in 1 .. Len(controls) : c = controls[i]
    BY <1>2, ListFacts
  <2>2. found <=> \E i \in 1 .. Len(controls) : /\ controls[i].path = r.path /\ controls[i].axis = r.axis
                                                /\ controls[i].name \notin DOMAIN Split
    BY <2>1
  <2> QED BY <2>2 DEF Find
<1>4. CASE OwnRow(t, r)
  <2>1. PICK c : OfConsole(t, c) /\ r.axis = c.axis /\ r.path = c.path
    BY <1>1, <1>4, OwnRowFacts
  <2>2. r.path[1] = "Controls" /\ (Len(r.path) = 2 <=> c.name \notin DOMAIN Split)
    BY <2>1, ConsoleFacts
  <2>3. r \notin Range(Transport)
    <3>1. \A q \in Range(Transport) : q.path[1] = "@tape"
      BY TransportHolds
    <3> QED BY <2>2, <3>1
  <2>4. ASSUME c.name \notin DOMAIN Split PROVE found
    BY <1>2, <2>1, <2>4
  <2>5. ASSUME found PROVE c.name \notin DOMAIN Split
    <3>1. PICK b \in Range(controls) : b.path = r.path /\ b.name \notin DOMAIN Split
      BY <2>5
    <3>2. OfConsole(t, b)
      <4> SUFFICES ASSUME ~OfConsole(t, b) PROVE FALSE
        OBVIOUS
      <4>1. PICK q \in Range(t.ports) : \E e \in Range(q.supported) : <<q.name, e>> \in plugged /\ OfDevice(t, q, e, b)
        BY <1>2, <3>1
      <4>2. b.path[1] = q.name
        BY <4>1, DeviceFacts
      <4>3. q.name # "Controls"
        BY <1>1 DEF IsTree
      <4> QED BY <2>2, <3>1, <4>2, <4>3
    <3>3. b = c
      BY <1>1, <2>1, <3>1, <3>2, ConsolePathsApart
    <3> QED BY <3>1, <3>3
  <2> HIDE DEF found
  <2> QED BY <1>3, <2>2, <2>3, <2>4, <2>5 DEF Answer, controls
<1>5. ASSUME NEW p \in Range(Controllers(t)), PortRow(t, p, r) PROVE Find(controls, r) = Answer(r, plugged)
  <2>1. InAccount(t, p)
    BY DEF InAccount
  <2>2. PICK d \in Range(Offered(p)) : DeviceRow(t, p, d, r)
    BY <1>5 DEF PortRow
  <2>3. PICK c : OfDevice(t, p, d, c) /\ r.axis = c.axis /\ r.path = c.path
    BY <2>1, <2>2, DeviceRowFacts DEF DeviceRowOf
  <2>4. r.path[1] = p.name /\ r.path[2] = d /\ r.path[1] \notin {"Controls", "@tape"}
    BY <2>1, <2>2, DeviceRowPath
  <2>40. Len(r.path) = 3 <=> c.name \notin DOMAIN Split
    BY <2>3, DeviceFacts
  <2>5. p \in Range(t.ports) /\ d \in Range(p.supported)
    BY <2>1, AccountPorts
  <2>6. r \notin Range(Transport)
    <3>1. \A q \in Range(Transport) : q.path[1] = "@tape"
      BY TransportHolds
    <3> QED BY <2>4, <3>1
  <2>7. Answer(r, plugged) = IF c.name \notin DOMAIN Split /\ <<p.name, d>> \in plugged THEN r.path ELSE <<>>
    BY <2>4, <2>40, <2>6 DEF Answer
  <2>8. ASSUME <<p.name, d>> \in plugged, c.name \notin DOMAIN Split PROVE found
    BY <1>2, <2>3, <2>5, <2>8
  <2>9. ASSUME found PROVE <<p.name, d>> \in plugged /\ c.name \notin DOMAIN Split
    <3>1. PICK b \in Range(controls) : b.path = r.path /\ b.name \notin DOMAIN Split
      BY <2>9
    <3>2. ~OfConsole(t, b)
      <4>1. OfConsole(t, b) => b.path[1] = "Controls"
        BY ConsoleFacts
      <4> QED BY <2>4, <3>1, <4>1
    <3>3. PICK q \in Range(t.ports) : \E e \in Range(q.supported) : <<q.name, e>> \in plugged /\ OfDevice(t, q, e, b)
      BY <1>2, <3>1, <3>2
    <3>30. PICK e \in Range(q.supported) : <<q.name, e>> \in plugged /\ OfDevice(t, q, e, b)
      BY <3>3
    <3>4. b.path[1] = q.name /\ b.path[2] = e
      BY <3>30, DeviceFacts
    <3>5. q.name = p.name /\ e = d
      BY <2>4, <3>1, <3>4
    <3>6. q = p
      BY <1>1, <2>5, <3>5, PortsApart
    <3>7. b = c
      BY <1>1, <2>3, <2>5, <3>1, <3>30, <3>5, <3>6, DevicePathsApart
    <3> QED BY <3>1, <3>30, <3>5, <3>7
  <2> HIDE DEF found
  <2> QED BY <1>3, <2>6, <2>7, <2>8, <2>9
<1>6. CASE TapeRow(r)
  BY <1>3, <1>6 DEF Answer, TapeRow, controls
<1> QED BY <1>4, <1>5, <1>6 DEF IsRow, controls

\* What each index drives, by the machine and by the table alone.
BoundBy(table, tree, plugged) ==
    IF table = Unbuilt THEN [buttons |-> <<>>, axes |-> <<>>]
    ELSE [buttons |-> [i \in 1 .. Len(table.buttons) |-> Find(Walk(tree, plugged), table.buttons[i])],
          axes    |-> [i \in 1 .. Len(table.axes) |-> Find(Walk(tree, plugged), table.axes[i])]]

Answers(table, plugged) ==
    [buttons |-> [i \in 1 .. Len(table.buttons) |-> Answer(table.buttons[i], plugged)],
     axes    |-> [i \in 1 .. Len(table.axes) |-> Answer(table.axes[i], plugged)]]

LEMMA BindInputsIsBound == ASSUME NEW plugged PROVE BindInputs(plugged) = BoundBy(inc, ares, plugged)
BY DEF BindInputs, BoundBy

\* A table and a machine that was never described are not the same.
LEMMA TablesAreBuilt == ASSUME NEW x, NEW y PROVE [buttons |-> x, axes |-> y] # Unbuilt
<1>1. "buttons" \in DOMAIN [buttons |-> x, axes |-> y]
  OBVIOUS
<1>2. "buttons" \notin DOMAIN [loads |-> FALSE]
  OBVIOUS
<1> QED BY <1>1, <1>2 DEF Unbuilt

LEMMA BoundByTheTable ==
    ASSUME NEW t, IsTreeOfSpec(t), NEW table, table = Declare(Describe(t)), NEW plugged
    PROVE  BoundBy(table, t, plugged) = Answers(table, plugged)
<1>1. /\ table = [buttons |-> table.buttons, axes |-> table.axes]
      /\ IsList(table.buttons) /\ IsList(table.axes)
      /\ \A r : r \in Range(table.buttons) <=> IsRow(t, r) /\ ~r.axis
      /\ \A r : r \in Range(table.axes) <=> IsRow(t, r) /\ r.axis
  BY DeclareHolds
<1>2. table # Unbuilt
  BY <1>1, TablesAreBuilt
<1>3. \A i \in 1 .. Len(table.buttons) :
         Find(Walk(t, plugged), table.buttons[i]) = Answer(table.buttons[i], plugged)
  <2>1. \A i \in 1 .. Len(table.buttons) : table.buttons[i] \in Range(table.buttons)
    BY <1>1, ListFacts
  <2> QED BY <1>1, <2>1, FindHolds
<1>4. \A i \in 1 .. Len(table.axes) :
         Find(Walk(t, plugged), table.axes[i]) = Answer(table.axes[i], plugged)
  <2>1. \A i \in 1 .. Len(table.axes) : table.axes[i] \in Range(table.axes)
    BY <1>1, ListFacts
  <2> QED BY <1>1, <2>1, FindHolds
<1>5. [i \in 1 .. Len(table.buttons) |-> Find(Walk(t, plugged), table.buttons[i])]
         = [i \in 1 .. Len(table.buttons) |-> Answer(table.buttons[i], plugged)]
  BY <1>3
<1>6. [i \in 1 .. Len(table.axes) |-> Find(Walk(t, plugged), table.axes[i])]
         = [i \in 1 .. Len(table.axes) |-> Answer(table.axes[i], plugged)]
  BY <1>4
<1> QED BY <1>2, <1>5, <1>6 DEF BoundBy, Answers

-----------------------------------------------------------------------------
(* The machine is one through a behaviour, and so is what is made of a tree.   *)

LEMMA SameOffer == ASSUME spec' = spec, NEW p PROVE Offered(p)' = Offered(p)
BY DEF Offered

LEMMA SameAccount == ASSUME spec' = spec, NEW t PROVE Describe(t)' = Describe(t)
BY Zenon DEF Describe, Offered

LEMMA SameRows == ASSUME spec' = spec, NEW a PROVE PortRows(a)' = PortRows(a)
BY Zenon DEF PortRows, InReadingOrder

\* What Declare makes of its rows.
Made(x) == [buttons |-> Only(x, {r \in Range(x) : ~r.axis}), axes |-> Only(x, {r \in Range(x) : r.axis})]

MadeOfRows == \A a, x : x = RowsOf(a) => Declare(a) = Made(x)

LEMMA DeclareIsMade == MadeOfRows
BY DeclareInParts DEF Made, MadeOfRows

LEMMA SameMiddle ==
    ASSUME spec' = spec, NEW s
    PROVE  [k \in 1 .. Len(s) |-> PortRows(s[k])]' = [k \in 1 .. Len(s) |-> PortRows(s[k])]
<1>1. \A k \in 1 .. Len(s) : PortRows(s[k])' = PortRows(s[k])
  BY SameRows
<1> QED BY <1>1, Zenon

LEMMA SameRowsOf == ASSUME spec' = spec, NEW a PROVE RowsOf(a)' = RowsOf(a)
<1>1. [k \in 1 .. Len(a.ports) |-> PortRows(a.ports[k])]' = [k \in 1 .. Len(a.ports) |-> PortRows(a.ports[k])]
  BY SameMiddle
<1> QED BY <1>1, Zenon DEF RowsOf

LEMMA SameTable == \A a : spec' = spec => Declare(a)' = Declare(a)
<1>1. MadeOfRows'
  BY DeclareIsMade, PTL
<1> SUFFICES ASSUME NEW a, spec' = spec PROVE Declare(a)' = Declare(a)
  OBVIOUS
<1>2. RowsOf(a)' = RowsOf(a)
  BY SameRowsOf
<1>3. PICK x : x = RowsOf(a)
  OBVIOUS
<1>4. Declare(a)' = Made(x)
  BY <1>1, <1>2, <1>3 DEF MadeOfRows
<1>5. Declare(a) = Made(x)
  BY <1>3, DeclareIsMade DEF MadeOfRows
<1> QED BY <1>4, <1>5

-----------------------------------------------------------------------------
(* The inductive invariant.                                                    *)

\* A table there may be, one edited by hand included.
IsTable(table) ==
    /\ table = [buttons |-> table.buttons, axes |-> table.axes]
    /\ IsList(table.buttons) /\ \A r \in Range(table.buttons) : ~r.axis

\* ares' account is of one of the machine's trees, if it is of any.
Accounted == json = Unbuilt \/ \E t \in spec.trees : json = Describe(t)

\* The table is the one of the tree that ares builds today.
Gated == inc = Declare(Describe(ares))

\* The inductive invariant: what the gate passed is made of today's tree; a
\* machine is bound by the table and the tree as they are; and a movie was
\* recorded on one that was bound by its table alone.
WireInv ==
    /\ spec \in Specs /\ ares \in spec.trees
    /\ Accounted
    /\ inc = Unbuilt \/ IsTable(inc)
    /\ verdict \in {"none", "matches", "skipped", "wrong"}
    /\ verdict = "matches" => Gated
    /\ machine # Unbuilt => /\ machine.bound = BoundBy(inc, ares, machine.plugged)
                            /\ machine.plugged \subseteq UNION Connected(ares)
    /\ movie # Unbuilt => movie.machine.bound = Answers(movie.inc, movie.machine.plugged)

LEMMA TheTableIsOne ==
    ASSUME NEW t, IsTreeOfSpec(t)
    PROVE  IsTable(Declare(Describe(t)))
<1> DEFINE table == Declare(Describe(t))
<1>1. /\ table = [buttons |-> table.buttons, axes |-> table.axes] /\ IsList(table.buttons)
      /\ \A r : r \in Range(table.buttons) <=> IsRow(t, r) /\ ~r.axis
  BY DeclareHolds
<1> QED BY <1>1 DEF IsTable

LEMMA StillAccounted == Accounted /\ spec' = spec /\ json' = json => Accounted'
<1> SUFFICES ASSUME Accounted, spec' = spec, json' = json PROVE Accounted'
  OBVIOUS
<1>1. CASE json = Unbuilt
  BY <1>1 DEF Accounted, Unbuilt
<1>2. ASSUME NEW t \in spec.trees, json = Describe(t) PROVE Accounted'
  <2>1. Describe(t)' = Describe(t)
    BY SameAccount
  <2> QED BY <1>2, <2>1 DEF Accounted
<1> QED BY <1>1, <1>2 DEF Accounted

GatedByParts == Gated <=> \E t, a : t = ares /\ a = Describe(t) /\ inc = Declare(a)

LEMMA GatedInParts == GatedByParts
BY DEF GatedByParts, Gated

LEMMA StillGated == Gated /\ UNCHANGED <<spec, ares, inc>> => Gated'
<1>1. GatedByParts'
  BY GatedInParts, PTL
<1> SUFFICES ASSUME Gated, UNCHANGED <<spec, ares, inc>> PROVE Gated'
  OBVIOUS
<1>2. PICK t, a : t = ares /\ a = Describe(t) /\ inc = Declare(a)
  BY DEF Gated
<1>3. Describe(t)' = Describe(t) /\ Declare(a)' = Declare(a)
  BY SameAccount, SameTable
<1> QED BY <1>1, <1>2, <1>3 DEF GatedByParts

LEMMA WireStarts == Init => WireInv
<1> SUFFICES ASSUME Init PROVE WireInv
  OBVIOUS
<1>1. IsTreeOfSpec(ares)
  BY DEF Init, IsTreeOfSpec
<1>2. Accounted
  BY DEF Init, Accounted
<1>3. inc = Unbuilt \/ IsTable(inc)
  BY <1>1, TheTableIsOne DEF Init, RenderInc
<1> QED BY <1>1, <1>2, <1>3 DEF Init, WireInv, IsTreeOfSpec

\* Two buttons that change places are still the same buttons.
LEMMA EditedTable ==
    ASSUME NEW table, IsTable(table), Len(table.buttons) >= 2
    PROVE  IsTable([table EXCEPT !.buttons[1] = table.buttons[2], !.buttons[2] = table.buttons[1]])
<1> DEFINE b == table.buttons
           swapped == [b EXCEPT ![1] = b[2], ![2] = b[1]]
           edited == [table EXCEPT !.buttons[1] = table.buttons[2], !.buttons[2] = table.buttons[1]]
<1>1. table = [buttons |-> table.buttons, axes |-> table.axes] /\ IsList(b) /\ \A r \in Range(b) : ~r.axis
  BY DEF IsTable
<1>2. Len(b) \in Nat /\ DOMAIN b = 1 .. Len(b) /\ \A i \in 1 .. Len(b) : b[i] \in Range(b)
  BY <1>1, ListFacts
<1>3. edited.buttons = swapped /\ edited = [buttons |-> edited.buttons, axes |-> edited.axes]
  <2> DEFINE one == [table EXCEPT !.buttons = [b EXCEPT ![1] = b[2]]]
             both == [one EXCEPT !.buttons = [one.buttons EXCEPT ![2] = b[1]]]
  <2>1. edited = both
    OBVIOUS
  <2>2. one.buttons = [b EXCEPT ![1] = b[2]] /\ one = [buttons |-> one.buttons, axes |-> one.axes]
    BY <1>1
  <2> HIDE DEF one, edited
  <2>3. both.buttons = [one.buttons EXCEPT ![2] = b[1]] /\ both = [buttons |-> both.buttons, axes |-> both.axes]
    BY <2>2
  <2>4. both.buttons = swapped
    <3>1. [[b EXCEPT ![1] = b[2]] EXCEPT ![2] = b[1]] = swapped
      OBVIOUS
    <3> QED BY <2>2, <2>3, <3>1
  <2> QED BY <2>1, <2>3, <2>4
<1>4. 1 \in 1 .. Len(b) /\ 2 \in 1 .. Len(b)
  BY <1>2
<1>5. swapped \in [1 .. Len(b) -> Range(b)]
  <2>1. b \in Seq(Range(b))
    BY <1>1 DEF IsList
  <2> HIDE DEF b
  <2>2. b \in [1 .. Len(b) -> Range(b)]
    BY <1>2, <2>1
  <2> QED BY <1>2, <1>4, <2>2
<1> HIDE DEF swapped, edited
<1>6. IsList(swapped) /\ Range(swapped) \subseteq Range(b)
  <2>1. PICK n \in Nat : n = Len(b)
    BY <1>2
  <2>2. swapped = [i \in 1 .. n |-> swapped[i]] /\ \A i \in 1 .. n : swapped[i] \in Range(b)
    BY <1>5, <2>1
  <2>3. IsList(swapped) /\ \A x : x \in Range(swapped) <=> \E i \in 1 .. n : x = swapped[i]
    BY <2>2, FunctionIsList
  <2> QED BY <2>2, <2>3
<1>7. IsTable(edited)
  BY <1>1, <1>3, <1>6 DEF IsTable
<1> QED BY <1>7 DEF edited

LEMMA WireSteps == WireInv /\ [Next]_vars => WireInv'
<1> SUFFICES ASSUME WireInv, [Next]_vars PROVE WireInv'
  OBVIOUS
<1> USE DEF WireInv
<1>0. IsTreeOfSpec(ares)
  BY DEF IsTreeOfSpec
<1>1. CASE Update
  <2>1. Accounted'
    BY <1>1, StillAccounted DEF Update
  <2> QED BY <1>1, <2>1 DEF Update, Unbuilt
<1>2. ASSUME NEW provided, Regenerate(provided) PROVE WireInv'
  <2>1. Account(provided) = Unbuilt \/ Account(provided) = Describe(ares)
    BY DEF Account
  <2>2. Accounted'
    <3>1. PICK t \in spec.trees : t = ares
      OBVIOUS
    <3>2. Describe(t)' = Describe(t)
      BY <1>2, SameAccount DEF Regenerate
    <3> QED BY <1>2, <2>1, <3>1, <3>2 DEF Regenerate, Accounted, Unbuilt
  <2>3. inc' = Unbuilt \/ IsTable(inc')
    BY <1>0, <1>2, <2>1, TheTableIsOne DEF Regenerate, RenderInc
  <2> QED BY <1>2, <2>2, <2>3 DEF Regenerate, Unbuilt
<1>3. ASSUME NEW provided, Check(provided) PROVE WireInv'
  <2>1. Accounted'
    BY <1>3, StillAccounted DEF Check
  <2>2. verdict' \in {"none", "matches", "skipped", "wrong"}
    BY <1>3 DEF Check, CheckAgainst
  <2>3. verdict' = "matches" => Gated
    <3>1. verdict' = "matches" => inc = RenderInc(json) /\ Account(provided) = json /\ json # Unbuilt
      BY <1>3 DEF Check, CheckAgainst
    <3>2. Account(provided) # Unbuilt => Account(provided) = Describe(ares)
      BY DEF Account
    <3> QED BY <3>1, <3>2 DEF RenderInc, Gated
  <2>4. verdict' = "matches" => Gated'
    BY <1>3, <2>3, StillGated DEF Check
  <2> QED BY <1>3, <2>1, <2>2, <2>4 DEF Check, Unbuilt
<1>4. CASE Edit
  <2>1. Accounted'
    BY <1>4, StillAccounted DEF Edit
  <2>2. IsTable(inc')
    BY <1>4, EditedTable DEF Edit
  <2> QED BY <1>4, <2>1, <2>2 DEF Edit, Unbuilt
<1>5. ASSUME NEW plugged \in Connected(ares), Assemble(plugged) PROVE WireInv'
  <2>1. Accounted' /\ (verdict' = "matches" => Gated')
    BY <1>5, StillAccounted, StillGated DEF Assemble
  <2>2. machine'.bound = BoundBy(inc, ares, plugged) /\ machine'.plugged = plugged
    BY <1>5, BindInputsIsBound DEF Assemble
  <2> QED BY <1>5, <2>1, <2>2 DEF Assemble, Unbuilt
<1>6. CASE Record
  <2>1. Accounted' /\ (verdict' = "matches" => Gated')
    BY <1>6, StillAccounted, StillGated DEF Record
  <2>2. machine.bound = Answers(inc, machine.plugged)
    <3>1. Gated /\ machine.bound = BoundBy(inc, ares, machine.plugged)
      BY <1>6 DEF Record
    <3> QED BY <1>0, <3>1, BoundByTheTable DEF Gated
  <2>3. movie'.inc = inc /\ movie'.machine = machine
    BY <1>6 DEF Record
  <2> QED BY <1>6, <2>1, <2>2, <2>3 DEF Record, Unbuilt
<1>7. CASE UNCHANGED vars
  <2>1. Accounted' /\ (verdict' = "matches" => Gated')
    BY <1>7, StillAccounted, StillGated DEF vars
  <2> QED BY <1>7, <2>1 DEF vars, Unbuilt
<1> QED BY <1>1, <1>2, <1>3, <1>4, <1>5, <1>6, <1>7 DEF Next

LEMMA WireAlways == Spec => []WireInv
BY WireStarts, WireSteps, PTL DEF Spec

-----------------------------------------------------------------------------
\* Every variable has its type: gen-machines, gen-config, the gate and the
\* guest write only what each other can read.
THEOREM WireTypesHold == Spec => []TypeOK
<1>1. WireInv => TypeOK
  BY DEF WireInv, TypeOK, Accounted, IsTable
<1> QED BY <1>1, WireAlways, PTL

\* "A newer ares that renames or reorders a button cannot quietly renumber
\* somebody's movie": whatever machine the gate passed a movie was recorded on,
\* and whatever was edited, generated and gated since, each index drives there
\* what it drove in the recording.
THEOREM MoviesAreNeverRenumbered == Spec => []NeverQuietlyRenumbered
<1>1. WireInv => NeverQuietlyRenumbered
  <2> SUFFICES ASSUME WireInv, machine # Unbuilt, movie # Unbuilt, verdict = "matches",
                      inc = movie.inc, machine.plugged = movie.machine.plugged
               PROVE  machine.bound = movie.machine.bound
    BY DEF NeverQuietlyRenumbered
  <2>1. IsTreeOfSpec(ares) /\ Gated
    BY DEF WireInv, IsTreeOfSpec
  <2>2. machine.bound = BoundBy(inc, ares, machine.plugged)
    BY DEF WireInv
  <2>3. machine.bound = Answers(inc, machine.plugged)
    BY <2>1, <2>2, BoundByTheTable DEF Gated
  <2>4. movie.machine.bound = Answers(movie.inc, movie.machine.plugged)
    BY DEF WireInv
  <2> QED BY <2>3, <2>4
<1> QED BY <1>1, WireAlways, PTL

\* A control that a machine of today's tree has is in the table's rows.
LEMMA ControlsHaveRows ==
    ASSUME NEW t, IsTreeOfSpec(t), NEW plugged, plugged \subseteq OfferedIn(t),
           NEW c \in Range(Walk(t, plugged))
    PROVE  /\ \E r : /\ IsRow(t, r) /\ r.path = c.path /\ r.axis = c.axis
                     /\ Answer(r, plugged) = IF c.name \in DOMAIN Split THEN <<>> ELSE c.path
           /\ c.path # <<>>
<1>1. IsTree(t)
  BY TreesAreTrees DEF IsTreeOfSpec
<1>2. \A prefix : LET r == Row(prefix, c) IN r.path = c.path /\ r.axis = c.axis
  BY DEF Row
<1>3. CASE OfConsole(t, c)
  <2> DEFINE r == Row(<<>>, c)
  <2>1. OwnRow(t, r)
    BY <1>1, <1>3, WalkWithNothing DEF OwnRow
  <2>2. r.path = c.path /\ r.axis = c.axis
    BY <1>2
  <2> HIDE DEF r
  <2>3. c.path[1] = "Controls" /\ (Len(c.path) = 2 <=> c.name \notin DOMAIN Split) /\ c.path # <<>>
    BY <1>3, ConsoleFacts
  <2>4. r \notin Range(Transport)
    BY <2>2, <2>3, TransportHolds
  <2>5. Answer(r, plugged) = IF c.name \in DOMAIN Split THEN <<>> ELSE c.path
    BY <2>2, <2>3, <2>4 DEF Answer
  <2> QED BY <2>1, <2>2, <2>3, <2>5 DEF IsRow
<1>4. CASE ~OfConsole(t, c)
  <2>1. PICK p \in Range(t.ports) : \E d \in Range(p.supported) : <<p.name, d>> \in plugged /\ OfDevice(t, p, d, c)
    BY <1>1, <1>4, WalkHolds
  <2>2. PICK d \in Range(p.supported) : <<p.name, d>> \in plugged /\ OfDevice(t, p, d, c)
    BY <2>1
  <2>3. PICK q \in Range(t.ports) : q.supported # <<>> /\ <<p.name, d>> \in {<<q.name, e>> : e \in Range(Offered(q))}
    BY <2>2 DEF OfferedIn
  <2>4. q.name = p.name /\ d \in Range(Offered(q))
    BY <2>3
  <2>5. q = p
    BY <1>1, <2>4, PortsApart
  <2>6. Offered(p) # <<>>
    BY <2>4, <2>5, EmptyList
  <2>7. p \in Range(Controllers(t)) /\ p.supported # <<>>
    BY <2>3, <2>5, <2>6, ControllersHold
  <2> DEFINE r == Row(PrefixFor(p, d), c)
  <2>8. r.path = c.path /\ r.axis = c.axis
    BY <1>2
  <2>9. DeviceRow(t, p, d, r)
    <3>1. c \in Range(Added(t, p, d))
      BY <1>1, <2>2, AddedHolds
    <3> QED BY <3>1 DEF DeviceRow
  <2> HIDE DEF r
  <2>10. PortRow(t, p, r)
    BY <2>4, <2>5, <2>9 DEF PortRow
  <2>11. c.path[1] = p.name /\ c.path[2] = d /\ (Len(c.path) = 3 <=> c.name \notin DOMAIN Split) /\ c.path # <<>>
    BY <2>2, DeviceFacts
  <2>12. p.name \notin {"Controls", "@tape"}
    BY <1>1 DEF IsTree
  <2>13. r \notin Range(Transport)
    BY <2>8, <2>11, <2>12, TransportHolds
  <2>14. Answer(r, plugged) = IF c.name \in DOMAIN Split THEN <<>> ELSE c.path
    BY <2>2, <2>8, <2>11, <2>12, <2>13 DEF Answer
  <2> QED BY <2>7, <2>8, <2>10, <2>11, <2>14 DEF IsRow
<1> QED BY <1>3, <1>4

\* On a package the gate has passed with the machine built, every control of
\* the console and of the devices offered is driven by exactly one index of its
\* own kind, in every machine and with every choice of devices; but a control
\* with a '/' in its name is driven by none, whatever else the machine is made of.
THEOREM ControlsAreAlwaysReached == Spec => []EveryControlIsReached
<1>1. WireInv => EveryControlIsReached
  <2> SUFFICES ASSUME WireInv, machine # Unbuilt, verdict = "matches",
                      machine.plugged \subseteq OfferedIn(ares),
                      NEW c \in Range(Walk(ares, machine.plugged))
               PROVE  LET bound == IF c.axis THEN machine.bound.axes ELSE machine.bound.buttons
                      IN  Cardinality({i \in 1 .. Len(bound) : bound[i] = c.path}) =
                              IF c.name \in DOMAIN Split THEN 0 ELSE 1
    BY DEF EveryControlIsReached
  <2> DEFINE plugged == machine.plugged
             rows == IF c.axis THEN inc.axes ELSE inc.buttons
             bound == IF c.axis THEN machine.bound.axes ELSE machine.bound.buttons
  <2>1. IsTreeOfSpec(ares) /\ Gated
    BY DEF WireInv, IsTreeOfSpec
  <2>2. machine.bound = Answers(inc, plugged)
    <3>1. machine.bound = BoundBy(inc, ares, plugged)
      BY DEF WireInv
    <3> QED BY <2>1, <3>1, BoundByTheTable DEF Gated
  <2>3. /\ IsList(inc.buttons) /\ IsInjective(inc.buttons) /\ IsList(inc.axes) /\ IsInjective(inc.axes)
        /\ \A r : r \in Range(inc.buttons) <=> IsRow(ares, r) /\ ~r.axis
        /\ \A r : r \in Range(inc.axes) <=> IsRow(ares, r) /\ r.axis
    BY <2>1, DeclareHolds DEF Gated
  <2>4. PICK r : /\ IsRow(ares, r) /\ r.path = c.path /\ r.axis = c.axis
                 /\ Answer(r, plugged) = IF c.name \in DOMAIN Split THEN <<>> ELSE c.path
    BY <2>1, ControlsHaveRows
  <2>5. /\ IsList(rows) /\ IsInjective(rows) /\ r \in Range(rows)
        /\ \A q \in Range(rows) : IsRow(ares, q)
    BY <2>3, <2>4
  <2>6. bound = [i \in 1 .. Len(rows) |-> Answer(rows[i], plugged)]
    <3>1. machine.bound.axes = [i \in 1 .. Len(inc.axes) |-> Answer(inc.axes[i], plugged)]
      BY <2>2 DEF Answers
    <3>2. machine.bound.buttons = [i \in 1 .. Len(inc.buttons) |-> Answer(inc.buttons[i], plugged)]
      BY <2>2 DEF Answers
    <3>3. CASE c.axis
      BY <3>1, <3>3
    <3>4. CASE ~c.axis
      BY <3>2, <3>4
    <3> QED BY <3>3, <3>4
  <2> HIDE DEF bound, rows, plugged
  <2>7. Len(rows) \in Nat /\ DOMAIN rows = 1 .. Len(rows) /\ \A x : x \in Range(rows) <=> \E i \in 1 .. Len(rows) : x = rows[i]
    BY <2>5, ListFacts
  <2>8. Len(bound) = Len(rows) /\ \A i \in 1 .. Len(rows) : bound[i] = Answer(rows[i], plugged)
    <3>1. bound = [i \in 1 .. Len(rows) |-> bound[i]]
      BY <2>6
    <3>2. Len(bound) = Len(rows)
      BY <2>7, <3>1, FunctionIsList
    <3> QED BY <2>6, <3>2
  <2>9. PICK k \in 1 .. Len(rows) : rows[k] = r
    BY <2>5, <2>7
  <2>10. c.path # <<>>
    BY <2>1, ControlsHaveRows
  <2>11. ASSUME NEW i \in 1 .. Len(rows), bound[i] = c.path PROVE i = k
    <3>1. rows[i].path = c.path
      BY <2>8, <2>10, <2>11 DEF Answer
    <3>2. IsRow(ares, rows[i])
      BY <2>5, <2>7
    <3>3. rows[i] = r
      BY <2>1, <2>4, <3>1, <3>2, RowsApart
    <3> QED BY <2>5, <2>7, <2>9, <3>3 DEF IsInjective
  <2>12. CASE c.name \notin DOMAIN Split
    <3>1. {i \in 1 .. Len(bound) : bound[i] = c.path} = {k}
      BY <2>4, <2>8, <2>9, <2>11, <2>12
    <3>2. Cardinality({i \in 1 .. Len(bound) : bound[i] = c.path}) = 1
      BY <3>1, FS_Singleton
    <3> QED BY <2>12, <3>2 DEF bound
  <2>13. CASE c.name \in DOMAIN Split
    <3>1. bound[k] # c.path
      BY <2>4, <2>8, <2>9, <2>10, <2>13
    <3>2. {i \in 1 .. Len(bound) : bound[i] = c.path} = {}
      BY <2>8, <2>11, <3>1
    <3>3. Cardinality({i \in 1 .. Len(bound) : bound[i] = c.path}) = 0
      BY <3>2, FS_EmptySet
    <3> QED BY <2>13, <3>3 DEF bound
  <2> QED BY <2>12, <2>13
<1> QED BY <1>1, WireAlways, PTL

\* A row's name ends in a spelling without a log key's signs.
LEMMA NamesCanBeCarried ==
    ASSUME NEW t, IsTreeOfSpec(t), NEW r, IsRow(t, r)
    PROVE  r.name[Len(r.name)] \notin DOMAIN Spelt
BY OwnKind, PortKind, TapeKind DEF IsRow

\* A table the gate has passed names every control apart from every other, in
\* names that a movie's log key can be read back from.
THEOREM NamesAreAlwaysCarried == Spec => []EveryNameCanBeCarried
<1>1. WireInv => EveryNameCanBeCarried
  <2> DEFINE rows == inc.buttons \o inc.axes
  <2> SUFFICES ASSUME WireInv, verdict = "matches"
               PROVE  \A i, j \in 1 .. Len(rows) :
                         /\ rows[i].name = rows[j].name => i = j
                         /\ rows[i].name[Len(rows[i].name)] \notin DOMAIN Spelt
    BY DEF EveryNameCanBeCarried
  <2>1. IsTreeOfSpec(ares) /\ Gated
    BY DEF WireInv, IsTreeOfSpec
  <2>2. /\ IsList(inc.buttons) /\ IsInjective(inc.buttons) /\ IsList(inc.axes) /\ IsInjective(inc.axes)
        /\ \A r : r \in Range(inc.buttons) <=> IsRow(ares, r) /\ ~r.axis
        /\ \A r : r \in Range(inc.axes) <=> IsRow(ares, r) /\ r.axis
    BY <2>1, DeclareHolds DEF Gated
  <2>3. Range(inc.buttons) \intersect Range(inc.axes) = {}
    BY <2>2
  <2>4. IsList(rows) /\ IsInjective(rows) /\ \A r \in Range(rows) : IsRow(ares, r)
    BY <2>2, <2>3, TwoJoined
  <2> HIDE DEF rows
  <2>5. DOMAIN rows = 1 .. Len(rows) /\ \A i \in 1 .. Len(rows) : rows[i] \in Range(rows)
    BY <2>4, ListFacts
  <2> SUFFICES ASSUME NEW i \in 1 .. Len(rows), NEW j \in 1 .. Len(rows)
               PROVE  /\ rows[i].name = rows[j].name => i = j
                      /\ rows[i].name[Len(rows[i].name)] \notin DOMAIN Spelt
    OBVIOUS
  <2>6. IsRow(ares, rows[i]) /\ IsRow(ares, rows[j])
    BY <2>4, <2>5
  <2>7. ASSUME rows[i].name = rows[j].name PROVE i = j
    <3>1. rows[i] = rows[j]
      BY <2>1, <2>6, <2>7, RowsCalledApart
    <3> QED BY <2>4, <2>5, <3>1 DEF IsInjective
  <2>8. rows[i].name[Len(rows[i].name)] \notin DOMAIN Spelt
    BY <2>1, <2>6, NamesCanBeCarried
  <2> QED BY <2>7, <2>8
<1> QED BY <1>1, WireAlways, PTL

-----------------------------------------------------------------------------
(* The default keys.                                                           *)

LEMMA AccountPortsList ==
    ASSUME NEW t, IsTreeOfSpec(t)
    PROVE  /\ IsList(Describe(t).ports) /\ Len(Describe(t).ports) = Len(Controllers(t))
           /\ \A a : a \in Range(Describe(t).ports) <=> \E p \in Range(Controllers(t)) : a = PortAccount(t, p)
<1> DEFINE n == Len(Controllers(t))
           ports == Describe(t).ports
<1>1. /\ n \in Nat /\ \A x : x \in Range(Controllers(t)) <=> \E k \in 1 .. n : x = Controllers(t)[k]
  BY ControllersHold, ListFacts
<1>2. ports = [k \in 1 .. n |-> ports[k]] /\ \A k \in 1 .. n : ports[k] = PortAccount(t, Controllers(t)[k])
  BY DescribeInParts
<1> HIDE DEF n, ports
<1>3. IsList(ports) /\ Len(ports) = n /\ \A a : a \in Range(ports) <=> \E k \in 1 .. n : a = ports[k]
  BY <1>1, <1>2, FunctionIsList
<1>4. \A a : a \in Range(ports) <=> \E p \in Range(Controllers(t)) : a = PortAccount(t, p)
  BY <1>1, <1>2, <1>3
<1> QED BY <1>3, <1>4 DEF n, ports

\* On a machine that is a keyboard, the first port is that keyboard.
LEMMA TypedPort ==
    ASSUME NEW t, IsTreeOfSpec(t), spec.typed # {}, NEW p \in Range(Controllers(t))
    PROVE  /\ \A q \in Range(Controllers(t)) : q = p
           /\ \A d, e \in Range(Offered(p)) : d = e
           /\ FirstPort(Describe(t)) = Prefix[p.name]
<1> DEFINE account == Describe(t)
           numbered == Only(account.ports, {o \in Range(account.ports) : o.name # Keyboard})
<1>1. spec.devices = <<>> /\ \E o \in Range(t.ports) : {q \in Range(t.ports) : q.supported # <<>>} = {o}
  BY TypedAssumption DEF IsTreeOfSpec
<1>2. \A q \in Range(Controllers(t)) : q = p
  BY <1>1, ControllersHold
<1>3. \A d, e \in Range(Offered(p)) : d = e
  <2> DEFINE h == Head(p.supported)
  <2>1. Offered(p) = <<h>>
    BY <1>1 DEF Offered
  <2> HIDE DEF h
  <2>2. DOMAIN <<h>> = {1} /\ <<h>>[1] = h
    OBVIOUS
  <2>3. Range(<<h>>) = {h}
    BY <2>2 DEF Range
  <2> QED BY <2>1, <2>3
<1>4. IsList(account.ports) /\ \A a \in Range(account.ports) : a.name = p.name
  BY <1>2, AccountPortsList DEF PortAccount
<1>5. IsList(numbered) /\ \A a \in Range(numbered) : a.name = p.name
  BY <1>4, Selected
<1>6. account.ports # <<>>
  BY AccountPortsList, EmptyList
<1>7. ASSUME NEW s, IsList(s), s # <<>> PROVE Head(s) \in Range(s)
  <2>1. s \in Seq(Range(s))
    BY <1>7 DEF IsList
  <2> QED BY <1>7, <2>1
<1>8. numbered # <<>> => Head(numbered).name = p.name
  BY <1>5, <1>7
<1>9. Head(account.ports).name = p.name
  BY <1>4, <1>6, <1>7
<1>10. FirstPort(account) = Prefix[IF numbered # <<>> THEN Head(numbered).name ELSE Head(account.ports).name]
  BY DEF FirstPort
<1> HIDE DEF account, numbered
<1> QED BY <1>2, <1>3, <1>8, <1>9, <1>10 DEF account

\* Its keys are told apart by what is on them.
LEMMA TypedRows ==
    ASSUME NEW t, IsTreeOfSpec(t), spec.typed # {}, NEW r, NEW q, IsRow(t, r), IsRow(t, q),
           r.leaf \in spec.typed, q.leaf \in spec.typed, r.leaf = q.leaf
    PROVE  r = q
<1>1. IsTree(t)
  BY TreesAreTrees DEF IsTreeOfSpec
<1>2. /\ t.console = <<>> /\ {"play", "stop"} \intersect spec.typed = {}
      /\ \A n \in DOMAIN Split : Last(Split[n]) \notin spec.typed
  BY TypedAssumption DEF IsTreeOfSpec
<1>3. ASSUME NEW x, IsRow(t, x), x.leaf \in spec.typed PROVE \E p \in Range(Controllers(t)) : PortRow(t, p, x)
  <2>1. ~OwnRow(t, x)
    <3>1. \A c : ~OfConsole(t, c)
      BY <1>2, EmptyList DEF OfConsole
    <3> QED BY <1>1, <3>1, WalkWithNothing DEF OwnRow
  <2>2. ~TapeRow(x)
    BY <1>2, <1>3, TapeKind
  <2> QED BY <1>3, <2>1, <2>2 DEF IsRow
<1>4. PICK p \in Range(Controllers(t)) : PortRow(t, p, r)
  BY <1>3
<1>5. PICK o \in Range(Controllers(t)) : PortRow(t, o, q)
  BY <1>3
<1>6. o = p /\ \A d, e \in Range(Offered(p)) : d = e
  BY TypedPort
<1>7. InAccount(t, p)
  BY DEF InAccount
<1>8. PICK d \in Range(Offered(p)) : DeviceRow(t, p, d, r)
  BY <1>4 DEF PortRow
<1>9. DeviceRow(t, p, d, q)
  BY <1>5, <1>6 DEF PortRow
<1>10. ASSUME NEW x, DeviceRow(t, p, d, x), x.leaf \in spec.typed
       PROVE  \E c : OfDevice(t, p, d, c) /\ x = Row(PrefixFor(p, d), c) /\ x.leaf = c.name
  <2>1. PICK c : OfDevice(t, p, d, c) /\ x = Row(PrefixFor(p, d), c)
    BY <1>7, <1>10, DeviceRowFacts DEF DeviceRowOf
  <2>2. x.leaf = Last(Parted(c.name))
    <3>1. x.leaf = Last(c.path)
      BY <2>1 DEF Row
    <3> QED BY <2>1, <3>1, DeviceFacts
  <2>3. c.name \notin DOMAIN Split
    BY <1>2, <1>10, <2>2, PartsHold
  <2> QED BY <2>1, <2>2, <2>3, PartsHold
<1>11. PICK a : OfDevice(t, p, d, a) /\ r = Row(PrefixFor(p, d), a) /\ r.leaf = a.name
  BY <1>8, <1>10
<1>12. PICK b : OfDevice(t, p, d, b) /\ q = Row(PrefixFor(p, d), b) /\ q.leaf = b.name
  BY <1>9, <1>10
<1>13. p \in Range(t.ports) /\ d \in Range(p.supported)
  BY <1>7, AccountPorts
<1>14. a = b
  BY <1>1, <1>11, <1>12, <1>13, DeviceControlsApart
<1> QED BY <1>11, <1>12, <1>14

\* What a row under a port's name has to do with the first port.
LEMMA FirstPlayersRow ==
    ASSUME NEW t, IsTreeOfSpec(t), NEW r, IsRow(t, r), Len(r.name) > 1,
           spec.typed # {} \/ (Describe(t).ports # <<>> => r.name[1] = FirstPort(Describe(t)))
    PROVE  Prefix[r.path[1]] = FirstPort(Describe(t))
<1>1. PICK p \in Range(Controllers(t)) : PortRow(t, p, r)
  <2>1. ~OwnRow(t, r) /\ ~TapeRow(r)
    <3>1. OwnRow(t, r) => Len(r.name) = 1
      BY OwnKind
    <3>2. TapeRow(r) => Len(r.name) = 1
      BY TapeKind
    <3>3. ~(1 > 1)
      OBVIOUS
    <3>4. Len(r.name) # 1
      BY <3>3, Zenon
    <3> QED BY <3>1, <3>2, <3>4
  <2> QED BY <2>1 DEF IsRow
<1>2. r.path[1] = p.name /\ r.name[1] = Prefix[p.name]
  BY <1>1, PortKind
<1>3. CASE spec.typed # {}
  BY <1>2, <1>3, TypedPort
<1>4. CASE spec.typed = {}
  <2>1. Describe(t).ports # <<>>
    BY AccountPortsList, EmptyList
  <2> QED BY <1>2, <1>4, <2>1
<1> QED BY <1>3, <1>4

\* Of the indices in a set, those before which no other has their value: no two
\* of them share it.
LEMMA FirstsApart ==
    ASSUME NEW S, S \subseteq Int, NEW value,
           NEW i \in S, \A j \in S : j < i => value[j] # value[i],
           NEW k \in S, \A j \in S : j < k => value[j] # value[k],
           value[i] = value[k]
    PROVE  i = k
<1>1. i \in Int /\ k \in Int
  OBVIOUS
<1>2. ~(i < k) /\ ~(k < i)
  OBVIOUS
<1> QED BY <1>1, <1>2

LEMMA KeysAreOneEach ==
    ASSUME NEW t, IsTreeOfSpec(t), NEW account, account = Describe(t)
    PROVE  /\ \A b, c \in RenderKeybinds(account) : b[2] = c[2] => b = c
           /\ \A b \in RenderKeybinds(account) :
                 LET row == Declare(account).buttons[b[1]] IN
                 Len(row.name) > 1 => Prefix[row.path[1]] = FirstPort(account)
<1> DEFINE buttons == Declare(account).buttons
           theirs == {i \in 1 .. Len(buttons) : Theirs(account, buttons[i])}
           first == {i \in theirs : \A j \in theirs : j < i => DefaultKeys[buttons[j].leaf] # DefaultKeys[buttons[i].leaf]}
           typed == {i \in 1 .. Len(buttons) : buttons[i].leaf \in spec.typed}
<1>1. IsList(buttons) /\ IsInjective(buttons) /\ \A r \in Range(buttons) : IsRow(t, r)
  BY DeclareHolds
<1>2. RenderKeybinds(account) = IF spec.typed # {} THEN {<<i, buttons[i].leaf>> : i \in typed}
                                ELSE {<<i, DefaultKeys[buttons[i].leaf]>> : i \in first}
  BY DEF RenderKeybinds
<1> HIDE DEF buttons
<1>3. Len(buttons) \in Nat /\ DOMAIN buttons = 1 .. Len(buttons) /\ \A i \in 1 .. Len(buttons) : IsRow(t, buttons[i])
  BY <1>1, ListFacts
<1>4. CASE spec.typed # {}
  <2>1. RenderKeybinds(account) = {<<i, buttons[i].leaf>> : i \in typed}
    BY <1>2, <1>4
  <2>2. ASSUME NEW i \in typed, NEW k \in typed, buttons[i].leaf = buttons[k].leaf PROVE i = k
    <3>1. buttons[i] = buttons[k]
      BY <1>3, <1>4, <2>2, TypedRows
    <3> QED BY <1>1, <1>3, <3>1 DEF IsInjective
  <2>3. ASSUME NEW i \in typed, Len(buttons[i].name) > 1 PROVE Prefix[buttons[i].path[1]] = FirstPort(account)
    BY <1>3, <1>4, <2>3, FirstPlayersRow
  <2> HIDE DEF typed
  <2> QED BY <2>1, <2>2, <2>3 DEF buttons
<1>5. CASE spec.typed = {}
  <2> DEFINE value == [i \in 1 .. Len(buttons) |-> DefaultKeys[buttons[i].leaf]]
  <2>1. RenderKeybinds(account) = {<<i, DefaultKeys[buttons[i].leaf]>> : i \in first}
    BY <1>2, <1>5
  <2>2. ASSUME NEW i \in first, NEW k \in first, DefaultKeys[buttons[i].leaf] = DefaultKeys[buttons[k].leaf] PROVE i = k
    <3>1. theirs \subseteq Int /\ theirs \subseteq 1 .. Len(buttons) /\ i \in theirs /\ k \in theirs
      BY <1>3
    <3>2. /\ \A j \in theirs : j < i => value[j] # value[i]
          /\ \A j \in theirs : j < k => value[j] # value[k]
          /\ value[i] = value[k]
      BY <2>2, <3>1
    <3> HIDE DEF theirs, first, value
    <3> QED BY <3>1, <3>2, FirstsApart
  <2>3. ASSUME NEW i \in first, Len(buttons[i].name) > 1 PROVE Prefix[buttons[i].path[1]] = FirstPort(account)
    <3>1. i \in 1 .. Len(buttons) /\ (account.ports # <<>> => buttons[i].name[1] = FirstPort(account))
      BY DEF Theirs
    <3> QED BY <1>3, <2>3, <3>1, FirstPlayersRow
  <2> HIDE DEF first
  <2> QED BY <2>1, <2>2, <2>3 DEF buttons
<1> QED BY <1>4, <1>5

LEMMA AxesAreOneEach ==
    ASSUME NEW t, IsTreeOfSpec(t), NEW account, account = Describe(t)
    PROVE  /\ \A b, c \in RenderAxes(account) : b[2] = c[2] => b = c
           /\ \A b \in RenderAxes(account) :
                 LET row == Declare(account).axes[b[1]] IN
                 Len(row.name) > 1 => Prefix[row.path[1]] = FirstPort(account)
<1> DEFINE axes == Declare(account).axes
           theirs == {i \in 1 .. Len(axes) : /\ axes[i].leaf \in DefaultAxes
                                             /\ account.ports # <<>> => axes[i].name[1] = FirstPort(account)}
           first == {k \in theirs : \A j \in theirs : j < k => axes[j].leaf # axes[k].leaf}
           value == [i \in 1 .. Len(axes) |-> axes[i].leaf]
<1>1. IsList(axes) /\ \A r \in Range(axes) : IsRow(t, r)
  BY DeclareHolds
<1>2. RenderAxes(account) = IF spec.typed # {} THEN {} ELSE {<<i, axes[i].leaf>> : i \in first}
  BY DEF RenderAxes
<1> HIDE DEF axes
<1>3. Len(axes) \in Nat /\ \A i \in 1 .. Len(axes) : IsRow(t, axes[i])
  BY <1>1, ListFacts
<1>4. ASSUME NEW i \in first, NEW k \in first, axes[i].leaf = axes[k].leaf PROVE i = k
  <2>1. theirs \subseteq Int /\ theirs \subseteq 1 .. Len(axes) /\ i \in theirs /\ k \in theirs
    BY <1>3
  <2>2. /\ \A j \in theirs : j < i => value[j] # value[i]
        /\ \A j \in theirs : j < k => value[j] # value[k]
        /\ value[i] = value[k]
    BY <1>4, <2>1
  <2> HIDE DEF theirs, first, value
  <2> QED BY <2>1, <2>2, FirstsApart
<1>5. ASSUME NEW i \in first, Len(axes[i].name) > 1 PROVE Prefix[axes[i].path[1]] = FirstPort(account)
  BY <1>3, <1>5, FirstPlayersRow
<1> HIDE DEF first
<1> QED BY <1>2, <1>4, <1>5 DEF axes

\* "Only what a first player touches", and no key for two buttons, nor a stick
\* for two axes, in whatever account was committed of whatever machine.
THEOREM KeysAreAlwaysOnePlayers == Spec => []KeysAreOnePlayers
<1>1. WireInv => KeysAreOnePlayers
  <2> SUFFICES ASSUME WireInv, json # Unbuilt PROVE KeysAreOnePlayers
    BY DEF KeysAreOnePlayers
  <2>1. PICK t \in spec.trees : json = Describe(t)
    BY DEF WireInv, Accounted
  <2>2. IsTreeOfSpec(t)
    BY DEF WireInv, IsTreeOfSpec
  <2>3. /\ \A b, c \in RenderKeybinds(json) : b[2] = c[2] => b = c
        /\ \A b \in RenderKeybinds(json) :
              LET row == Declare(json).buttons[b[1]] IN
              Len(row.name) > 1 => Prefix[row.path[1]] = FirstPort(json)
    BY <2>1, <2>2, KeysAreOneEach
  <2>4. /\ \A b, c \in RenderAxes(json) : b[2] = c[2] => b = c
        /\ \A b \in RenderAxes(json) :
              LET row == Declare(json).axes[b[1]] IN
              Len(row.name) > 1 => Prefix[row.path[1]] = FirstPort(json)
    BY <2>1, <2>2, AxesAreOneEach
  <2> QED BY <2>3, <2>4 DEF KeysAreOnePlayers
<1> QED BY <1>1, WireAlways, PTL

-----------------------------------------------------------------------------
(* The package.                                                                *)

\* An entry is a BIOS' file, asked for where the BIOS is, on a form or always.
IsEntry(e) ==
    /\ e.id \in Range(Bioses) /\ e.on = WhoAsk(e.id)
    /\ \E f \in {Plain} \union Range(Forms[e.id]) : e.name = FileName[e.id][f] /\ e.is \in {Always, f}

\* No BIOS is asked for on a single condition and no other way.
Answered(entries) ==
    \A d \in Range(entries) : \E e \in Range(entries) : e.id = d.id /\ (e.is = Always \/ e.is # d.is)

\* What is written is written again where no file is at hand.
Settled(entries) == entries = FlattenSeq([k \in 1 .. Len(Bioses) |-> Entries(entries, {}, Bioses[k])])

\* A machine that is offered has an entry for each of its BIOSes.
Provided(machines, entries) ==
    \A c \in machines : \A id \in Asks[c] : \E e \in Range(entries) : e.id = id

\* A setting is one ares has on a machine, and a value one that it may be.
IsSetting(s) ==
    \E c \in Consoles : \E o \in Range(Offers[c]) : s.key = SettingKey(c, o.name) /\ s.options = o.options
IsValue(v) ==
    \E c \in Consoles : \E o \in Range(Offers[c]) : v.key = SettingKey(c, o.name) /\ v.value \in Range(o.options)

PackageInv ==
    /\ built \subseteq Consoles /\ offered \subseteq Consoles
    /\ IsList(firmware) /\ \A e \in Range(firmware) : IsEntry(e)
    /\ Answered(firmware)
    /\ Settled(firmware)
    /\ Provided(offered, firmware)
    /\ choices = VariantSettings(firmware)
    /\ \A s \in settings : IsSetting(s)
    /\ project = [machine |-> project.machine, values |-> project.values]
    /\ project.machine \in Consoles \union {Refused}
    /\ \A v \in project.values : IsValue(v)
    /\ NodesHoldTheirOwn

LEMMA BiosFacts ==
    ASSUME NEW id \in Range(Bioses)
    PROVE  /\ IsList(Forms[id]) /\ IsInjective(Forms[id]) /\ Plain \notin Range(Forms[id])
           /\ \A f, g \in Range(Forms[id]) : FileName[id][f] = FileName[id][g] => f = g
BY BiosesAssumption

LEMMA OneOnly ==
    ASSUME NEW x
    PROVE  IsList(<<x>>) /\ Range(<<x>>) = {x} /\ IsInjective(<<x>>) /\ <<x>> # <<>> /\ Len(<<x>>) = 1 /\ <<x>>[1] = x
<1>1. Append(<<>>, x) = <<x>>
  OBVIOUS
<1>2. IsList(Append(<<>>, x)) /\ Range(Append(<<>>, x)) = Range(<<>>) \union {x}
      /\ (IsInjective(<<>>) /\ x \notin Range(<<>>) => IsInjective(Append(<<>>, x)))
  BY EmptyList, OneAppended
<1>3. <<x>> # <<>> /\ Len(<<x>>) = 1 /\ <<x>>[1] = x
  OBVIOUS
<1>4. Range(<<>>) = {} /\ IsInjective(<<>>)
  BY EmptyList
<1>5. x \notin Range(<<>>) /\ Range(<<>>) \union {x} = {x}
  BY <1>4
<1> QED BY <1>1, <1>2, <1>3, <1>4, <1>5

\* A list with nothing in it is empty, and one without repetition of one thing has that alone.
LEMMA NothingListed ==
    ASSUME NEW s, IsList(s)
    PROVE  s = <<>> <=> Range(s) = {}
<1>1. s = <<>> => Range(s) = {}
  BY EmptyList
<1>2. ASSUME Range(s) = {} PROVE s = <<>>
  <2>1. Len(s) \in Nat /\ DOMAIN s = 1 .. Len(s) /\ \A x : x \in Range(s) <=> \E i \in 1 .. Len(s) : x = s[i]
    BY ListFacts
  <2>2. Len(s) = 0
    <3> SUFFICES ASSUME Len(s) # 0 PROVE FALSE
      OBVIOUS
    <3>1. 1 \in 1 .. Len(s)
      BY <2>1
    <3>2. s[1] \in Range(s)
      BY <2>1, <3>1
    <3> QED BY <1>2, <3>2
  <2>3. s \in Seq(Range(s))
    BY DEF IsList
  <2> QED BY <2>2, <2>3
<1> QED BY <1>1, <1>2

LEMMA OneListed ==
    ASSUME NEW s, IsList(s), IsInjective(s), NEW x, Range(s) = {x}
    PROVE  s = <<x>>
<1>1. Len(s) \in Nat /\ DOMAIN s = 1 .. Len(s) /\ \A y : y \in Range(s) <=> \E i \in 1 .. Len(s) : y = s[i]
  BY ListFacts
<1>2. \A i \in 1 .. Len(s) : s[i] = x
  BY <1>1
<1>3. Len(s) <= 1
  <2> SUFFICES ASSUME Len(s) > 1 PROVE FALSE
    BY <1>1
  <2>1. 1 \in 1 .. Len(s) /\ 2 \in 1 .. Len(s)
    BY <1>1
  <2>2. s[1] = s[2]
    BY <1>2, <2>1
  <2> QED BY <1>1, <2>1, <2>2 DEF IsInjective
<1>4. Len(s) # 0
  BY <1>1
<1>5. Len(s) = 1 /\ s[1] = x
  BY <1>1, <1>2, <1>3, <1>4
<1>6. s \in Seq(Range(s))
  BY DEF IsList
<1>7. Len(<<x>>) = 1 /\ <<x>>[1] = x /\ <<x>> \in Seq({x})
  OBVIOUS
<1> DEFINE y == <<x>>
<1> HIDE DEF y
<1>8. s = [i \in 1 .. 1 |-> s[i]] /\ y = [i \in 1 .. 1 |-> y[i]]
  BY <1>5, <1>6, <1>7 DEF y
<1>9. \A i \in 1 .. 1 : s[i] = y[i]
  <2>1. 1 .. 1 = {1}
    OBVIOUS
  <2> QED BY <1>5, <1>7, <2>1 DEF y
<1>10. s = y
  BY <1>8, <1>9, SameList
<1> QED BY <1>10 DEF y

\* What was asked for already, where it was asked for once.
Same(entries, id, name) == {e \in Range(entries) : e.id = id /\ e.name = name}

LEMMA KnownInParts ==
    \A entries, id, name : Known(entries, id, name) =
        IF Only(entries, Same(entries, id, name)) = <<>> THEN <<>>
        ELSE <<Last(Only(entries, Same(entries, id, name)))>>
BY DEF Known, Same

LEMMA KnownHolds ==
    ASSUME NEW entries, IsList(entries), NEW id, NEW name
    PROVE  /\ Same(entries, id, name) = {} => Known(entries, id, name) = <<>>
           /\ Same(entries, id, name) # {} =>
                 \E e \in Same(entries, id, name) : Known(entries, id, name) = <<e>>
<1> DEFINE wanted == Same(entries, id, name)
           same == Only(entries, wanted)
<1>1. IsList(same) /\ Range(same) = Range(entries) \intersect wanted
  <2> HIDE DEF wanted
  <2> QED BY Selected
<1>2. Range(same) = wanted
  BY <1>1 DEF Same
<1>3. same = <<>> <=> wanted = {}
  <2> HIDE DEF same, wanted
  <2> QED BY <1>1, <1>2, NothingListed
<1>4. same # <<>> => Last(same) \in wanted
  <2> SUFFICES ASSUME same # <<>> PROVE Last(same) \in wanted
    OBVIOUS
  <2> HIDE DEF same, wanted
  <2>1. Len(same) \in Nat /\ DOMAIN same = 1 .. Len(same) /\ \A y : y \in Range(same) <=> \E i \in 1 .. Len(same) : y = same[i]
    BY <1>1, ListFacts
  <2>2. Len(same) # 0
    <3>1. same \in Seq(Range(same))
      BY <1>1 DEF IsList
    <3> QED BY <3>1
  <2>3. Len(same) \in 1 .. Len(same)
    BY <2>1, <2>2
  <2> QED BY <1>2, <2>1, <2>3 DEF Last
<1>5. Known(entries, id, name) = IF same = <<>> THEN <<>> ELSE <<Last(same)>>
  BY KnownInParts, Zenon
<1> HIDE DEF same
<1> QED BY <1>3, <1>4, <1>5

\* What is declared of a file: nothing, or an entry of its name.
IsCell(cell, id, name) == cell = <<>> \/ \E e : cell = <<e>> /\ e.id = id /\ e.name = name

LEMMA CellFacts ==
    ASSUME NEW cell, NEW id, NEW name, IsCell(cell, id, name)
    PROVE  /\ IsList(cell) /\ IsInjective(cell)
           /\ cell = <<>> <=> Range(cell) = {}
           /\ \A e \in Range(cell) : cell = <<e>> /\ e.id = id /\ e.name = name
<1>1. CASE cell = <<>>
  BY <1>1, EmptyList
<1>2. CASE \E e : cell = <<e>> /\ e.id = id /\ e.name = name
  <2>1. PICK e : cell = <<e>> /\ e.id = id /\ e.name = name
    BY <1>2
  <2>2. IsList(cell) /\ IsInjective(cell) /\ Range(cell) = {e} /\ cell # <<>>
    BY <2>1, OneOnly
  <2> QED BY <2>1, <2>2
<1> QED BY <1>1, <1>2 DEF IsCell

LEMMA KnownAgain ==
    ASSUME NEW entries, IsList(entries), NEW id, NEW name, NEW cell, IsCell(cell, id, name),
           Same(entries, id, name) = Range(cell)
    PROVE  Known(entries, id, name) = cell
<1>1. CASE cell = <<>>
  BY <1>1, CellFacts, KnownHolds
<1>2. CASE cell # <<>>
  <2>1. Same(entries, id, name) # {}
    BY <1>2, CellFacts
  <2>2. PICK e \in Same(entries, id, name) : Known(entries, id, name) = <<e>>
    BY <2>1, KnownHolds
  <2> QED BY <2>2, CellFacts
<1> QED BY <1>1, <1>2

LEMMA KnownIsCell ==
    ASSUME NEW entries, IsList(entries), NEW id, NEW name
    PROVE  /\ IsCell(Known(entries, id, name), id, name)
           /\ Range(Known(entries, id, name)) \subseteq Range(entries)
<1>1. CASE Same(entries, id, name) = {}
  BY <1>1, KnownHolds, EmptyList DEF IsCell
<1>2. CASE Same(entries, id, name) # {}
  <2>1. PICK e \in Same(entries, id, name) : Known(entries, id, name) = <<e>>
    BY <1>2, KnownHolds
  <2>2. e \in Range(entries) /\ e.id = id /\ e.name = name
    BY DEF Same
  <2> QED BY <2>1, <2>2, OneOnly DEF IsCell
<1> QED BY <1>1, <1>2

\* The entry of a file at hand.
EntryOf(id, form, is) == [id |-> id, name |-> FileName[id][form], on |-> WhoAsk(id), is |-> is]

AtHand(files, id, form) == <<id, form>> \in files

LEMMA NoneAtHand == ASSUME NEW id, NEW form PROVE ~AtHand({}, id, form)
BY DEF AtHand

LEMMA DeclaredInParts ==
    ASSUME NEW already, NEW files, NEW id, NEW form, NEW is
    PROVE  Declared(already, files, id, form, is) =
              IF AtHand(files, id, form) THEN <<EntryOf(id, form, is)>>
              ELSE Known(already, id, FileName[id][form])
BY Zenon DEF Declared, AtHand, EntryOf

LEMMA DeclaredHolds ==
    ASSUME NEW already, IsList(already), NEW files, NEW id, NEW form, NEW is
    PROVE  /\ IsCell(Declared(already, files, id, form, is), id, FileName[id][form])
           /\ \A e \in Range(Declared(already, files, id, form, is)) :
                 e \in Range(already) \/ e = EntryOf(id, form, is)
           /\ AtHand(files, id, form) => EntryOf(id, form, is) \in Range(Declared(already, files, id, form, is))
<1> DEFINE cell == Declared(already, files, id, form, is)
           e == EntryOf(id, form, is)
<1>1. CASE AtHand(files, id, form)
  <2>1. cell = <<e>>
    BY <1>1, DeclaredInParts, Zenon
  <2>2. e.id = id /\ e.name = FileName[id][form]
    BY DEF EntryOf
  <2> HIDE DEF e
  <2>3. Range(cell) = {e}
    BY <2>1, OneOnly
  <2>4. IsCell(cell, id, FileName[id][form])
    BY <2>1, <2>2 DEF IsCell
  <2> QED BY <2>3, <2>4 DEF e
<1>2. CASE ~AtHand(files, id, form)
  <2>1. cell = Known(already, id, FileName[id][form])
    BY <1>2, DeclaredInParts, Zenon
  <2> QED BY <1>2, <2>1, KnownIsCell
<1> QED BY <1>1, <1>2

-----------------------------------------------------------------------------
\* One BIOS' entries.
Cells(already, files, id) ==
    [k \in 1 .. Len(Forms[id]) |->
        Declared(already, files, id, Forms[id][k], Condition(files, id, Forms[id][k]))]

LEMMA EntriesInParts ==
    ASSUME NEW already, NEW files, NEW id
    PROVE  /\ DeclaredForms(already, files, id) = FlattenSeq(Cells(already, files, id))
           /\ Entries(already, files, id) =
                 IF DeclaredForms(already, files, id) # <<>> THEN DeclaredForms(already, files, id)
                 ELSE Declared(already, files, id, Plain, Always)
BY Zenon DEF DeclaredForms, Cells, Entries

LEMMA FormsHold ==
    ASSUME NEW already, IsList(already), NEW files, NEW id \in Range(Bioses)
    PROVE  /\ Len(Forms[id]) \in Nat
           /\ Cells(already, files, id) = [k \in 1 .. Len(Forms[id]) |-> Cells(already, files, id)[k]]
           /\ \A k \in 1 .. Len(Forms[id]) :
                 /\ Forms[id][k] \in Range(Forms[id])
                 /\ Cells(already, files, id)[k] =
                       Declared(already, files, id, Forms[id][k], Condition(files, id, Forms[id][k]))
                 /\ IsCell(Cells(already, files, id)[k], id, FileName[id][Forms[id][k]])
           /\ IsList(DeclaredForms(already, files, id))
           /\ \A x : x \in Range(DeclaredForms(already, files, id)) <=>
                 \E k \in 1 .. Len(Forms[id]) : x \in Range(Cells(already, files, id)[k])
<1> DEFINE n == Len(Forms[id])
           cells == Cells(already, files, id)
<1>1. /\ n \in Nat /\ DOMAIN Forms[id] = 1 .. n
      /\ \A x : x \in Range(Forms[id]) <=> \E k \in 1 .. n : x = Forms[id][k]
  BY BiosFacts, ListFacts
<1>2. /\ cells = [k \in 1 .. n |-> cells[k]]
      /\ \A k \in 1 .. n : cells[k] = Declared(already, files, id, Forms[id][k], Condition(files, id, Forms[id][k]))
  BY DEF Cells
<1>3. \A k \in 1 .. n : IsCell(cells[k], id, FileName[id][Forms[id][k]])
  <2> SUFFICES ASSUME NEW k \in 1 .. n PROVE IsCell(cells[k], id, FileName[id][Forms[id][k]])
    OBVIOUS
  <2> DEFINE form == Forms[id][k]
             is == Condition(files, id, form)
  <2>1. cells[k] = Declared(already, files, id, form, is)
    BY <1>2
  <2> HIDE DEF form, is, cells
  <2>2. IsCell(Declared(already, files, id, form, is), id, FileName[id][form])
    BY DeclaredHolds
  <2> QED BY <2>1, <2>2 DEF form
<1>4. \A k \in 1 .. n : IsList(cells[k])
  BY <1>3, CellFacts
<1>5. DeclaredForms(already, files, id) = FlattenSeq(cells)
  BY EntriesInParts
<1>6. /\ IsList(FlattenSeq(cells))
      /\ \A x : x \in Range(FlattenSeq(cells)) <=> \E k \in 1 .. n : x \in Range(cells[k])
  <2> HIDE DEF n, cells
  <2> QED BY <1>1, <1>2, <1>4, Flattened
<1> HIDE DEF cells, n
<1>7. \A k \in 1 .. n : Forms[id][k] \in Range(Forms[id])
  BY <1>1
<1> QED BY <1>1, <1>2, <1>3, <1>5, <1>6, <1>7 DEF cells, n

LEMMA EntriesHold ==
    ASSUME NEW already, IsList(already), NEW files, NEW id \in Range(Bioses)
    PROVE  /\ IsList(Entries(already, files, id))
           /\ \A e \in Range(Entries(already, files, id)) : e.id = id
<1> DEFINE forms == DeclaredForms(already, files, id)
<1>1. CASE forms # <<>>
  <2>1. Entries(already, files, id) = forms
    BY <1>1, EntriesInParts
  <2>2. IsList(forms)
    BY FormsHold
  <2>3. ASSUME NEW e \in Range(forms) PROVE e.id = id
    <3>1. PICK k \in 1 .. Len(Forms[id]) : e \in Range(Cells(already, files, id)[k])
      BY <2>3, FormsHold
    <3>2. IsCell(Cells(already, files, id)[k], id, FileName[id][Forms[id][k]])
      BY FormsHold
    <3> QED BY <3>1, <3>2, CellFacts
  <2> QED BY <2>1, <2>2, <2>3
<1>2. CASE forms = <<>>
  <2>1. Entries(already, files, id) = Declared(already, files, id, Plain, Always)
    BY <1>2, EntriesInParts
  <2>2. IsCell(Declared(already, files, id, Plain, Always), id, FileName[id][Plain])
    BY DeclaredHolds
  <2> QED BY <2>1, <2>2, CellFacts
<1> QED BY <1>1, <1>2

\* With no file at hand, what is known is declared.
LEMMA CellsOfKnown ==
    ASSUME NEW entries, NEW id \in Range(Bioses), NEW k \in 1 .. Len(Forms[id])
    PROVE  Cells(entries, {}, id)[k] = Known(entries, id, FileName[id][Forms[id][k]])
<1> DEFINE form == Forms[id][k]
           is == Condition({}, id, form)
           none == {}
<1>1. Cells(entries, {}, id)[k] = Declared(entries, {}, id, form, is)
  BY DEF Cells
<1>2. ~AtHand({}, id, form)
  BY NoneAtHand
<1> HIDE DEF form, is
<1>3. Declared(entries, {}, id, form, is) = Known(entries, id, FileName[id][form])
  BY <1>2, DeclaredInParts, Zenon
<1> QED BY <1>1, <1>3 DEF form

LEMMA PlainOfKnown ==
    ASSUME NEW entries, NEW id
    PROVE  Declared(entries, {}, id, Plain, Always) = Known(entries, id, FileName[id][Plain])
BY NoneAtHand, DeclaredInParts, Zenon

\* A form's cell is known again.
LEMMA FormKnownAgain ==
    ASSUME NEW already, IsList(already), NEW files, NEW entries, IsList(entries), NEW id \in Range(Bioses),
           {e \in Range(entries) : e.id = id} = Range(DeclaredForms(already, files, id)),
           NEW k \in 1 .. Len(Forms[id])
    PROVE  Cells(entries, {}, id)[k] = Cells(already, files, id)[k]
<1> DEFINE cell(j) == Cells(already, files, id)[j]
           name(j) == FileName[id][Forms[id][j]]
           n == Len(Forms[id])
<1>1. /\ \A j \in 1 .. n : Forms[id][j] \in Range(Forms[id]) /\ IsCell(cell(j), id, name(j))
      /\ \A x : x \in Range(DeclaredForms(already, files, id)) <=> \E j \in 1 .. n : x \in Range(cell(j))
  BY FormsHold
<1>2. \A j \in 1 .. n : \A e \in Range(cell(j)) : e.id = id /\ e.name = name(j)
  <2> SUFFICES ASSUME NEW j \in 1 .. n, NEW e \in Range(cell(j)) PROVE e.id = id /\ e.name = name(j)
    OBVIOUS
  <2>1. IsCell(cell(j), id, name(j))
    BY <1>1
  <2> HIDE DEF cell, name
  <2> QED BY <2>1, CellFacts
<1>3. \A j \in 1 .. n : name(j) = name(k) => j = k
  <2> SUFFICES ASSUME NEW j \in 1 .. n, name(j) = name(k) PROVE j = k
    OBVIOUS
  <2>1. Forms[id][j] \in Range(Forms[id]) /\ Forms[id][k] \in Range(Forms[id])
    BY <1>1
  <2>2. Forms[id][j] = Forms[id][k]
    BY <2>1, BiosFacts
  <2>3. IsInjective(Forms[id]) /\ DOMAIN Forms[id] = 1 .. n
    BY BiosFacts, ListFacts
  <2> QED BY <2>2, <2>3 DEF IsInjective
<1>4. Same(entries, id, name(k)) = Range(cell(k))
  <2> HIDE DEF cell, name, n
  <2>1. ASSUME NEW x \in Same(entries, id, name(k)) PROVE x \in Range(cell(k))
    <3>1. x \in Range(entries) /\ x.id = id /\ x.name = name(k)
      BY DEF Same
    <3>2. x \in Range(DeclaredForms(already, files, id))
      BY <3>1
    <3>3. PICK j \in 1 .. n : x \in Range(cell(j))
      BY <1>1, <3>2
    <3>4. j = k
      BY <1>2, <1>3, <3>1, <3>3
    <3> QED BY <3>3, <3>4
  <2>2. ASSUME NEW x \in Range(cell(k)) PROVE x \in Same(entries, id, name(k))
    <3>0. k \in 1 .. n
      BY DEF n
    <3>1. x.id = id /\ x.name = name(k)
      BY <1>2, <3>0
    <3>2. x \in Range(DeclaredForms(already, files, id))
      BY <1>1, <3>0
    <3>3. x \in Range(entries)
      BY <3>2
    <3> QED BY <3>1, <3>3 DEF Same
  <2> QED BY <2>1, <2>2
<1>5. IsCell(cell(k), id, name(k))
  BY <1>1
<1>6. Known(entries, id, name(k)) = cell(k)
  <2> HIDE DEF cell, name
  <2> QED BY <1>4, <1>5, KnownAgain
<1> QED BY <1>6, CellsOfKnown

\* Where a BIOS has one entry, under the name of its plain file, that is known
\* again: as a form's, if the form's file is called so, or as the plain one.
LEMMA PlainKnownAgain ==
    ASSUME NEW entries, IsList(entries), NEW id \in Range(Bioses), NEW cell,
           IsCell(cell, id, FileName[id][Plain]),
           {e \in Range(entries) : e.id = id} = Range(cell)
    PROVE  Entries(entries, {}, id) = cell
<1> DEFINE cells == Cells(entries, {}, id)
           forms == DeclaredForms(entries, {}, id)
           name(j) == FileName[id][Forms[id][j]]
           n == Len(Forms[id])
           none == {}
<1>1. /\ n \in Nat /\ cells = [k \in 1 .. n |-> cells[k]]
      /\ \A k \in 1 .. n : IsCell(cells[k], id, name(k)) /\ Forms[id][k] \in Range(Forms[id])
      /\ forms = FlattenSeq(cells) /\ IsList(forms)
      /\ \A x : x \in Range(forms) <=> \E k \in 1 .. n : x \in Range(cells[k])
  <2> HIDE DEF none
  <2>1. IsList(entries)
    OBVIOUS
  <2> QED BY FormsHold, EntriesInParts
<1>2. \A k \in 1 .. n : cells[k] = Known(entries, id, name(k))
  BY CellsOfKnown
<1>3. ASSUME NEW k \in 1 .. n, name(k) = FileName[id][Plain] PROVE cells[k] = cell
  <2>1. Same(entries, id, FileName[id][Plain]) = Range(cell)
    <3>1. \A e \in Range(cell) : e.name = FileName[id][Plain]
      BY CellFacts
    <3> QED BY <3>1 DEF Same
  <2>2. Known(entries, id, FileName[id][Plain]) = cell
    BY <2>1, KnownAgain
  <2>3. cells[k] = Known(entries, id, name(k))
    BY <1>2
  <2> QED BY <1>3, <2>2, <2>3
<1>4. ASSUME NEW k \in 1 .. n, name(k) # FileName[id][Plain] PROVE cells[k] = <<>>
  <2>1. Same(entries, id, name(k)) = {}
    <3>1. \A e \in Range(cell) : e.name = FileName[id][Plain]
      BY CellFacts
    <3> QED BY <1>4, <3>1 DEF Same
  <2>2. Known(entries, id, name(k)) = <<>>
    BY <2>1, KnownHolds
  <2>3. cells[k] = Known(entries, id, name(k))
    BY <1>2
  <2> QED BY <2>2, <2>3
<1>5. Known(entries, id, FileName[id][Plain]) = cell
  <2>1. \A e \in Range(cell) : e.name = FileName[id][Plain]
    BY CellFacts
  <2>2. Same(entries, id, FileName[id][Plain]) = Range(cell)
    BY <2>1 DEF Same
  <2> QED BY <2>2, KnownAgain
<1>6. Entries(entries, {}, id) = IF forms # <<>> THEN forms ELSE cell
  BY <1>5, EntriesInParts, PlainOfKnown
<1>7. IsList(cell) /\ IsInjective(cell) /\ (cell = <<>> <=> Range(cell) = {})
  BY CellFacts
<1>8. CASE \E k \in 1 .. n : name(k) = FileName[id][Plain]
  <2>1. PICK j \in 1 .. n : name(j) = FileName[id][Plain]
    BY <1>8
  <2>2. cells[j] = cell
    BY <1>3, <2>1
  <2>3. \A k \in 1 .. n : k # j => cells[k] = <<>>
    <3> SUFFICES ASSUME NEW k \in 1 .. n, k # j PROVE cells[k] = <<>>
      OBVIOUS
    <3>1. Forms[id][j] \in Range(Forms[id]) /\ Forms[id][k] \in Range(Forms[id])
      BY <1>1
    <3>2. IsInjective(Forms[id]) /\ DOMAIN Forms[id] = 1 .. n
      BY BiosFacts, ListFacts
    <3>3. Forms[id][k] # Forms[id][j]
      BY <3>2 DEF IsInjective
    <3>4. name(k) # FileName[id][Plain]
      BY <2>1, <3>1, <3>3, BiosFacts
    <3> QED BY <1>4, <3>4
  <2>4. Range(forms) = Range(cell)
    <3>1. Range(<<>>) = {}
      BY EmptyList
    <3> HIDE DEF cells, forms
    <3> QED BY <1>1, <2>2, <2>3, <3>1
  <2>5. CASE cell = <<>>
    <3>1. forms = <<>>
      <4> HIDE DEF forms
      <4> QED BY <1>1, <1>7, <2>4, <2>5, NothingListed
    <3> QED BY <1>6, <2>5, <3>1
  <2>6. CASE cell # <<>>
    <3>1. PICK e : cell = <<e>>
      BY <2>6 DEF IsCell
    <3>2. Range(cell) = {e}
      BY <3>1, OneOnly
    <3>3. IsInjective(forms)
      <4>1. \A k \in 1 .. n : IsList(cells[k]) /\ IsInjective(cells[k])
        <5> SUFFICES ASSUME NEW k \in 1 .. n PROVE IsList(cells[k]) /\ IsInjective(cells[k])
          OBVIOUS
        <5>1. IsCell(cells[k], id, name(k))
          BY <1>1
        <5> HIDE DEF cells, name
        <5> QED BY <5>1, CellFacts
      <4>2. \A i, k \in 1 .. n : i # k => Range(cells[i]) \intersect Range(cells[k]) = {}
        <5>1. Range(<<>>) = {}
          BY EmptyList
        <5> HIDE DEF cells, n
        <5> QED BY <2>3, <5>1
      <4> HIDE DEF cells, n
      <4>3. IsInjective(FlattenSeq(cells))
        BY <1>1, <4>1, <4>2, FlattenedApart
      <4> QED BY <1>1, <4>3
    <3> HIDE DEF forms
    <3>4. forms = <<e>>
      BY <1>1, <2>4, <3>2, <3>3, OneListed
    <3>5. forms # <<>>
      BY <3>4, OneOnly
    <3> QED BY <1>6, <3>1, <3>4, <3>5
  <2> QED BY <2>5, <2>6
<1>9. CASE \A k \in 1 .. n : name(k) # FileName[id][Plain]
  <2>1. \A k \in 1 .. n : cells[k] = <<>>
    BY <1>4, <1>9
  <2>2. Range(forms) = {}
    <3>1. Range(<<>>) = {}
      BY EmptyList
    <3> HIDE DEF cells, forms
    <3> QED BY <1>1, <2>1, <3>1
  <2>3. forms = <<>>
    <3> HIDE DEF forms
    <3> QED BY <1>1, <2>2, NothingListed
  <2> QED BY <1>6, <2>3
<1> QED BY <1>8, <1>9

\* A BIOS' entries, once written, are written again where no file is at hand.
LEMMA WrittenAgain ==
    ASSUME NEW already, IsList(already), NEW files, NEW entries, IsList(entries), NEW id \in Range(Bioses),
           {e \in Range(entries) : e.id = id} = Range(Entries(already, files, id))
    PROVE  Entries(entries, {}, id) = Entries(already, files, id)
<1> DEFINE forms == DeclaredForms(already, files, id)
           n == Len(Forms[id])
<1>1. CASE forms # <<>>
  <2>1. Entries(already, files, id) = forms
    BY <1>1, EntriesInParts
  <2>2. \A k \in 1 .. n : Cells(entries, {}, id)[k] = Cells(already, files, id)[k]
    <3> SUFFICES ASSUME NEW k \in 1 .. n PROVE Cells(entries, {}, id)[k] = Cells(already, files, id)[k]
      OBVIOUS
    <3>1. {e \in Range(entries) : e.id = id} = Range(DeclaredForms(already, files, id))
      BY <2>1
    <3> QED BY <3>1, FormKnownAgain
  <2>3. Cells(entries, {}, id) = Cells(already, files, id)
    <3> DEFINE x == Cells(entries, {}, id)
               y == Cells(already, files, id)
    <3>1. n \in Nat /\ x = [k \in 1 .. n |-> x[k]] /\ y = [k \in 1 .. n |-> y[k]]
      BY FormsHold
    <3> HIDE DEF x, y, n
    <3>2. \A k \in 1 .. n : x[k] = y[k]
      BY <2>2 DEF x, y
    <3>3. x = y
      BY <3>1, <3>2, SameList
    <3> QED BY <3>3 DEF x, y
  <2>4. DeclaredForms(entries, {}, id) = forms
    BY <2>3, EntriesInParts, Zenon
  <2> QED BY <1>1, <2>1, <2>4, EntriesInParts
<1>2. CASE forms = <<>>
  <2> DEFINE cell == Declared(already, files, id, Plain, Always)
  <2>1. Entries(already, files, id) = cell
    BY <1>2, EntriesInParts
  <2>2. IsCell(cell, id, FileName[id][Plain])
    BY DeclaredHolds
  <2> HIDE DEF cell
  <2>3. Entries(entries, {}, id) = cell
    BY <2>1, <2>2, PlainKnownAgain
  <2> QED BY <2>1, <2>3
<1> QED BY <1>1, <1>2

-----------------------------------------------------------------------------
\* Every BIOS' entries.
Written(already, files) == FlattenSeq([k \in 1 .. Len(Bioses) |-> Entries(already, files, Bioses[k])])

LEMMA RenderedOrRefused ==
    ASSUME NEW already, NEW files
    PROVE  /\ RenderFirmware(already, files) # Refused =>
                /\ RenderFirmware(already, files) = Written(already, files)
                /\ \A k \in 1 .. Len(Bioses) : Entries(already, files, Bioses[k]) = <<>> => ~Unprovided(Bioses[k])
           /\ (\A k \in 1 .. Len(Bioses) : Entries(already, files, Bioses[k]) = <<>> => ~Unprovided(Bioses[k])) =>
                RenderFirmware(already, files) = Written(already, files)
<1> DEFINE entries == [k \in 1 .. Len(Bioses) |-> Entries(already, files, Bioses[k])]
           missing == \E k \in 1 .. Len(Bioses) : entries[k] = <<>> /\ Unprovided(Bioses[k])
<1>1. RenderFirmware(already, files) = IF missing THEN Refused ELSE Written(already, files)
  BY Zenon DEF RenderFirmware, Written
<1>2. missing <=> \E k \in 1 .. Len(Bioses) : Entries(already, files, Bioses[k]) = <<>> /\ Unprovided(Bioses[k])
  BY Zenon
<1> HIDE DEF missing
<1> QED BY <1>1, <1>2, Zenon

LEMMA BiosesAreListed ==
    /\ Len(Bioses) \in Nat /\ DOMAIN Bioses = 1 .. Len(Bioses)
    /\ \A id : id \in Range(Bioses) <=> \E k \in 1 .. Len(Bioses) : id = Bioses[k]
BY BiosesAssumption, ListFacts

LEMMA WrittenHolds ==
    ASSUME NEW already, IsList(already), NEW files
    PROVE  /\ IsList(Written(already, files))
           /\ \A e : e \in Range(Written(already, files)) <=>
                 \E k \in 1 .. Len(Bioses) : e \in Range(Entries(already, files, Bioses[k]))
<1> DEFINE n == Len(Bioses)
           parts == [k \in 1 .. n |-> Entries(already, files, Bioses[k])]
<1>1. n \in Nat /\ parts = [k \in 1 .. n |-> parts[k]]
  BY BiosesAreListed
<1>2. \A k \in 1 .. n : parts[k] = Entries(already, files, Bioses[k])
  OBVIOUS
<1>3. \A k \in 1 .. n : IsList(parts[k])
  <2> SUFFICES ASSUME NEW k \in 1 .. n PROVE IsList(parts[k])
    OBVIOUS
  <2>1. Bioses[k] \in Range(Bioses)
    BY BiosesAreListed
  <2> QED BY <1>2, <2>1, EntriesHold
<1>4. Written(already, files) = FlattenSeq(parts)
  BY DEF Written
<1> HIDE DEF parts, n
<1>5. IsList(FlattenSeq(parts)) /\ \A e : e \in Range(FlattenSeq(parts)) <=> \E k \in 1 .. n : e \in Range(parts[k])
  BY <1>1, <1>3, Flattened
<1>6. \A e : (\E k \in 1 .. n : e \in Range(parts[k])) <=> \E k \in 1 .. n : e \in Range(Entries(already, files, Bioses[k]))
  BY <1>2
<1> QED BY <1>4, <1>5, <1>6 DEF n

\* The entries of one BIOS are those with its name.
LEMMA WrittenOf ==
    ASSUME NEW already, IsList(already), NEW files, NEW id \in Range(Bioses)
    PROVE  {e \in Range(Written(already, files)) : e.id = id} = Range(Entries(already, files, id))
<1> DEFINE w == Written(already, files)
           part(k) == Entries(already, files, Bioses[k])
<1>1. \A e : e \in Range(w) <=> \E k \in 1 .. Len(Bioses) : e \in Range(part(k))
  BY WrittenHolds
<1>2. \A k \in 1 .. Len(Bioses) : \A e \in Range(part(k)) : e.id = Bioses[k]
  <2> SUFFICES ASSUME NEW k \in 1 .. Len(Bioses) PROVE \A e \in Range(part(k)) : e.id = Bioses[k]
    OBVIOUS
  <2>1. Bioses[k] \in Range(Bioses)
    BY BiosesAreListed
  <2> QED BY <2>1, EntriesHold
<1>3. PICK j \in 1 .. Len(Bioses) : id = Bioses[j]
  BY BiosesAreListed
<1>4. ASSUME NEW e \in Range(w), e.id = id PROVE e \in Range(part(j))
  <2> HIDE DEF w, part
  <2>1. PICK k \in 1 .. Len(Bioses) : e \in Range(part(k))
    BY <1>1
  <2>2. Bioses[k] = Bioses[j]
    BY <1>2, <1>3, <1>4, <2>1
  <2>3. part(k) = part(j)
    BY <2>2, Zenon DEF part
  <2> QED BY <2>1, <2>3
<1>5. ASSUME NEW e \in Range(part(j)) PROVE e \in Range(w) /\ e.id = id
  <2> HIDE DEF w, part
  <2> QED BY <1>1, <1>2, <1>3, <1>5
<1>6. part(j) = Entries(already, files, id)
  BY <1>3
<1> HIDE DEF w, part
<1>7. {e \in Range(w) : e.id = id} = Range(part(j))
  BY <1>4, <1>5
<1> QED BY <1>6, <1>7, Zenon DEF w

LEMMA WrittenIsSettled ==
    ASSUME NEW already, IsList(already), NEW files
    PROVE  Settled(Written(already, files))
<1> DEFINE w == Written(already, files)
           n == Len(Bioses)
           x == [k \in 1 .. n |-> Entries(w, {}, Bioses[k])]
           y == [k \in 1 .. n |-> Entries(already, files, Bioses[k])]
<1>1. n \in Nat /\ x = [k \in 1 .. n |-> x[k]] /\ y = [k \in 1 .. n |-> y[k]]
  BY BiosesAreListed
<1>2. ASSUME NEW k \in 1 .. n PROVE x[k] = y[k]
  <2>1. Bioses[k] \in Range(Bioses)
    BY BiosesAreListed
  <2>2. IsList(w)
    BY WrittenHolds
  <2>3. {e \in Range(w) : e.id = Bioses[k]} = Range(Entries(already, files, Bioses[k]))
    BY <2>1, WrittenOf
  <2>4. x[k] = Entries(w, {}, Bioses[k]) /\ y[k] = Entries(already, files, Bioses[k])
    OBVIOUS
  <2> HIDE DEF w, x, y
  <2>5. Entries(w, {}, Bioses[k]) = Entries(already, files, Bioses[k])
    BY <2>1, <2>2, <2>3, WrittenAgain
  <2> QED BY <2>4, <2>5
<1>3. x = y
  <2> HIDE DEF x, y, n
  <2> QED BY <1>1, <1>2, SameList
<1>4. w = FlattenSeq(y)
  BY DEF Written
<1>5. Settled(w) <=> w = FlattenSeq(x)
  BY DEF Settled
<1> HIDE DEF w, x, y
<1>6. Settled(w)
  BY <1>3, <1>4, <1>5
<1> QED BY <1>6 DEF w

\* What is settled holds a BIOS' entries as no file at hand would have them.
LEMMA SettledOf ==
    ASSUME NEW entries, IsList(entries), Settled(entries), NEW id \in Range(Bioses)
    PROVE  {e \in Range(entries) : e.id = id} = Range(Entries(entries, {}, id))
<1>1. entries = Written(entries, {})
  BY Zenon DEF Settled, Written
<1> DEFINE w == Written(entries, {})
<1>2. {e \in Range(w) : e.id = id} = Range(Entries(entries, {}, id))
  BY WrittenOf
<1> HIDE DEF w
<1>3. entries = w
  BY <1>1 DEF w
<1> QED BY <1>2, <1>3, Zenon

-----------------------------------------------------------------------------
\* What the entries say.
LEMMA WrittenEntries ==
    ASSUME NEW already, IsList(already), \A e \in Range(already) : IsEntry(e), NEW files,
           NEW e \in Range(Written(already, files))
    PROVE  IsEntry(e)
<1>1. PICK k \in 1 .. Len(Bioses) : e \in Range(Entries(already, files, Bioses[k]))
  BY WrittenHolds
<1> DEFINE id == Bioses[k]
<1>2. id \in Range(Bioses)
  BY BiosesAreListed
<1> HIDE DEF id
<1>3. ASSUME NEW form \in {Plain} \union Range(Forms[id]), NEW is \in {Always, form},
             e = EntryOf(id, form, is)
      PROVE IsEntry(e)
  BY <1>2, <1>3 DEF IsEntry, EntryOf
<1>4. \A form : Condition(files, id, form) \in {Always, form}
  BY DEF Condition
<1>5. CASE DeclaredForms(already, files, id) # <<>>
  <2>1. e \in Range(DeclaredForms(already, files, id))
    BY <1>1, <1>5, EntriesInParts DEF id
  <2>2. PICK j \in 1 .. Len(Forms[id]) : e \in Range(Cells(already, files, id)[j])
    BY <1>2, <2>1, FormsHold
  <2> DEFINE form == Forms[id][j]
             is == Condition(files, id, form)
  <2>3. form \in Range(Forms[id]) /\ e \in Range(Declared(already, files, id, form, is))
    BY <1>2, <2>2, FormsHold
  <2>4. is \in {Always, form}
    BY <1>4
  <2> HIDE DEF form, is
  <2>5. e \in Range(already) \/ e = EntryOf(id, form, is)
    BY <2>3, DeclaredHolds
  <2> QED BY <1>3, <2>3, <2>4, <2>5
<1>6. CASE DeclaredForms(already, files, id) = <<>>
  <2>1. e \in Range(Declared(already, files, id, Plain, Always))
    BY <1>1, <1>6, EntriesInParts DEF id
  <2>2. e \in Range(already) \/ e = EntryOf(id, Plain, Always)
    BY <2>1, DeclaredHolds
  <2> QED BY <1>3, <2>2
<1> QED BY <1>5, <1>6

\* The forms at hand.
FormsAtHand(files, id) == {f \in Range(Forms[id]) : AtHand(files, id, f)}

LEMMA ConditionHolds ==
    ASSUME NEW files, NEW id \in Range(Bioses)
    PROVE  /\ \A f, g \in FormsAtHand(files, id) : f # g => \A form : Condition(files, id, form) = form
           /\ \A f : FormsAtHand(files, id) = {f} => \A form : Condition(files, id, form) = Always
<1> DEFINE S == FormsAtHand(files, id)
<1>1. \A form : Condition(files, id, form) = IF Cardinality(S) > 1 THEN form ELSE Always
  BY Zenon DEF Condition, FormsAtHand, AtHand
<1>2. IsFiniteSet(S)
  <2>1. Range(Forms[id]) = {Forms[id][k] : k \in 1 .. Len(Forms[id])} /\ Len(Forms[id]) \in Nat
    BY BiosFacts, ListFacts DEF Range
  <2>2. IsFiniteSet(1 .. Len(Forms[id]))
    BY <2>1, FS_Interval
  <2> DEFINE I == 1 .. Len(Forms[id])
             h == [k \in I |-> Forms[id][k]]
  <2>3. h \in Surjection(I, Range(Forms[id]))
    BY <2>1 DEF Surjection, Range
  <2> HIDE DEF I, h
  <2>4. IsFiniteSet(Range(Forms[id]))
    BY <2>2, <2>3, FS_Surjection DEF I
  <2>5. S \subseteq Range(Forms[id])
    BY DEF FormsAtHand
  <2> QED BY <2>4, <2>5, FS_Subset
<1> HIDE DEF S
<1>3. ASSUME NEW f \in S, NEW g \in S, f # g PROVE Cardinality(S) > 1
  <2>1. IsFiniteSet({f}) /\ Cardinality({f}) = 1
    BY FS_Singleton
  <2>2. {f} \subseteq S /\ {f} # S
    BY <1>3
  <2>3. Cardinality({f}) < Cardinality(S) /\ Cardinality(S) \in Nat
    <3> DEFINE one == {f}
    <3> HIDE DEF one
    <3>1. one \subseteq S /\ one # S
      BY <2>2 DEF one
    <3>2. Cardinality(one) <= Cardinality(S) /\ (Cardinality(one) = Cardinality(S) => S = one)
      BY <1>2, <3>1, FS_Subset
    <3>3. Cardinality(S) \in Nat /\ Cardinality(one) = 1
      BY <1>2, <2>1, FS_CardinalityType DEF one
    <3> QED BY <3>1, <3>2, <3>3 DEF one
  <2> QED BY <2>1, <2>3
<1>4. ASSUME NEW f, S = {f} PROVE ~(Cardinality(S) > 1)
  <2>1. Cardinality({f}) = 1
    BY FS_Singleton
  <2> QED BY <1>4, <2>1
<1>5. \A f, g \in S : f # g => \A form : Condition(files, id, form) = form
  BY <1>1, <1>3
<1>6. \A f : S = {f} => \A form : Condition(files, id, form) = Always
  BY <1>1, <1>4
<1> QED BY <1>5, <1>6 DEF S

\* A form at hand is among the entries, on its condition.
LEMMA FormIsWritten ==
    ASSUME NEW already, IsList(already), NEW files, NEW id \in Range(Bioses), NEW f \in FormsAtHand(files, id)
    PROVE  EntryOf(id, f, Condition(files, id, f)) \in Range(Entries(already, files, id))
<1> DEFINE is == Condition(files, id, f)
           forms == DeclaredForms(already, files, id)
<1>1. f \in Range(Forms[id]) /\ AtHand(files, id, f)
  BY DEF FormsAtHand
<1>2. PICK k \in 1 .. Len(Forms[id]) : f = Forms[id][k]
  BY <1>1, BiosFacts, ListFacts
<1>3. Cells(already, files, id)[k] = Declared(already, files, id, f, is)
  BY <1>2, FormsHold
<1> HIDE DEF is, forms
<1>4. EntryOf(id, f, is) \in Range(Declared(already, files, id, f, is))
  BY <1>1, DeclaredHolds
<1>5. EntryOf(id, f, is) \in Range(forms)
  BY <1>3, <1>4, FormsHold DEF forms
<1>6. forms # <<>>
  BY <1>5, EmptyList
<1>7. Entries(already, files, id) = forms
  BY <1>6, EntriesInParts DEF forms
<1> QED BY <1>5, <1>7 DEF is

\* Where no form is at hand, the plain file is asked for always or the entries
\* are those that no file at hand would give.
LEMMA NoFormAtHand ==
    ASSUME NEW already, IsList(already), NEW files, NEW id \in Range(Bioses), FormsAtHand(files, id) = {}
    PROVE  \/ Entries(already, files, id) = Entries(already, {}, id)
           \/ Entries(already, files, id) = <<EntryOf(id, Plain, Always)>>
<1> DEFINE x == Cells(already, files, id)
           y == Cells(already, {}, id)
           n == Len(Forms[id])
<1>1. /\ n \in Nat /\ x = [k \in 1 .. n |-> x[k]]
      /\ \A k \in 1 .. n : /\ Forms[id][k] \in Range(Forms[id])
                           /\ x[k] = Declared(already, files, id, Forms[id][k], Condition(files, id, Forms[id][k]))
  BY FormsHold
<1>2. y = [k \in 1 .. n |-> y[k]]
  BY DEF Cells
<1>3. ASSUME NEW k \in 1 .. n PROVE x[k] = y[k]
  <2> DEFINE form == Forms[id][k]
             is == Condition(files, id, form)
  <2>1. ~AtHand(files, id, form)
    BY <1>1 DEF FormsAtHand
  <2>2. x[k] = Declared(already, files, id, form, is)
    BY <1>1
  <2> HIDE DEF form, is, x
  <2>3. x[k] = Known(already, id, FileName[id][form])
    BY <2>1, <2>2, DeclaredInParts, Zenon
  <2> QED BY <2>3, CellsOfKnown DEF form
<1>4. x = y
  <2> HIDE DEF x, y, n
  <2> QED BY <1>1, <1>2, <1>3, SameList
<1> DEFINE forms == DeclaredForms(already, {}, id)
<1>5. DeclaredForms(already, files, id) = forms
  BY <1>4, EntriesInParts, Zenon
<1>6. /\ Entries(already, files, id) = IF forms # <<>> THEN forms ELSE Declared(already, files, id, Plain, Always)
      /\ Entries(already, {}, id) = IF forms # <<>> THEN forms ELSE Declared(already, {}, id, Plain, Always)
  <2>1. Entries(already, files, id) = IF forms # <<>> THEN forms ELSE Declared(already, files, id, Plain, Always)
    BY <1>5, EntriesInParts
  <2>2. Entries(already, {}, id) = IF forms # <<>> THEN forms ELSE Declared(already, {}, id, Plain, Always)
    BY EntriesInParts, Zenon
  <2> QED BY <2>1, <2>2
<1>7. CASE AtHand(files, id, Plain)
  <2>1. Declared(already, files, id, Plain, Always) = <<EntryOf(id, Plain, Always)>>
    BY <1>7, DeclaredInParts, Zenon
  <2> HIDE DEF forms
  <2> QED BY <1>6, <2>1
<1>8. CASE ~AtHand(files, id, Plain)
  <2>1. Declared(already, files, id, Plain, Always) = Known(already, id, FileName[id][Plain])
    BY <1>8, DeclaredInParts, Zenon
  <2>2. Declared(already, {}, id, Plain, Always) = Known(already, id, FileName[id][Plain])
    BY PlainOfKnown
  <2> HIDE DEF forms
  <2> QED BY <1>6, <2>1, <2>2
<1> QED BY <1>7, <1>8

LEMMA EntryFacts ==
    ASSUME NEW id, NEW form, NEW is
    PROVE  EntryOf(id, form, is).id = id /\ EntryOf(id, form, is).is = is
BY DEF EntryOf

\* What answers an entry: one of its BIOS that is asked for always, or otherwise than it.
AnswersTo(e, d) == e.id = d.id /\ (e.is = Always \/ e.is # d.is)

LEMMA WrittenIsAnswered ==
    ASSUME NEW already, IsList(already), Settled(already), Answered(already), NEW files
    PROVE  Answered(Written(already, files))
<1> DEFINE w == Written(already, files)
<1> SUFFICES ASSUME NEW d \in Range(w) PROVE \E e \in Range(w) : AnswersTo(e, d)
  BY DEF Answered, AnswersTo
<1>1. PICK k \in 1 .. Len(Bioses) : d \in Range(Entries(already, files, Bioses[k]))
  BY WrittenHolds
<1> DEFINE id == Bioses[k]
           part == Entries(already, files, id)
<1>2. id \in Range(Bioses)
  BY BiosesAreListed
<1>3. \A e \in Range(part) : e \in Range(w)
  BY WrittenHolds
<1>4. d \in Range(part) /\ d.id = id
  BY <1>1, <1>2, EntriesHold
<1> HIDE DEF w, part, id
<1> SUFFICES \E e \in Range(part) : AnswersTo(e, d)
  BY <1>3
<1>5. \A f \in FormsAtHand(files, id) : EntryOf(id, f, Condition(files, id, f)) \in Range(part)
  BY <1>2, FormIsWritten DEF part
<1>6. CASE \E f, g \in FormsAtHand(files, id) : f # g
  <2>1. PICK f \in FormsAtHand(files, id) : \E g \in FormsAtHand(files, id) : f # g
    BY <1>6
  <2>2. PICK g \in FormsAtHand(files, id) : f # g
    BY <2>1
  <2>3. Condition(files, id, f) = f /\ Condition(files, id, g) = g
    BY <1>2, <2>2, ConditionHolds
  <2>4. EntryOf(id, f, f) \in Range(part) /\ EntryOf(id, g, g) \in Range(part)
    BY <1>5, <2>3
  <2>5. d.is # f => AnswersTo(EntryOf(id, f, f), d)
    BY <1>4, EntryFacts DEF AnswersTo
  <2>6. d.is # g => AnswersTo(EntryOf(id, g, g), d)
    BY <1>4, EntryFacts DEF AnswersTo
  <2> QED BY <2>2, <2>4, <2>5, <2>6
<1>7. CASE \E f : FormsAtHand(files, id) = {f}
  <2>1. PICK f : FormsAtHand(files, id) = {f}
    BY <1>7
  <2>2. Condition(files, id, f) = Always
    <3>1. \A form : Condition(files, id, form) = Always
      BY <1>2, <2>1, ConditionHolds, Zenon
    <3> QED BY <3>1
  <2>3. EntryOf(id, f, Always) \in Range(part)
    BY <1>5, <2>1, <2>2
  <2>4. AnswersTo(EntryOf(id, f, Always), d)
    BY <1>4, EntryFacts DEF AnswersTo
  <2> QED BY <2>3, <2>4
<1>8. CASE FormsAtHand(files, id) = {}
  <2>1. CASE part = Entries(already, {}, id)
    <3>1. {e \in Range(already) : e.id = id} = Range(part)
      BY <1>2, <2>1, SettledOf
    <3>2. d \in Range(already)
      BY <1>4, <3>1
    <3>3. PICK e \in Range(already) : e.id = d.id /\ (e.is = Always \/ e.is # d.is)
      BY <3>2 DEF Answered
    <3>4. e \in Range(part)
      BY <1>4, <3>1, <3>3
    <3> QED BY <3>3, <3>4 DEF AnswersTo
  <2>2. CASE part = <<EntryOf(id, Plain, Always)>>
    <3>1. EntryOf(id, Plain, Always) \in Range(part)
      <4> DEFINE e == EntryOf(id, Plain, Always)
      <4> HIDE DEF e
      <4>1. Range(part) = {e}
        BY <2>2, OneOnly DEF e
      <4> QED BY <4>1 DEF e
    <3>2. AnswersTo(EntryOf(id, Plain, Always), d)
      BY <1>4, EntryFacts DEF AnswersTo
    <3> QED BY <3>1, <3>2
  <2>3. part = Entries(already, {}, id) \/ part = <<EntryOf(id, Plain, Always)>>
    <3>1. \/ Entries(already, files, id) = Entries(already, {}, id)
          \/ Entries(already, files, id) = <<EntryOf(id, Plain, Always)>>
      BY <1>2, <1>8, NoFormAtHand
    <3> QED BY <3>1, Zenon DEF part
  <2> QED BY <2>1, <2>2, <2>3
<1>9. \A S : S = {} \/ (\E f : S = {f}) \/ \E f, g \in S : f # g
  <2> SUFFICES ASSUME NEW S, S # {}, \A f, g \in S : f = g PROVE \E f : S = {f}
    OBVIOUS
  <2>1. PICK f \in S : TRUE
    OBVIOUS
  <2>2. S = {f}
    BY <2>1
  <2> QED BY <2>2
<1> QED BY <1>6, <1>7, <1>8, <1>9, Zenon

LEMMA WrittenIsProvided ==
    ASSUME NEW already, IsList(already), NEW files, NEW machines,
           \A k \in 1 .. Len(Bioses) : Entries(already, files, Bioses[k]) = <<>> => WhoAsk(Bioses[k]) \intersect machines = {},
           machines \subseteq Consoles
    PROVE  Provided(machines, Written(already, files))
<1> SUFFICES ASSUME NEW c \in machines, NEW id \in Asks[c]
             PROVE  \E e \in Range(Written(already, files)) : e.id = id
  BY DEF Provided
<1>1. id \in Range(Bioses) /\ c \in WhoAsk(id)
  BY BiosesAssumption DEF WhoAsk, Consoles
<1>2. PICK k \in 1 .. Len(Bioses) : id = Bioses[k]
  BY <1>1, BiosesAreListed
<1> DEFINE part == Entries(already, files, id)
<1>3. part # <<>>
  BY <1>1, <1>2
<1>4. IsList(part) /\ \A e \in Range(part) : e.id = id
  BY <1>1, EntriesHold
<1> HIDE DEF part
<1>5. PICK e \in Range(part) : TRUE
  BY <1>3, <1>4, NothingListed
<1>6. e \in Range(Written(already, files))
  BY <1>2, <1>5, WrittenHolds DEF part
<1> QED BY <1>4, <1>5, <1>6

\* A package written with no file at hand is the one there was.
LEMMA RenderedAgain ==
    ASSUME PackageInv, built = offered
    PROVE  RenderFirmware(firmware, {}) = firmware
<1>1. IsList(firmware) /\ Settled(firmware) /\ Provided(built, firmware) /\ built \subseteq Consoles
  BY DEF PackageInv
<1>2. ASSUME NEW k \in 1 .. Len(Bioses), Entries(firmware, {}, Bioses[k]) = <<>>, Unprovided(Bioses[k])
      PROVE  FALSE
  <2>1. Bioses[k] \in Range(Bioses)
    BY BiosesAreListed
  <2>2. PICK c \in WhoAsk(Bioses[k]) : c \in built
    BY <1>2 DEF Unprovided
  <2>3. Bioses[k] \in Asks[c]
    BY DEF WhoAsk
  <2>4. PICK e \in Range(firmware) : e.id = Bioses[k]
    BY <1>1, <2>2, <2>3 DEF Provided
  <2>5. {d \in Range(firmware) : d.id = Bioses[k]} = Range(Entries(firmware, {}, Bioses[k]))
    BY <1>1, <2>1, SettledOf
  <2>6. Range(Entries(firmware, {}, Bioses[k])) = {}
    BY <1>2, EmptyList
  <2> QED BY <2>4, <2>5, <2>6
<1>3. RenderFirmware(firmware, {}) = Written(firmware, {})
  <2>1. \A k \in 1 .. Len(Bioses) : Entries(firmware, {}, Bioses[k]) = <<>> => ~Unprovided(Bioses[k])
    BY <1>2
  <2> QED BY <2>1, RenderedOrRefused, Zenon
<1>4. firmware = Written(firmware, {})
  BY <1>1, Zenon DEF Settled, Written
<1> QED BY <1>3, <1>4, Zenon

-----------------------------------------------------------------------------
\* The forms that may be chosen.
AskedForms(entries, id) == {f \in Range(Forms[id]) : \E e \in Range(entries) : e.id = id /\ e.is = f}

LEMMA ChoicesHold ==
    ASSUME NEW entries, NEW id \in Range(Bioses)
    PROVE  LET made == VariantSettings(entries)[id]
           IN  /\ IsList(made) /\ Len(made) # 1
               /\ made # <<>> => Range(made) = AskedForms(entries, id)
               /\ made = <<>> => \A f, g \in AskedForms(entries, id) : f = g
<1> DEFINE wanted == AskedForms(entries, id)
           asked == Only(Forms[id], wanted)
           made == VariantSettings(entries)[id]
<1>1. made = IF Len(asked) < 2 THEN <<>> ELSE asked
  BY Zenon DEF VariantSettings, AskedForms
<1>2. IsList(asked) /\ Range(asked) = wanted
  <2>1. wanted \subseteq Range(Forms[id])
    BY DEF AskedForms
  <2> HIDE DEF wanted
  <2>2. IsList(asked) /\ Range(asked) = Range(Forms[id]) \intersect wanted
    BY BiosFacts, Selected
  <2> HIDE DEF asked
  <2> QED BY <2>1, <2>2
<1> HIDE DEF asked, wanted, made
<1>3. /\ Len(asked) \in Nat /\ DOMAIN asked = 1 .. Len(asked)
      /\ \A f : f \in Range(asked) <=> \E i \in 1 .. Len(asked) : f = asked[i]
  BY <1>2, ListFacts
<1>4. IsList(<<>>) /\ Len(<<>>) = 0
  BY EmptyList
<1>5. CASE Len(asked) < 2
  <2>1. ASSUME NEW f \in wanted, NEW g \in wanted PROVE f = g
    <3>1. PICK i \in 1 .. Len(asked) : f = asked[i]
      BY <1>2, <1>3
    <3>2. PICK j \in 1 .. Len(asked) : g = asked[j]
      BY <1>2, <1>3
    <3>3. i = j
      BY <1>3, <1>5
    <3> QED BY <3>1, <3>2, <3>3
  <2>2. made = <<>>
    BY <1>1, <1>5
  <2> QED BY <1>4, <2>1, <2>2 DEF made, wanted
<1>6. CASE ~(Len(asked) < 2)
  <2>1. made = asked
    BY <1>1, <1>6
  <2>2. Len(asked) # 1 /\ asked # <<>>
    BY <1>3, <1>4, <1>6
  <2> QED BY <1>2, <2>1, <2>2 DEF made, wanted
<1> QED BY <1>5, <1>6

-----------------------------------------------------------------------------
\* A key is of one machine and of one setting of it.
LEMMA KeysTell ==
    ASSUME NEW c \in Consoles, NEW o \in Range(Offers[c]), NEW d \in Consoles, NEW q \in Range(Offers[d]),
           SettingKey(c, o.name) = SettingKey(d, q.name)
    PROVE  c = d /\ o = q
<1> DEFINE x == Ident[o.name]
           y == Ident[q.name]
<1>1. SettingKey(c, o.name) = <<c, x>> /\ SettingKey(d, q.name) = <<d, y>>
  BY DEF SettingKey
<1> HIDE DEF x, y
<1>2. c = d /\ x = y
  <2> DEFINE k == SettingKey(c, o.name)
  <2> HIDE DEF k
  <2>1. k = <<c, x>> /\ k = <<d, y>>
    BY <1>1 DEF k
  <2>2. k[1] = c /\ k[2] = x
    BY <2>1, Pair
  <2>3. k[1] = d /\ k[2] = y
    BY <2>1, Pair
  <2> QED BY <2>2, <2>3
<1> QED BY <1>2, OffersAssumption DEF Consoles, x, y

LEMMA OptionsHold ==
    ASSUME NEW s, IsSetting(s)
    PROVE  Head(s.options) \in Range(s.options)
<1>1. PICK c \in Consoles : \E o \in Range(Offers[c]) : s.key = SettingKey(c, o.name) /\ s.options = o.options
  BY DEF IsSetting
<1>2. PICK o \in Range(Offers[c]) : s.options = o.options
  BY <1>1
<1> DEFINE list == s.options
<1>3. IsList(list) /\ list # <<>>
  BY <1>2, OffersAssumption DEF Consoles
<1> HIDE DEF list
<1>4. Len(list) \in Nat /\ DOMAIN list = 1 .. Len(list) /\ \A x : x \in Range(list) <=> \E i \in 1 .. Len(list) : x = list[i]
  BY <1>3, ListFacts
<1>5. Len(list) # 0
  <2>1. list \in Seq(Range(list))
    BY <1>3 DEF IsList
  <2> QED BY <1>3, <2>1
<1>6. list[1] \in Range(list) /\ Head(list) = list[1]
  <2>1. 1 \in 1 .. Len(list)
    BY <1>4, <1>5
  <2>2. list \in Seq(Range(list))
    BY <1>3 DEF IsList
  <2> QED BY <1>4, <2>1, <2>2
<1> QED BY <1>6 DEF list

LEMMA ValueIsOffered ==
    ASSUME NEW s, IsSetting(s), NEW v, IsValue(v), v.key = s.key
    PROVE  v.value \in Range(s.options)
<1>1. PICK c \in Consoles : \E o \in Range(Offers[c]) : s.key = SettingKey(c, o.name) /\ s.options = o.options
  BY DEF IsSetting
<1>2. PICK o \in Range(Offers[c]) : s.key = SettingKey(c, o.name) /\ s.options = o.options
  BY <1>1
<1>3. PICK d \in Consoles : \E q \in Range(Offers[d]) : v.key = SettingKey(d, q.name) /\ v.value \in Range(q.options)
  BY DEF IsValue
<1>4. PICK q \in Range(Offers[d]) : v.key = SettingKey(d, q.name) /\ v.value \in Range(q.options)
  BY <1>3
<1>5. SettingKey(c, o.name) = SettingKey(d, q.name)
  BY <1>2, <1>4
<1>6. o = q
  BY <1>5, KeysTell
<1> QED BY <1>2, <1>4, <1>6

LEMMA AresSettingsHold == ASSUME built \subseteq Consoles, NEW s \in AresSettings PROVE IsSetting(s)
<1>1. PICK c \in built : s \in {[on |-> c, key |-> SettingKey(c, o.name), path |-> o.path, options |-> o.options] :
                                   o \in Range(Offers[c])}
  BY DEF AresSettings
<1>2. PICK o \in Range(Offers[c]) : s = [on |-> c, key |-> SettingKey(c, o.name), path |-> o.path, options |-> o.options]
  BY <1>1
<1>3. s.key = SettingKey(c, o.name) /\ s.options = o.options
  BY <1>2
<1> QED BY <1>3 DEF IsSetting

LEMMA NoNodes == nodes = <<>> => NodesHoldTheirOwn
BY DEF NodesHoldTheirOwn

-----------------------------------------------------------------------------
LEMMA PackageStarts == PackageInit => PackageInv
<1> SUFFICES ASSUME PackageInit PROVE PackageInv
  OBVIOUS
<1>1. built \subseteq Consoles /\ offered \subseteq Consoles
  BY DEF PackageInit, BuiltWith
<1>2. firmware = <<>> /\ Range(firmware) = {} /\ IsList(firmware)
  BY EmptyList DEF PackageInit
<1>3. Answered(firmware) /\ Provided(offered, firmware)
  BY <1>2 DEF Answered, Provided, PackageInit
<1>4. \A id \in Range(Bioses) : Entries(<<>>, {}, id) = <<>>
  <2> SUFFICES ASSUME NEW id \in Range(Bioses) PROVE Entries(<<>>, {}, id) = <<>>
    OBVIOUS
  <2> DEFINE none == <<>>
  <2>1. IsList(none) /\ Range(none) = {} /\ none = <<>>
    BY EmptyList
  <2>2. IsCell(none, id, FileName[id][Plain])
    BY DEF IsCell
  <2> HIDE DEF none
  <2>3. {e \in Range(none) : e.id = id} = Range(none)
    BY <2>1
  <2>4. Entries(none, {}, id) = none
    BY <2>1, <2>2, <2>3, PlainKnownAgain
  <2> QED BY <2>1, <2>4
<1>5. Settled(firmware)
  <2> DEFINE parts == [k \in 1 .. Len(Bioses) |-> Entries(<<>>, {}, Bioses[k])]
  <2>1. Len(Bioses) \in Nat /\ parts = [k \in 1 .. Len(Bioses) |-> parts[k]]
    BY BiosesAreListed
  <2>2. \A k \in 1 .. Len(Bioses) : parts[k] = <<>>
    BY <1>4, BiosesAreListed
  <2> HIDE DEF parts
  <2>3. \A k \in 1 .. Len(Bioses) : IsList(parts[k]) /\ Range(parts[k]) = {}
    BY <2>2, EmptyList
  <2>4. /\ IsList(FlattenSeq(parts))
        /\ \A x : x \in Range(FlattenSeq(parts)) <=> \E k \in 1 .. Len(Bioses) : x \in Range(parts[k])
    BY <2>1, <2>3, Flattened
  <2>5. Range(FlattenSeq(parts)) = {}
    BY <2>3, <2>4
  <2>6. FlattenSeq(parts) = <<>>
    BY <2>4, <2>5, NothingListed
  <2>7. Settled(<<>>) <=> <<>> = FlattenSeq(parts)
    BY Zenon DEF Settled, parts
  <2> QED BY <1>2, <2>6, <2>7
<1>6. choices = VariantSettings(firmware)
  <2>1. ASSUME NEW id \in Range(Bioses) PROVE VariantSettings(<<>>)[id] = <<>>
    <3> DEFINE made == VariantSettings(<<>>)[id]
               none == <<>>
    <3>1. Range(none) = {}
      BY EmptyList
    <3>2. AskedForms(none, id) = {}
      <4> HIDE DEF none
      <4> QED BY <3>1 DEF AskedForms
    <3>3. IsList(made) /\ (made # <<>> => Range(made) = AskedForms(none, id))
      BY ChoicesHold
    <3> HIDE DEF made, none
    <3>4. made = <<>>
      BY <3>2, <3>3, NothingListed
    <3> QED BY <3>4 DEF made
  <2>2. VariantSettings(<<>>) = [id \in Range(Bioses) |-> VariantSettings(<<>>)[id]]
    BY DEF VariantSettings
  <2>3. choices = [id \in Range(Bioses) |-> <<>>]
    BY DEF PackageInit
  <2>4. VariantSettings(<<>>) = [id \in Range(Bioses) |-> <<>>]
    BY <2>1, <2>2
  <2> QED BY <1>2, <2>3, <2>4
<1>7. project = [machine |-> Refused, values |-> {}] /\ settings = {} /\ NodesHoldTheirOwn
  BY NoNodes DEF PackageInit
<1> QED BY <1>1, <1>2, <1>3, <1>5, <1>6, <1>7 DEF PackageInv

LEMMA StillNoNodes == nodes' = <<>> => NodesHoldTheirOwn'
BY DEF NodesHoldTheirOwn

LEMMA PackageGenerated ==
    ASSUME PackageInv, NEW files, GenerateConfig(files)
    PROVE  PackageInv'
<1>1. /\ firmware' = Written(firmware, files)
      /\ \A k \in 1 .. Len(Bioses) : Entries(firmware, files, Bioses[k]) = <<>> => ~Unprovided(Bioses[k])
  BY RenderedOrRefused, Zenon DEF GenerateConfig
<1>2. /\ built' = built /\ offered' = built /\ choices' = VariantSettings(firmware')
      /\ settings' = AresSettings /\ project' = project /\ nodes' = <<>>
  BY DEF GenerateConfig
<1>3. /\ IsList(firmware) /\ Settled(firmware) /\ Answered(firmware) /\ \A e \in Range(firmware) : IsEntry(e)
      /\ built \subseteq Consoles
  BY DEF PackageInv
<1> DEFINE w == Written(firmware, files)
<1>4. IsList(w) /\ \A e \in Range(w) : IsEntry(e)
  BY <1>3, WrittenHolds, WrittenEntries
<1>5. Answered(w) /\ Settled(w)
  BY <1>3, WrittenIsAnswered, WrittenIsSettled
<1>6. Provided(built, w)
  <2>1. \A k \in 1 .. Len(Bioses) : Entries(firmware, files, Bioses[k]) = <<>> => WhoAsk(Bioses[k]) \intersect built = {}
    BY <1>1 DEF Unprovided
  <2> QED BY <1>3, <2>1, WrittenIsProvided
<1>7. \A s \in AresSettings : IsSetting(s)
  BY <1>3, AresSettingsHold
<1> HIDE DEF w
<1>8. firmware' = w
  BY <1>1 DEF w
<1>9. /\ project' = [machine |-> project'.machine, values |-> project'.values]
      /\ project'.machine \in Consoles \union {Refused} /\ \A v \in project'.values : IsValue(v)
  BY <1>2 DEF PackageInv
<1>10. NodesHoldTheirOwn'
  BY <1>2, StillNoNodes
<1> QED BY <1>2, <1>3, <1>4, <1>5, <1>6, <1>7, <1>8, <1>9, <1>10 DEF PackageInv

LEMMA SettingIsSet ==
    ASSUME PackageInv, NEW s \in settings, NEW value \in Range(s.options), SetSetting(s, value)
    PROVE  PackageInv'
<1> DEFINE v == [key |-> s.key, value |-> value]
           rest == {x \in project.values : x.key # s.key}
<1>1. /\ project' = [project EXCEPT !.values = rest \union {v}]
      /\ nodes' = <<>> /\ UNCHANGED <<built, offered, firmware, choices, settings>>
  BY DEF SetSetting
<1>2. IsSetting(s) /\ project = [machine |-> project.machine, values |-> project.values]
  BY DEF PackageInv
<1>3. v.key = s.key /\ v.value = value
  OBVIOUS
<1>4. IsValue(v)
  <2> HIDE DEF v
  <2> QED BY <1>2, <1>3 DEF IsValue, IsSetting
<1>5. \A x \in rest : IsValue(x)
  BY DEF PackageInv
<1> HIDE DEF v, rest
<1>6. project' = [machine |-> project.machine, values |-> rest \union {v}]
  BY <1>1, <1>2
<1>7. /\ project' = [machine |-> project'.machine, values |-> project'.values]
      /\ project'.machine = project.machine /\ project'.values = rest \union {v}
  BY <1>6
<1>8. NodesHoldTheirOwn'
  BY <1>1, StillNoNodes
<1>9. project'.machine \in Consoles \union {Refused} /\ \A x \in project'.values : IsValue(x)
  BY <1>4, <1>5, <1>7 DEF PackageInv
<1> QED BY <1>1, <1>7, <1>8, <1>9 DEF PackageInv

LEMMA SettingsApplied == ASSUME PackageInv, ApplySettings PROVE PackageInv'
<1> DEFINE shown == {t \in settings : t.on = project.machine}
           said(s) == \E v \in project.values : v.key = s.key
           one(s) == CHOOSE v \in project.values : v.key = s.key
<1>1. /\ nodes' = [s \in shown |-> IF said(s) THEN one(s).value ELSE Head(s.options)]
      /\ UNCHANGED <<built, offered, firmware, choices, settings, project>>
  BY DEF ApplySettings
<1>2. ASSUME NEW s \in shown PROVE nodes'[s] \in Range(s.options)
  <2>1. IsSetting(s)
    BY DEF PackageInv
  <2>2. nodes'[s] = IF said(s) THEN one(s).value ELSE Head(s.options)
    BY <1>1
  <2>3. CASE said(s)
    <3>1. one(s) \in project.values /\ one(s).key = s.key
      BY <2>3
    <3>2. IsValue(one(s))
      BY <3>1 DEF PackageInv
    <3> HIDE DEF one
    <3>3. one(s).value \in Range(s.options)
      BY <2>1, <3>1, <3>2, ValueIsOffered
    <3> QED BY <2>2, <2>3, <3>3
  <2>4. CASE ~said(s)
    <3>1. nodes'[s] = Head(s.options)
      BY <2>2, <2>4
    <3> QED BY <2>1, <3>1, OptionsHold
  <2> QED BY <2>3, <2>4
<1>3. DOMAIN nodes' = shown
  BY <1>1
<1>4. NodesHoldTheirOwn'
  BY <1>2, <1>3 DEF NodesHoldTheirOwn
<1> QED BY <1>1, <1>4 DEF PackageInv

LEMMA PackageSteps == PackageInv /\ [PackageNext]_packageVars => PackageInv'
<1> SUFFICES ASSUME PackageInv, [PackageNext]_packageVars PROVE PackageInv'
  OBVIOUS
<1>1. ASSUME NEW files \in Dumps, DescribeMachines(files) PROVE PackageInv'
  <2>1. built' \subseteq Consoles
    BY <1>1 DEF DescribeMachines, BuiltWith
  <2>2. nodes' = <<>> /\ UNCHANGED <<offered, firmware, choices, settings, project>>
    BY <1>1 DEF DescribeMachines
  <2>3. NodesHoldTheirOwn'
    BY <2>2, StillNoNodes
  <2> QED BY <2>1, <2>2, <2>3 DEF PackageInv
<1>2. ASSUME NEW files \in Dumps, GenerateConfig(files) PROVE PackageInv'
  BY <1>2, PackageGenerated
<1>3. ASSUME NEW c \in offered, ChooseMachine(c) PROVE PackageInv'
  <2>1. /\ project' = [project EXCEPT !.machine = c]
        /\ nodes' = <<>> /\ UNCHANGED <<built, offered, firmware, choices, settings>>
    BY <1>3 DEF ChooseMachine
  <2>2. project = [machine |-> project.machine, values |-> project.values] /\ c \in Consoles
    BY DEF PackageInv
  <2>3. project' = [machine |-> c, values |-> project.values]
    BY <2>1, <2>2
  <2>4. /\ project' = [machine |-> project'.machine, values |-> project'.values]
        /\ project'.machine = c /\ project'.values = project.values
    BY <2>3
  <2>5. NodesHoldTheirOwn'
    BY <2>1, StillNoNodes
  <2> QED BY <2>1, <2>2, <2>4, <2>5 DEF PackageInv
<1>4. ASSUME NEW s \in settings, NEW value \in Range(s.options), SetSetting(s, value) PROVE PackageInv'
  BY <1>4, SettingIsSet
<1>5. ASSUME ApplySettings PROVE PackageInv'
  BY <1>5, SettingsApplied
<1>6. ASSUME UNCHANGED packageVars PROVE PackageInv'
  BY <1>6 DEF PackageInv, packageVars, NodesHoldTheirOwn
<1> QED BY <1>1, <1>2, <1>3, <1>4, <1>5, <1>6 DEF PackageNext

LEMMA PackageAlways == PackageSpec => []PackageInv
BY PackageStarts, PackageSteps, PTL DEF PackageSpec

\* Every variable of the package has its type, and a choice has two forms or none.
THEOREM PackageTypesHold == PackageSpec => []PackageTypeOK
<1>1. PackageInv => PackageTypeOK
  <2> SUFFICES ASSUME PackageInv PROVE PackageTypeOK
    OBVIOUS
  <2>1. ASSUME NEW e \in Range(firmware)
        PROVE  e.id \in Range(Bioses) /\ e.is \in {Always} \union Range(Forms[e.id])
    <3>1. IsEntry(e)
      BY DEF PackageInv
    <3> QED BY <3>1 DEF IsEntry, Always
  <2>2. ASSUME NEW id \in Range(Bioses)
        PROVE  Len(choices[id]) # 1 /\ Range(choices[id]) \subseteq Range(Forms[id])
    <3> DEFINE made == VariantSettings(firmware)[id]
    <3>1. choices[id] = made
      BY DEF PackageInv
    <3>2. /\ IsList(made) /\ Len(made) # 1
          /\ made # <<>> => Range(made) = AskedForms(firmware, id)
      BY ChoicesHold
    <3> HIDE DEF made
    <3>3. Range(made) \subseteq Range(Forms[id])
      BY <3>2, EmptyList DEF AskedForms
    <3> QED BY <3>1, <3>2, <3>3
  <2> QED BY <2>1, <2>2 DEF PackageInv, PackageTypeOK
<1> QED BY <1>1, PackageAlways, PTL

\* A machine that is offered asks for a file of each BIOS it starts from,
\* whatever forms there are, whoever has them and whichever is chosen.
THEOREM NoneEverAsksForNothing == PackageSpec => []NoneAsksForNothing
<1>1. PackageInv => NoneAsksForNothing
  <2> SUFFICES ASSUME PackageInv, NEW c \in offered, NEW id \in Asks[c], NEW f \in Choosable(id)
               PROVE  \E k \in 1 .. Len(firmware) :
                         firmware[k].id = id /\ c \in firmware[k].on /\ firmware[k].is \in {Always, f}
    BY DEF NoneAsksForNothing
  <2>1. c \in Consoles /\ id \in Range(Bioses) /\ c \in WhoAsk(id)
    BY BiosesAssumption DEF PackageInv, WhoAsk, Consoles
  <2>2. \E e \in Range(firmware) : e.id = id
    BY DEF PackageInv, Provided
  <2> DEFINE made == VariantSettings(firmware)[id]
  <2>3. choices[id] = made
    BY <2>1 DEF PackageInv
  <2>4. /\ made # <<>> => Range(made) = AskedForms(firmware, id)
        /\ made = <<>> => \A g, h \in AskedForms(firmware, id) : g = h
    BY <2>1, ChoicesHold
  <2> HIDE DEF made
  <2>5. \E e \in Range(firmware) : e.id = id /\ e.is \in {Always, f}
    <3>1. CASE made # <<>>
      <4>1. f \in AskedForms(firmware, id)
        BY <2>3, <2>4, <3>1 DEF Choosable
      <4> QED BY <4>1 DEF AskedForms
    <3>2. CASE made = <<>>
      <4>1. PICK d \in Range(firmware) : d.id = id
        BY <2>2
      <4>2. PICK e \in Range(firmware) : e.id = d.id /\ (e.is = Always \/ e.is # d.is)
        BY DEF PackageInv, Answered
      <4>3. ASSUME NEW x \in Range(firmware), x.id = id, x.is # Always PROVE x.is \in AskedForms(firmware, id)
        <5>1. IsEntry(x)
          BY DEF PackageInv
        <5>2. x.is \in Range(Forms[id])
          BY <4>3, <5>1 DEF IsEntry, Always
        <5> QED BY <4>3, <5>2 DEF AskedForms
      <4>4. d.is = Always \/ e.is = Always
        BY <2>4, <3>2, <4>1, <4>2, <4>3
      <4> QED BY <4>1, <4>2, <4>4
    <3> QED BY <3>1, <3>2
  <2>6. PICK e \in Range(firmware) : e.id = id /\ e.is \in {Always, f}
    BY <2>5
  <2>7. IsEntry(e)
    BY DEF PackageInv
  <2>8. c \in e.on
    BY <2>1, <2>6, <2>7 DEF IsEntry
  <2>9. \E k \in 1 .. Len(firmware) : e = firmware[k]
    BY ListFacts DEF PackageInv
  <2> QED BY <2>6, <2>8, <2>9
<1> QED BY <1>1, PackageAlways, PTL

\* Whoever generated the package last and with which files, a computer without
\* any writes it as it stands: nothing is forgotten and nothing asked otherwise.
THEOREM RunnersAlwaysFindTheSame == PackageSpec => []RunnersFindTheSame
<1>1. PackageInv => RunnersFindTheSame
  <2> SUFFICES ASSUME PackageInv, built = offered
               PROVE  /\ RenderFirmware(firmware, {}) = firmware
                      /\ VariantSettings(RenderFirmware(firmware, {})) = choices
    BY DEF RunnersFindTheSame
  <2>1. RenderFirmware(firmware, {}) = firmware
    BY RenderedAgain
  <2>2. VariantSettings(firmware) = choices
    BY DEF PackageInv
  <2> QED BY <2>1, <2>2, Zenon
<1> QED BY <1>1, PackageAlways, PTL

\* A node is given what is offered for it, whatever machines a project had.
THEOREM NodesAlwaysHoldTheirOwn == PackageSpec => []NodesHoldTheirOwn
<1>1. PackageInv => NodesHoldTheirOwn
  BY DEF PackageInv
<1> QED BY <1>1, PackageAlways, PTL

-----------------------------------------------------------------------------
(* Both together.                                                              *)

LEMMA OneGeneratorAtATime == [GeneratedNext]_generatedVars => [Next]_vars /\ [PackageNext]_packageVars
BY Zenon DEF GeneratedNext, generatedVars

\* Whichever generator is looked at, each keeps to its own specification: what
\* is proved of one is so of both together.
THEOREM GeneratedIsOfItsParts == GeneratedSpec => Spec /\ PackageSpec
<1>1. GeneratedInit => Init /\ PackageInit
  BY DEF GeneratedInit
<1> QED BY <1>1, OneGeneratorAtATime, PTL DEF GeneratedSpec, Spec, PackageSpec

\* Every variable of the wire format and of the package keeps its type, in
\* every behaviour of both.
THEOREM GeneratedTypesHold == GeneratedSpec => []TypesOK
<1>1. TypeOK /\ PackageTypeOK => TypesOK
  BY DEF TypesOK
<1> QED BY <1>1, GeneratedIsOfItsParts, WireTypesHold, PackageTypesHold, PTL

\* All that is promised of what the generators write, in every behaviour of both.
THEOREM GeneratedKeepsItsWord ==
    GeneratedSpec => [](/\ NeverQuietlyRenumbered /\ EveryControlIsReached /\ EveryNameCanBeCarried /\ KeysAreOnePlayers
                        /\ NoneAsksForNothing /\ RunnersFindTheSame /\ NodesHoldTheirOwn)
<1> QED
  BY GeneratedIsOfItsParts, MoviesAreNeverRenumbered, ControlsAreAlwaysReached, NamesAreAlwaysCarried,
     KeysAreAlwaysOnePlayers, NoneEverAsksForNothing, RunnersAlwaysFindTheSame, NodesAlwaysHoldTheirOwn, PTL
=============================================================================
