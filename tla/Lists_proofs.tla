----------------------------- MODULE Lists_proofs -----------------------------
(* What the other proofs rest on: least numbers and least sets, which stand in *)
(* for induction, and what a list holds that was selected or put together.     *)
EXTENDS Lists, SequencesExt, TLAPS, FiniteSetTheorems

-----------------------------------------------------------------------------
(* Least numbers, least sets and the sums of functions.                        *)

\* Of a family of finite sets, one has none of the others within it.
LEMMA SmallestSet ==
    ASSUME NEW D, IsFiniteSet(D), NEW F, F \subseteq SUBSET D, F # {}
    PROVE  \E T \in F : \A U \in F : ~(U \subseteq T /\ U # T)
<1> DEFINE R == StrictSubsetOrdering(D)
<1>1. IsWellFoundedOn(R, SUBSET D)
  BY FS_StrictSubsetOrderingWellFounded, FS_FiniteSubsetsOfFinite
<1>2. \E T \in F : \A U \in F : <<U, T>> \notin R
  <2> HIDE DEF R
  <2> QED BY <1>1, WFMin
<1>3. PICK T \in F : \A U \in F : <<U, T>> \notin R
  BY <1>2
<1>4. ASSUME NEW U \in F, U \subseteq T, U # T PROVE FALSE
  <2>1. <<U, T>> \in (SUBSET D) \X (SUBSET D)
    OBVIOUS
  <2> QED BY <1>3, <1>4, <2>1 DEF StrictSubsetOrdering
<1> QED BY <1>4

LEMMA LeastOfNaturals ==
    ASSUME NEW S, S \subseteq Nat, S # {}
    PROVE  \E m \in S : \A n \in S : m <= n
<1>1. PICK top \in S : TRUE
  OBVIOUS
<1> DEFINE D == 0 .. top
           F == {0 .. n - 1 : n \in S \cap (0 .. top)}
<1>2. IsFiniteSet(D)
  BY FS_Interval
<1>3. F \subseteq SUBSET D /\ F # {}
  <2>1. top \in S \cap (0 .. top)
    OBVIOUS
  <2>2. 0 .. top - 1 \in F
    BY <2>1
  <2> QED BY <2>2
<1>4. \E T \in F : \A U \in F : ~(U \subseteq T /\ U # T)
  <2> HIDE DEF F, D
  <2> QED BY <1>2, <1>3, SmallestSet
<1>5. PICK m \in S \cap (0 .. top) :
         \A n \in S \cap (0 .. top) : ~(0 .. n - 1 \subseteq 0 .. m - 1 /\ 0 .. n - 1 # 0 .. m - 1)
  <2>1. PICK T \in F : \A U \in F : ~(U \subseteq T /\ U # T)
    BY <1>4
  <2>2. PICK m \in S \cap (0 .. top) : T = 0 .. m - 1
    OBVIOUS
  <2>3. \A n \in S \cap (0 .. top) : 0 .. n - 1 \in F
    OBVIOUS
  <2> HIDE DEF F
  <2>4. \A U \in F : ~(U \subseteq 0 .. m - 1 /\ U # 0 .. m - 1)
    BY <2>1, <2>2
  <2>5. \A n \in S \cap (0 .. top) : ~(0 .. n - 1 \subseteq 0 .. m - 1 /\ 0 .. n - 1 # 0 .. m - 1)
    BY <2>3, <2>4
  <2> QED BY <2>5
<1>6. ASSUME NEW n \in S, n < m PROVE FALSE
  <2>1. n \in S \cap (0 .. top) /\ 0 .. n - 1 \subseteq 0 .. m - 1
    BY <1>6
  <2>2. n \in 0 .. m - 1 /\ n \notin 0 .. n - 1
    BY <1>6
  <2> QED BY <1>5, <2>1, <2>2
<1> QED BY <1>6

LEMMA MinIsLeast ==
    ASSUME NEW S, S \subseteq Nat, S # {}
    PROVE  Min(S) \in S /\ \A n \in S : Min(S) <= n
BY LeastOfNaturals DEF Min

LEMMA LeastIsMin ==
    ASSUME NEW S, S \subseteq Int, NEW m \in S, \A n \in S : m <= n
    PROVE  Min(S) = m
<1>1. Min(S) \in S /\ \A n \in S : Min(S) <= n
  BY DEF Min
<1>2. Min(S) <= m /\ m <= Min(S) /\ m \in Int /\ Min(S) \in Int
  BY <1>1
<1> QED BY <1>2

LEMMA MinOfTwo ==
    ASSUME NEW a \in Int, NEW b \in Int
    PROVE  Min({a, b}) = IF a <= b THEN a ELSE b
BY DEF Min

LEMMA FunctionIsSequence ==
    ASSUME NEW S, NEW n \in Nat, NEW x \in [1 .. n -> S]
    PROVE  x \in Seq(S) /\ Len(x) = n
OBVIOUS

LEMMA FrontOfSequence ==
    ASSUME NEW S, NEW x \in Seq(S), NEW n \in 0 .. Len(x)
    PROVE  /\ SubSeq(x, 1, n) \in Seq(S) /\ Len(SubSeq(x, 1, n)) = n
           /\ \A i \in 1 .. n : SubSeq(x, 1, n)[i] = x[i]
OBVIOUS

LEMMA BothSequences ==
    ASSUME NEW S, NEW x \in Seq(S), NEW y \in Seq(S)
    PROVE  /\ x \o y \in Seq(S) /\ Len(x \o y) = Len(x) + Len(y)
           /\ Len(x) \in Nat /\ Len(y) \in Nat
           /\ \A i \in 1 .. Len(x) : (x \o y)[i] = x[i]
           /\ \A j \in 1 .. Len(y) : (x \o y)[Len(x) + j] = y[j]
OBVIOUS

LEMMA MaxOfTwo ==
    ASSUME NEW a \in Int, NEW b \in Int
    PROVE  Max({a, b}) = IF a >= b THEN a ELSE b
BY DEF Max

LEMMA AppendedSequence ==
    ASSUME NEW S, NEW x \in Seq(S), NEW e \in S
    PROVE  Append(x, e) \in Seq(S) /\ Range(Append(x, e)) = Range(x) \union {e}
<1>1. /\ Append(x, e) \in Seq(S) /\ Len(x) \in Nat
      /\ DOMAIN Append(x, e) = 1 .. Len(x) + 1 /\ DOMAIN x = 1 .. Len(x)
      /\ Append(x, e)[Len(x) + 1] = e
      /\ \A i \in 1 .. Len(x) : Append(x, e)[i] = x[i]
  OBVIOUS
<1>2. Range(Append(x, e)) \subseteq Range(x) \union {e}
  <2> SUFFICES ASSUME NEW i \in 1 .. Len(x) + 1 PROVE Append(x, e)[i] \in Range(x) \union {e}
    BY <1>1 DEF Range
  <2>1. i = Len(x) + 1 \/ i \in 1 .. Len(x)
    BY <1>1
  <2> QED BY <1>1, <2>1 DEF Range
<1>3. Range(x) \union {e} \subseteq Range(Append(x, e))
  <2>1. Len(x) + 1 \in 1 .. Len(x) + 1 /\ \A i \in 1 .. Len(x) : i \in 1 .. Len(x) + 1
    BY <1>1
  <2> QED BY <1>1, <2>1 DEF Range
<1> QED BY <1>1, <1>2, <1>3

\* The selections of a list's beginnings.
Selects(f, s, wanted, n) ==
    f = [i \in 0 .. n |-> IF i = 0 THEN <<>>
                         ELSE IF s[i] \in wanted THEN Append(f[i - 1], s[i])
                         ELSE f[i - 1]]

LEMMA SelectionsExist ==
    ASSUME NEW s, NEW wanted
    PROVE  \A n \in Nat : \E f : Selects(f, s, wanted, n)
<1> DEFINE Without == {n \in Nat : ~ \E f : Selects(f, s, wanted, n)}
<1> SUFFICES ASSUME Without # {} PROVE FALSE
  OBVIOUS
<1>1. PICK n \in Without : \A m \in Without : n <= m
  <2>1. Without \subseteq Nat
    OBVIOUS
  <2> HIDE DEF Without
  <2> QED BY <2>1, LeastOfNaturals
<1>2. CASE n = 0
  <2>1. Selects([i \in 0 .. 0 |-> <<>>], s, wanted, 0)
    BY DEF Selects
  <2> QED BY <1>2, <2>1
<1>3. CASE n # 0
  <2>1. n - 1 \in Nat /\ n - 1 \notin Without
    BY <1>1, <1>3
  <2>2. PICK g : Selects(g, s, wanted, n - 1)
    BY <2>1
  <2> DEFINE f == [i \in 0 .. n |-> IF i = n THEN IF s[n] \in wanted THEN Append(g[n - 1], s[n]) ELSE g[n - 1]
                                   ELSE g[i]]
  <2>3. ASSUME NEW i \in 0 .. n
        PROVE  f[i] = IF i = 0 THEN <<>> ELSE IF s[i] \in wanted THEN Append(f[i - 1], s[i]) ELSE f[i - 1]
    <3>1. CASE i = n
      BY <1>3, <2>1, <3>1
    <3>2. CASE i # n
      <4>1. i \in 0 .. n - 1 /\ f[i] = g[i]
        BY <3>2
      <4>2. i # 0 => i - 1 \in 0 .. n /\ i - 1 # n /\ f[i - 1] = g[i - 1]
        OBVIOUS
      <4>3. g[i] = IF i = 0 THEN <<>> ELSE IF s[i] \in wanted THEN Append(g[i - 1], s[i]) ELSE g[i - 1]
        BY <2>2, <4>1 DEF Selects
      <4> HIDE DEF f
      <4> QED BY <4>1, <4>2, <4>3
    <3> QED BY <3>1, <3>2
  <2>4. Selects(f, s, wanted, n)
    BY <2>3 DEF Selects
  <2> QED BY <2>4
<1> QED BY <1>2, <1>3

\* A selection holds what is wanted of the list, and nothing else.
LEMMA OnlyHolds ==
    ASSUME NEW S, NEW s \in Seq(S), NEW wanted
    PROVE  Only(s, wanted) \in Seq(S) /\ Range(Only(s, wanted)) = Range(s) \intersect wanted
<1> DEFINE f == CHOOSE f : Selects(f, s, wanted, Len(s))
           Of(n) == {s[i] : i \in 1 .. n} \intersect wanted
           Wrong == {n \in 0 .. Len(s) : ~(f[n] \in Seq(S) /\ Range(f[n]) = Of(n))}
<1>1. Only(s, wanted) = f[Len(s)]
  BY DEF Only, Selects
<1>2. Len(s) \in Nat /\ Selects(f, s, wanted, Len(s))
  <2>1. Len(s) \in Nat
    OBVIOUS
  <2>2. \E g : Selects(g, s, wanted, Len(s))
    BY <2>1, SelectionsExist
  <2> QED BY <2>1, <2>2
<1>3. Of(Len(s)) = Range(s) \intersect wanted
  BY DEF Range
<1> HIDE DEF f
<1> SUFFICES ASSUME Wrong # {} PROVE FALSE
  <2>1. Len(s) \in 0 .. Len(s)
    BY <1>2
  <2> HIDE DEF Of
  <2> QED BY <1>1, <1>3, <2>1
<1>4. PICK n \in Wrong : \A m \in Wrong : n <= m
  <2>1. Wrong \subseteq Nat
    OBVIOUS
  <2> HIDE DEF Wrong
  <2> QED BY <2>1, LeastOfNaturals
<1>5. f[n] = IF n = 0 THEN <<>> ELSE IF s[n] \in wanted THEN Append(f[n - 1], s[n]) ELSE f[n - 1]
  BY <1>2 DEF Selects
<1>6. CASE n = 0
  <2>1. <<>> \in Seq(S) /\ Range(<<>>) = {}
    BY DEF Range
  <2>2. Of(0) = {}
    OBVIOUS
  <2> HIDE DEF Of
  <2> QED BY <1>4, <1>5, <1>6, <2>1, <2>2
<1>7. CASE n # 0
  <2>1. n - 1 \in 0 .. Len(s) /\ n - 1 \notin Wrong /\ n \in 1 .. Len(s)
    <3>1. n \in 0 .. Len(s) /\ n - 1 < n /\ n - 1 \in Nat
      BY <1>2, <1>4, <1>7
    <3> HIDE DEF Wrong
    <3> QED BY <1>2, <1>4, <1>7, <3>1
  <2>2. f[n - 1] \in Seq(S) /\ Range(f[n - 1]) = Of(n - 1)
    BY <2>1
  <2>3. s[n] \in S
    BY <2>1
  <2>4. Of(n) = Of(n - 1) \union ({s[n]} \intersect wanted)
    <3>1. 1 .. n = (1 .. n - 1) \union {n}
      BY <2>1
    <3> QED BY <3>1
  <2> HIDE DEF Of
  <2>5. CASE s[n] \in wanted
    <3>1. f[n] = Append(f[n - 1], s[n])
      BY <1>5, <1>7, <2>5
    <3>2. f[n] \in Seq(S) /\ Range(f[n]) = Range(f[n - 1]) \union {s[n]}
      BY <2>2, <2>3, <3>1, AppendedSequence
    <3> QED BY <1>4, <2>2, <2>4, <2>5, <3>2
  <2>6. CASE s[n] \notin wanted
    BY <1>4, <1>5, <1>7, <2>2, <2>4, <2>6
  <2> QED BY <2>5, <2>6
<1> QED BY <1>6, <1>7

\* The lists put together, one after another.
Flattens(f, ss, n) == f = [i \in 1 .. n |-> IF i = 1 THEN ss[i] ELSE f[i - 1] \o ss[i]]

LEMMA FlatteningsExist ==
    ASSUME NEW ss
    PROVE  \A n \in Nat : \E f : Flattens(f, ss, n)
<1> DEFINE Without == {n \in Nat : ~ \E f : Flattens(f, ss, n)}
<1> SUFFICES ASSUME Without # {} PROVE FALSE
  OBVIOUS
<1>1. PICK n \in Without : \A m \in Without : n <= m
  <2>1. Without \subseteq Nat
    OBVIOUS
  <2> HIDE DEF Without
  <2> QED BY <2>1, LeastOfNaturals
<1>2. CASE n = 0
  <2>1. Flattens([i \in 1 .. 0 |-> <<>>], ss, 0)
    <3>1. \A i : i \notin 1 .. 0
      OBVIOUS
    <3> QED BY <3>1 DEF Flattens
  <2> QED BY <1>2, <2>1
<1>3. CASE n # 0
  <2>1. n - 1 \in Nat /\ n - 1 \notin Without
    BY <1>1, <1>3
  <2>2. PICK g : Flattens(g, ss, n - 1)
    BY <2>1
  <2> DEFINE f == [i \in 1 .. n |-> IF i = n THEN IF n = 1 THEN ss[1] ELSE g[n - 1] \o ss[n] ELSE g[i]]
  <2>3. ASSUME NEW i \in 1 .. n
        PROVE  f[i] = IF i = 1 THEN ss[i] ELSE f[i - 1] \o ss[i]
    <3>1. CASE i = n
      <4>1. i # 1 => n - 1 \in 1 .. n /\ n - 1 # n /\ f[n - 1] = g[n - 1]
        BY <3>1
      <4>2. f[n] = IF n = 1 THEN ss[1] ELSE g[n - 1] \o ss[n]
        BY <3>1
      <4> HIDE DEF f
      <4> QED BY <3>1, <4>1, <4>2
    <3>2. CASE i # n
      <4>1. i \in 1 .. n - 1 /\ f[i] = g[i]
        BY <3>2
      <4>2. i # 1 => i - 1 \in 1 .. n /\ i - 1 # n /\ f[i - 1] = g[i - 1]
        OBVIOUS
      <4>3. g[i] = IF i = 1 THEN ss[i] ELSE g[i - 1] \o ss[i]
        BY <2>2, <4>1 DEF Flattens
      <4> HIDE DEF f
      <4> QED BY <4>1, <4>2, <4>3
    <3> QED BY <3>1, <3>2
  <2>4. Flattens(f, ss, n)
    BY <2>3 DEF Flattens
  <2> QED BY <2>4
<1> QED BY <1>2, <1>3

LEMMA JoinedSequences ==
    ASSUME NEW S, NEW x \in Seq(S), NEW y \in Seq(S)
    PROVE  x \o y \in Seq(S) /\ Range(x \o y) = Range(x) \union Range(y)
<1>1. /\ x \o y \in Seq(S) /\ Len(x) \in Nat /\ Len(y) \in Nat
      /\ DOMAIN (x \o y) = 1 .. Len(x) + Len(y) /\ DOMAIN x = 1 .. Len(x) /\ DOMAIN y = 1 .. Len(y)
      /\ \A i \in 1 .. Len(x) : (x \o y)[i] = x[i]
      /\ \A j \in 1 .. Len(y) : (x \o y)[Len(x) + j] = y[j]
  OBVIOUS
<1>2. ASSUME NEW i \in 1 .. Len(x) + Len(y) PROVE (x \o y)[i] \in Range(x) \union Range(y)
  <2>1. CASE i \in 1 .. Len(x)
    BY <1>1, <2>1 DEF Range
  <2>2. CASE i \notin 1 .. Len(x)
    <3>1. i - Len(x) \in 1 .. Len(y) /\ Len(x) + (i - Len(x)) = i
      BY <1>1, <2>2
    <3>2. (x \o y)[i] = y[i - Len(x)]
      BY <1>1, <3>1
    <3> QED BY <1>1, <3>1, <3>2 DEF Range
  <2> QED BY <2>1, <2>2
<1>3. ASSUME NEW i \in 1 .. Len(x) PROVE x[i] \in Range(x \o y)
  <2>1. i \in 1 .. Len(x) + Len(y)
    BY <1>1
  <2> QED BY <1>1, <2>1 DEF Range
<1>4. ASSUME NEW j \in 1 .. Len(y) PROVE y[j] \in Range(x \o y)
  <2>1. Len(x) + j \in 1 .. Len(x) + Len(y)
    BY <1>1
  <2> QED BY <1>1, <2>1 DEF Range
<1>5. Range(x \o y) = {(x \o y)[i] : i \in 1 .. Len(x) + Len(y)}
  BY <1>1 DEF Range
<1>6. Range(x) = {x[i] : i \in 1 .. Len(x)} /\ Range(y) = {y[j] : j \in 1 .. Len(y)}
  BY <1>1 DEF Range
<1>7. Range(x \o y) \subseteq Range(x) \union Range(y)
  BY <1>2, <1>5
<1>8. Range(x) \union Range(y) \subseteq Range(x \o y)
  BY <1>3, <1>4, <1>6
<1> QED BY <1>1, <1>7, <1>8

\* Lists put together hold what each of them holds.
LEMMA FlattenHolds ==
    ASSUME NEW S, NEW ss \in Seq(Seq(S))
    PROVE  /\ FlattenSeq(ss) \in Seq(S)
           /\ Range(FlattenSeq(ss)) = UNION {Range(ss[i]) : i \in 1 .. Len(ss)}
<1>1. Len(ss) \in Nat /\ \A i \in 1 .. Len(ss) : ss[i] \in Seq(S)
  OBVIOUS
<1>2. CASE Len(ss) = 0
  <2>1. FlattenSeq(ss) = ss /\ ss = <<>>
    BY <1>2 DEF FlattenSeq
  <2>2. <<>> \in Seq(S) /\ Range(<<>>) = {}
    BY DEF Range
  <2>3. {Range(ss[i]) : i \in 1 .. Len(ss)} = {}
    BY <1>2
  <2> QED BY <2>1, <2>2, <2>3
<1>3. CASE Len(ss) # 0
  <2> DEFINE f == CHOOSE f : Flattens(f, ss, Len(ss))
             Of(n) == UNION {Range(ss[i]) : i \in 1 .. n}
             Wrong == {n \in 1 .. Len(ss) : ~(f[n] \in Seq(S) /\ Range(f[n]) = Of(n))}
  <2>1. FlattenSeq(ss) = f[Len(ss)]
    BY <1>3 DEF FlattenSeq, Flattens
  <2>2. Flattens(f, ss, Len(ss))
    <3>1. \E g : Flattens(g, ss, Len(ss))
      BY <1>1, FlatteningsExist
    <3> QED BY <3>1
  <2> HIDE DEF f
  <2> SUFFICES ASSUME Wrong # {} PROVE FALSE
    <3>1. Len(ss) \in 1 .. Len(ss)
      BY <1>1, <1>3
    <3> QED BY <2>1, <3>1
  <2>3. PICK n \in Wrong : \A m \in Wrong : n <= m
    <3>1. Wrong \subseteq Nat
      OBVIOUS
    <3> HIDE DEF Wrong
    <3> QED BY <3>1, LeastOfNaturals
  <2>4. n \in 1 .. Len(ss) /\ ~(f[n] \in Seq(S) /\ Range(f[n]) = Of(n)) /\ ss[n] \in Seq(S)
    BY <1>1, <2>3
  <2>5. f[n] = IF n = 1 THEN ss[n] ELSE f[n - 1] \o ss[n]
    BY <2>2, <2>4 DEF Flattens
  <2>6. CASE n = 1
    <3>1. Of(1) = Range(ss[1])
      <4>1. 1 .. 1 = {1}
        OBVIOUS
      <4> QED BY <4>1
    <3> HIDE DEF Of
    <3> QED BY <2>4, <2>5, <2>6, <3>1
  <2>7. CASE n # 1
    <3>1. n - 1 \in 1 .. Len(ss) /\ n - 1 \notin Wrong
      <4>1. n - 1 \in 1 .. Len(ss) /\ n - 1 < n
        BY <1>1, <2>4, <2>7
      <4> HIDE DEF Wrong
      <4> QED BY <1>1, <2>3, <2>4, <4>1
    <3>2. f[n - 1] \in Seq(S) /\ Range(f[n - 1]) = Of(n - 1)
      BY <3>1
    <3>3. Of(n) = Of(n - 1) \union Range(ss[n])
      <4>1. 1 .. n = (1 .. n - 1) \union {n}
        BY <2>4
      <4> QED BY <4>1
    <3> HIDE DEF Of
    <3>4. f[n] = f[n - 1] \o ss[n]
      BY <2>5, <2>7
    <3>5. f[n] \in Seq(S) /\ Range(f[n]) = Range(f[n - 1]) \union Range(ss[n])
      BY <2>4, <3>2, <3>4, JoinedSequences
    <3> QED BY <2>4, <3>2, <3>3, <3>5
  <2> QED BY <2>6, <2>7
<1> QED BY <1>2, <1>3

-----------------------------------------------------------------------------
(* Lists none of whose members is listed twice.                                *)

LEMMA ListFacts ==
    ASSUME NEW s, IsList(s)
    PROVE  /\ Len(s) \in Nat /\ DOMAIN s = 1 .. Len(s)
           /\ \A x : x \in Range(s) <=> \E i \in 1 .. Len(s) : x = s[i]
<1>1. Len(s) \in Nat /\ DOMAIN s = 1 .. Len(s)
  BY DEF IsList
<1> QED BY <1>1 DEF Range

LEMMA SequenceIsList ==
    ASSUME NEW S, NEW s \in Seq(S)
    PROVE  IsList(s)
BY DEF IsList, Range

\* A function on the first numbers is a list.
LEMMA FunctionIsList ==
    ASSUME NEW n \in Nat, NEW s, s = [i \in 1 .. n |-> s[i]]
    PROVE  /\ IsList(s) /\ Len(s) = n
           /\ \A x : x \in Range(s) <=> \E i \in 1 .. n : x = s[i]
<1> DEFINE S == {s[i] : i \in 1 .. n}
<1>1. s \in [1 .. n -> S]
  OBVIOUS
<1> HIDE DEF S
<1>2. s \in Seq(S) /\ Len(s) = n
  BY <1>1, FunctionIsSequence
<1>3. IsList(s)
  BY <1>2, SequenceIsList
<1> QED BY <1>2, <1>3, ListFacts

\* Two lists of one length and the same members at each place are one.
LEMMA SameList ==
    ASSUME NEW n \in Nat, NEW x, NEW y, x = [i \in 1 .. n |-> x[i]], y = [i \in 1 .. n |-> y[i]],
           \A i \in 1 .. n : x[i] = y[i]
    PROVE  x = y
<1>1. [i \in 1 .. n |-> x[i]] = [i \in 1 .. n |-> y[i]]
  OBVIOUS
<1> QED BY <1>1, Zenon

LEMMA EmptyList == IsList(<<>>) /\ Range(<<>>) = {} /\ IsInjective(<<>>) /\ Len(<<>>) = 0
BY DEF IsList, Range, IsInjective

LEMMA OneAppended ==
    ASSUME NEW x, IsList(x), NEW e
    PROVE  /\ IsList(Append(x, e))
           /\ Range(Append(x, e)) = Range(x) \union {e}
           /\ IsInjective(x) /\ e \notin Range(x) => IsInjective(Append(x, e))
<1> DEFINE S == Range(x) \union {e}
<1>1. x \in Seq(S) /\ e \in S
  BY DEF IsList
<1> HIDE DEF S
<1>2. Append(x, e) \in Seq(S) /\ Range(Append(x, e)) = Range(x) \union {e}
  BY <1>1, AppendedSequence
<1>3. ASSUME IsInjective(x), e \notin Range(x) PROVE IsInjective(Append(x, e))
  <2>1. /\ Len(x) \in Nat /\ DOMAIN x = 1 .. Len(x) /\ DOMAIN Append(x, e) = 1 .. Len(x) + 1
        /\ Append(x, e)[Len(x) + 1] = e
        /\ \A i \in 1 .. Len(x) : Append(x, e)[i] = x[i]
    BY <1>1
  <2>2. \A i \in 1 .. Len(x) : x[i] # e
    BY <1>3, <2>1 DEF Range
  <2>3. \A i \in 1 .. Len(x) + 1 : i = Len(x) + 1 \/ i \in 1 .. Len(x)
    BY <2>1
  <2> QED BY <1>3, <2>1, <2>2, <2>3 DEF IsInjective
<1> QED BY <1>2, <1>3, SequenceIsList

LEMMA TwoJoined ==
    ASSUME NEW x, IsList(x), NEW y, IsList(y)
    PROVE  /\ IsList(x \o y)
           /\ Range(x \o y) = Range(x) \union Range(y)
           /\ IsInjective(x) /\ IsInjective(y) /\ Range(x) \intersect Range(y) = {} => IsInjective(x \o y)
<1> DEFINE S == Range(x) \union Range(y)
<1>1. x \in Seq(S) /\ y \in Seq(S)
  BY DEF IsList
<1> HIDE DEF S
<1>2. x \o y \in Seq(S) /\ Range(x \o y) = Range(x) \union Range(y)
  BY <1>1, JoinedSequences
<1>3. ASSUME IsInjective(x), IsInjective(y), Range(x) \intersect Range(y) = {} PROVE IsInjective(x \o y)
  <2>1. /\ Len(x) \in Nat /\ DOMAIN x = 1 .. Len(x) /\ Len(y) \in Nat /\ DOMAIN y = 1 .. Len(y)
        /\ DOMAIN (x \o y) = 1 .. Len(x) + Len(y)
        /\ \A i \in 1 .. Len(x) : (x \o y)[i] = x[i]
    BY <1>1
  <2>2. ASSUME NEW i \in 1 .. Len(x) + Len(y), i \notin 1 .. Len(x)
        PROVE  i - Len(x) \in 1 .. Len(y) /\ (x \o y)[i] = y[i - Len(x)]
    <3>1. i - Len(x) \in 1 .. Len(y) /\ Len(x) + (i - Len(x)) = i
      BY <2>1, <2>2
    <3>2. \A j \in 1 .. Len(y) : (x \o y)[Len(x) + j] = y[j]
      BY <1>1
    <3> QED BY <3>1, <3>2
  <2>3. \A i \in 1 .. Len(x), j \in 1 .. Len(y) : x[i] # y[j]
    BY <1>3, <2>1 DEF Range
  <2> SUFFICES ASSUME NEW i \in 1 .. Len(x) + Len(y), NEW j \in 1 .. Len(x) + Len(y), (x \o y)[i] = (x \o y)[j]
               PROVE  i = j
    BY <2>1 DEF IsInjective
  <2>4. CASE i \in 1 .. Len(x) /\ j \in 1 .. Len(x)
    BY <1>3, <2>1, <2>4 DEF IsInjective
  <2>5. CASE i \in 1 .. Len(x) /\ j \notin 1 .. Len(x)
    BY <2>1, <2>2, <2>3, <2>5
  <2>6. CASE i \notin 1 .. Len(x) /\ j \in 1 .. Len(x)
    BY <2>1, <2>2, <2>3, <2>6
  <2>7. CASE i \notin 1 .. Len(x) /\ j \notin 1 .. Len(x)
    <3>1. i - Len(x) \in 1 .. Len(y) /\ j - Len(x) \in 1 .. Len(y) /\ y[i - Len(x)] = y[j - Len(x)]
      BY <2>2, <2>7
    <3>2. i - Len(x) = j - Len(x)
      BY <1>3, <2>1, <3>1 DEF IsInjective
    <3> QED BY <2>1, <3>2
  <2> QED BY <2>4, <2>5, <2>6, <2>7
<1> QED BY <1>2, <1>3, SequenceIsList

\* A selection of a list holds what is wanted, and nothing twice that the list
\* had once.
LEMMA Selected ==
    ASSUME NEW s, IsList(s), NEW wanted
    PROVE  /\ IsList(Only(s, wanted))
           /\ Range(Only(s, wanted)) = Range(s) \intersect wanted
           /\ IsInjective(s) => IsInjective(Only(s, wanted))
<1> DEFINE S == Range(s)
<1>1. s \in Seq(S) /\ Len(s) \in Nat /\ DOMAIN s = 1 .. Len(s)
  BY DEF IsList
<1> HIDE DEF S
<1>2. Only(s, wanted) \in Seq(S) /\ Range(Only(s, wanted)) = Range(s) \intersect wanted
  BY <1>1, OnlyHolds
<1>3. ASSUME IsInjective(s) PROVE IsInjective(Only(s, wanted))
  <2> DEFINE f == CHOOSE f : Selects(f, s, wanted, Len(s))
             Before(n) == {s[i] : i \in 1 .. n}
             Good(n) == IsList(f[n]) /\ Range(f[n]) \subseteq Before(n) /\ IsInjective(f[n])
             Wrong == {n \in 0 .. Len(s) : ~Good(n)}
  <2>1. Only(s, wanted) = f[Len(s)]
    BY DEF Only, Selects
  <2>2. Selects(f, s, wanted, Len(s))
    <3>1. \E g : Selects(g, s, wanted, Len(s))
      BY <1>1, SelectionsExist
    <3> QED BY <3>1
  <2> HIDE DEF f
  <2>3. Wrong # {} => FALSE
    <3> SUFFICES ASSUME Wrong # {} PROVE FALSE
      OBVIOUS
    <3>1. PICK n \in Wrong : \A m \in Wrong : n <= m
      <4>1. Wrong \subseteq Nat
        OBVIOUS
      <4> HIDE DEF Wrong
      <4> QED BY <4>1, LeastOfNaturals
    <3>2. n \in 0 .. Len(s) /\ ~Good(n)
      BY <3>1
    <3>3. f[n] = IF n = 0 THEN <<>> ELSE IF s[n] \in wanted THEN Append(f[n - 1], s[n]) ELSE f[n - 1]
      BY <2>2, <3>2 DEF Selects
    <3>4. n # 0
      <4>1. CASE n = 0
        <5>1. f[n] = <<>>
          BY <3>3, <4>1
        <5> QED BY <3>2, <5>1, EmptyList
      <4> QED BY <4>1
    <3>5. Good(n - 1)
      <4>1. n - 1 \in 0 .. Len(s) /\ ~(n <= n - 1)
        BY <1>1, <3>2, <3>4
      <4> HIDE DEF Good
      <4> QED BY <3>1, <4>1
    <3>6. n \in 1 .. Len(s) /\ n - 1 \in Nat
      BY <1>1, <3>2, <3>4
    <3>7. s[n] \notin Before(n - 1)
      BY <1>1, <1>3, <3>6 DEF IsInjective
    <3>8. Before(n) = Before(n - 1) \union {s[n]}
      <4>1. 1 .. n = (1 .. n - 1) \union {n}
        BY <3>6
      <4> QED BY <4>1
    <3> HIDE DEF Before
    <3>9. CASE s[n] \in wanted
      <4>1. f[n] = Append(f[n - 1], s[n])
        BY <3>3, <3>4, <3>9
      <4> QED BY <3>2, <3>5, <3>7, <3>8, <4>1, OneAppended
    <3>10. CASE s[n] \notin wanted
      <4>1. f[n] = f[n - 1]
        BY <3>3, <3>4, <3>10
      <4> QED BY <3>2, <3>5, <3>8, <4>1
    <3> QED BY <3>9, <3>10
  <2>4. Len(s) \in 0 .. Len(s)
    BY <1>1
  <2> QED BY <2>1, <2>3, <2>4
<1> QED BY <1>2, <1>3, SequenceIsList

\* Lists put together, one for each of the first numbers, hold what each holds;
\* and nothing twice, if none does and no two of them hold the same.
LEMMA Flattened ==
    ASSUME NEW n \in Nat, NEW ss, ss = [i \in 1 .. n |-> ss[i]], \A i \in 1 .. n : IsList(ss[i])
    PROVE  /\ IsList(FlattenSeq(ss))
           /\ \A x : x \in Range(FlattenSeq(ss)) <=> \E i \in 1 .. n : x \in Range(ss[i])
<1> DEFINE S == UNION {Range(ss[i]) : i \in 1 .. n}
<1>1. \A i \in 1 .. n : ss[i] \in Seq(S)
  <2> SUFFICES ASSUME NEW i \in 1 .. n PROVE ss[i] \in Seq(S)
    OBVIOUS
  <2>1. Range(ss[i]) \subseteq S
    OBVIOUS
  <2> HIDE DEF S
  <2> QED BY <2>1 DEF IsList
<1> HIDE DEF S
<1>2. ss \in [1 .. n -> Seq(S)]
  BY <1>1
<1>3. ss \in Seq(Seq(S)) /\ Len(ss) = n
  BY <1>2, FunctionIsSequence
<1>4. FlattenSeq(ss) \in Seq(S) /\ Range(FlattenSeq(ss)) = UNION {Range(ss[i]) : i \in 1 .. n}
  BY <1>3, FlattenHolds
<1> QED BY <1>4, SequenceIsList

LEMMA FlattenedApart ==
    ASSUME NEW n \in Nat, NEW ss, ss = [i \in 1 .. n |-> ss[i]],
           \A i \in 1 .. n : IsList(ss[i]) /\ IsInjective(ss[i]),
           \A i, j \in 1 .. n : i # j => Range(ss[i]) \intersect Range(ss[j]) = {}
    PROVE  IsInjective(FlattenSeq(ss))
<1>0. Len(ss) = n
  BY FunctionIsList
<1>1. CASE n = 0
  <2>1. FlattenSeq(ss) = ss /\ ss = <<>>
    BY <1>0, <1>1 DEF FlattenSeq
  <2> QED BY <2>1, EmptyList
<1>2. CASE n # 0
  <2> DEFINE f == CHOOSE f : Flattens(f, ss, n)
             Before(m) == UNION {Range(ss[i]) : i \in 1 .. m}
             Good(m) == IsList(f[m]) /\ Range(f[m]) \subseteq Before(m) /\ IsInjective(f[m])
             Wrong == {m \in 1 .. n : ~Good(m)}
  <2>1. FlattenSeq(ss) = f[n]
    BY <1>0, <1>2 DEF FlattenSeq, Flattens
  <2>2. Flattens(f, ss, n)
    <3>1. \E g : Flattens(g, ss, n)
      BY FlatteningsExist
    <3> QED BY <3>1
  <2> HIDE DEF f
  <2>3. Wrong # {} => FALSE
    <3> SUFFICES ASSUME Wrong # {} PROVE FALSE
      OBVIOUS
    <3>1. PICK m \in Wrong : \A l \in Wrong : m <= l
      <4>1. Wrong \subseteq Nat
        OBVIOUS
      <4> HIDE DEF Wrong
      <4> QED BY <4>1, LeastOfNaturals
    <3>2. m \in 1 .. n /\ ~Good(m)
      BY <3>1
    <3>3. f[m] = IF m = 1 THEN ss[m] ELSE f[m - 1] \o ss[m]
      BY <2>2, <3>2 DEF Flattens
    <3>4. Range(ss[m]) \subseteq Before(m)
      BY <3>2
    <3>5. CASE m = 1
      <4> HIDE DEF Before
      <4> QED BY <3>2, <3>3, <3>4, <3>5
    <3>6. CASE m # 1
      <4>1. Good(m - 1)
        <5>1. m - 1 \in 1 .. n /\ ~(m <= m - 1)
          BY <3>2, <3>6
        <5> HIDE DEF Good
        <5> QED BY <3>1, <5>1
      <4>2. Before(m) = Before(m - 1) \union Range(ss[m])
        <5>1. 1 .. m = (1 .. m - 1) \union {m}
          BY <3>2
        <5> QED BY <5>1
      <4>3. Before(m - 1) \intersect Range(ss[m]) = {}
        <5>1. \A i \in 1 .. m - 1 : i \in 1 .. n /\ i # m
          BY <3>2
        <5> QED BY <3>2, <5>1
      <4> HIDE DEF Before
      <4>4. f[m] = f[m - 1] \o ss[m] /\ IsList(ss[m]) /\ IsInjective(ss[m])
        BY <3>2, <3>3, <3>6
      <4>5. Range(f[m - 1]) \intersect Range(ss[m]) = {}
        BY <4>1, <4>3
      <4>6. IsList(f[m]) /\ Range(f[m]) = Range(f[m - 1]) \union Range(ss[m]) /\ IsInjective(f[m])
        BY <4>1, <4>4, <4>5, TwoJoined
      <4> QED BY <3>2, <4>1, <4>2, <4>6
    <3> QED BY <3>5, <3>6
  <2>4. n \in 1 .. n
    BY <1>2
  <2> QED BY <2>1, <2>3, <2>4
<1> QED BY <1>1, <1>2

\* What a list begins with and is wanted, the selection begins with.
LEMMA SelectionStarts ==
    ASSUME NEW s, IsList(s), NEW wanted, s # <<>>, s[1] \in wanted
    PROVE  Only(s, wanted) # <<>> /\ Only(s, wanted)[1] = s[1]
<1> DEFINE f == CHOOSE f : Selects(f, s, wanted, Len(s))
           Good(n) == IsList(f[n]) /\ Len(f[n]) > 0 /\ f[n][1] = s[1]
           Wrong == {n \in 1 .. Len(s) : ~Good(n)}
<1>1. Len(s) \in Nat /\ Len(s) > 0
  BY DEF IsList
<1>2. Only(s, wanted) = f[Len(s)] /\ Selects(f, s, wanted, Len(s))
  <2>1. \E g : Selects(g, s, wanted, Len(s))
    BY <1>1, SelectionsExist
  <2>2. Selects(f, s, wanted, Len(s))
    BY <2>1
  <2> QED BY <2>2 DEF Only, Selects
<1> HIDE DEF f
<1>3. Wrong # {} => FALSE
  <2> SUFFICES ASSUME Wrong # {} PROVE FALSE
    OBVIOUS
  <2>1. PICK n \in Wrong : \A m \in Wrong : n <= m
    <3>1. Wrong \subseteq Nat
      OBVIOUS
    <3> HIDE DEF Wrong
    <3> QED BY <3>1, LeastOfNaturals
  <2>2. n \in 1 .. Len(s) /\ ~Good(n)
    BY <2>1
  <2>3. f[n] = IF s[n] \in wanted THEN Append(f[n - 1], s[n]) ELSE f[n - 1]
    <3>1. n \in 0 .. Len(s) /\ n # 0
      BY <2>2
    <3> QED BY <1>2, <3>1 DEF Selects
  <2>4. CASE n = 1
    <3> DEFINE none == <<>>
    <3>1. f[0] = none
      BY <1>1, <1>2 DEF Selects
    <3>2. f[n] = Append(none, s[1])
      <4>1. n - 1 = 0 /\ s[n] \in wanted
        BY <2>4
      <4> HIDE DEF none
      <4> QED BY <2>3, <2>4, <3>1, <4>1
    <3>3. IsList(f[n])
      <4>1. IsList(none)
        BY EmptyList
      <4> HIDE DEF none
      <4> QED BY <3>2, <4>1, OneAppended
    <3>4. Len(f[n]) = 1 /\ f[n][1] = s[1]
      BY <3>2
    <3> QED BY <2>2, <3>3, <3>4
  <2>5. CASE n # 1
    <3>1. Good(n - 1)
      <4>1. n - 1 \in 1 .. Len(s) /\ ~(n <= n - 1)
        BY <1>1, <2>2, <2>5
      <4> HIDE DEF Good
      <4> QED BY <2>1, <4>1
    <3>2. CASE s[n] \in wanted
      <4>1. f[n] = Append(f[n - 1], s[n])
        BY <2>3, <3>2
      <4>2. IsList(f[n])
        BY <3>1, <4>1, OneAppended
      <4>3. Len(f[n]) > 0 /\ f[n][1] = f[n - 1][1]
        BY <3>1, <4>1 DEF IsList
      <4> QED BY <2>2, <3>1, <4>2, <4>3
    <3>3. CASE s[n] \notin wanted
      BY <2>2, <2>3, <3>1, <3>3
    <3> QED BY <3>2, <3>3
  <2> QED BY <2>4, <2>5
<1>4. Good(Len(s))
  BY <1>1, <1>3
<1>5. Only(s, wanted) # <<>>
  BY <1>2, <1>4
<1> QED BY <1>2, <1>4, <1>5

\* Lists put together begin as the first of them does.
LEMMA FlattenedStarts ==
    ASSUME NEW n \in Nat \ {0}, NEW ss, ss = [i \in 1 .. n |-> ss[i]], \A i \in 1 .. n : IsList(ss[i]),
           ss[1] # <<>>
    PROVE  FlattenSeq(ss) # <<>> /\ FlattenSeq(ss)[1] = ss[1][1]
<1> DEFINE f == CHOOSE f : Flattens(f, ss, n)
           Good(m) == IsList(f[m]) /\ Len(f[m]) > 0 /\ f[m][1] = ss[1][1]
           Wrong == {m \in 1 .. n : ~Good(m)}
<1>1. FlattenSeq(ss) = f[n] /\ Flattens(f, ss, n)
  <2>1. \E g : Flattens(g, ss, n)
    BY FlatteningsExist
  <2>2. Flattens(f, ss, n)
    BY <2>1
  <2>3. Len(ss) = n
    BY FunctionIsList
  <2>4. FlattenSeq(ss) = f[n]
    BY <2>3 DEF FlattenSeq, Flattens
  <2> QED BY <2>2, <2>4
<1> HIDE DEF f
<1>2. Wrong # {} => FALSE
  <2> SUFFICES ASSUME Wrong # {} PROVE FALSE
    OBVIOUS
  <2>1. PICK m \in Wrong : \A l \in Wrong : m <= l
    <3>1. Wrong \subseteq Nat
      OBVIOUS
    <3> HIDE DEF Wrong
    <3> QED BY <3>1, LeastOfNaturals
  <2>2. m \in 1 .. n /\ ~Good(m) /\ IsList(ss[m])
    BY <2>1
  <2>3. f[m] = IF m = 1 THEN ss[m] ELSE f[m - 1] \o ss[m]
    BY <1>1, <2>2 DEF Flattens
  <2>4. CASE m = 1
    <3>1. IsList(f[m]) /\ f[m] = ss[1]
      BY <2>2, <2>3, <2>4
    <3>2. Len(f[m]) > 0
      BY <3>1 DEF IsList
    <3> QED BY <2>2, <3>1, <3>2
  <2>5. CASE m # 1
    <3>1. Good(m - 1)
      <4>1. m - 1 \in 1 .. n /\ ~(m <= m - 1)
        BY <2>2, <2>5
      <4> HIDE DEF Good
      <4> QED BY <2>1, <4>1
    <3>2. f[m] = f[m - 1] \o ss[m]
      BY <2>3, <2>5
    <3>3. IsList(f[m])
      BY <2>2, <3>1, <3>2, TwoJoined
    <3>4. Len(f[m]) > 0 /\ f[m][1] = f[m - 1][1]
      BY <2>2, <3>1, <3>2 DEF IsList
    <3> QED BY <2>2, <3>1, <3>3, <3>4
  <2> QED BY <2>4, <2>5
<1>3. Good(n)
  BY <1>2
<1>4. FlattenSeq(ss) # <<>>
  BY <1>1, <1>3
<1> QED BY <1>1, <1>3, <1>4

\* Lists alike in what is wanted of them have one selection.
LEMMA SelectedAlike ==
    ASSUME NEW x, IsList(x), NEW y, IsList(y), Len(y) = Len(x), NEW v, NEW w,
           \A i \in 1 .. Len(x) : (x[i] \in v <=> y[i] \in w) /\ (x[i] \in v => x[i] = y[i])
    PROVE  Only(x, v) = Only(y, w)
<1> DEFINE f == CHOOSE f : Selects(f, x, v, Len(x))
           g == CHOOSE g : Selects(g, y, w, Len(y))
           Wrong == {n \in 0 .. Len(x) : f[n] # g[n]}
<1>1. Len(x) \in Nat
  BY DEF IsList
<1>2. Only(x, v) = f[Len(x)] /\ Selects(f, x, v, Len(x))
  <2>1. \E h : Selects(h, x, v, Len(x))
    BY <1>1, SelectionsExist
  <2>2. Selects(f, x, v, Len(x))
    BY <2>1
  <2> QED BY <2>2 DEF Only, Selects
<1>3. Only(y, w) = g[Len(x)] /\ Selects(g, y, w, Len(x))
  <2>1. \E h : Selects(h, y, w, Len(y))
    BY <1>1, SelectionsExist
  <2>2. Selects(g, y, w, Len(y))
    BY <2>1
  <2> QED BY <2>2 DEF Only, Selects
<1> HIDE DEF f, g
<1>4. Wrong # {} => FALSE
  <2> SUFFICES ASSUME Wrong # {} PROVE FALSE
    OBVIOUS
  <2>1. PICK n \in Wrong : \A m \in Wrong : n <= m
    <3>1. Wrong \subseteq Nat
      OBVIOUS
    <3> HIDE DEF Wrong
    <3> QED BY <3>1, LeastOfNaturals
  <2>2. n \in 0 .. Len(x) /\ f[n] # g[n]
    BY <2>1
  <2>3. /\ f[n] = IF n = 0 THEN <<>> ELSE IF x[n] \in v THEN Append(f[n - 1], x[n]) ELSE f[n - 1]
        /\ g[n] = IF n = 0 THEN <<>> ELSE IF y[n] \in w THEN Append(g[n - 1], y[n]) ELSE g[n - 1]
    BY <1>2, <1>3, <2>2 DEF Selects
  <2>4. n # 0
    BY <2>2, <2>3
  <2>5. f[n - 1] = g[n - 1]
    <3>1. n - 1 \in 0 .. Len(x) /\ ~(n <= n - 1)
      BY <1>1, <2>2, <2>4
    <3> QED BY <2>1, <3>1
  <2>6. n \in 1 .. Len(x)
    BY <2>2, <2>4
  <2> QED BY <2>2, <2>3, <2>4, <2>5, <2>6
<1>5. Len(x) \in 0 .. Len(x)
  BY <1>1
<1> QED BY <1>2, <1>3, <1>4, <1>5

LEMMA AppendedBehind ==
    ASSUME NEW x, IsList(x), NEW y, IsList(y), NEW e
    PROVE  Append(x \o y, e) = x \o Append(y, e)
<1> DEFINE S == Range(x) \union Range(y) \union {e}
           a == Append(x \o y, e)
           b == x \o Append(y, e)
           n == Len(x) + Len(y) + 1
<1>1. x \in Seq(S) /\ y \in Seq(S) /\ e \in S
  BY DEF IsList
<1> HIDE DEF S
<1>2. a \in Seq(S) /\ b \in Seq(S) /\ Len(a) = n /\ Len(b) = n /\ n \in Nat
  BY <1>1
<1>3. \A i \in 1 .. n : a[i] = b[i]
  BY <1>1
<1> HIDE DEF a, b, n
<1>4. a = [i \in 1 .. n |-> a[i]] /\ b = [i \in 1 .. n |-> b[i]]
  BY <1>2
<1>5. a = b
  BY <1>2, <1>3, <1>4, SameList
<1> QED BY <1>5 DEF a, b

LEMMA RestOfList ==
    ASSUME NEW x, IsList(x), x # <<>>
    PROVE  /\ IsList(Tail(x)) /\ Len(Tail(x)) = Len(x) - 1 /\ Len(x) \in Nat \ {0} /\ Head(x) = x[1]
           /\ \A i \in 1 .. Len(x) - 1 : Tail(x)[i] = x[i + 1]
           /\ Head(x) \in Range(x) /\ Range(x) = {Head(x)} \union Range(Tail(x))
<1> DEFINE S == Range(x)
<1>1. x \in Seq(S)
  BY DEF IsList
<1> HIDE DEF S
<1>2. /\ Tail(x) \in Seq(S) /\ Len(Tail(x)) = Len(x) - 1 /\ Len(x) \in Nat \ {0} /\ Head(x) = x[1]
      /\ \A i \in 1 .. Len(x) - 1 : Tail(x)[i] = x[i + 1]
  BY <1>1
<1>3. IsList(Tail(x))
  BY <1>2, SequenceIsList
<1>4. ASSUME NEW e PROVE e \in Range(x) <=> e = x[1] \/ e \in Range(Tail(x))
  <2> DEFINE y == Tail(x)
  <2>1. e \in Range(x) <=> \E i \in 1 .. Len(x) : e = x[i]
    BY ListFacts
  <2>2. e \in Range(y) <=> \E i \in 1 .. Len(x) - 1 : e = x[i + 1]
    <3>1. IsList(y) /\ Len(y) = Len(x) - 1 /\ \A i \in 1 .. Len(x) - 1 : y[i] = x[i + 1]
      BY <1>2, <1>3
    <3> HIDE DEF y
    <3>2. e \in Range(y) <=> \E i \in 1 .. Len(y) : e = y[i]
      BY <3>1, ListFacts
    <3> QED BY <3>1, <3>2
  <2>3. (\E i \in 1 .. Len(x) : e = x[i]) => e = x[1] \/ \E i \in 1 .. Len(x) - 1 : e = x[i + 1]
    <3> SUFFICES ASSUME NEW i \in 1 .. Len(x), e = x[i], i # 1 PROVE \E k \in 1 .. Len(x) - 1 : e = x[k + 1]
      OBVIOUS
    <3>1. i - 1 \in 1 .. Len(x) - 1 /\ (i - 1) + 1 = i
      BY <1>2
    <3> QED BY <3>1
  <2>4. e = x[1] \/ (\E i \in 1 .. Len(x) - 1 : e = x[i + 1]) => \E i \in 1 .. Len(x) : e = x[i]
    <3>1. 1 \in 1 .. Len(x) /\ \A i \in 1 .. Len(x) - 1 : i + 1 \in 1 .. Len(x)
      BY <1>2
    <3> QED BY <3>1
  <2> QED BY <2>1, <2>2, <2>3, <2>4
<1> QED BY <1>2, <1>3, <1>4

\* A selection from its front: the head, if it is wanted, and the selection of
\* the rest.
LEMMA SelectedFromFront ==
    ASSUME NEW x, IsList(x), x # <<>>, NEW w
    PROVE  Only(x, w) = IF Head(x) \in w THEN <<Head(x)>> \o Only(Tail(x), w) ELSE Only(Tail(x), w)
<1> DEFINE y == Tail(x)
           front == IF x[1] \in w THEN <<x[1]>> ELSE <<>>
           f == CHOOSE f : Selects(f, x, w, Len(x))
           g == CHOOSE g : Selects(g, y, w, Len(y))
           Good(n) == IsList(g[n]) /\ f[n + 1] = front \o g[n]
           Wrong == {n \in 0 .. Len(y) : ~Good(n)}
<1>1. /\ IsList(y) /\ Len(y) = Len(x) - 1 /\ Len(x) \in Nat \ {0} /\ Head(x) = x[1]
      /\ \A i \in 1 .. Len(x) - 1 : y[i] = x[i + 1]
  BY RestOfList
<1> HIDE DEF y
<1>2. Only(x, w) = f[Len(x)] /\ Selects(f, x, w, Len(x))
  <2>1. \E h : Selects(h, x, w, Len(x))
    BY <1>1, SelectionsExist
  <2>2. Selects(f, x, w, Len(x))
    BY <2>1
  <2> QED BY <2>2 DEF Only, Selects
<1>3. Only(y, w) = g[Len(y)] /\ Selects(g, y, w, Len(y))
  <2>1. \E h : Selects(h, y, w, Len(y))
    <3>1. Len(y) \in Nat
      BY <1>1
    <3> QED BY <3>1, SelectionsExist
  <2>2. Selects(g, y, w, Len(y))
    BY <2>1
  <2> QED BY <2>2 DEF Only, Selects
<1>4. IsList(front)
  <2>1. <<>> \in Seq({x[1]}) /\ <<x[1]>> \in Seq({x[1]})
    OBVIOUS
  <2>2. front \in Seq({x[1]})
    BY <2>1
  <2> QED BY <2>2, SequenceIsList
<1>4a. ASSUME NEW c, IsList(c), NEW e PROVE Append(front \o c, e) = front \o Append(c, e)
  <2> HIDE DEF front, f, g, y
  <2> QED BY <1>4, <1>4a, AppendedBehind
<1> HIDE DEF f, g
<1>5. f[1] = front
  <2> DEFINE none == <<>>
  <2>1. 0 \in 0 .. Len(x) /\ 1 \in 0 .. Len(x)
    BY <1>1
  <2>2. f[0] = none
    BY <1>2, <2>1 DEF Selects
  <2>3. f[1] = IF x[1] \in w THEN Append(f[0], x[1]) ELSE f[0]
    <3>1. 1 # 0 /\ 1 - 1 = 0
      OBVIOUS
    <3> QED BY <1>2, <2>1, <3>1 DEF Selects
  <2>4. Append(none, x[1]) = <<x[1]>>
    OBVIOUS
  <2> QED BY <2>2, <2>3, <2>4
<1>6. g[0] = <<>>
  BY <1>1, <1>3 DEF Selects
<1> HIDE DEF front
<1>7. Wrong # {} => FALSE
  <2> SUFFICES ASSUME Wrong # {} PROVE FALSE
    OBVIOUS
  <2>1. PICK n \in Wrong : \A m \in Wrong : n <= m
    <3>1. Wrong \subseteq Nat
      OBVIOUS
    <3> HIDE DEF Wrong
    <3> QED BY <3>1, LeastOfNaturals
  <2>2. n \in 0 .. Len(y) /\ ~Good(n)
    BY <2>1
  <2>3. CASE n = 0
    <3>1. front \o <<>> = front
      BY <1>4 DEF IsList
    <3>2. g[n] = <<>> /\ n + 1 = 1
      BY <1>6, <2>3
    <3>3. IsList(g[n])
      BY <3>2, EmptyList
    <3>4. f[n + 1] = front \o g[n]
      BY <1>5, <3>1, <3>2
    <3> QED BY <2>2, <3>3, <3>4
  <2>4. CASE n # 0
    <3>1. Good(n - 1)
      <4>1. n - 1 \in 0 .. Len(y) /\ ~(n <= n - 1)
        BY <1>1, <2>2, <2>4
      <4> HIDE DEF Good
      <4> QED BY <2>1, <4>1
    <3>2. n \in 1 .. Len(y) /\ n \in 0 .. Len(y) /\ n + 1 \in 0 .. Len(x) /\ n + 1 # 0 /\ (n + 1) - 1 = n /\ (n - 1) + 1 = n
      BY <1>1, <2>2, <2>4
    <3>3. g[n] = IF y[n] \in w THEN Append(g[n - 1], y[n]) ELSE g[n - 1]
      BY <1>3, <2>4, <3>2 DEF Selects
    <3>4. f[n + 1] = IF x[n + 1] \in w THEN Append(f[n], x[n + 1]) ELSE f[n]
      BY <1>2, <3>2 DEF Selects
    <3>5. y[n] = x[n + 1]
      BY <1>1, <3>2
    <3>6. IsList(g[n - 1]) /\ f[n] = front \o g[n - 1]
      BY <3>1, <3>2
    <3>7. CASE y[n] \in w
      <4>1. IsList(g[n])
        BY <3>3, <3>6, <3>7, OneAppended
      <4>2. Append(front \o g[n - 1], y[n]) = front \o Append(g[n - 1], y[n])
        BY <1>4a, <3>6
      <4> QED BY <2>2, <3>3, <3>4, <3>5, <3>6, <3>7, <4>1, <4>2
    <3>8. CASE y[n] \notin w
      BY <2>2, <3>3, <3>4, <3>5, <3>6, <3>8
    <3> QED BY <3>7, <3>8
  <2> QED BY <2>3, <2>4
<1>8. Good(Len(y))
  BY <1>1, <1>7
<1>9. Only(x, w) = front \o Only(y, w) /\ IsList(Only(y, w))
  BY <1>1, <1>2, <1>3, <1>8
<1>10. <<>> \o Only(y, w) = Only(y, w)
  BY <1>9 DEF IsList
<1> QED BY <1>1, <1>9, <1>10 DEF front, y

\* A list from one of its places on.
From(s, k) == SubSeq(s, k, Len(s))

LEMMA ListFrom ==
    ASSUME NEW s, IsList(s), NEW k \in 1 .. Len(s) + 1
    PROVE  /\ IsList(From(s, k)) /\ Len(From(s, k)) = Len(s) + 1 - k
           /\ \A i \in 1 .. Len(s) + 1 - k : From(s, k)[i] = s[k + i - 1]
           /\ \A e : e \in Range(From(s, k)) <=> \E j \in k .. Len(s) : e = s[j]
<1> DEFINE S == Range(s)
           x == From(s, k)
<1>1. s \in Seq(S) /\ Len(s) \in Nat
  BY DEF IsList
<1> HIDE DEF S
<1>2. /\ x \in Seq(S) /\ Len(x) = Len(s) + 1 - k
      /\ \A i \in 1 .. Len(s) + 1 - k : x[i] = s[k + i - 1]
  BY <1>1 DEF From
<1> HIDE DEF x
<1>3. IsList(x)
  BY <1>2, SequenceIsList
<1>4. ASSUME NEW e PROVE e \in Range(x) <=> \E j \in k .. Len(s) : e = s[j]
  <2>1. e \in Range(x) <=> \E i \in 1 .. Len(x) : e = x[i]
    BY <1>3, ListFacts
  <2>2. ASSUME NEW i \in 1 .. Len(x) PROVE k + i - 1 \in k .. Len(s) /\ x[i] = s[k + i - 1]
    BY <1>1, <1>2
  <2>3. ASSUME NEW j \in k .. Len(s) PROVE j + 1 - k \in 1 .. Len(x) /\ x[j + 1 - k] = s[j]
    <3>1. j + 1 - k \in 1 .. Len(x) /\ k + (j + 1 - k) - 1 = j
      BY <1>1, <1>2
    <3>2. x[j + 1 - k] = s[k + (j + 1 - k) - 1]
      BY <1>2, <3>1
    <3> QED BY <3>1, <3>2
  <2> QED BY <2>1, <2>2, <2>3
<1> QED BY <1>2, <1>3, <1>4 DEF x

LEMMA SelectedFrom ==
    ASSUME NEW s, IsList(s), NEW k \in 1 .. Len(s), NEW w
    PROVE  Only(From(s, k), w) = IF s[k] \in w THEN <<s[k]>> \o Only(From(s, k + 1), w)
                                 ELSE Only(From(s, k + 1), w)
<1> DEFINE x == From(s, k)
           y == From(s, k + 1)
           n == Len(s) - k
<1>1. Len(s) \in Nat /\ k \in 1 .. Len(s) + 1 /\ k + 1 \in 1 .. Len(s) + 1 /\ n \in Nat
  BY DEF IsList
<1>2. IsList(x) /\ Len(x) = n + 1 /\ \A i \in 1 .. n + 1 : x[i] = s[k + i - 1]
  BY <1>1, ListFrom
<1>3. IsList(y) /\ Len(y) = n /\ \A i \in 1 .. n : y[i] = s[k + i]
  <2>1. /\ IsList(y) /\ Len(y) = Len(s) + 1 - (k + 1)
        /\ \A i \in 1 .. Len(s) + 1 - (k + 1) : y[i] = s[(k + 1) + i - 1]
    BY <1>1, ListFrom
  <2> HIDE DEF y
  <2>2. Len(s) + 1 - (k + 1) = n /\ \A i \in 1 .. n : (k + 1) + i - 1 = k + i
    BY <1>1
  <2> QED BY <2>1, <2>2
<1> HIDE DEF x, y
<1>4. x # <<>>
  BY <1>1, <1>2
<1>5. /\ IsList(Tail(x)) /\ Len(Tail(x)) = n /\ Head(x) = x[1]
      /\ \A i \in 1 .. n : Tail(x)[i] = x[i + 1]
  BY <1>1, <1>2, <1>4, RestOfList
<1>6. Head(x) = s[k]
  <2>1. 1 \in 1 .. n + 1 /\ k + 1 - 1 = k
    BY <1>1
  <2> QED BY <1>2, <1>5, <2>1
<1>7. Tail(x) = y
  <2> DEFINE z == Tail(x)
  <2>1. IsList(z) /\ Len(z) = n
    BY <1>5
  <2>2. \A i \in 1 .. n : z[i] = y[i]
    <3> SUFFICES ASSUME NEW i \in 1 .. n PROVE z[i] = y[i]
      OBVIOUS
    <3>1. i + 1 \in 1 .. n + 1 /\ k + (i + 1) - 1 = k + i
      BY <1>1
    <3>2. x[i + 1] = s[k + i]
      BY <1>2, <3>1
    <3> QED BY <1>3, <1>5, <3>2
  <2> HIDE DEF z
  <2>3. z = [i \in 1 .. n |-> z[i]] /\ y = [i \in 1 .. n |-> y[i]]
    BY <1>1, <1>3, <2>1 DEF IsList
  <2>4. z = y
    BY <1>1, <2>2, <2>3, SameList
  <2> QED BY <2>4 DEF z
<1>8. Only(x, w) = IF Head(x) \in w THEN <<Head(x)>> \o Only(Tail(x), w) ELSE Only(Tail(x), w)
  BY <1>2, <1>4, SelectedFromFront
<1> QED BY <1>6, <1>7, <1>8 DEF x, y

\* The next of a list that is wanted, and what the selection then has left.
LEMMA NextSelected ==
    ASSUME NEW s, IsList(s), NEW k \in 0 .. Len(s), NEW w, Only(From(s, k + 1), w) # <<>>
    PROVE  \E j \in k + 1 .. Len(s) :
              /\ s[j] \in w /\ \A i \in k + 1 .. j - 1 : s[i] \notin w
              /\ Head(Only(From(s, k + 1), w)) = s[j]
              /\ Tail(Only(From(s, k + 1), w)) = Only(From(s, j + 1), w)
<1> DEFINE t == Only(From(s, k + 1), w)
           W == {j \in k + 1 .. Len(s) : s[j] \in w}
<1>1. Len(s) \in Nat /\ k + 1 \in 1 .. Len(s) + 1
  BY DEF IsList
<1>2. W # {}
  <2> DEFINE x == From(s, k + 1)
  <2>1. IsList(x) /\ \A e : e \in Range(x) <=> \E j \in k + 1 .. Len(s) : e = s[j]
    BY <1>1, ListFrom
  <2> HIDE DEF x
  <2>2. IsList(Only(x, w)) /\ Range(Only(x, w)) = Range(x) \intersect w
    BY <2>1, Selected
  <2>3. Only(x, w) # <<>>
    BY DEF x
  <2>4. Head(Only(x, w)) \in Range(Only(x, w))
    BY <2>2, <2>3, RestOfList
  <2> QED BY <2>1, <2>2, <2>4
<1>3. PICK j \in W : \A i \in W : j <= i
  <2>1. W \subseteq Nat
    BY <1>1
  <2> HIDE DEF W
  <2> QED BY <1>2, <2>1, LeastOfNaturals
<1>4. j \in k + 1 .. Len(s) /\ s[j] \in w /\ \A i \in k + 1 .. j - 1 : s[i] \notin w
  <2>1. \A i \in k + 1 .. j - 1 : i \in k + 1 .. Len(s) /\ ~(j <= i)
    BY <1>1, <1>3
  <2> QED BY <1>3, <2>1
<1>5. \A i \in k + 1 .. j : Only(From(s, i), w) = t
  <2> DEFINE Wrong == {i \in k + 1 .. j : Only(From(s, i), w) # t}
  <2> SUFFICES ASSUME Wrong # {} PROVE FALSE
    OBVIOUS
  <2>1. PICK i \in Wrong : \A l \in Wrong : i <= l
    <3>1. Wrong \subseteq Nat
      BY <1>1
    <3> HIDE DEF Wrong
    <3> QED BY <3>1, LeastOfNaturals
  <2>2. i # k + 1 /\ i \in k + 1 .. j
    BY <2>1
  <2>3. i - 1 \in k + 1 .. j - 1 /\ i - 1 \in k + 1 .. j /\ i - 1 \in 1 .. Len(s) /\ (i - 1) + 1 = i /\ ~(i <= i - 1)
    BY <1>1, <1>4, <2>2
  <2>4. Only(From(s, i - 1), w) = t
    BY <2>1, <2>3
  <2>5. Only(From(s, i - 1), w) = Only(From(s, i), w)
    <3> DEFINE l == i - 1
    <3>1. l \in 1 .. Len(s) /\ l + 1 = i /\ s[l] \notin w
      BY <1>4, <2>3
    <3> HIDE DEF l
    <3>2. Only(From(s, l), w) = Only(From(s, l + 1), w)
      BY <3>1, SelectedFrom
    <3>3. Only(From(s, l), w) = Only(From(s, i), w)
      BY <3>1, <3>2
    <3> QED BY <3>3 DEF l
  <2> QED BY <2>1, <2>4, <2>5
<1>6. j \in 1 .. Len(s) /\ j \in k + 1 .. j
  BY <1>1, <1>4
<1>7. t = <<s[j]>> \o Only(From(s, j + 1), w)
  BY <1>4, <1>5, <1>6, SelectedFrom
<1> DEFINE u == Only(From(s, j + 1), w)
<1>8. IsList(u)
  <2> DEFINE x == From(s, j + 1)
  <2>1. j + 1 \in 1 .. Len(s) + 1
    BY <1>1, <1>6
  <2>2. IsList(x)
    BY <2>1, ListFrom
  <2> HIDE DEF x
  <2>3. IsList(Only(x, w))
    BY <2>2, Selected
  <2> QED BY <2>3 DEF x
<1> HIDE DEF t, u
<1>9. Head(t) = s[j] /\ Tail(t) = u
  <2> DEFINE S == Range(u) \union {s[j]}
             a == s[j]
  <2>1. u \in Seq(S) /\ a \in S
    BY <1>8 DEF IsList
  <2>2. t = <<a>> \o u
    BY <1>7 DEF u
  <2> HIDE DEF S, a
  <2>3. /\ t \in Seq(S) /\ Len(t) = Len(u) + 1 /\ t[1] = a /\ Len(u) \in Nat
        /\ \A i \in 1 .. Len(u) : t[i + 1] = u[i]
    BY <2>1, <2>2
  <2>4. IsList(t) /\ t # <<>>
    BY <2>3, SequenceIsList
  <2>5. Head(t) = a /\ IsList(Tail(t)) /\ Len(Tail(t)) = Len(u) /\ \A i \in 1 .. Len(u) : Tail(t)[i] = t[i + 1]
    <3>1. Len(t) - 1 = Len(u)
      BY <2>3
    <3> QED BY <2>3, <2>4, <3>1, RestOfList
  <2> DEFINE v == Tail(t)
             n == Len(u)
  <2>6. IsList(v) /\ Len(v) = n /\ IsList(u) /\ Len(u) = n /\ n \in Nat /\ \A i \in 1 .. n : v[i] = u[i]
    BY <1>8, <2>3, <2>5
  <2> HIDE DEF v, n
  <2>7. v = [i \in 1 .. n |-> v[i]] /\ u = [i \in 1 .. n |-> u[i]]
    BY <2>6 DEF IsList
  <2>8. v = u
    BY <2>6, <2>7, SameList
  <2> QED BY <2>5, <2>8 DEF v, a
<1> QED BY <1>4, <1>9 DEF t, u

\* One step on in a list.
LEMMA RestFrom ==
    ASSUME NEW s, IsList(s), NEW k \in 1 .. Len(s) + 1, From(s, k) # <<>>
    PROVE  /\ k <= Len(s) /\ Head(From(s, k)) = s[k] /\ Tail(From(s, k)) = From(s, k + 1)
           /\ k + 1 \in 1 .. Len(s) + 1
<1> DEFINE x == From(s, k)
           y == From(s, k + 1)
           t == Tail(x)
           n == Len(s) - k
<1>1. Len(s) \in Nat
  BY DEF IsList
<1>2. IsList(x) /\ Len(x) = Len(s) + 1 - k /\ \A i \in 1 .. Len(s) + 1 - k : x[i] = s[k + i - 1]
  BY ListFrom
<1> HIDE DEF x
<1>3. /\ IsList(t) /\ Len(t) = Len(x) - 1 /\ Len(x) \in Nat \ {0} /\ Head(x) = x[1]
      /\ \A i \in 1 .. Len(x) - 1 : t[i] = x[i + 1]
  <2>1. x # <<>>
    BY DEF x
  <2> QED BY <1>2, <2>1, RestOfList
<1>4. k <= Len(s) /\ k + 1 \in 1 .. Len(s) + 1 /\ n \in Nat /\ Head(x) = s[k]
  BY <1>1, <1>2, <1>3
<1>5. IsList(y) /\ Len(y) = n /\ \A i \in 1 .. n : y[i] = s[k + 1 + i - 1]
  <2>1. /\ IsList(y) /\ Len(y) = Len(s) + 1 - (k + 1)
        /\ \A i \in 1 .. Len(s) + 1 - (k + 1) : y[i] = s[(k + 1) + i - 1]
    BY <1>4, ListFrom
  <2> HIDE DEF y
  <2> QED BY <1>1, <1>4, <2>1
<1> HIDE DEF y, t
<1>6. Len(t) = n
  BY <1>1, <1>2, <1>3
<1>7. ASSUME NEW i \in 1 .. n PROVE t[i] = y[i]
  <2>1. t[i] = x[i + 1]
    BY <1>1, <1>2, <1>3, <1>4
  <2>2. x[i + 1] = s[k + (i + 1) - 1]
    BY <1>1, <1>2, <1>4
  <2>3. k + (i + 1) - 1 = k + 1 + i - 1
    BY <1>1
  <2> QED BY <1>5, <2>1, <2>2, <2>3
<1>8. t = y
  <2>1. t = [i \in 1 .. n |-> t[i]] /\ y = [i \in 1 .. n |-> y[i]]
    BY <1>3, <1>5, <1>6 DEF IsList
  <2> QED BY <1>4, <1>7, <2>1, SameList
<1> QED BY <1>4, <1>8 DEF x, y, t

\* Nothing is left of a list behind its end, and all of it at its beginning.
LEMMA BothEndsFrom ==
    ASSUME NEW s, IsList(s)
    PROVE  From(s, 1) = s /\ (\A k \in 1 .. Len(s) + 1 : From(s, k) = <<>> => k = Len(s) + 1)
<1>1. Len(s) \in Nat
  BY DEF IsList
<1>2. From(s, 1) = s
  BY DEF From, IsList
<1>3. ASSUME NEW k \in 1 .. Len(s) + 1, From(s, k) = <<>> PROVE k = Len(s) + 1
  BY <1>1, <1>3, ListFrom, EmptyList
<1> QED BY <1>2, <1>3

\* A list of members of a set.
LEMMA ListsWithin ==
    ASSUME NEW s, IsList(s), NEW S, Range(s) \subseteq S
    PROVE  s \in Seq(S)
<1>1. s \in Seq(Range(s)) /\ DOMAIN s = 1 .. Len(s) /\ Len(s) \in Nat
  BY DEF IsList
<1>2. \A i \in 1 .. Len(s) : s[i] \in S
  BY <1>1, ListFacts
<1> QED BY <1>1, <1>2
=============================================================================
