----------------------------- MODULE AudioProofs -----------------------------
(***************************************************************************)
(* Theorems about the audio of a chapter, in two parts.                     *)
(*                                                                          *)
(* What it says: about ChapterReading and the algorithms it is built from   *)
(* (ChapterSplitting, SourceSegmentation, SegmentAnnotation, SpeechPlan),   *)
(* for every document, text, limit and provider: no text is lost, none is   *)
(* said twice, and the timing is that of the sound.                         *)
(*                                                                          *)
(* Which files hold it: about AudioGeneration, for every set of             *)
(* generations, requests, consumers and texts: the files of a generation    *)
(* are of its text, and the pointer moves only to what is current.          *)
(*                                                                          *)
(* Inductions over data rest on two lemmas proved from the well-foundedness *)
(* of the naturals: Upward, over numbers, and Inward, over finite sets.     *)
(***************************************************************************)
EXTENDS AudioGeneration, ChapterReading, FiniteSetTheorems,
        WellFoundedInduction, TLAPS

-----------------------------------------------------------------------------
(* Numbers, and the stretches a text is cut into *)

\* A set of numbers that has one has a least one.
LEMMA LeastOf ==
  ASSUME NEW S \in SUBSET Nat, S # {}
  PROVE  \E x \in S : \A y \in S : x <= y
<1>1. PICK x \in S : \A y \in S : ~ (<<y, x>> \in OpToRel(<, Nat))
  BY NatLessThanWellFounded, WFMin, Zenon
<1>2. \A y \in S : ~ (y < x)
  BY <1>1 DEF OpToRel
<1>3. \A y \in S : x <= y
  BY <1>2
<1> QED BY <1>3

\* What holds of 0 and passes from each number to the next holds of all.
LEMMA Upward ==
  ASSUME NEW S, 0 \in S, \A n \in Nat : n \in S => n + 1 \in S
  PROVE  \A n \in Nat : n \in S
<1> DEFINE Bad == Nat \ S
<1>1. SUFFICES ASSUME Bad # {} PROVE FALSE
  OBVIOUS
<1>2. PICK n \in Bad : \A y \in Bad : n <= y
  BY <1>1, LeastOf
<1>3. n - 1 \in Nat /\ n - 1 \notin Bad
  BY <1>2
<1>4. n - 1 \in S /\ n = (n - 1) + 1
  BY <1>3
<1> QED BY <1>2, <1>4, <1>3

\* Min is in the set, and none of it is less.
LEMMA MinIs ==
  ASSUME NEW S \in SUBSET Nat, S # {}
  PROVE  Min(S) \in S /\ \A y \in S : Min(S) <= y
<1>1. PICK x \in S : \A y \in S : x <= y
  BY LeastOf
<1> QED BY <1>1 DEF Min

\* Max is in the set, and none of it is more.
LEMMA MaxIs ==
  ASSUME NEW b \in Nat, NEW S \in SUBSET (0 .. b), S # {}
  PROVE  Max(S) \in S /\ \A y \in S : Max(S) >= y
<1> DEFINE T == {b - x : x \in S}
<1>1. T \in SUBSET Nat /\ T # {}
  <2>1. \A x \in S : b - x \in Nat
    OBVIOUS
  <2> QED BY <2>1
<1>2. PICK t \in T : \A y \in T : t <= y
  BY <1>1, LeastOf
<1>3. PICK x \in S : t = b - x
  BY <1>2
<1>4. \A y \in S : b - y \in T
  OBVIOUS
<1>5. \A y \in S : x >= y
  BY <1>2, <1>3, <1>4
<1> QED BY <1>5 DEF Max

\* FirstIn is the first place of the set in the stretch, or the end of the stretch.
LEMMA FirstInIs ==
  ASSUME NEW S \in SUBSET Nat, NEW a \in Nat, NEW b \in Nat, a <= b
  PROVE  /\ FirstIn(S, a, b) \in a .. b
         /\ FirstIn(S, a, b) < b => FirstIn(S, a, b) \in S
         /\ \A i \in Nat : a <= i /\ i < FirstIn(S, a, b) => i \notin S
<1> DEFINE T == {i \in S : a <= i /\ i < b} \cup {b}
<1>1. T \in SUBSET Nat /\ T # {}
  OBVIOUS
<1>2. Min(T) \in T /\ \A y \in T : Min(T) <= y
  <2> HIDE DEF T
  <2> QED BY <1>1, MinIs
<1>3. FirstIn(S, a, b) = Min(T)
  BY DEF FirstIn
<1>4. /\ b \in T
      /\ \A i \in S : a <= i /\ i < b => i \in T
      /\ \A x \in T : x = b \/ (x \in S /\ a <= x /\ x < b)
  OBVIOUS
<1> HIDE DEF T
<1> DEFINE m == Min(T)
<1>5. m \in T /\ m \in Nat /\ \A y \in T : m <= y
  BY <1>1, <1>2
<1> HIDE DEF m
<1>6. \A i \in Nat : a <= i /\ i < m => i \notin S
  BY <1>4, <1>5
<1>7. m \in a .. b /\ (m < b => m \in S)
  BY <1>4, <1>5
<1>8. FirstIn(S, a, b) = m
  BY <1>3 DEF m
<1> QED BY <1>6, <1>7, <1>8

\* After is the first place from i on with another kind, or the end.
LEMMA AfterIs ==
  ASSUME NEW t \in Seq(Kinds), NEW kinds, NEW i \in Nat, NEW b \in Nat, i <= b
  PROVE  /\ After(t, kinds, i, b) \in i .. b
         /\ After(t, kinds, i, b) < b =>
              /\ After(t, kinds, i, b) \in DOMAIN t
              /\ t[After(t, kinds, i, b)] \notin kinds
         /\ \A j \in DOMAIN t : i <= j /\ j < After(t, kinds, i, b) => t[j] \in kinds
<1> DEFINE S == {j \in DOMAIN t : t[j] \notin kinds}
<1>1. S \in SUBSET Nat
  OBVIOUS
<1>2. After(t, kinds, i, b) = FirstIn(S, i, b)
  BY DEF After
<1>3. /\ FirstIn(S, i, b) \in i .. b
      /\ FirstIn(S, i, b) < b => FirstIn(S, i, b) \in S
      /\ \A j \in Nat : i <= j /\ j < FirstIn(S, i, b) => j \notin S
  <2> HIDE DEF S
  <2> QED BY <1>1, FirstInIs
<1> QED BY <1>2, <1>3

-----------------------------------------------------------------------------
(* Cuts *)

\* One step of the recursion of Cuts: the places cut so far, and the next.
Step(next, a, b, before) ==
  LET p == IF before = << >> THEN a ELSE before[Len(before)][2]
  IN IF p < b THEN Append(before, <<p, next[p]>>) ELSE before

\* The function Cuts chooses: the first n stretches, for every n up to m.
IsCut(f, next, a, b, m) ==
  f = [n \in 0 .. m |-> IF n = 0 THEN << >> ELSE Step(next, a, b, f[n - 1])]

\* There is a function that Cuts describes: its CHOOSE is not of nothing.
LEMMA CutExists ==
  ASSUME NEW next, NEW a, NEW b, NEW m \in Nat
  PROVE  \E f : IsCut(f, next, a, b, m)
<1> DEFINE S == {n \in Nat : \E f : IsCut(f, next, a, b, n)}
<1>1. 0 \in S
  <2>1. IsCut([n \in 0 .. 0 |-> << >>], next, a, b, 0)
    BY DEF IsCut
  <2> QED BY <2>1
<1>2. ASSUME NEW n \in Nat, n \in S PROVE n + 1 \in S
  <2>1. PICK f : IsCut(f, next, a, b, n)
    BY <1>2
  <2> DEFINE g == [k \in 0 .. n + 1 |-> IF k <= n THEN f[k] ELSE Step(next, a, b, f[n])]
  <2>2. \A k \in 0 .. n : f[k] = IF k = 0 THEN << >> ELSE Step(next, a, b, f[k - 1])
    BY <2>1 DEF IsCut
  <2>3. ASSUME NEW k \in 0 .. n + 1
        PROVE  g[k] = IF k = 0 THEN << >> ELSE Step(next, a, b, g[k - 1])
    <3>1. CASE k = n + 1
      <4>1. g[k] = Step(next, a, b, f[n]) /\ g[n] = f[n] /\ k - 1 = n /\ k # 0
        BY <3>1
      <4> QED BY <4>1
    <3>2. CASE k \in 0 .. n
      <4>1. k # 0 => k - 1 \in 0 .. n
        BY <3>2
      <4>2. g[k] = f[k] /\ (k # 0 => g[k - 1] = f[k - 1])
        BY <3>2, <4>1
      <4> QED BY <2>2, <3>2, <4>2
    <3> QED BY <3>1, <3>2
  <2>4. IsCut(g, next, a, b, n + 1)
    BY <2>3 DEF IsCut
  <2> QED BY <2>4
<1> HIDE DEF S
<1>3. m \in S
  BY <1>1, <1>2, Upward
<1> QED BY <1>3 DEF S

\* c cuts a .. b-1 into parts of which each ends where the next begins.
IsChain(c, next, a, b) ==
  /\ c \in Seq(Nat \X Nat)
  /\ \A k \in DOMAIN c : c[k][1] \in Places(a, b) /\ c[k][2] = next[c[k][1]]
  /\ c # << >> => c[1][1] = a
  /\ \A k \in DOMAIN c : k + 1 \in DOMAIN c => c[k + 1][1] = c[k][2]

\* A chain to the end of what is cut.
Reaches(c, a, b) == IF c = << >> THEN a = b ELSE c[Len(c)][2] = b

\* A step leaves a chain, longer by one stretch until it reaches the end.
LEMMA StepKeepsChain ==
  ASSUME NEW a \in Nat, NEW b \in Nat, a <= b, NEW next,
         \A p \in Places(a, b) : next[p] \in p + 1 .. b,
         NEW c, IsChain(c, next, a, b)
  PROVE  /\ IsChain(Step(next, a, b, c), next, a, b)
         /\ Step(next, a, b, c) # c => Len(Step(next, a, b, c)) = Len(c) + 1
         /\ Step(next, a, b, c) = c => Reaches(c, a, b)
<1> DEFINE p == IF c = << >> THEN a ELSE c[Len(c)][2]
<1>1. c \in Seq(Nat \X Nat) /\ Len(c) \in Nat
  BY DEF IsChain
<1>2. p \in a .. b
  <2>1. CASE c = << >>
    BY <2>1
  <2>2. CASE c # << >>
    <3>1. Len(c) \in DOMAIN c
      BY <1>1, <2>2
    <3>2. c[Len(c)][1] \in Places(a, b) /\ c[Len(c)][2] = next[c[Len(c)][1]]
      BY <3>1 DEF IsChain
    <3>3. c[Len(c)][2] \in a .. b
      BY <3>2 DEF Places
    <3> QED BY <2>2, <3>3
  <2> QED BY <2>1, <2>2
<1> HIDE DEF p
<1>3. CASE p < b
  <2>1. p \in Places(a, b) /\ next[p] \in Nat /\ p \in Nat
    BY <1>2, <1>3 DEF Places
  <2>2. Step(next, a, b, c) = Append(c, <<p, next[p]>>)
    BY <1>3 DEF Step, p
  <2> DEFINE d == Append(c, <<p, next[p]>>)
  <2>3. d \in Seq(Nat \X Nat) /\ Len(d) = Len(c) + 1 /\ d # << >> /\ d # c
    <3>1. <<p, next[p]>> \in Nat \X Nat
      BY <2>1
    <3>2. d \in Seq(Nat \X Nat) /\ Len(d) = Len(c) + 1
      BY <1>1, <3>1
    <3> HIDE DEF d
    <3> QED BY <3>2, <1>1
  <2>4. d[Len(d)] = <<p, next[p]>> /\ \A k \in DOMAIN c : d[k] = c[k]
    BY <1>1, <2>3
  <2>5. DOMAIN d = 1 .. Len(c) + 1 /\ DOMAIN c = 1 .. Len(c)
    BY <1>1, <2>3
  <2>6. \A k \in DOMAIN d : d[k][1] \in Places(a, b) /\ d[k][2] = next[d[k][1]]
    <3>1. ASSUME NEW k \in DOMAIN c PROVE d[k][1] \in Places(a, b) /\ d[k][2] = next[d[k][1]]
      BY <3>1, <2>4 DEF IsChain
    <3>2. d[Len(c) + 1][1] \in Places(a, b) /\ d[Len(c) + 1][2] = next[d[Len(c) + 1][1]]
      BY <2>1, <2>3, <2>4
    <3> HIDE DEF d
    <3> QED BY <3>1, <3>2, <2>5
  <2>7. d[1][1] = a
    <3>1. CASE c = << >>
      BY <3>1, <2>3, <2>4 DEF p
    <3>2. CASE c # << >>
      <4>1. 1 \in DOMAIN c
        BY <1>1, <3>2
      <4> QED BY <3>2, <4>1, <2>4 DEF IsChain
    <3> QED BY <3>1, <3>2
  <2>8. ASSUME NEW k \in DOMAIN d, k + 1 \in DOMAIN d PROVE d[k + 1][1] = d[k][2]
    <3>1. CASE k = Len(c)
      BY <3>1, <2>3, <2>4, <2>5, <2>8 DEF p
    <3>2. CASE k # Len(c)
      <4>1. k \in DOMAIN c /\ k + 1 \in DOMAIN c
        BY <3>2, <2>5, <2>8, <1>1
      <4> QED BY <4>1, <2>4 DEF IsChain
    <3> QED BY <3>1, <3>2
  <2> HIDE DEF d
  <2>9. IsChain(d, next, a, b)
    BY <2>3, <2>6, <2>7, <2>8 DEF IsChain
  <2> QED BY <2>2, <2>3, <2>9 DEF d
<1>4. CASE p = b
  <2>1. Step(next, a, b, c) = c
    BY <1>4 DEF Step, p
  <2> QED BY <2>1, <1>4, <1>1 DEF p, Reaches
<1> QED BY <1>2, <1>3, <1>4

\* The stretches of a chain do not overlap, and each has at least one place.
LEMMA ChainOrder ==
  ASSUME NEW a \in Nat, NEW b \in Nat, a <= b, NEW next,
         \A p \in Places(a, b) : next[p] \in p + 1 .. b,
         NEW c, IsChain(c, next, a, b)
  PROVE  /\ \A k \in DOMAIN c : c[k][1] \in Places(a, b) /\ c[k][1] \in Nat /\ c[k][2] \in c[k][1] + 1 .. b
         /\ \A k \in DOMAIN c : c[k][1] >= a + k - 1
         /\ \A j, k \in DOMAIN c : j < k => c[j][2] <= c[k][1]
<1>0. c \in Seq(Nat \X Nat) /\ Len(c) \in Nat /\ DOMAIN c = 1 .. Len(c)
  BY DEF IsChain
<1>1. ASSUME NEW k \in DOMAIN c
      PROVE  c[k][1] \in Places(a, b) /\ c[k][1] \in Nat /\ c[k][2] \in c[k][1] + 1 .. b
  <2>1. c[k][1] \in Places(a, b) /\ c[k][2] = next[c[k][1]]
    BY <1>1 DEF IsChain
  <2>2. c[k][2] \in c[k][1] + 1 .. b
    BY <2>1
  <2> QED BY <2>1, <2>2 DEF Places
<1>2. \A k \in DOMAIN c : c[k][1] >= a + k - 1
  <2> DEFINE S == {n \in Nat : n \in DOMAIN c => c[n][1] >= a + n - 1}
  <2>1. 0 \in S
    BY <1>0
  <2>2. ASSUME NEW n \in Nat, n \in S PROVE n + 1 \in S
    <3>1. SUFFICES ASSUME n + 1 \in DOMAIN c PROVE c[n + 1][1] >= a + n
      OBVIOUS
    <3>2. CASE n = 0
      <4>1. c # << >>
        BY <3>1, <1>0
      <4>2. c[1][1] = a
        BY <4>1 DEF IsChain
      <4> QED BY <4>2, <3>2
    <3>3. CASE n # 0
      <4>1. n \in DOMAIN c
        BY <3>1, <3>3, <1>0
      <4>2. c[n + 1][1] = c[n][2]
        BY <4>1, <3>1 DEF IsChain
      <4>3. c[n][1] >= a + n - 1
        BY <4>1, <2>2
      <4>4. c[n][1] \in Nat /\ c[n][2] \in c[n][1] + 1 .. b
        BY <4>1, <1>1
      <4> QED BY <4>2, <4>3, <4>4
    <3> QED BY <3>2, <3>3
  <2> HIDE DEF S
  <2>3. \A n \in Nat : n \in S
    BY <2>1, <2>2, Upward
  <2> QED BY <2>3, <1>0 DEF S
<1>3. ASSUME NEW j \in DOMAIN c
      PROVE  \A k \in DOMAIN c : j < k => c[j][2] <= c[k][1]
  <2> DEFINE S == {n \in Nat : n \in DOMAIN c /\ j < n => c[j][2] <= c[n][1]}
  <2>1. 0 \in S
    BY <1>0, <1>3
  <2>2. ASSUME NEW n \in Nat, n \in S PROVE n + 1 \in S
    <3>1. SUFFICES ASSUME n + 1 \in DOMAIN c, j < n + 1 PROVE c[j][2] <= c[n + 1][1]
      OBVIOUS
    <3>2. j \in Nat /\ j >= 1 /\ n \in DOMAIN c /\ j <= n
      BY <1>0, <1>3, <3>1
    <3>3. c[n + 1][1] = c[n][2]
      BY <3>1, <3>2 DEF IsChain
    <3>4. /\ c[n][1] \in Nat /\ c[n][2] \in c[n][1] + 1 .. b
          /\ c[j][1] \in Nat /\ c[j][2] \in c[j][1] + 1 .. b
      BY <3>2, <1>1, <1>3
    <3>5. CASE j = n
      BY <3>3, <3>4, <3>5
    <3>6. CASE j < n
      <4>1. c[j][2] <= c[n][1]
        BY <2>2, <3>2, <3>6
      <4> QED BY <4>1, <3>3, <3>4
    <3> QED BY <3>2, <3>5, <3>6
  <2> HIDE DEF S
  <2>3. \A n \in Nat : n \in S
    BY <2>1, <2>2, Upward
  <2> QED BY <2>3, <1>0 DEF S
<1> QED BY <1>1, <1>2, <1>3

\* A chain that reaches the end has every place in one of its stretches.
LEMMA ChainCovers ==
  ASSUME NEW a \in Nat, NEW b \in Nat, a <= b, NEW next,
         \A p \in Places(a, b) : next[p] \in p + 1 .. b,
         NEW c, IsChain(c, next, a, b), Reaches(c, a, b)
  PROVE  \A i \in Places(a, b) : \E k \in DOMAIN c : i \in Places(c[k][1], c[k][2])
<1>0. c \in Seq(Nat \X Nat) /\ Len(c) \in Nat /\ DOMAIN c = 1 .. Len(c)
  BY DEF IsChain
<1>1. \A k \in DOMAIN c : c[k][1] \in Nat /\ c[k][2] \in c[k][1] + 1 .. b
  BY ChainOrder
<1> DEFINE S == {n \in Nat : n + a \in Places(a, b) => \E k \in DOMAIN c : n + a \in Places(c[k][1], c[k][2])}
<1>2. 0 \in S
  <2>1. SUFFICES ASSUME a \in Places(a, b) PROVE \E k \in DOMAIN c : a \in Places(c[k][1], c[k][2])
    OBVIOUS
  <2>2. c # << >>
    BY <2>1 DEF Reaches, Places
  <2>3. 1 \in DOMAIN c /\ c[1][1] = a
    BY <2>2, <1>0 DEF IsChain
  <2>4. a \in Places(c[1][1], c[1][2])
    BY <2>3, <1>1 DEF Places
  <2> QED BY <2>3, <2>4
<1>3. ASSUME NEW n \in Nat, n \in S PROVE n + 1 \in S
  <2>1. SUFFICES ASSUME n + 1 + a \in Places(a, b) PROVE \E k \in DOMAIN c : n + 1 + a \in Places(c[k][1], c[k][2])
    OBVIOUS
  <2>2. n + a \in Places(a, b)
    BY <2>1 DEF Places
  <2>3. PICK k \in DOMAIN c : n + a \in Places(c[k][1], c[k][2])
    BY <2>2, <1>3
  <2>4. CASE n + 1 + a < c[k][2]
    <3>1. n + 1 + a \in Places(c[k][1], c[k][2])
      BY <2>3, <2>4, <1>1 DEF Places
    <3> QED BY <3>1
  <2>5. CASE n + 1 + a = c[k][2]
    <3>1. k # Len(c)
      <4>1. SUFFICES ASSUME k = Len(c) PROVE FALSE
        OBVIOUS
      <4>2. c # << >>
        BY <1>0
      <4>3. c[k][2] = b
        BY <4>1, <4>2 DEF Reaches
      <4> QED BY <4>3, <2>5, <2>1 DEF Places
    <3>2. k + 1 \in DOMAIN c
      BY <3>1, <1>0
    <3>3. c[k + 1][1] = c[k][2]
      BY <3>2 DEF IsChain
    <3>4. n + 1 + a \in Places(c[k + 1][1], c[k + 1][2])
      BY <3>2, <3>3, <2>5, <1>1 DEF Places
    <3> QED BY <3>2, <3>4
  <2>6. n + 1 + a <= c[k][2]
    BY <2>3, <1>1 DEF Places
  <2> QED BY <2>4, <2>5, <2>6, <1>1
<1> HIDE DEF S
<1>4. \A n \in Nat : n \in S
  BY <1>2, <1>3, Upward
<1>5. \A i \in Places(a, b) : i - a \in Nat /\ i = (i - a) + a
  BY DEF Places
<1>6. ASSUME NEW i \in Places(a, b) PROVE \E k \in DOMAIN c : i \in Places(c[k][1], c[k][2])
  <2>1. i - a \in S /\ (i - a) + a = i
    BY <1>4, <1>5
  <2>2. (i - a) + a \in Places(a, b) => \E k \in DOMAIN c : (i - a) + a \in Places(c[k][1], c[k][2])
    BY <2>1 DEF S
  <2> QED BY <2>1, <2>2
<1> QED BY <1>6

\* Cuts is a chain from the first place to the last.
LEMMA CutsAre ==
  ASSUME NEW a \in Nat, NEW b \in Nat, a <= b, NEW next,
         \A p \in Places(a, b) : next[p] \in p + 1 .. b
  PROVE  IsChain(Cuts(next, a, b), next, a, b) /\ Reaches(Cuts(next, a, b), a, b)
<1> DEFINE f == CHOOSE f : IsCut(f, next, a, b, b - a)
<1>1. Cuts(next, a, b) = f[b - a]
  BY Zenon DEF Cuts, IsCut, Step
<1>2. IsCut(f, next, a, b, b - a)
  <2> DEFINE P(x) == IsCut(x, next, a, b, b - a)
  <2>1. \E x : P(x)
    BY CutExists
  <2> HIDE DEF P
  <2>2. P(CHOOSE x : P(x))
    BY <2>1, Zenon
  <2> QED BY <2>2 DEF P
<1> HIDE DEF f
<1>3. \A n \in 0 .. b - a : f[n] = IF n = 0 THEN << >> ELSE Step(next, a, b, f[n - 1])
  BY <1>2 DEF IsCut
<1> DEFINE S == {n \in Nat : n <= b - a =>
                   /\ IsChain(f[n], next, a, b)
                   /\ Len(f[n]) = n \/ Step(next, a, b, f[n]) = f[n]}
<1>4. 0 \in S
  <2>1. f[0] = << >>
    BY <1>3
  <2>2. IsChain(<< >>, next, a, b)
    BY DEF IsChain
  <2> QED BY <2>1, <2>2
<1>5. ASSUME NEW n \in Nat, n \in S PROVE n + 1 \in S
  <2>1. SUFFICES ASSUME n + 1 <= b - a
                 PROVE  /\ IsChain(f[n + 1], next, a, b)
                        /\ Len(f[n + 1]) = n + 1 \/ Step(next, a, b, f[n + 1]) = f[n + 1]
    OBVIOUS
  <2>2. f[n + 1] = Step(next, a, b, f[n])
    <3>1. n + 1 \in 0 .. b - a /\ n + 1 # 0 /\ (n + 1) - 1 = n
      BY <2>1
    <3> QED BY <3>1, <1>3
  <2>3. IsChain(f[n], next, a, b) /\ (Len(f[n]) = n \/ Step(next, a, b, f[n]) = f[n])
    BY <1>5, <2>1
  <2>4. /\ IsChain(f[n + 1], next, a, b)
        /\ f[n + 1] # f[n] => Len(f[n + 1]) = Len(f[n]) + 1
    BY <2>2, <2>3, StepKeepsChain
  <2>5. CASE f[n + 1] = f[n]
    BY <2>5, <2>2, <2>4
  <2>6. CASE f[n + 1] # f[n]
    BY <2>6, <2>2, <2>3, <2>4
  <2> QED BY <2>5, <2>6
<1> HIDE DEF S
<1>6. b - a \in Nat /\ b - a \in S
  BY <1>4, <1>5, Upward
<1> DEFINE c == f[b - a]
<1>7. IsChain(c, next, a, b) /\ (Len(c) = b - a \/ Step(next, a, b, c) = c)
  BY <1>6 DEF S
<1> HIDE DEF c
<1>8. Reaches(c, a, b)
  <2>0. c \in Seq(Nat \X Nat) /\ Len(c) \in Nat /\ DOMAIN c = 1 .. Len(c)
    BY <1>7 DEF IsChain
  <2>1. CASE Step(next, a, b, c) = c
    BY <2>1, <1>7, StepKeepsChain
  <2>2. CASE Len(c) = b - a
    <3>1. CASE c = << >>
      BY <3>1, <2>2 DEF Reaches
    <3>2. CASE c # << >>
      <4>1. Len(c) \in DOMAIN c
        BY <2>0, <3>2
      <4>2. c[Len(c)][1] >= a + Len(c) - 1 /\ c[Len(c)][1] \in Nat /\ c[Len(c)][2] \in c[Len(c)][1] + 1 .. b
        BY <4>1, <1>7, ChainOrder
      <4>3. c[Len(c)][2] = b
        BY <4>2, <2>2
      <4> QED BY <4>3, <3>2 DEF Reaches
    <3> QED BY <3>1, <3>2
  <2> QED BY <2>1, <2>2, <1>7
<1> QED BY <1>1, <1>7, <1>8 DEF c

\* What Cuts returns: stretches in order, none empty, which hold every place between them.
LEMMA CutsFacts ==
  ASSUME NEW a \in Nat, NEW b \in Nat, a <= b, NEW next,
         \A p \in Places(a, b) : next[p] \in p + 1 .. b,
         NEW c, c = Cuts(next, a, b)
  PROVE  /\ c \in Seq(Nat \X Nat)
         /\ \A k \in DOMAIN c : /\ c[k][1] \in Places(a, b) /\ c[k][1] \in Nat
                                /\ c[k][2] \in c[k][1] + 1 .. b /\ c[k][2] = next[c[k][1]]
         /\ \A j, k \in DOMAIN c : j < k => c[j][2] <= c[k][1]
         /\ \A i \in Places(a, b) : \E k \in DOMAIN c : i \in Places(c[k][1], c[k][2])
         /\ \A k \in DOMAIN c : k + 1 \notin DOMAIN c => c[k][2] = b
<1>1. IsChain(c, next, a, b) /\ Reaches(c, a, b)
  BY CutsAre
<1>2. /\ \A k \in DOMAIN c : c[k][1] \in Places(a, b) /\ c[k][1] \in Nat /\ c[k][2] \in c[k][1] + 1 .. b
      /\ \A j, k \in DOMAIN c : j < k => c[j][2] <= c[k][1]
  BY <1>1, ChainOrder
<1>3. \A i \in Places(a, b) : \E k \in DOMAIN c : i \in Places(c[k][1], c[k][2])
  BY <1>1, ChainCovers
<1>4. /\ c \in Seq(Nat \X Nat)
      /\ \A k \in DOMAIN c : c[k][2] = next[c[k][1]]
  BY <1>1 DEF IsChain
<1>5. ASSUME NEW k \in DOMAIN c, k + 1 \notin DOMAIN c PROVE c[k][2] = b
  <2>1. k = Len(c) /\ c # << >>
    BY <1>4, <1>5
  <2> QED BY <2>1, <1>1 DEF Reaches
<1> QED BY <1>2, <1>3, <1>4, <1>5

-----------------------------------------------------------------------------
(* Flattening *)

\* The function FlattenSeq of the community modules chooses, on sequences of up to m.
IsFlattening(f, seqs, m) ==
  f = [i \in 1 .. m |-> IF i = 1 THEN seqs[i] ELSE f[i - 1] \o seqs[i]]

\* There is such a function.
LEMMA FlatteningExists ==
  ASSUME NEW seqs, NEW m \in Nat
  PROVE  \E f : IsFlattening(f, seqs, m)
<1> DEFINE S == {n \in Nat : \E f : IsFlattening(f, seqs, n)}
<1>1. 0 \in S
  <2>1. IsFlattening([i \in 1 .. 0 |-> << >>], seqs, 0)
    BY DEF IsFlattening
  <2> QED BY <2>1
<1>2. ASSUME NEW n \in Nat, n \in S PROVE n + 1 \in S
  <2>1. PICK f : IsFlattening(f, seqs, n)
    BY <1>2
  <2> DEFINE next == IF n = 0 THEN seqs[1] ELSE f[n] \o seqs[n + 1]
             g == [k \in 1 .. n + 1 |-> IF k <= n THEN f[k] ELSE next]
  <2>2. \A k \in 1 .. n : f[k] = IF k = 1 THEN seqs[k] ELSE f[k - 1] \o seqs[k]
    BY <2>1 DEF IsFlattening
  <2>3. ASSUME NEW k \in 1 .. n + 1
        PROVE  g[k] = IF k = 1 THEN seqs[k] ELSE g[k - 1] \o seqs[k]
    <3>1. CASE k = n + 1
      <4>1. g[k] = next /\ (n # 0 => g[n] = f[n]) /\ k - 1 = n /\ (k = 1 <=> n = 0)
        BY <3>1
      <4> QED BY <4>1, <3>1
    <3>2. CASE k \in 1 .. n
      <4>1. k # 1 => k - 1 \in 1 .. n
        BY <3>2
      <4> HIDE DEF next
      <4>2. g[k] = f[k] /\ (k # 1 => g[k - 1] = f[k - 1])
        BY <3>2, <4>1
      <4> QED BY <2>2, <3>2, <4>2
    <3> QED BY <3>1, <3>2
  <2>4. IsFlattening(g, seqs, n + 1)
    BY <2>3 DEF IsFlattening
  <2> QED BY <2>4
<1> HIDE DEF S
<1>3. m \in S
  BY <1>1, <1>2, Upward
<1> QED BY <1>3 DEF S

\* flat is made of the first m of the sequences, of which the k-th follows base[k] elements.
Joins(flat, seqs, base, m) ==
  /\ \A k \in 1 .. m : base[k] \in Nat
  /\ \A k \in 1 .. m : \A n \in DOMAIN seqs[k] :
       base[k] + n \in DOMAIN flat /\ flat[base[k] + n] = seqs[k][n]
  /\ \A i \in DOMAIN flat : \E k \in 1 .. m : \E n \in DOMAIN seqs[k] : i = base[k] + n
  /\ \A k \in 1 .. m : base[k] + Len(seqs[k]) <= Len(flat)

\* It joins the sequences one after the other, each whole.
LEMMA FlatteningJoins ==
  ASSUME NEW X, NEW seqs \in Seq(Seq(X)), Len(seqs) # 0, NEW f, IsFlattening(f, seqs, Len(seqs)),
         NEW base, base = [k \in DOMAIN seqs |-> IF k = 1 THEN 0 ELSE Len(f[k - 1])]
  PROVE  \A m \in 1 .. Len(seqs) : f[m] \in Seq(X) /\ Joins(f[m], seqs, base, m)
<1>0. DOMAIN seqs = 1 .. Len(seqs) /\ Len(seqs) \in Nat /\ \A k \in DOMAIN seqs : seqs[k] \in Seq(X)
  OBVIOUS
<1>1. \A k \in 1 .. Len(seqs) : f[k] = IF k = 1 THEN seqs[k] ELSE f[k - 1] \o seqs[k]
  BY DEF IsFlattening
<1> DEFINE S == {m \in Nat : m \in 1 .. Len(seqs) => f[m] \in Seq(X) /\ Joins(f[m], seqs, base, m)}
<1>2. 0 \in S
  OBVIOUS
<1>3. ASSUME NEW m \in Nat, m \in S PROVE m + 1 \in S
  <2>1. SUFFICES ASSUME m + 1 \in 1 .. Len(seqs)
                 PROVE  f[m + 1] \in Seq(X) /\ Joins(f[m + 1], seqs, base, m + 1)
    OBVIOUS
  <2> DEFINE s == seqs[m + 1]
  <2>2. s \in Seq(X) /\ Len(s) \in Nat /\ DOMAIN s = 1 .. Len(s)
    BY <2>1, <1>0
  <2>3. CASE m = 0
    <3>1. f[1] = seqs[1] /\ base[1] = 0
      BY <1>0, <1>1, <2>1, <2>3
    <3>2. \A k \in 1 .. 1 : k = 1
      OBVIOUS
    <3>3. seqs[1] \in Seq(X) /\ Len(seqs[1]) \in Nat
      BY <2>2, <2>3
    <3>4. Joins(f[1], seqs, base, 1)
      BY <3>1, <3>2, <3>3 DEF Joins
    <3> QED BY <3>1, <3>3, <3>4, <2>3
  <2>4. CASE m # 0
    <3> DEFINE g == f[m]
               h == g \o s
    <3>1. f[m + 1] = h /\ base[m + 1] = Len(g) /\ m \in 1 .. Len(seqs)
      <4>1. m + 1 # 1 /\ (m + 1) - 1 = m /\ m \in 1 .. Len(seqs) /\ m + 1 \in DOMAIN seqs
        BY <1>0, <2>1, <2>4
      <4>2. f[m + 1] = f[m] \o seqs[m + 1]
        BY <1>1, <2>1, <4>1
      <4> QED BY <4>1, <4>2
    <3>2. g \in Seq(X) /\ Joins(g, seqs, base, m)
      BY <1>3, <3>1
    <3> HIDE DEF s, g
    <3>3. h \in Seq(X) /\ Len(h) = Len(g) + Len(s) /\ Len(g) \in Nat /\ DOMAIN g = 1 .. Len(g)
      BY <2>2, <3>2
    <3>4. /\ DOMAIN h = 1 .. Len(g) + Len(s)
          /\ \A i \in DOMAIN g : h[i] = g[i]
          /\ \A n \in DOMAIN s : Len(g) + n \in DOMAIN h /\ h[Len(g) + n] = s[n]
      BY <2>2, <3>2, <3>3
    <3> HIDE DEF h
    <3>5. \A k \in 1 .. m + 1 : k \in 1 .. m \/ k = m + 1
      OBVIOUS
    <3>6. seqs[m + 1] = s
      BY DEF s
    <3>7. \A k \in 1 .. m + 1 : base[k] \in Nat
      BY <3>1, <3>2, <3>3, <3>5 DEF Joins
    <3>8. ASSUME NEW k \in 1 .. m + 1, NEW n \in DOMAIN seqs[k]
          PROVE  base[k] + n \in DOMAIN h /\ h[base[k] + n] = seqs[k][n]
      <4>1. CASE k = m + 1
        BY <4>1, <3>1, <3>4, <3>6, <3>8
      <4>2. CASE k \in 1 .. m
        <5>1. base[k] + n \in DOMAIN g /\ g[base[k] + n] = seqs[k][n]
          BY <4>2, <3>2, <3>8 DEF Joins
        <5>2. \A i \in DOMAIN g : i \in DOMAIN h
          BY <3>3, <3>4, <2>2
        <5> QED BY <5>1, <5>2, <3>4
      <4> QED BY <4>1, <4>2, <3>5
    <3>9. ASSUME NEW i \in DOMAIN h
          PROVE  \E k \in 1 .. m + 1 : \E n \in DOMAIN seqs[k] : i = base[k] + n
      <4>1. CASE i \in DOMAIN g
        <5>1. PICK k \in 1 .. m : \E n \in DOMAIN seqs[k] : i = base[k] + n
          BY <4>1, <3>2 DEF Joins
        <5>2. k \in 1 .. m + 1
          OBVIOUS
        <5> QED BY <5>1, <5>2
      <4>2. CASE i \notin DOMAIN g
        <5>1. i - Len(g) \in DOMAIN s /\ i = Len(g) + (i - Len(g))
          BY <4>2, <3>9, <3>3, <3>4, <2>2
        <5>2. m + 1 \in 1 .. m + 1
          OBVIOUS
        <5> QED BY <5>1, <5>2, <3>1, <3>6
      <4> QED BY <4>1, <4>2
    <3>10. ASSUME NEW k \in 1 .. m + 1 PROVE base[k] + Len(seqs[k]) <= Len(h)
      <4>1. CASE k = m + 1
        BY <4>1, <3>1, <3>3, <3>6, <2>2
      <4>2. CASE k \in 1 .. m
        <5>1. base[k] + Len(seqs[k]) <= Len(g) /\ base[k] \in Nat /\ Len(seqs[k]) \in Nat
          <6>1. k \in DOMAIN seqs
            BY <4>2, <1>0, <3>1
          <6>2. seqs[k] \in Seq(X)
            BY <6>1, <1>0
          <6>3. base[k] + Len(seqs[k]) <= Len(g) /\ base[k] \in Nat
            BY <4>2, <3>2 DEF Joins
          <6> QED BY <6>2, <6>3
        <5> QED BY <5>1, <3>3, <2>2
      <4> QED BY <4>1, <4>2, <3>5
    <3>11. Joins(h, seqs, base, m + 1)
      BY <3>7, <3>8, <3>9, <3>10 DEF Joins
    <3> QED BY <3>1, <3>3, <3>11
  <2> QED BY <2>3, <2>4
<1> HIDE DEF S
<1>4. \A m \in Nat : m \in S
  BY <1>2, <1>3, Upward
<1> QED BY <1>4 DEF S

\* FlattenSeq puts its sequences one after another.
LEMMA FlattenIs ==
  ASSUME NEW X, NEW seqs \in Seq(Seq(X))
  PROVE  /\ FlattenSeq(seqs) \in Seq(X)
         /\ \E base : /\ Joins(FlattenSeq(seqs), seqs, base, Len(seqs))
                      /\ \A j, k \in DOMAIN seqs : j < k => base[j] + Len(seqs[j]) <= base[k]
<1>0. DOMAIN seqs = 1 .. Len(seqs) /\ Len(seqs) \in Nat /\ \A k \in DOMAIN seqs : seqs[k] \in Seq(X)
  OBVIOUS
<1>1. CASE Len(seqs) = 0
  <2>1. FlattenSeq(seqs) = << >> /\ seqs = << >>
    BY <1>1 DEF FlattenSeq
  <2>2. Joins(<< >>, seqs, << >>, Len(seqs))
    BY <1>1 DEF Joins
  <2> QED BY <2>1, <2>2, <1>0, <1>1
<1>2. CASE Len(seqs) # 0
  <2> DEFINE f == CHOOSE f : IsFlattening(f, seqs, Len(seqs))
             base == [k \in DOMAIN seqs |-> IF k = 1 THEN 0 ELSE Len(f[k - 1])]
  <2>1. FlattenSeq(seqs) = f[Len(seqs)]
    BY <1>2, Zenon DEF FlattenSeq, IsFlattening
  <2>2. IsFlattening(f, seqs, Len(seqs))
    <3> DEFINE P(x) == IsFlattening(x, seqs, Len(seqs))
    <3>1. \E x : P(x)
      BY <1>0, FlatteningExists
    <3> HIDE DEF P
    <3>2. P(CHOOSE x : P(x))
      BY <3>1, Zenon
    <3> QED BY <3>2 DEF P
  <2> HIDE DEF f
  <2>3. \A m \in 1 .. Len(seqs) : f[m] \in Seq(X) /\ Joins(f[m], seqs, base, m)
    BY <1>2, <2>2, FlatteningJoins
  <2>4. ASSUME NEW j \in DOMAIN seqs, NEW k \in DOMAIN seqs, j < k
        PROVE  base[j] + Len(seqs[j]) <= base[k]
    <3>1. k - 1 \in 1 .. Len(seqs) /\ j \in 1 .. k - 1 /\ k # 1
      BY <2>4, <1>0
    <3>2. base[k] = Len(f[k - 1])
      BY <3>1
    <3>3. Joins(f[k - 1], seqs, base, k - 1)
      BY <2>3, <3>1
    <3> HIDE DEF base
    <3> QED BY <3>1, <3>2, <3>3 DEF Joins
  <2>5. Len(seqs) \in 1 .. Len(seqs)
    BY <1>2, <1>0
  <2> HIDE DEF base
  <2> QED BY <2>1, <2>3, <2>4, <2>5
<1> QED BY <1>1, <1>2

-----------------------------------------------------------------------------
(* Sets of places in order *)

\* A set that lacks an element of a finite set has fewer.
LEMMA SmallerSet ==
  ASSUME NEW S, IsFiniteSet(S), NEW A \in SUBSET S, NEW B \in SUBSET A, NEW x \in A, x \notin B
  PROVE  /\ Cardinality(A) \in Nat /\ Cardinality(B) \in Nat
         /\ Cardinality(B) < Cardinality(A)
<1>1. IsFiniteSet(A)
  BY FS_Subset
<1>2. IsFiniteSet(B) /\ Cardinality(B) <= Cardinality(A) /\ (Cardinality(A) = Cardinality(B) => A = B)
  BY <1>1, FS_Subset
<1>3. Cardinality(A) \in Nat /\ Cardinality(B) \in Nat
  BY <1>1, <1>2, FS_CardinalityType
<1>4. Cardinality(A) # Cardinality(B)
  BY <1>2
<1> QED BY <1>2, <1>3, <1>4

\* How many elements of a set are smaller than each.
Rank(S) == [i \in S |-> Cardinality({j \in S : j < i})]

\* The rank in a finite set of numbers orders it.
LEMMA RankIs ==
  ASSUME NEW S \in SUBSET Nat, IsFiniteSet(S)
  PROVE  /\ Cardinality(S) \in Nat
         /\ \A i \in S : Rank(S)[i] \in 0 .. Cardinality(S) - 1
         /\ \A i, j \in S : i < j => Rank(S)[i] < Rank(S)[j]
         /\ \A k \in 1 .. Cardinality(S) : \E i \in S : Rank(S)[i] = k - 1
<1>1. Cardinality(S) \in Nat
  BY FS_CardinalityType
<1>2. ASSUME NEW i \in S PROVE Rank(S)[i] \in 0 .. Cardinality(S) - 1
  <2> DEFINE B == {j \in S : j < i}
  <2>1. B \in SUBSET S /\ i \notin B /\ Rank(S)[i] = Cardinality(B)
    BY DEF Rank
  <2> HIDE DEF B
  <2>2. Cardinality(B) \in Nat /\ Cardinality(B) < Cardinality(S)
    BY <2>1, <1>2, SmallerSet
  <2> QED BY <2>1, <2>2, <1>1
<1>3. ASSUME NEW i \in S, NEW j \in S, i < j PROVE Rank(S)[i] < Rank(S)[j]
  <2> DEFINE A == {h \in S : h < j}
             B == {h \in S : h < i}
  <2>1. A \in SUBSET S /\ i \in A /\ i \notin B /\ Rank(S)[i] = Cardinality(B) /\ Rank(S)[j] = Cardinality(A)
    BY <1>3 DEF Rank
  <2>2. B \in SUBSET A
    <3>1. i \in Nat /\ j \in Nat
      OBVIOUS
    <3>2. ASSUME NEW h \in S, h < i PROVE h < j
      <4>1. h \in Nat
        OBVIOUS
      <4> QED BY <4>1, <3>1, <3>2, <1>3
    <3> QED BY <3>2
  <2> HIDE DEF A, B
  <2> QED BY <2>1, <2>2, SmallerSet
<1> DEFINE n == Cardinality(S)
           r == Rank(S)
<1>4. r \in Injection(S, 0 .. n - 1)
  <2>1. r \in [S -> 0 .. n - 1]
    <3>1. DOMAIN r = S /\ r = [i \in S |-> r[i]]
      BY DEF Rank
    <3> HIDE DEF r, n
    <3> QED BY <3>1, <1>2 DEF r, n
  <2>2. ASSUME NEW i \in S, NEW j \in S, r[i] = r[j] PROVE i = j
    <3>1. r[i] \in Nat /\ r[j] \in Nat /\ i \in Nat /\ j \in Nat
      BY <1>2
    <3>2. ~(i < j) /\ ~(j < i)
      <4>1. ASSUME i < j PROVE FALSE
        BY <4>1, <3>1, <2>2, <1>3
      <4>2. ASSUME j < i PROVE FALSE
        BY <4>2, <3>1, <2>2, <1>3
      <4> QED BY <4>1, <4>2
    <3> QED BY <3>1, <3>2
  <2> HIDE DEF r
  <2> QED BY <2>1, <2>2 DEF Injection, IsInjective
<1> HIDE DEF n, r
<1>5. r \in Surjection(S, 0 .. n - 1)
  <2>0. n \in Nat /\ n = Cardinality(S)
    BY <1>1 DEF n
  <2>1. IsFiniteSet(0 .. n - 1) /\ Cardinality(0 .. n - 1) = n
    <3>1. 0 \in Int /\ n - 1 \in Int /\ (0 > n - 1 <=> n = 0) /\ (n - 1) - 0 + 1 = n
      BY <2>0
    <3> QED BY <3>1, <2>0, FS_Interval
  <2> QED BY <1>4, <2>0, <2>1, FS_Injection
<1>6. \A k \in 1 .. n : \E i \in S : r[i] = k - 1
  <2>1. \A k \in 1 .. n : k - 1 \in 0 .. n - 1
    BY <1>1 DEF n
  <2> QED BY <1>5, <2>1 DEF Surjection
<1> QED BY <1>1, <1>2, <1>3, <1>6 DEF n, r

\* InOrder lists a finite set of numbers, rising, each once.
LEMMA InOrderIs ==
  ASSUME NEW S \in SUBSET Nat, IsFiniteSet(S)
  PROVE  /\ Cardinality(S) \in Nat
         /\ InOrder(S) \in [1 .. Cardinality(S) -> S]
         /\ \A j, k \in DOMAIN InOrder(S) : j < k => InOrder(S)[j] < InOrder(S)[k]
         /\ \A i \in S : \E k \in DOMAIN InOrder(S) : InOrder(S)[k] = i
<1> DEFINE n == Cardinality(S)
           r == Rank(S)
           o == InOrder(S)
<1>1. /\ n \in Nat
      /\ \A i \in S : r[i] \in 0 .. n - 1
      /\ \A i, j \in S : i < j => r[i] < r[j]
      /\ \A k \in 1 .. n : \E i \in S : r[i] = k - 1
  BY RankIs
<1> HIDE DEF n, r
<1>2. /\ DOMAIN o = 1 .. n
      /\ \A k \in 1 .. n : o[k] = CHOOSE i \in S : Cardinality({j \in S : j < i}) = k - 1
  BY DEF InOrder, n
<1> HIDE DEF o
<1>3. \A k \in 1 .. n : o[k] \in S /\ r[o[k]] = k - 1
  <2> SUFFICES ASSUME NEW k \in 1 .. n PROVE o[k] \in S /\ r[o[k]] = k - 1
    OBVIOUS
  <2> DEFINE P(i) == i \in S /\ Cardinality({j \in S : j < i}) = k - 1
  <2>1. \A i \in S : r[i] = Cardinality({j \in S : j < i})
    BY DEF Rank, r
  <2>2. \E i : P(i)
    <3>1. PICK i \in S : r[i] = k - 1
      BY <1>1
    <3> QED BY <3>1, <2>1
  <2>3. o[k] = CHOOSE i : P(i)
    BY <1>2, Zenon
  <2> HIDE DEF P
  <2>4. P(o[k])
    BY <2>2, <2>3, Zenon
  <2> QED BY <2>1, <2>4 DEF P
<1>4. DOMAIN o = 1 .. n /\ o \in [1 .. n -> S]
  <2> DEFINE Q(k) == CHOOSE i \in S : Cardinality({j \in S : j < i}) = k - 1
  <2>1. o = [k \in 1 .. n |-> Q(k)]
    BY Zenon DEF o, n, InOrder
  <2> HIDE DEF Q
  <2>2. \A k \in 1 .. n : Q(k) \in S
    BY <1>3, <2>1
  <2> QED BY <2>1, <2>2
<1>5. ASSUME NEW j \in 1 .. n, NEW k \in 1 .. n, j < k PROVE o[j] < o[k]
  <2>1. r[o[j]] = j - 1 /\ r[o[k]] = k - 1 /\ o[j] \in S /\ o[k] \in S
    BY <1>3
  <2>2. o[j] # o[k]
    BY <2>1, <1>5, <1>1
  <2>3. ASSUME o[k] < o[j] PROVE FALSE
    <3>1. r[o[k]] < r[o[j]]
      BY <2>1, <2>3, <1>1
    <3> QED BY <3>1, <2>1, <1>5, <1>1
  <2>4. o[j] \in Nat /\ o[k] \in Nat
    BY <2>1
  <2> QED BY <2>2, <2>3, <2>4
<1>6. ASSUME NEW i \in S PROVE \E k \in 1 .. n : o[k] = i
  <2> DEFINE k == r[i] + 1
  <2>1. k \in 1 .. n /\ r[i] \in Nat /\ k - 1 = r[i]
    BY <1>1
  <2> HIDE DEF k
  <2>2. r[o[k]] = r[i] /\ o[k] \in S
    BY <2>1, <1>3
  <2>3. o[k] = i
    <3>1. ~(o[k] < i) /\ ~(i < o[k])
      <4>1. ASSUME o[k] < i PROVE FALSE
        <5>1. r[o[k]] < r[i]
          BY <4>1, <2>2, <1>1
        <5> QED BY <5>1, <2>1, <2>2
      <4>2. ASSUME i < o[k] PROVE FALSE
        <5>1. r[i] < r[o[k]]
          BY <4>2, <2>2, <1>1
        <5> QED BY <5>1, <2>1, <2>2
      <4> QED BY <4>1, <4>2
    <3>2. o[k] \in Nat /\ i \in Nat
      BY <2>2
    <3> QED BY <3>1, <3>2
  <2> QED BY <2>1, <2>3
<1> QED BY <1>1, <1>4, <1>5, <1>6 DEF n, o

\* Picked keeps what passes, in its order.
LEMMA PickedIs ==
  ASSUME NEW X, NEW s \in Seq(X), NEW P \in SUBSET DOMAIN s
  PROVE  /\ Picked(s, P) \in Seq(X)
         /\ InOrder(P) \in [DOMAIN Picked(s, P) -> P]
         /\ \A k \in DOMAIN Picked(s, P) : Picked(s, P)[k] = s[InOrder(P)[k]]
         /\ \A j, k \in DOMAIN Picked(s, P) : j < k => InOrder(P)[j] < InOrder(P)[k]
         /\ \A i \in P : \E k \in DOMAIN Picked(s, P) : InOrder(P)[k] = i
<1>1. Len(s) \in Nat /\ DOMAIN s = 1 .. Len(s)
  OBVIOUS
<1>2. P \in SUBSET Nat /\ IsFiniteSet(P)
  <2>1. IsFiniteSet(1 .. Len(s))
    BY <1>1, FS_Interval
  <2> QED BY <1>1, <2>1, FS_Subset
<1> DEFINE at == InOrder(P)
           n == Cardinality(P)
<1>3. /\ n \in Nat /\ at \in [1 .. n -> P]
      /\ \A j, k \in DOMAIN at : j < k => at[j] < at[k]
      /\ \A i \in P : \E k \in DOMAIN at : at[k] = i
  BY <1>2, InOrderIs
<1>4. Picked(s, P) = [k \in DOMAIN at |-> s[at[k]]]
  BY DEF Picked
<1> HIDE DEF at, n
<1>5. DOMAIN at = 1 .. n /\ \A k \in 1 .. n : at[k] \in P /\ s[at[k]] \in X
  BY <1>1, <1>3
<1>6. Picked(s, P) \in Seq(X) /\ DOMAIN Picked(s, P) = 1 .. n
  BY <1>3, <1>4, <1>5
<1> QED BY <1>3, <1>4, <1>5, <1>6 DEF at

-----------------------------------------------------------------------------
(* Sums *)

\* The element a sum takes next.
TakenFirst(s) == CHOOSE x \in s : TRUE

\* The function a sum over S chooses.
IsSum(g, f, S) ==
  g = [s \in SUBSET S |-> IF s = {} THEN 0 ELSE f[TakenFirst(s)] + g[s \ {TakenFirst(s)}]]

\* The subsets of up to n elements.
Small(S, n) == {s \in SUBSET S : Cardinality(s) <= n}
\* The same on the small subsets of S.
IsSmallSum(g, f, S, n) ==
  g = [s \in Small(S, n) |-> IF s = {} THEN 0 ELSE f[TakenFirst(s)] + g[s \ {TakenFirst(s)}]]

\* It is an element of the set.
LEMMA AnyIs ==
  ASSUME NEW s, s # {} PROVE TakenFirst(s) \in s
BY DEF TakenFirst

\* What is left of a finite set without any of its elements.
LEMMA WithoutAny ==
  ASSUME NEW S, IsFiniteSet(S), NEW s \in SUBSET S
  PROVE  /\ IsFiniteSet(s) /\ Cardinality(s) \in Nat
         /\ \A x \in s : s \ {x} \in SUBSET S /\ Cardinality(s \ {x}) = Cardinality(s) - 1
         /\ Cardinality(s) = 0 <=> s = {}
<1>1. IsFiniteSet(s)
  BY FS_Subset
<1> QED BY <1>1, FS_CardinalityType, FS_RemoveElement, FS_EmptySet

\* There is a sum on small subsets, whatever their size.
LEMMA SmallSumExists ==
  ASSUME NEW S, IsFiniteSet(S), NEW f, NEW m \in Nat
  PROVE  \E g : IsSmallSum(g, f, S, m)
<1> DEFINE Q == {n \in Nat : \E g : IsSmallSum(g, f, S, n)}
<1>1. 0 \in Q
  <2>1. \A s \in Small(S, 0) : s = {}
    BY WithoutAny DEF Small
  <2>2. IsSmallSum([s \in Small(S, 0) |-> 0], f, S, 0)
    BY <2>1 DEF IsSmallSum
  <2> QED BY <2>2
<1>2. ASSUME NEW n \in Nat, n \in Q PROVE n + 1 \in Q
  <2>1. PICK g : IsSmallSum(g, f, S, n)
    BY <1>2
  <2> DEFINE old(s) == IF s = {} THEN 0 ELSE f[TakenFirst(s)] + g[s \ {TakenFirst(s)}]
             h == [s \in Small(S, n + 1) |-> old(s)]
  <2>2. \A s \in Small(S, n) : g[s] = old(s)
    BY <2>1 DEF IsSmallSum
  <2>3. \A s \in Small(S, n + 1) : s # {} => s \ {TakenFirst(s)} \in Small(S, n)
    BY WithoutAny, AnyIs DEF Small
  <2>4. \A s \in Small(S, n) : s \in Small(S, n + 1)
    BY WithoutAny DEF Small
  <2>5. \A s \in Small(S, n) : h[s] = g[s]
    BY <2>2, <2>4
  <2>6. \A s \in Small(S, n + 1) : h[s] = IF s = {} THEN 0 ELSE f[TakenFirst(s)] + h[s \ {TakenFirst(s)}]
    <3> SUFFICES ASSUME NEW s \in Small(S, n + 1)
                 PROVE  h[s] = IF s = {} THEN 0 ELSE f[TakenFirst(s)] + h[s \ {TakenFirst(s)}]
      OBVIOUS
    <3>1. h[s] = old(s)
      OBVIOUS
    <3>2. s # {} => h[s \ {TakenFirst(s)}] = g[s \ {TakenFirst(s)}]
      BY <2>3, <2>5
    <3> HIDE DEF h
    <3> QED BY <3>1, <3>2
  <2>7. IsSmallSum(h, f, S, n + 1)
    BY <2>6 DEF IsSmallSum
  <2> QED BY <2>7
<1> HIDE DEF Q
<1>3. m \in Q
  BY <1>1, <1>2, Upward
<1> QED BY <1>3 DEF Q

\* There is a sum over a finite set.
LEMMA SumExists ==
  ASSUME NEW S, IsFiniteSet(S), NEW f
  PROVE  \E g : IsSum(g, f, S)
<1>1. Cardinality(S) \in Nat
  BY FS_CardinalityType
<1>2. Small(S, Cardinality(S)) = SUBSET S
  BY FS_Subset DEF Small
<1>3. PICK g : IsSmallSum(g, f, S, Cardinality(S))
  BY <1>1, SmallSumExists
<1> QED BY <1>2, <1>3, Zenon DEF IsSum, IsSmallSum

\* What passes to a set from each of the sets that lack one of its elements holds of every finite set.
LEMMA Inward ==
  ASSUME NEW S, IsFiniteSet(S), NEW Q,
         \A s \in SUBSET S : (\A x \in s : s \ {x} \in Q) => s \in Q
  PROVE  \A s \in SUBSET S : s \in Q
<1> DEFINE N == {n \in Nat : \A s \in SUBSET S : Cardinality(s) = n => s \in Q}
<1>1. 0 \in N
  <2>1. \A s \in SUBSET S : Cardinality(s) = 0 => s = {}
    BY WithoutAny
  <2> QED BY <2>1
<1>2. ASSUME NEW n \in Nat, n \in N PROVE n + 1 \in N
  <2>1. SUFFICES ASSUME NEW s \in SUBSET S, Cardinality(s) = n + 1 PROVE s \in Q
    OBVIOUS
  <2>2. \A x \in s : s \ {x} \in SUBSET S /\ Cardinality(s \ {x}) = n
    BY <2>1, WithoutAny
  <2> QED BY <1>2, <2>2
<1> HIDE DEF N
<1>3. \A n \in Nat : n \in N
  BY <1>1, <1>2, Upward
<1>4. \A s \in SUBSET S : Cardinality(s) \in Nat
  BY WithoutAny
<1> QED BY <1>3, <1>4 DEF N

\* Two sums of the same numbers agree where both are defined.
LEMMA SumsAgree ==
  ASSUME NEW S, IsFiniteSet(S), NEW T \in SUBSET S, NEW f, NEW g, NEW h, IsSum(g, f, S), IsSum(h, f, T)
  PROVE  \A s \in SUBSET T : g[s] = h[s]
<1>1. \A s \in SUBSET S : g[s] = IF s = {} THEN 0 ELSE f[TakenFirst(s)] + g[s \ {TakenFirst(s)}]
  BY DEF IsSum
<1>2. \A s \in SUBSET T : h[s] = IF s = {} THEN 0 ELSE f[TakenFirst(s)] + h[s \ {TakenFirst(s)}]
  BY DEF IsSum
<1> DEFINE Q == {s \in SUBSET T : g[s] = h[s]}
<1>3. ASSUME NEW s \in SUBSET T, \A x \in s : s \ {x} \in Q PROVE s \in Q
  <2>1. s \in SUBSET S
    OBVIOUS
  <2>2. s # {} => g[s \ {TakenFirst(s)}] = h[s \ {TakenFirst(s)}]
    BY <1>3, AnyIs
  <2> QED BY <1>1, <1>2, <2>1, <2>2
<1>4. IsFiniteSet(T)
  BY FS_Subset
<1> HIDE DEF Q
<1>5. \A s \in SUBSET T : s \in Q
  BY <1>3, <1>4, Inward
<1> QED BY <1>5 DEF Q

\* The sum the community modules define is one.
LEMMA SumUnfolds ==
  ASSUME NEW S, IsFiniteSet(S), NEW f
  PROVE  \E g : IsSum(g, f, S) /\ SumFunctionOnSet(f, S) = g[S]
<1> DEFINE g == CHOOSE g : IsSum(g, f, S)
<1>1. SumFunctionOnSet(f, S) = g[S]
  BY Zenon DEF SumFunctionOnSet, FoldFunctionOnSet, MapThenFoldSet, IsSum, TakenFirst
<1>2. IsSum(g, f, S)
  <2> DEFINE P(x) == IsSum(x, f, S)
  <2>1. \E x : P(x)
    BY SumExists
  <2> HIDE DEF P
  <2>2. P(CHOOSE x : P(x))
    BY <2>1, Zenon
  <2> QED BY <2>2 DEF P
<1> QED BY <1>1, <1>2

\* The sum over a set is that of one element and of the rest.
LEMMA SumStep ==
  ASSUME NEW S, IsFiniteSet(S), NEW f
  PROVE  SumFunctionOnSet(f, S) =
           IF S = {} THEN 0 ELSE f[TakenFirst(S)] + SumFunctionOnSet(f, S \ {TakenFirst(S)})
<1>1. PICK g : IsSum(g, f, S) /\ SumFunctionOnSet(f, S) = g[S]
  BY SumUnfolds
<1>2. g[S] = IF S = {} THEN 0 ELSE f[TakenFirst(S)] + g[S \ {TakenFirst(S)}]
  BY <1>1 DEF IsSum
<1>3. ASSUME S # {} PROVE SumFunctionOnSet(f, S \ {TakenFirst(S)}) = g[S \ {TakenFirst(S)}]
  <2> DEFINE T == S \ {TakenFirst(S)}
  <2>1. T \in SUBSET S /\ IsFiniteSet(T)
    BY FS_Subset
  <2> HIDE DEF T
  <2>2. PICK h : IsSum(h, f, T) /\ SumFunctionOnSet(f, T) = h[T]
    BY <2>1, SumUnfolds
  <2>3. g[T] = h[T]
    BY <1>1, <2>1, <2>2, SumsAgree
  <2> QED BY <2>2, <2>3 DEF T
<1> QED BY <1>1, <1>2, <1>3

\* A sum of natural numbers is one.
LEMMA SumIsNat ==
  ASSUME NEW S, IsFiniteSet(S), NEW f, \A x \in S : f[x] \in Nat
  PROVE  \A s \in SUBSET S : SumFunctionOnSet(f, s) \in Nat
<1> DEFINE Q == {s \in SUBSET S : SumFunctionOnSet(f, s) \in Nat}
<1>1. ASSUME NEW s \in SUBSET S, \A x \in s : s \ {x} \in Q PROVE s \in Q
  <2>1. SumFunctionOnSet(f, s) = IF s = {} THEN 0 ELSE f[TakenFirst(s)] + SumFunctionOnSet(f, s \ {TakenFirst(s)})
    BY WithoutAny, SumStep
  <2>2. s # {} => f[TakenFirst(s)] \in Nat /\ SumFunctionOnSet(f, s \ {TakenFirst(s)}) \in Nat
    BY <1>1, AnyIs
  <2> QED BY <2>1, <2>2
<1> HIDE DEF Q
<1>2. \A s \in SUBSET S : s \in Q
  BY <1>1, Inward
<1> QED BY <1>2 DEF Q

\* Any element can be the one taken apart.
LEMMA SumWithout ==
  ASSUME NEW S, IsFiniteSet(S), NEW f, \A x \in S : f[x] \in Nat
  PROVE  \A s \in SUBSET S : \A x \in s :
           SumFunctionOnSet(f, s) = f[x] + SumFunctionOnSet(f, s \ {x})
<1> DEFINE Q == {s \in SUBSET S : \A x \in s : SumFunctionOnSet(f, s) = f[x] + SumFunctionOnSet(f, s \ {x})}
<1>1. ASSUME NEW s \in SUBSET S, \A x \in s : s \ {x} \in Q PROVE s \in Q
  <2>1. SUFFICES ASSUME NEW x \in s PROVE SumFunctionOnSet(f, s) = f[x] + SumFunctionOnSet(f, s \ {x})
    OBVIOUS
  <2> DEFINE y == TakenFirst(s)
  <2>2. y \in s /\ SumFunctionOnSet(f, s) = f[y] + SumFunctionOnSet(f, s \ {y})
    BY AnyIs, WithoutAny, SumStep
  <2> HIDE DEF y
  <2>3. ASSUME x # y PROVE SumFunctionOnSet(f, s) = f[x] + SumFunctionOnSet(f, s \ {x})
    <3>1. x \in s \ {y} /\ y \in s \ {x}
      BY <2>2, <2>3
    <3>2. SumFunctionOnSet(f, s \ {y}) = f[x] + SumFunctionOnSet(f, (s \ {y}) \ {x})
      BY <1>1, <2>2, <3>1
    <3>3. SumFunctionOnSet(f, s \ {x}) = f[y] + SumFunctionOnSet(f, (s \ {x}) \ {y})
      BY <1>1, <3>1
    <3>4. (s \ {y}) \ {x} = (s \ {x}) \ {y} /\ (s \ {x}) \ {y} \in SUBSET S
      OBVIOUS
    <3>5. SumFunctionOnSet(f, (s \ {x}) \ {y}) \in Nat /\ f[x] \in Nat /\ f[y] \in Nat
      BY <3>4, <2>2, SumIsNat
    <3> DEFINE z == SumFunctionOnSet(f, (s \ {x}) \ {y})
    <3>6. /\ SumFunctionOnSet(f, s) = f[y] + (f[x] + z)
          /\ SumFunctionOnSet(f, s \ {x}) = f[y] + z
      BY <2>2, <3>2, <3>3, <3>4
    <3>7. z \in Nat /\ f[x] \in Nat /\ f[y] \in Nat
      BY <3>5
    <3> HIDE DEF z
    <3> QED BY <3>6, <3>7
  <2> QED BY <2>2, <2>3
<1> HIDE DEF Q
<1>2. \A s \in SUBSET S : s \in Q
  BY <1>1, Inward
<1> QED BY <1>2 DEF Q

\* The sum over two sets that do not meet is the sum of both sums.
LEMMA SumOfTwo ==
  ASSUME NEW S, IsFiniteSet(S), NEW f, \A x \in S : f[x] \in Nat,
         NEW A \in SUBSET S, NEW B \in SUBSET S, A \cap B = {}
  PROVE  /\ SumFunctionOnSet(f, A) \in Nat /\ SumFunctionOnSet(f, B) \in Nat
         /\ SumFunctionOnSet(f, A \cup B) = SumFunctionOnSet(f, A) + SumFunctionOnSet(f, B)
<1> DEFINE Q == {s \in SUBSET S :
                   s \in SUBSET B => SumFunctionOnSet(f, A \cup s) = SumFunctionOnSet(f, A) + SumFunctionOnSet(f, s)}
<1>1. \A s \in SUBSET S : SumFunctionOnSet(f, s) \in Nat
  BY SumIsNat
<1>2. ASSUME NEW s \in SUBSET S, \A x \in s : s \ {x} \in Q PROVE s \in Q
  <2>1. SUFFICES ASSUME s \in SUBSET B
                 PROVE SumFunctionOnSet(f, A \cup s) = SumFunctionOnSet(f, A) + SumFunctionOnSet(f, s)
    OBVIOUS
  <2>2. CASE s = {}
    <3>1. A \cup s = A /\ SumFunctionOnSet(f, s) = 0
      BY <2>2, WithoutAny, SumStep
    <3> QED BY <3>1, <1>1
  <2>3. CASE s # {}
    <3>1. PICK x \in s : TRUE
      BY <2>3
    <3>2. A \cup s \in SUBSET S /\ x \in A \cup s /\ (A \cup s) \ {x} = A \cup (s \ {x}) /\ s \ {x} \in SUBSET S
      BY <2>1
    <3>3. SumFunctionOnSet(f, A \cup s) = f[x] + SumFunctionOnSet(f, A \cup (s \ {x}))
      BY <3>2, SumWithout
    <3>4. SumFunctionOnSet(f, s) = f[x] + SumFunctionOnSet(f, s \ {x})
      BY SumWithout
    <3>5. SumFunctionOnSet(f, A \cup (s \ {x})) = SumFunctionOnSet(f, A) + SumFunctionOnSet(f, s \ {x})
      BY <1>2, <2>1
    <3>6. f[x] \in Nat /\ SumFunctionOnSet(f, A) \in Nat /\ SumFunctionOnSet(f, s \ {x}) \in Nat
      BY <1>1, <3>2
    <3> QED BY <3>3, <3>4, <3>5, <3>6
  <2> QED BY <2>2, <2>3
<1> HIDE DEF Q
<1>3. \A s \in SUBSET S : s \in Q
  BY <1>2, Inward
<1>4. SumFunctionOnSet(f, A \cup B) = SumFunctionOnSet(f, A) + SumFunctionOnSet(f, B)
  BY <1>3 DEF Q
<1> QED BY <1>1, <1>4

\* Two functions that agree on a set have one sum over it.
LEMMA SumsAlike ==
  ASSUME NEW S, IsFiniteSet(S), NEW f, NEW g, \A x \in S : f[x] = g[x]
  PROVE  SumFunctionOnSet(f, S) = SumFunctionOnSet(g, S)
<1> DEFINE Q == {s \in SUBSET S : SumFunctionOnSet(f, s) = SumFunctionOnSet(g, s)}
<1>1. ASSUME NEW s \in SUBSET S, \A x \in s : s \ {x} \in Q PROVE s \in Q
  <2>1. /\ SumFunctionOnSet(f, s) = IF s = {} THEN 0 ELSE f[TakenFirst(s)] + SumFunctionOnSet(f, s \ {TakenFirst(s)})
        /\ SumFunctionOnSet(g, s) = IF s = {} THEN 0 ELSE g[TakenFirst(s)] + SumFunctionOnSet(g, s \ {TakenFirst(s)})
    BY WithoutAny, SumStep
  <2>2. s # {} => f[TakenFirst(s)] = g[TakenFirst(s)] /\ SumFunctionOnSet(f, s \ {TakenFirst(s)}) = SumFunctionOnSet(g, s \ {TakenFirst(s)})
    BY <1>1, AnyIs
  <2> QED BY <2>1, <2>2
<1> HIDE DEF Q
<1>2. \A s \in SUBSET S : s \in Q
  BY <1>1, Inward
<1> QED BY <1>2 DEF Q

\* The sum of what two functions are together is that of both.
LEMMA SumsTogether ==
  ASSUME NEW S, IsFiniteSet(S), NEW f, NEW g, \A x \in S : f[x] \in Nat /\ g[x] \in Nat,
         NEW h, \A x \in S : h[x] = f[x] + g[x]
  PROVE  SumFunctionOnSet(h, S) = SumFunctionOnSet(f, S) + SumFunctionOnSet(g, S)
<1> DEFINE Q == {s \in SUBSET S : SumFunctionOnSet(h, s) = SumFunctionOnSet(f, s) + SumFunctionOnSet(g, s)}
<1>1. \A s \in SUBSET S : SumFunctionOnSet(f, s) \in Nat /\ SumFunctionOnSet(g, s) \in Nat
  BY SumIsNat
<1>2. ASSUME NEW s \in SUBSET S, \A x \in s : s \ {x} \in Q PROVE s \in Q
  <2>1. \A x \in s : s \ {x} \in SUBSET S
    OBVIOUS
  <2>2. /\ SumFunctionOnSet(f, s) = IF s = {} THEN 0 ELSE f[TakenFirst(s)] + SumFunctionOnSet(f, s \ {TakenFirst(s)})
        /\ SumFunctionOnSet(g, s) = IF s = {} THEN 0 ELSE g[TakenFirst(s)] + SumFunctionOnSet(g, s \ {TakenFirst(s)})
        /\ SumFunctionOnSet(h, s) = IF s = {} THEN 0 ELSE h[TakenFirst(s)] + SumFunctionOnSet(h, s \ {TakenFirst(s)})
    BY WithoutAny, SumStep
  <2>3. CASE s = {}
    BY <2>2, <2>3
  <2>4. CASE s # {}
    <3>1. TakenFirst(s) \in s /\ TakenFirst(s) \in S
      BY <2>4, AnyIs
    <3>2. /\ h[TakenFirst(s)] = f[TakenFirst(s)] + g[TakenFirst(s)]
          /\ f[TakenFirst(s)] \in Nat /\ g[TakenFirst(s)] \in Nat
      BY <3>1
    <3> DEFINE r == s \ {TakenFirst(s)}
    <3>3. SumFunctionOnSet(h, r) = SumFunctionOnSet(f, r) + SumFunctionOnSet(g, r) /\ r \in SUBSET S
      BY <1>2, <2>1, <3>1
    <3>4. SumFunctionOnSet(f, r) \in Nat /\ SumFunctionOnSet(g, r) \in Nat
      BY <1>1, <3>3
    <3>5. /\ SumFunctionOnSet(f, s) = f[TakenFirst(s)] + SumFunctionOnSet(f, r)
          /\ SumFunctionOnSet(g, s) = g[TakenFirst(s)] + SumFunctionOnSet(g, r)
          /\ SumFunctionOnSet(h, s) = h[TakenFirst(s)] + SumFunctionOnSet(h, r)
      BY <2>2, <2>4
    <3> HIDE DEF r, Q
    <3>6. SumFunctionOnSet(h, s) = SumFunctionOnSet(f, s) + SumFunctionOnSet(g, s)
      BY <3>2, <3>3, <3>4, <3>5
    <3> QED BY <3>6 DEF Q
  <2> QED BY <2>3, <2>4
<1> HIDE DEF Q
<1>3. \A s \in SUBSET S : s \in Q
  BY <1>2, Inward
<1> QED BY <1>3 DEF Q

\* The sum over an interval.
LEMMA SumUpTo ==
  ASSUME NEW i \in Nat, NEW j \in Nat, NEW f, \A x \in i .. j : f[x] \in Nat
  PROVE  /\ SumFunctionOnSet(f, i .. j) \in Nat
         /\ i > j => SumFunctionOnSet(f, i .. j) = 0
         /\ \A k \in i .. j : SumFunctionOnSet(f, i .. k) \in Nat
         /\ i <= j => SumFunctionOnSet(f, i .. j) = SumFunctionOnSet(f, i .. j - 1) + f[j]
<1>1. IsFiniteSet(i .. j)
  BY FS_Interval
<1>2. i > j => i .. j = {}
  OBVIOUS
<1>3. i > j => SumFunctionOnSet(f, i .. j) = 0
  BY <1>1, <1>2, SumStep
<1>4. \A k \in i .. j : i .. k \in SUBSET (i .. j)
  OBVIOUS
<1>5. ASSUME i <= j PROVE SumFunctionOnSet(f, i .. j) = SumFunctionOnSet(f, i .. j - 1) + f[j]
  <2>1. j \in i .. j /\ (i .. j) \ {j} = i .. j - 1 /\ i .. j - 1 \in SUBSET (i .. j) /\ i .. j \in SUBSET (i .. j)
    BY <1>5
  <2>2. SumFunctionOnSet(f, i .. j) = f[j] + SumFunctionOnSet(f, i .. j - 1)
    BY <1>1, <2>1, SumWithout
  <2>3. SumFunctionOnSet(f, i .. j - 1) \in Nat /\ f[j] \in Nat
    BY <1>1, <2>1, SumIsNat
  <2> QED BY <2>2, <2>3
<1> QED BY <1>1, <1>3, <1>4, <1>5, SumIsNat

-----------------------------------------------------------------------------
(* The chapters of a document *)

\* The sections of a document begin at some of its places.
LEMMA SectionsAre ==
  ASSUME NEW doc \in Seq(Lines)
  PROVE  /\ Sections(doc) \in SUBSET (0 .. Len(doc)) /\ IsFiniteSet(Sections(doc))
         /\ Sections(doc) \in SUBSET Nat /\ Len(doc) \in Nat
<1>1. Len(doc) \in Nat /\ DOMAIN doc = 1 .. Len(doc)
  OBVIOUS
<1>2. Sections(doc) \in SUBSET (0 .. Len(doc))
  BY <1>1 DEF Sections
<1>3. IsFiniteSet(0 .. Len(doc))
  BY <1>1, FS_Interval
<1>4. IsFiniteSet(Sections(doc))
  BY <1>2, <1>3, FS_Subset
<1> QED BY <1>1, <1>2, <1>4

\* The lines of a section stand before the next.
LEMMA BodyIs ==
  ASSUME NEW doc \in Seq(Lines), NEW s \in Sections(doc)
  PROVE  /\ \A i \in Body(doc, s) : i \in DOMAIN doc /\ s < i
         /\ \A r \in Sections(doc) : s < r => \A i \in Body(doc, s) : i < r
<1> DEFINE next == FirstIn(Sections(doc), s + 1, Len(doc) + 1)
<1>1. /\ Sections(doc) \in SUBSET (0 .. Len(doc)) /\ Sections(doc) \in SUBSET Nat
      /\ Len(doc) \in Nat /\ s \in Nat /\ s + 1 <= Len(doc) + 1
  BY SectionsAre
<1>2. /\ next \in s + 1 .. Len(doc) + 1
      /\ \A i \in Nat : s + 1 <= i /\ i < next => i \notin Sections(doc)
  BY <1>1, FirstInIs
<1>3. \A i \in Body(doc, s) : i \in DOMAIN doc /\ s < i /\ i < next
  BY DEF Body, Written
<1> HIDE DEF next
<1>4. ASSUME NEW r \in Sections(doc), s < r, NEW i \in Body(doc, s) PROVE i < r
  <2>1. r \in Nat /\ next \in Nat /\ i \in Nat
    BY <1>1, <1>2, <1>3
  <2>2. next <= r
    BY <2>1, <1>1, <1>2, <1>4
  <2> QED BY <2>1, <2>2, <1>3
<1> QED BY <1>3, <1>4

\* A line of text, but for the first of the document, is in the chapter of its section.
LEMMA TextIsInItsSection ==
  ASSUME NEW doc \in Seq(Lines), NEW i \in DOMAIN doc, doc[i] = "text", i # 1
  PROVE  \E s \in Sections(doc) : i \in Body(doc, s) /\ i \notin Heads(doc, s)
<1>1. /\ Sections(doc) \in SUBSET (0 .. Len(doc)) /\ Sections(doc) \in SUBSET Nat
      /\ Len(doc) \in Nat /\ i \in Nat /\ i <= Len(doc) /\ i > 0
  BY SectionsAre
<1> DEFINE S == {s \in Sections(doc) : s < i}
<1>2. i \in Written(doc) /\ i \notin Sections(doc)
  BY <1>1 DEF Written, Sections
<1>3. S # {}
  <2>1. CASE \E h \in DOMAIN doc : doc[h] = "heading" /\ h <= i
    <3>1. PICK h \in DOMAIN doc : doc[h] = "heading" /\ h <= i
      BY <2>1
    <3>2. h \in Sections(doc) /\ h # i
      BY <3>1 DEF Sections
    <3>3. h < i
      BY <3>1, <3>2, <1>1
    <3> QED BY <3>2, <3>3
  <2>2. CASE ~\E h \in DOMAIN doc : doc[h] = "heading" /\ h <= i
    <3>1. \A h \in {n \in DOMAIN doc : doc[n] = "heading"} : i < h
      <4> SUFFICES ASSUME NEW h \in DOMAIN doc, doc[h] = "heading" PROVE i < h
        OBVIOUS
      <4>1. ~(h <= i) /\ h \in Nat
        BY <2>2
      <4> QED BY <4>1, <1>1
    <3>2. 0 \in Sections(doc)
      BY <1>2, <3>1 DEF Sections
    <3> QED BY <3>2, <1>1
  <2> QED BY <2>1, <2>2
<1>4. S \in SUBSET (0 .. Len(doc))
  BY <1>1
<1> DEFINE s == Max(S)
<1>5. s \in S /\ \A r \in S : s >= r
  <2> HIDE DEF S
  <2> QED BY <1>1, <1>3, <1>4, MaxIs
<1>6. s \in Sections(doc) /\ s < i /\ s \in Nat /\ s + 1 <= Len(doc) + 1
  <2> HIDE DEF s
  <2>1. s \in Sections(doc) /\ s < i
    BY <1>5
  <2> QED BY <2>1, <1>1
<1>7. \A r \in Sections(doc) : s < r => i < r
  <2> HIDE DEF s
  <2> SUFFICES ASSUME NEW r \in Sections(doc), s < r PROVE i < r
    OBVIOUS
  <2>1. r \in Nat /\ r # i
    BY <1>1, <1>2
  <2>2. ASSUME r < i PROVE FALSE
    <3>1. r \in S
      BY <2>2
    <3> QED BY <3>1, <2>1, <1>5, <1>6
  <2> QED BY <2>1, <2>2, <1>1
<1> HIDE DEF s, S
<1> DEFINE next == FirstIn(Sections(doc), s + 1, Len(doc) + 1)
<1>8. i < next
  <2>1. next \in s + 1 .. Len(doc) + 1 /\ (next < Len(doc) + 1 => next \in Sections(doc))
    BY <1>1, <1>6, FirstInIs
  <2> HIDE DEF next
  <2>2. CASE next < Len(doc) + 1
    BY <2>1, <2>2, <1>6, <1>7
  <2>3. CASE next = Len(doc) + 1
    BY <2>3, <1>1
  <2> QED BY <2>1, <2>2, <2>3, <1>1
<1>9. i \in Body(doc, s)
  BY <1>2, <1>6, <1>8 DEF Body
<1>10. i \notin Heads(doc, s)
  BY DEF Heads
<1> QED BY <1>6, <1>9, <1>10

\* The chapters by headings, each within a section of its own.
LEMMA TitlesKeepTheText ==
  ASSUME NEW doc \in Seq(Lines)
  PROVE  /\ \A j, k \in DOMAIN SplitByTitle(doc) : j < k =>
              \A a \in SplitByTitle(doc)[j], b \in SplitByTitle(doc)[k] : a < b
         /\ {i \in DOMAIN doc : doc[i] = "text"} \ {1} \subseteq UNION Range(SplitByTitle(doc))
<1> DEFINE S == Sections(doc)
           starts == InOrder(S)
           n == Cardinality(S)
           first == Body(doc, starts[1]) \ Heads(doc, starts[1])
           rest == [k \in 1 .. Len(starts) - 1 |-> Body(doc, starts[k + 1])]
           chapters == SplitByTitle(doc)
<1>1. /\ n \in Nat /\ starts \in [1 .. n -> S]
      /\ \A j, k \in 1 .. n : j < k => starts[j] < starts[k]
      /\ \A s \in S : \E k \in 1 .. n : starts[k] = s
  <2>1. S \in SUBSET Nat /\ IsFiniteSet(S)
    BY SectionsAre
  <2> HIDE DEF S
  <2>2. /\ n \in Nat /\ starts \in [1 .. n -> S]
        /\ \A j, k \in DOMAIN starts : j < k => starts[j] < starts[k]
        /\ \A s \in S : \E k \in DOMAIN starts : starts[k] = s
    BY <2>1, InOrderIs
  <2> HIDE DEF n, starts
  <2> QED BY <2>2
<1>2. S \in SUBSET Nat
  BY SectionsAre
<1>3. chapters = IF starts = << >> THEN << >> ELSE IF first = {} THEN rest ELSE <<first>> \o rest
  BY DEF SplitByTitle
<1> HIDE DEF S, n, starts, chapters
<1>4. Len(starts) = n /\ (starts = << >> <=> n = 0)
  BY <1>1
\* Which section a chapter is within.
<1> DEFINE shift == IF first = {} THEN 1 ELSE 0
<1>5. ASSUME n # 0
      PROVE  /\ DOMAIN chapters = 1 .. n - shift
             /\ \A k \in 1 .. n - shift :
                  chapters[k] = IF k + shift = 1 THEN first ELSE Body(doc, starts[k + shift])
  <2>1. rest \in Seq(SUBSET UNION {Body(doc, starts[k]) : k \in 1 .. n}) /\ Len(rest) = n - 1
    <3>1. n - 1 \in Nat
      BY <1>1, <1>5
    <3>2. \A k \in 1 .. n - 1 : k + 1 \in 1 .. n
      BY <3>1, <1>1
    <3> QED BY <1>4, <3>1, <3>2
  <2>2. \A k \in 1 .. n - 1 : rest[k] = Body(doc, starts[k + 1])
    BY <1>4
  <2> HIDE DEF first, rest
  <2>3. CASE first = {}
    <3>1. chapters = rest /\ shift = 1
      BY <1>3, <1>4, <1>5, <2>3
    <3> QED BY <3>1, <2>1, <2>2, <1>1, <1>5
  <2>4. CASE first # {}
    <3>1. chapters = <<first>> \o rest /\ shift = 0
      BY <1>3, <1>4, <1>5, <2>4
    <3>2. DOMAIN chapters = 1 .. n
      BY <3>1, <2>1, <1>1, <1>5
    <3>3. ASSUME NEW k \in 1 .. n PROVE chapters[k] = IF k = 1 THEN first ELSE Body(doc, starts[k])
      <4>1. CASE k = 1
        BY <4>1, <3>1, <2>1
      <4>2. CASE k # 1
        <5>1. k - 1 \in 1 .. n - 1 /\ (k - 1) + 1 = k
          BY <4>2, <1>1
        <5>2. chapters[k] = rest[k - 1]
          BY <4>2, <5>1, <3>1, <2>1, <1>1
        <5> QED BY <4>2, <5>1, <5>2, <2>2
      <4> QED BY <4>1, <4>2
    <3> QED BY <3>1, <3>2, <3>3, <1>1
  <2> QED BY <2>3, <2>4
<1>6. ASSUME n # 0, NEW k \in DOMAIN chapters
      PROVE  k + shift \in 1 .. n /\ starts[k + shift] \in S /\ chapters[k] \in SUBSET Body(doc, starts[k + shift])
  <2>1. k + shift \in 1 .. n
    BY <1>1, <1>5, <1>6
  <2>2. chapters[k] = IF k + shift = 1 THEN first ELSE Body(doc, starts[k + shift])
    BY <1>5, <1>6
  <2> QED BY <2>1, <2>2, <1>1
<1>7. n = 0 => chapters = << >>
  BY <1>3, <1>4
<1>8. ASSUME NEW j \in DOMAIN chapters, NEW k \in DOMAIN chapters, j < k,
             NEW a \in chapters[j], NEW b \in chapters[k]
      PROVE  a < b
  <2>1. n # 0
    BY <1>7, <1>8
  <2>2. j \in Nat /\ k \in Nat /\ j + shift < k + shift
    BY <2>1, <1>5, <1>8, <1>1
  <2>3. starts[j + shift] < starts[k + shift] /\ starts[j + shift] \in S /\ starts[k + shift] \in S
    BY <2>1, <2>2, <1>1, <1>6
  <2>4. a \in Body(doc, starts[j + shift]) /\ b \in Body(doc, starts[k + shift])
    BY <2>1, <1>6
  <2> HIDE DEF shift
  <2>5. a < starts[k + shift] /\ starts[k + shift] < b
    BY <2>3, <2>4, BodyIs DEF S
  <2>6. a \in Nat /\ b \in Nat /\ starts[k + shift] \in Nat
    <3>1. a \in DOMAIN doc /\ b \in DOMAIN doc
      BY <2>3, <2>4, BodyIs DEF S
    <3>2. DOMAIN doc = 1 .. Len(doc) /\ Len(doc) \in Nat
      OBVIOUS
    <3>3. starts[k + shift] \in Nat
      BY <2>3, <1>2
    <3> QED BY <3>1, <3>2, <3>3
  <2> QED BY <2>5, <2>6
<1>9. ASSUME NEW i \in DOMAIN doc, doc[i] = "text", i # 1
      PROVE  i \in UNION Range(chapters)
  <2>1. PICK s \in S : i \in Body(doc, s) /\ i \notin Heads(doc, s)
    BY <1>9, TextIsInItsSection DEF S
  <2>2. PICK m \in 1 .. n : starts[m] = s
    BY <1>1
  <2>3. n # 0
    BY <2>2, <1>1
  <2>4. m = 1 => first # {} /\ i \in first
    BY <2>1, <2>2
  <2>5. m - shift \in DOMAIN chapters /\ (m - shift) + shift = m
    BY <2>2, <2>3, <2>4, <1>1, <1>5
  <2>6. i \in chapters[m - shift]
    <3>1. chapters[m - shift] = IF m = 1 THEN first ELSE Body(doc, starts[m])
      <4> HIDE DEF shift, first
      <4> QED BY <2>3, <2>5, <1>5
    <3> QED BY <3>1, <2>1, <2>2, <2>4
  <2> HIDE DEF shift
  <2> QED BY <2>5, <2>6 DEF Range
<1> QED BY <1>8, <1>9 DEF chapters

\* What is together with something before is together with what that is together with.
LEMMA TogetherIsTransitive ==
  ASSUME NEW doc \in Seq(Lines), NEW h \in DOMAIN doc, NEW i \in DOMAIN doc, NEW j \in DOMAIN doc,
         h <= i, i <= j, doc[i] # "blank"
  PROVE  Together(doc, h, j) <=> Together(doc, h, i) /\ Together(doc, i, j)
<1>1. h \in Nat /\ i \in Nat /\ j \in Nat
  OBVIOUS
<1>2. ASSUME Together(doc, h, j) PROVE Together(doc, h, i) /\ Together(doc, i, j)
  BY <1>1, <1>2 DEF Together
<1>3. ASSUME Together(doc, h, i), Together(doc, i, j) PROVE Together(doc, h, j)
  <2> SUFFICES ASSUME NEW p \in h .. j
               PROVE  doc[p] # "rule" /\ (p > h /\ p < j => doc[p] # "blank" \/ doc[p + 1] # "blank")
    BY DEF Together
  <2>1. CASE p < i
    BY <2>1, <1>1, <1>3 DEF Together
  <2>2. CASE p = i
    BY <2>2, <1>1, <1>3 DEF Together
  <2>3. CASE p > i
    BY <2>3, <1>1, <1>3 DEF Together
  <2> QED BY <2>1, <2>2, <2>3, <1>1
<1> QED BY <1>2, <1>3

\* The chapters by blank lines follow one another, and every line of text is in one.
LEMMA BlanksKeepTheText ==
  ASSUME NEW doc \in Seq(Lines)
  PROVE  /\ \A j, k \in DOMAIN SplitByBlank(doc) : j < k =>
              \A a \in SplitByBlank(doc)[j], b \in SplitByBlank(doc)[k] : a < b
         /\ {i \in DOMAIN doc : doc[i] = "text"} \subseteq UNION Range(SplitByBlank(doc))
<1> DEFINE T == {i \in DOMAIN doc : doc[i] \notin {"blank", "rule"}}
           S == {i \in T : ~\E j \in T : j < i /\ Together(doc, j, i)}
           starts == InOrder(S)
           n == Cardinality(S)
           chapters == SplitByBlank(doc)
<1>1. Len(doc) \in Nat /\ DOMAIN doc = 1 .. Len(doc)
  OBVIOUS
<1>2. S \in SUBSET DOMAIN doc /\ S \in SUBSET Nat /\ IsFiniteSet(S)
  <2>1. S \in SUBSET DOMAIN doc /\ S \in SUBSET Nat
    BY <1>1
  <2>2. IsFiniteSet(1 .. Len(doc))
    BY <1>1, FS_Interval
  <2> HIDE DEF S
  <2> QED BY <1>1, <2>1, <2>2, FS_Subset
<1>3. /\ n \in Nat /\ starts \in [1 .. n -> S]
      /\ \A j, k \in 1 .. n : j < k => starts[j] < starts[k]
      /\ \A s \in S : \E k \in 1 .. n : starts[k] = s
  <2> HIDE DEF S
  <2>2. /\ n \in Nat /\ starts \in [1 .. n -> S]
        /\ \A j, k \in DOMAIN starts : j < k => starts[j] < starts[k]
        /\ \A s \in S : \E k \in DOMAIN starts : starts[k] = s
    BY <1>2, InOrderIs
  <2> HIDE DEF n, starts
  <2> QED BY <2>2
<1>4. chapters = [k \in DOMAIN starts |-> {i \in T : starts[k] <= i /\ Together(doc, starts[k], i)}]
  BY DEF SplitByBlank
<1>5. /\ DOMAIN chapters = 1 .. n
      /\ \A k \in 1 .. n : chapters[k] = {i \in T : starts[k] <= i /\ Together(doc, starts[k], i)}
  <2> HIDE DEF n, starts, chapters, T, S
  <2> QED BY <1>3, <1>4
<1>6. \A i \in T : i \in DOMAIN doc /\ i \in Nat /\ doc[i] # "blank" /\ doc[i] # "rule"
  BY <1>1
<1>7. \A i \in S : i \in T /\ ~\E j \in T : j < i /\ Together(doc, j, i)
  OBVIOUS
<1>8. \A i \in T : (~\E j \in T : j < i /\ Together(doc, j, i)) => i \in S
  OBVIOUS
<1>9. \A i \in DOMAIN doc : doc[i] = "text" => i \in T
  OBVIOUS
<1> HIDE DEF n, starts, chapters, T, S
<1>10. ASSUME NEW j \in DOMAIN chapters, NEW k \in DOMAIN chapters, j < k,
              NEW a \in chapters[j], NEW b \in chapters[k]
       PROVE  a < b
  <2> DEFINE s == starts[j]
             r == starts[k]
  <2>1. s \in S /\ r \in S /\ s < r
    BY <1>3, <1>5, <1>10
  <2>2. a \in T /\ s <= a /\ Together(doc, s, a) /\ b \in T /\ r <= b
    BY <1>5, <1>10
  <2> HIDE DEF s, r
  <2>3. s \in T /\ r \in T /\ ~Together(doc, s, r)
    BY <2>1, <1>7
  <2>4. ASSUME r <= a PROVE FALSE
    <3>1. s <= r
      BY <2>1, <2>3, <1>6
    <3>2. Together(doc, s, a) <=> Together(doc, s, r) /\ Together(doc, r, a)
      BY <2>2, <2>3, <2>4, <3>1, <1>6, TogetherIsTransitive
    <3> QED BY <3>2, <2>2, <2>3
  <2> QED BY <2>2, <2>3, <2>4, <1>6
<1>11. ASSUME NEW i \in DOMAIN doc, doc[i] = "text" PROVE i \in UNION Range(chapters)
  <2> DEFINE F == {j \in T : j <= i /\ Together(doc, j, i)}
  <2>1. i \in T
    BY <1>9, <1>11
  <2>2. Together(doc, i, i)
    BY <2>1, <1>6 DEF Together
  <2>3. F \in SUBSET Nat /\ i \in F
    BY <2>1, <2>2, <1>6
  <2>4. PICK s \in F : \A j \in F : s <= j
    <3> HIDE DEF F
    <3> QED BY <2>3, LeastOf
  <2>5. s \in T /\ s <= i /\ Together(doc, s, i)
    BY <2>4
  <2>6. ASSUME NEW j \in T, j < s, Together(doc, j, s) PROVE FALSE
    <3>1. j <= s /\ j <= i
      BY <2>1, <2>5, <2>6, <1>6
    <3>2. Together(doc, j, i) <=> Together(doc, j, s) /\ Together(doc, s, i)
      BY <2>1, <2>5, <3>1, <1>6, TogetherIsTransitive
    <3>3. j \in F
      BY <3>1, <3>2, <2>5, <2>6
    <3>4. s <= j
      BY <3>3, <2>4
    <3> QED BY <3>4, <2>5, <2>6, <1>6
  <2>7. s \in S
    BY <2>5, <2>6, <1>8
  <2>8. PICK k \in 1 .. n : starts[k] = s
    BY <2>7, <1>3
  <2>9. i \in chapters[k] /\ k \in DOMAIN chapters
    BY <2>1, <2>5, <2>8, <1>5
  <2> QED BY <2>9 DEF Range
<1> QED BY <1>10, <1>11 DEF chapters

-----------------------------------------------------------------------------
(* The segments of a text *)

\* From beyond the end, FirstIn is where it starts.
LEMMA FirstInBeyond ==
  ASSUME NEW S \in SUBSET Nat, NEW a \in Nat, NEW b \in Nat, a >= b
  PROVE  FirstIn(S, a, b) = b
<1> DEFINE T == {i \in S : a <= i /\ i < b} \cup {b}
<1>1. T = {b}
  <2>1. \A i \in S : ~(a <= i /\ i < b)
    <3> SUFFICES ASSUME NEW i \in S PROVE ~(a <= i /\ i < b)
      OBVIOUS
    <3>1. i \in Nat
      OBVIOUS
    <3> QED BY <3>1
  <2> QED BY <2>1
<1>2. Min({b}) \in {b}
  BY MinIs
<1>3. FirstIn(S, a, b) = Min(T)
  BY DEF FirstIn
<1> HIDE DEF T
<1> QED BY <1>1, <1>2, <1>3

\* Stretches of a text with the type of what they tell.
Spans == [from : Nat, to : Nat, type : {"narration", "dialogue"}]

\* Spans in order hold what is said between two places, and narration no quotes.
Tiles(t, spans, a, b) ==
  /\ spans \in Seq(Spans)
  /\ \A k \in DOMAIN spans :
       /\ a <= spans[k].from /\ spans[k].from < spans[k].to /\ spans[k].to <= b
       /\ \E i \in Places(spans[k].from, spans[k].to) : t[i] \notin Formatting
       /\ spans[k].type = "narration" =>
            \A i \in Places(spans[k].from, spans[k].to) : t[i] \notin DOMAIN CloseOf
  /\ \A j, k \in DOMAIN spans : j < k => spans[j].to <= spans[k].from
  /\ \A i \in Places(a, b) : t[i] \notin Formatting =>
       \E k \in DOMAIN spans : i \in Places(spans[k].from, spans[k].to)

\* Parts in order hold what is said between two places.
Parted(t, blanks, parts, a, b) ==
  /\ \A k \in DOMAIN parts : /\ parts[k][1] \in Nat /\ parts[k][2] \in Nat
                             /\ a <= parts[k][1] /\ parts[k][1] <= parts[k][2] /\ parts[k][2] <= b
  /\ \A j, k \in DOMAIN parts : j < k => parts[j][2] <= parts[k][1]
  /\ \A i \in Places(a, b) : t[i] \notin blanks =>
       \E k \in DOMAIN parts : i \in Places(parts[k][1], parts[k][2])

\* Spans that tile two stretches, one after the other, tile both.
LEMMA TilesJoin ==
  ASSUME NEW t, NEW a \in Nat, NEW b \in Nat, NEW parts, Parted(t, Formatting, parts, a, b),
         NEW seqs \in Seq(Seq(Spans)), DOMAIN seqs = DOMAIN parts,
         \A k \in DOMAIN seqs : Tiles(t, seqs[k], parts[k][1], parts[k][2])
  PROVE  Tiles(t, FlattenSeq(seqs), a, b)
<1> DEFINE flat == FlattenSeq(seqs)
<1>0. DOMAIN seqs = 1 .. Len(seqs) /\ Len(seqs) \in Nat
  OBVIOUS
<1>1. flat \in Seq(Spans)
  BY FlattenIs
<1>2. PICK base : /\ Joins(flat, seqs, base, Len(seqs))
                  /\ \A j, k \in DOMAIN seqs : j < k => base[j] + Len(seqs[j]) <= base[k]
  BY FlattenIs
<1> HIDE DEF flat
<1>3. ASSUME NEW k \in DOMAIN seqs
      PROVE  /\ base[k] \in Nat
             /\ seqs[k] \in Seq(Spans) /\ DOMAIN seqs[k] = 1 .. Len(seqs[k]) /\ Len(seqs[k]) \in Nat
             /\ \A n \in DOMAIN seqs[k] : base[k] + n \in DOMAIN flat /\ flat[base[k] + n] = seqs[k][n]
  <2>1. seqs[k] \in Seq(Spans)
    OBVIOUS
  <2>2. DOMAIN seqs[k] = 1 .. Len(seqs[k]) /\ Len(seqs[k]) \in Nat
    BY <2>1
  <2> QED BY <1>0, <1>2, <2>1, <2>2 DEF Joins
<1>4. ASSUME NEW i \in DOMAIN flat
      PROVE  \E k \in DOMAIN seqs : \E n \in DOMAIN seqs[k] : i = base[k] + n
  <2>1. PICK k \in 1 .. Len(seqs) : \E n \in DOMAIN seqs[k] : i = base[k] + n
    BY <1>2 DEF Joins
  <2>2. k \in DOMAIN seqs
    BY <1>0
  <2> QED BY <2>1, <2>2
<1>5. \A i \in DOMAIN flat : flat[i] \in Spans /\ flat[i].from \in Nat /\ flat[i].to \in Nat
  <2>1. \A i \in DOMAIN flat : flat[i] \in Spans
    BY <1>1
  <2> QED BY <2>1 DEF Spans
<1>6. ASSUME NEW k \in DOMAIN seqs
      PROVE  /\ parts[k][1] \in Nat /\ parts[k][2] \in Nat
             /\ a <= parts[k][1] /\ parts[k][1] <= parts[k][2] /\ parts[k][2] <= b
  BY DEF Parted
<1>7. ASSUME NEW i \in DOMAIN flat
      PROVE  /\ a <= flat[i].from /\ flat[i].from < flat[i].to /\ flat[i].to <= b
             /\ \E p \in Places(flat[i].from, flat[i].to) : t[p] \notin Formatting
             /\ flat[i].type = "narration" =>
                  \A p \in Places(flat[i].from, flat[i].to) : t[p] \notin DOMAIN CloseOf
  <2>1. PICK k \in DOMAIN seqs : \E n \in DOMAIN seqs[k] : i = base[k] + n
    BY <1>4
  <2>2. PICK n \in DOMAIN seqs[k] : i = base[k] + n
    BY <2>1
  <2>3. flat[i] = seqs[k][n]
    BY <2>2, <1>3
  <2>4. /\ parts[k][1] <= flat[i].from /\ flat[i].from < flat[i].to /\ flat[i].to <= parts[k][2]
        /\ \E p \in Places(flat[i].from, flat[i].to) : t[p] \notin Formatting
        /\ flat[i].type = "narration" =>
             \A p \in Places(flat[i].from, flat[i].to) : t[p] \notin DOMAIN CloseOf
    BY <2>3 DEF Tiles
  <2> QED BY <2>4, <1>5, <1>6
<1>8. ASSUME NEW i \in DOMAIN flat, NEW j \in DOMAIN flat, i < j
      PROVE  flat[i].to <= flat[j].from
  <2>1. PICK k \in DOMAIN seqs : \E n \in DOMAIN seqs[k] : i = base[k] + n
    BY <1>4
  <2>2. PICK n \in DOMAIN seqs[k] : i = base[k] + n
    BY <2>1
  <2>3. PICK l \in DOMAIN seqs : \E m \in DOMAIN seqs[l] : j = base[l] + m
    BY <1>4
  <2>4. PICK m \in DOMAIN seqs[l] : j = base[l] + m
    BY <2>3
  <2>5. flat[i] = seqs[k][n] /\ flat[j] = seqs[l][m]
    BY <2>2, <2>4, <1>3
  <2>6. /\ k \in Nat /\ l \in Nat /\ base[k] \in Nat /\ base[l] \in Nat
        /\ n \in Nat /\ m \in Nat /\ n <= Len(seqs[k]) /\ m <= Len(seqs[l]) /\ n >= 1 /\ m >= 1
        /\ Len(seqs[k]) \in Nat /\ Len(seqs[l]) \in Nat
    BY <1>0, <1>3
  <2>7. CASE k = l
    <3>1. n < m
      BY <2>2, <2>4, <2>6, <2>7, <1>8
    <3> QED BY <2>5, <2>7, <3>1 DEF Tiles
  <2>8. CASE k < l
    <3>1. seqs[k][n].to <= parts[k][2]
      BY DEF Tiles
    <3>2. parts[l][1] <= seqs[l][m].from
      BY DEF Tiles
    <3>3. parts[k][2] <= parts[l][1]
      BY <2>8 DEF Parted
    <3>4. seqs[k][n].to \in Nat /\ seqs[l][m].from \in Nat
      BY <2>5, <1>5
    <3> QED BY <2>5, <3>1, <3>2, <3>3, <3>4, <1>6
  <2>9. CASE l < k
    <3>1. base[l] + Len(seqs[l]) <= base[k]
      BY <2>9, <1>2
    <3> DEFINE x == base[k]
               y == base[l]
               z == Len(seqs[l])
    <3>2. x \in Nat /\ y \in Nat /\ z \in Nat /\ n \in Nat /\ m \in Nat /\ m <= z /\ n >= 1 /\ y + z <= x
      BY <3>1, <2>6
    <3>3. i = x + n /\ j = y + m
      BY <2>2, <2>4
    <3> HIDE DEF x, y, z
    <3>4. j < i /\ i \in Nat /\ j \in Nat
      BY <3>2, <3>3
    <3> QED BY <3>4, <1>8
  <2> QED BY <2>6, <2>7, <2>8, <2>9
<1>9. ASSUME NEW i \in Places(a, b), t[i] \notin Formatting
      PROVE  \E k \in DOMAIN flat : i \in Places(flat[k].from, flat[k].to)
  <2>1. PICK k \in DOMAIN seqs : i \in Places(parts[k][1], parts[k][2])
    BY <1>9 DEF Parted
  <2>2. PICK n \in DOMAIN seqs[k] : i \in Places(seqs[k][n].from, seqs[k][n].to)
    BY <2>1, <1>9 DEF Tiles
  <2> QED BY <2>2, <1>3
<1>10. Tiles(t, flat, a, b)
  BY <1>1, <1>7, <1>8, <1>9 DEF Tiles
<1> QED BY <1>10 DEF flat

\* A trimmed stretch holds what is said in it.
LEMMA TrimmedTiles ==
  ASSUME NEW t, NEW a \in Nat, NEW b \in Nat,
         \A i \in Places(a, b) : t[i] \notin DOMAIN CloseOf
  PROVE  Tiles(t, Trimmed(t, a, b), a, b)
<1> DEFINE said == {i \in Places(a, b) : t[i] \notin Formatting}
<1>1. Trimmed(t, a, b) = IF said = {} THEN << >> ELSE <<Span(Min(said), Max(said) + 1, "narration")>>
  BY DEF Trimmed
<1>2. said \in SUBSET Nat /\ said \in SUBSET (0 .. b)
  BY DEF Places
<1>3. \A i \in said : i \in Nat /\ a <= i /\ i < b /\ t[i] \notin Formatting
  BY DEF Places
<1>4. \A i \in Places(a, b) : t[i] \notin Formatting => i \in said
  OBVIOUS
<1> HIDE DEF said
<1>5. CASE said = {}
  BY <1>1, <1>4, <1>5 DEF Tiles
<1>6. CASE said # {}
  <2> DEFINE low == Min(said)
             high == Max(said)
             s == Span(low, high + 1, "narration")
  <2>1. low \in said /\ high \in said /\ \A i \in said : low <= i /\ i <= high
    BY <1>2, <1>6, MinIs, MaxIs
  <2> HIDE DEF low, high
  <2>2. low \in Nat /\ high \in Nat /\ a <= low /\ low <= high /\ high + 1 <= b
    BY <2>1, <1>3
  <2>3. s \in Spans /\ s.from = low /\ s.to = high + 1 /\ s.type = "narration"
    BY <2>2 DEF Span, Spans
  <2> HIDE DEF s
  <2>4. <<s>> \in Seq(Spans) /\ DOMAIN <<s>> = {1} /\ <<s>>[1] = s
    BY <2>3
  <2>5. low \in Places(s.from, s.to) /\ t[low] \notin Formatting
    BY <2>1, <2>2, <2>3, <1>3 DEF Places
  <2>6. \A i \in Places(s.from, s.to) : i \in Places(a, b)
    BY <2>2, <2>3, <1>3 DEF Places
  <2>7. ASSUME NEW i \in Places(a, b), t[i] \notin Formatting PROVE i \in Places(s.from, s.to)
    <3>1. i \in said /\ i \in Nat
      BY <2>7, <1>3, <1>4
    <3> QED BY <3>1, <2>1, <2>2, <2>3 DEF Places
  <2>8. Trimmed(t, a, b) = <<s>>
    BY <1>1, <1>6 DEF s, low, high
  <2>9. Tiles(t, <<s>>, a, b)
    BY <2>2, <2>3, <2>4, <2>5, <2>6, <2>7 DEF Tiles
  <2> QED BY <2>8, <2>9
<1> QED BY <1>5, <1>6

\* Cuts parts a text.
LEMMA CutsPart ==
  ASSUME NEW t, NEW a \in Nat, NEW b \in Nat, a <= b, NEW next,
         \A p \in Places(a, b) : next[p] \in p + 1 .. b
  PROVE  Cuts(next, a, b) \in Seq(Nat \X Nat) /\ Parted(t, Formatting, Cuts(next, a, b), a, b)
<1> DEFINE c == Cuts(next, a, b)
<1>1. /\ c \in Seq(Nat \X Nat)
      /\ \A k \in DOMAIN c : /\ c[k][1] \in Places(a, b) /\ c[k][1] \in Nat
                             /\ c[k][2] \in c[k][1] + 1 .. b
      /\ \A j, k \in DOMAIN c : j < k => c[j][2] <= c[k][1]
      /\ \A i \in Places(a, b) : \E k \in DOMAIN c : i \in Places(c[k][1], c[k][2])
  BY CutsFacts
<1> HIDE DEF c
<1>2. \A k \in DOMAIN c : /\ c[k][1] \in Nat /\ c[k][2] \in Nat
                          /\ a <= c[k][1] /\ c[k][1] <= c[k][2] /\ c[k][2] <= b
  BY <1>1 DEF Places
<1> QED BY <1>1, <1>2 DEF Parted, c

\* One sequence for each part.
LEMMA PiecesOf ==
  ASSUME NEW parts \in Seq(Nat \X Nat), NEW seqs, seqs = [k \in DOMAIN parts |-> seqs[k]],
         \A k \in DOMAIN parts : seqs[k] \in Seq(Spans)
  PROVE  seqs \in Seq(Seq(Spans)) /\ DOMAIN seqs = DOMAIN parts
<1>1. DOMAIN parts = 1 .. Len(parts) /\ Len(parts) \in Nat
  OBVIOUS
<1>2. seqs \in [1 .. Len(parts) -> Seq(Spans)]
  BY <1>1
<1> QED BY <1>1, <1>2

\* The narrated segments tile what they are cut from.
LEMMA NarrationTiles ==
  ASSUME NEW t \in Seq(Kinds), NEW a \in Nat, NEW b \in Nat, a <= b,
         \A i \in Places(a, b) : t[i] \notin DOMAIN CloseOf
  PROVE  Tiles(t, Narration(t, a, b), a, b)
<1> DEFINE marks == {i \in DOMAIN t : EndsSentence(t, i, b)}
           next == [i \in Places(a, b) |-> After(t, Sentence, FirstIn(marks, i, b), b)]
           pieces == Cuts(next, a, b)
           seqs == [k \in DOMAIN pieces |-> Trimmed(t, pieces[k][1], pieces[k][2])]
<1>1. Narration(t, a, b) = FlattenSeq(seqs)
  BY DEF Narration
<1>2. marks \in SUBSET Nat /\ \A i \in marks : i \in DOMAIN t /\ t[i] \in Sentence
  BY DEF EndsSentence
<1> HIDE DEF marks
<1>3. ASSUME NEW p \in Places(a, b) PROVE next[p] \in p + 1 .. b
  <2>1. p \in Nat /\ p < b
    BY DEF Places
  <2> DEFINE m == FirstIn(marks, p, b)
             e == After(t, Sentence, m, b)
  <2>2. m \in p .. b /\ (m < b => m \in marks)
    BY <1>2, <2>1, FirstInIs
  <2> HIDE DEF m
  <2>3. m \in Nat /\ m <= b
    BY <2>1, <2>2
  <2>4. e \in m .. b /\ (e < b => t[e] \notin Sentence)
    BY <2>3, AfterIs
  <2> HIDE DEF e
  <2>5. e # p
    BY <2>1, <2>2, <2>4, <1>2
  <2>6. e \in p + 1 .. b
    BY <2>1, <2>2, <2>3, <2>4, <2>5
  <2> QED BY <2>6 DEF e, m
<1> HIDE DEF next
<1>4. pieces \in Seq(Nat \X Nat) /\ Parted(t, Formatting, pieces, a, b)
  BY <1>3, CutsPart
<1> HIDE DEF pieces
<1>5. ASSUME NEW k \in DOMAIN pieces
      PROVE  Tiles(t, seqs[k], pieces[k][1], pieces[k][2]) /\ seqs[k] \in Seq(Spans)
  <2>1. /\ pieces[k][1] \in Nat /\ pieces[k][2] \in Nat
        /\ a <= pieces[k][1] /\ pieces[k][1] <= pieces[k][2] /\ pieces[k][2] <= b
    BY <1>4 DEF Parted
  <2>2. \A i \in Places(pieces[k][1], pieces[k][2]) : i \in Places(a, b)
    BY <2>1 DEF Places
  <2>3. Tiles(t, Trimmed(t, pieces[k][1], pieces[k][2]), pieces[k][1], pieces[k][2])
    BY <2>1, <2>2, TrimmedTiles
  <2> QED BY <2>3 DEF Tiles
<1>6. seqs \in Seq(Seq(Spans)) /\ DOMAIN seqs = DOMAIN pieces
  <2>1. seqs = [k \in DOMAIN pieces |-> seqs[k]]
    OBVIOUS
  <2> HIDE DEF seqs
  <2> QED BY <2>1, <1>4, <1>5, PiecesOf
<1> HIDE DEF seqs
<1>7. Tiles(t, FlattenSeq(seqs), a, b)
  BY <1>4, <1>5, <1>6, TilesJoin
<1> QED BY <1>1, <1>7

\* A dialogue ends after its opening quote and within the paragraph.
LEMMA DialogueEndIs ==
  ASSUME NEW t \in Seq(Kinds), NEW a \in Nat, NEW b \in Nat, a < b
  PROVE  DialogueEnd(t, a, b) \in a + 1 .. b
<1> DEFINE S == {i \in DOMAIN t : t[i] = CloseOf[t[a]]}
           c == Closing(t, a, b)
<1>1. S \in SUBSET Nat
  OBVIOUS
<1>2. c = FirstIn(S, a + 1, b)
  BY DEF Closing
<1> HIDE DEF S
<1>3. c \in a + 1 .. b
  BY <1>1, <1>2, FirstInIs
<1> HIDE DEF c
<1>4. DialogueEnd(t, a, b) = After(t, Terminal, c + 1, b)
  BY DEF DialogueEnd, c
<1>5. CASE c < b
  <2>1. c + 1 \in Nat /\ c + 1 <= b
    BY <1>3, <1>5
  <2>2. After(t, Terminal, c + 1, b) \in c + 1 .. b
    BY <2>1, AfterIs
  <2> QED BY <2>2, <1>3, <1>4
<1>6. CASE c = b
  <2> DEFINE R == {j \in DOMAIN t : t[j] \notin Terminal}
  <2>1. R \in SUBSET Nat
    OBVIOUS
  <2>2. After(t, Terminal, c + 1, b) = FirstIn(R, c + 1, b)
    BY DEF After
  <2> HIDE DEF R
  <2>3. FirstIn(R, c + 1, b) = b
    BY <2>1, <1>6, FirstInBeyond
  <2> QED BY <2>2, <2>3, <1>4
<1> QED BY <1>3, <1>5, <1>6

\* What is said from a to b is told: a stretch that begins with a quote as dialogue, any other as narration.
LEMMA ToldTiles ==
  ASSUME NEW t \in Seq(Kinds), NEW a \in Nat, NEW b \in Nat, a < b,
         \E i \in Places(a, b) : t[i] \notin Formatting,
         ~IsQuote(t, a) => \A i \in Places(a, b) : t[i] \notin DOMAIN CloseOf
  PROVE  Tiles(t, Told(t, a, b), a, b)
<1>1. CASE IsQuote(t, a)
  <2> DEFINE s == Span(a, b, "dialogue")
  <2>1. s \in Spans /\ s.from = a /\ s.to = b /\ s.type = "dialogue"
    BY DEF Span, Spans
  <2>2. Told(t, a, b) = <<s>>
    BY <1>1 DEF Told
  <2> HIDE DEF s
  <2>3. <<s>> \in Seq(Spans) /\ DOMAIN <<s>> = {1} /\ <<s>>[1] = s
    BY <2>1
  <2> QED BY <2>1, <2>2, <2>3 DEF Tiles
<1>2. CASE ~IsQuote(t, a)
  <2>1. Told(t, a, b) = Narration(t, a, b)
    BY <1>2 DEF Told
  <2> QED BY <1>2, <2>1, NarrationTiles
<1> QED BY <1>1, <1>2

\* The segments of a paragraph tile it.
LEMMA SplitTiles ==
  ASSUME NEW t \in Seq(Kinds), NEW a \in Nat, NEW b \in Nat, 1 <= a, a <= b, b <= Len(t) + 1
  PROVE  Tiles(t, Split(t, a, b), a, b)
<1> DEFINE quotes == {i \in DOMAIN t : IsQuote(t, i)}
           next == [i \in Places(a, b) |-> IF IsQuote(t, i) THEN DialogueEnd(t, i, b) ELSE FirstIn(quotes, i, b)]
           parts == Cuts(next, a, b)
           seqs == [k \in DOMAIN parts |-> Told(t, parts[k][1], parts[k][2])]
<1>1. Split(t, a, b) = FlattenSeq(seqs)
  BY DEF Split
<1>2. quotes \in SUBSET Nat /\ \A i \in DOMAIN t : i \in quotes <=> IsQuote(t, i)
  OBVIOUS
<1>3. \A p \in Places(a, b) : p \in Nat /\ p < b /\ p \in DOMAIN t
  BY DEF Places
<1> HIDE DEF quotes
<1>4. ASSUME NEW p \in Places(a, b)
      PROVE  /\ next[p] \in p + 1 .. b
             /\ ~IsQuote(t, p) => \A i \in Places(p, next[p]) : ~IsQuote(t, i)
  <2>1. CASE IsQuote(t, p)
    <3>1. next[p] = DialogueEnd(t, p, b)
      BY <2>1
    <3> QED BY <2>1, <3>1, <1>3, DialogueEndIs
  <2>2. CASE ~IsQuote(t, p)
    <3> DEFINE e == FirstIn(quotes, p, b)
    <3>1. next[p] = e
      BY <2>2
    <3>2. e \in p .. b /\ (e < b => e \in quotes) /\ \A i \in Nat : p <= i /\ i < e => i \notin quotes
      BY <1>2, <1>3, FirstInIs
    <3> HIDE DEF e, next
    <3>3. e # p
      BY <3>2, <2>2, <1>2, <1>3
    <3>4. \A i \in Places(p, e) : ~IsQuote(t, i)
      <4> SUFFICES ASSUME NEW i \in Places(p, e) PROVE ~IsQuote(t, i)
        OBVIOUS
      <4>1. i \in Nat /\ p <= i /\ i < e /\ i \in Places(a, b)
        BY <3>2, <1>3 DEF Places
      <4> QED BY <4>1, <3>2, <1>2, <1>3
    <3> QED BY <3>1, <3>2, <3>3, <3>4, <1>3
  <2> QED BY <2>1, <2>2
<1> HIDE DEF next
<1>5. parts \in Seq(Nat \X Nat) /\ Parted(t, Formatting, parts, a, b)
  BY <1>4, CutsPart
<1>6. \A k \in DOMAIN parts : /\ parts[k][1] \in Places(a, b) /\ parts[k][1] \in Nat
                              /\ parts[k][2] \in parts[k][1] + 1 .. b /\ parts[k][2] = next[parts[k][1]]
  BY <1>4, CutsFacts
<1> HIDE DEF parts
<1>7. ASSUME NEW k \in DOMAIN parts
      PROVE  Tiles(t, seqs[k], parts[k][1], parts[k][2]) /\ seqs[k] \in Seq(Spans)
  <2> DEFINE p == parts[k][1]
             e == parts[k][2]
  <2>1. p \in Places(a, b) /\ p \in Nat /\ e \in p + 1 .. b /\ e = next[p] /\ seqs[k] = Told(t, p, e)
    BY <1>6
  <2> HIDE DEF p, e, seqs
  <2>2. e \in Nat /\ p < e
    BY <2>1
  <2>3. ~IsQuote(t, p) => \A i \in Places(p, e) : t[i] \notin DOMAIN CloseOf
    BY <2>1, <1>4 DEF IsQuote
  <2>4. Tiles(t, Told(t, p, e), p, e)
    <3>1. CASE \E i \in Places(p, e) : t[i] \notin Formatting
      BY <2>1, <2>2, <2>3, <3>1, ToldTiles
    <3>2. CASE ~\E i \in Places(p, e) : t[i] \notin Formatting
      <4>1. p \in Places(p, e)
        BY <2>1, <2>2 DEF Places
      <4>2. ~IsQuote(t, p)
        BY <3>2, <4>1 DEF IsQuote, Formatting, CloseOf
      <4>3. Told(t, p, e) = Narration(t, p, e)
        BY <4>2 DEF Told
      <4> QED BY <2>1, <2>2, <2>3, <4>2, <4>3, NarrationTiles
    <3> QED BY <3>1, <3>2
  <2> QED BY <2>1, <2>4 DEF Tiles, p, e
<1>8. seqs \in Seq(Seq(Spans)) /\ DOMAIN seqs = DOMAIN parts
  <2>1. seqs = [k \in DOMAIN parts |-> seqs[k]]
    OBVIOUS
  <2> HIDE DEF seqs
  <2> QED BY <2>1, <1>5, <1>7, PiecesOf
<1> HIDE DEF seqs
<1>9. Tiles(t, FlattenSeq(seqs), a, b)
  BY <1>5, <1>7, <1>8, TilesJoin
<1> QED BY <1>1, <1>9

\* Each paragraph begins in the text and ends in it, before the next; what is said is in one.
LEMMA RunsPart ==
  ASSUME NEW t \in Seq(Kinds), NEW blanks
  PROVE  /\ Runs(t, blanks) \in Seq(Nat \X Nat)
         /\ Parted(t, blanks, Runs(t, blanks), 1, Len(t) + 1)
         /\ \A k \in DOMAIN Runs(t, blanks) :
              \E i \in Places(Runs(t, blanks)[k][1], Runs(t, blanks)[k][2]) : t[i] \notin blanks
<1> DEFINE inside == {i \in DOMAIN t : ~IsBreak(t, blanks, i)}
           out == DOMAIN t \ inside
           Stop(a) == FirstIn(out, a, Len(t) + 1)
           starts == {a \in inside : /\ a - 1 \notin inside
                                     /\ \E i \in Places(a, Stop(a)) : t[i] \notin blanks}
           order == InOrder(starts)
           parts == [k \in DOMAIN order |-> <<order[k], Stop(order[k])>>]
           n == Cardinality(starts)
<1>0. Len(t) \in Nat /\ DOMAIN t = 1 .. Len(t)
  OBVIOUS
<1>1. Runs(t, blanks) = parts
  BY Zenon DEF Runs
<1>2. \A i \in DOMAIN t : t[i] \notin blanks => i \in inside
  BY DEF IsBreak
<1>3. /\ inside \in SUBSET DOMAIN t /\ out \in SUBSET Nat /\ \A i \in DOMAIN t : i \in inside <=> i \notin out
      /\ starts \in SUBSET inside
  OBVIOUS
<1>4. \A a \in starts : a - 1 \notin inside /\ \E i \in Places(a, Stop(a)) : t[i] \notin blanks
  OBVIOUS
<1>5. ASSUME NEW a \in inside, a - 1 \notin inside, NEW i \in Places(a, Stop(a)), t[i] \notin blanks
      PROVE  a \in starts
  BY <1>5
<1> HIDE DEF inside, out
<1>6. ASSUME NEW a \in inside
      PROVE  /\ Stop(a) \in a + 1 .. Len(t) + 1
             /\ \A i \in Places(a, Stop(a)) : i \in inside
  <2> DEFINE e == Stop(a)
  <2>1. a \in Nat /\ a \in DOMAIN t /\ a <= Len(t) + 1 /\ a \notin out
    BY <1>0, <1>3
  <2>2. /\ e \in a .. Len(t) + 1 /\ (e < Len(t) + 1 => e \in out)
        /\ \A i \in Nat : a <= i /\ i < e => i \notin out
    BY <1>0, <1>3, <2>1, FirstInIs
  <2> HIDE DEF e
  <2>3. e \in a + 1 .. Len(t) + 1
    BY <1>0, <2>1, <2>2
  <2>4. ASSUME NEW i \in Places(a, e) PROVE i \in inside
    <3>1. i \in Nat /\ a <= i /\ i < e /\ i \in DOMAIN t
      BY <1>0, <2>1, <2>2 DEF Places
    <3> QED BY <3>1, <2>2, <1>3
  <2> QED BY <2>3, <2>4 DEF e
<1> HIDE DEF Stop, starts
<1>7. starts \in SUBSET Nat /\ IsFiniteSet(starts)
  <2>1. IsFiniteSet(1 .. Len(t)) /\ starts \in SUBSET (1 .. Len(t)) /\ starts \in SUBSET Nat
    BY <1>0, <1>3, FS_Interval
  <2> QED BY <2>1, FS_Subset
<1>8. /\ n \in Nat /\ order \in [1 .. n -> starts]
      /\ \A j, k \in 1 .. n : j < k => order[j] < order[k]
      /\ \A s \in starts : \E k \in 1 .. n : order[k] = s
  <2>1. /\ n \in Nat /\ order \in [1 .. n -> starts]
        /\ \A j, k \in DOMAIN order : j < k => order[j] < order[k]
        /\ \A s \in starts : \E k \in DOMAIN order : order[k] = s
    BY <1>7, InOrderIs
  <2> HIDE DEF n, order
  <2> QED BY <2>1
<1> HIDE DEF n, order
<1>9. /\ DOMAIN parts = 1 .. n
      /\ \A k \in 1 .. n : /\ parts[k][1] = order[k] /\ parts[k][2] = Stop(order[k]) /\ order[k] \in starts
                           /\ order[k] \in inside /\ order[k] \in Nat /\ order[k] >= 1
  BY <1>0, <1>3, <1>8
<1>10. ASSUME NEW k \in 1 .. n
       PROVE  /\ parts[k][1] \in Nat /\ parts[k][2] \in Nat
              /\ 1 <= parts[k][1] /\ parts[k][1] <= parts[k][2] /\ parts[k][2] <= Len(t) + 1
  <2>1. Stop(order[k]) \in order[k] + 1 .. Len(t) + 1
    BY <1>6, <1>9
  <2> HIDE DEF parts
  <2> QED BY <2>1, <1>9, <1>0
<1>11. ASSUME NEW j \in 1 .. n, NEW k \in 1 .. n, j < k
       PROVE  parts[j][2] <= parts[k][1]
  <2> DEFINE s == order[j]
             r == order[k]
  <2>1. s < r /\ s \in starts /\ r \in starts /\ s \in Nat /\ r \in Nat /\ s \in inside
    BY <1>8, <1>9, <1>11
  <2>2. parts[j][2] = Stop(s) /\ parts[k][1] = r
    BY <1>9
  <2> HIDE DEF s, r, parts
  <2>3. ASSUME r < Stop(s) PROVE FALSE
    <3>1. Stop(s) \in s + 1 .. Len(t) + 1 /\ \A i \in Places(s, Stop(s)) : i \in inside
      BY <2>1, <1>6
    <3>2. r - 1 \in Places(s, Stop(s))
      BY <2>1, <2>3, <3>1, <1>0 DEF Places
    <3>3. r - 1 \notin inside
      BY <2>1, <1>4
    <3> QED BY <3>1, <3>2, <3>3
  <2>4. Stop(s) \in Nat
    BY <2>1, <1>6, <1>0
  <2> QED BY <2>1, <2>2, <2>3, <2>4
<1>12. ASSUME NEW i \in Places(1, Len(t) + 1), t[i] \notin blanks
       PROVE  \E k \in 1 .. n : i \in Places(parts[k][1], parts[k][2])
  <2>1. i \in DOMAIN t /\ i \in Nat /\ i \in inside /\ i >= 1
    BY <1>0, <1>2, <1>12 DEF Places
  <2> DEFINE F == {a \in Nat : a <= i /\ \A p \in a .. i : p \in inside}
  <2>2. i \in F
    BY <2>1
  <2>3. PICK a \in F : \A p \in F : a <= p
    <3>1. F \in SUBSET Nat /\ F # {}
      BY <2>2
    <3> HIDE DEF F
    <3> QED BY <3>1, LeastOf
  <2>4. a \in Nat /\ a <= i /\ \A p \in a .. i : p \in inside
    OBVIOUS
  <2>5. a \in inside /\ a >= 1
    <3>1. a \in a .. i
      BY <2>1, <2>4
    <3> QED BY <3>1, <2>4, <1>0, <1>3
  <2>6. a - 1 \notin inside
    <3>1. SUFFICES ASSUME a - 1 \in inside PROVE FALSE
      OBVIOUS
    <3>2. a - 1 \in Nat /\ a - 1 <= i /\ \A p \in a - 1 .. i : p = a - 1 \/ p \in a .. i
      BY <2>1, <2>4, <2>5
    <3>3. a - 1 \in F
      BY <3>1, <3>2, <2>4
    <3> QED BY <3>3, <2>3, <2>4
  <2>7. i < Stop(a)
    <3>1. SUFFICES ASSUME Stop(a) <= i PROVE FALSE
      BY <2>1, <2>5, <1>6, <1>0
    <3>2. Stop(a) \in a + 1 .. Len(t) + 1
      BY <2>5, <1>6
    <3>3. Stop(a) \in a .. i
      BY <3>1, <3>2, <2>1, <2>4, <1>0
    <3>4. Stop(a) \in out
      <4>1. a <= Len(t) + 1 /\ a \in Nat
        BY <2>4, <2>1, <1>0
      <4>2. Stop(a) < Len(t) + 1 => Stop(a) \in out
        BY <4>1, <1>0, <1>3, FirstInIs DEF Stop
      <4> QED BY <4>2, <3>1, <3>2, <2>1, <1>0
    <3> QED BY <3>3, <3>4, <2>4, <1>3
  <2>8. i \in Places(a, Stop(a))
    BY <2>1, <2>4, <2>7, <2>5, <1>6, <1>0 DEF Places
  <2>9. a \in starts
    BY <2>5, <2>6, <2>8, <1>5, <1>12 DEF starts
  <2>10. PICK k \in 1 .. n : order[k] = a
    BY <2>9, <1>8
  <2> HIDE DEF parts
  <2> QED BY <2>8, <2>10, <1>9
<1>13. parts \in Seq(Nat \X Nat)
  <2>1. \A k \in 1 .. n : <<order[k], Stop(order[k])>> \in Nat \X Nat
    BY <1>9, <1>10
  <2>2. DOMAIN order = 1 .. n
    BY <1>8
  <2> QED BY <2>1, <2>2, <1>8
<1> HIDE DEF parts
<1>14. Parted(t, blanks, parts, 1, Len(t) + 1)
  BY <1>9, <1>10, <1>11, <1>12 DEF Parted
<1>15. \A k \in DOMAIN parts : \E i \in Places(parts[k][1], parts[k][2]) : t[i] \notin blanks
  BY <1>4, <1>9
<1> QED BY <1>1, <1>13, <1>14, <1>15

\* The segments of a text tile it.
LEMMA SegmentsTile ==
  ASSUME NEW t \in Seq(Kinds)
  PROVE  Tiles(t, Segments(t), 1, Len(t) + 1)
<1> DEFINE parts == Paragraphs(t)
           seqs == [p \in DOMAIN parts |-> Split(t, parts[p][1], parts[p][2])]
<1>0. Len(t) \in Nat
  OBVIOUS
<1>1. Segments(t) = FlattenSeq(seqs)
  BY Zenon DEF Segments
<1>2. parts \in Seq(Nat \X Nat) /\ Parted(t, Formatting, parts, 1, Len(t) + 1)
  BY RunsPart DEF Paragraphs
<1> HIDE DEF parts
<1>3. ASSUME NEW k \in DOMAIN parts
      PROVE  Tiles(t, seqs[k], parts[k][1], parts[k][2]) /\ seqs[k] \in Seq(Spans)
  <2>1. /\ parts[k][1] \in Nat /\ parts[k][2] \in Nat
        /\ 1 <= parts[k][1] /\ parts[k][1] <= parts[k][2] /\ parts[k][2] <= Len(t) + 1
    BY <1>2 DEF Parted
  <2>2. Tiles(t, Split(t, parts[k][1], parts[k][2]), parts[k][1], parts[k][2])
    BY <2>1, SplitTiles
  <2> QED BY <2>2 DEF Tiles
<1>4. seqs \in Seq(Seq(Spans)) /\ DOMAIN seqs = DOMAIN parts
  <2>1. seqs = [k \in DOMAIN parts |-> seqs[k]]
    OBVIOUS
  <2> HIDE DEF seqs
  <2> QED BY <2>1, <1>2, <1>3, PiecesOf
<1> HIDE DEF seqs
<1>5. Tiles(t, FlattenSeq(seqs), 1, Len(t) + 1)
  BY <1>0, <1>2, <1>3, <1>4, TilesJoin
<1> QED BY <1>1, <1>5

\* The segments of a text that is not refused pass validate_spans, one without a space that
\* is not formatting is not refused, and what is narrated is in no quotes.
LEMMA SegmentsAreFaithful ==
  ASSUME NEW t \in Seq(Kinds)
  PROVE  /\ Readable(t) => Faithful(t, Segments(t))
         /\ Range(t) \cap (Spacing \ Formatting) = {} => Readable(t)
         /\ \A k \in DOMAIN Segments(t) : Segments(t)[k].type = "narration" =>
              \A i \in Places(Segments(t)[k].from, Segments(t)[k].to) : t[i] \notin DOMAIN CloseOf
<1> DEFINE spans == Segments(t)
<1>1. Tiles(t, spans, 1, Len(t) + 1) /\ (Readable(t) <=> \A k \in DOMAIN spans : ~IsSpace(t, spans[k]))
  BY SegmentsTile DEF Readable
<1> HIDE DEF spans
<1>2. Len(t) \in Nat /\ DOMAIN t = 1 .. Len(t) /\ DOMAIN spans = 1 .. Len(spans) /\ Len(spans) \in Nat
  BY <1>1 DEF Tiles
<1>3. \A k \in DOMAIN spans :
        /\ 1 <= spans[k].from /\ spans[k].from < spans[k].to /\ spans[k].to <= Len(t) + 1
        /\ \E i \in Places(spans[k].from, spans[k].to) : t[i] \notin Formatting
  BY <1>1 DEF Tiles
<1>4. ASSUME NEW j \in DOMAIN spans, NEW k \in DOMAIN spans, j # k
      PROVE  spans[j].to <= spans[k].from \/ spans[k].to <= spans[j].from
  <2>1. j < k \/ k < j
    BY <1>2, <1>4
  <2> QED BY <2>1, <1>1 DEF Tiles
<1>5. {i \in DOMAIN t : t[i] \notin Formatting} \subseteq
        UNION {Places(spans[k].from, spans[k].to) : k \in DOMAIN spans}
  <2> SUFFICES ASSUME NEW i \in DOMAIN t, t[i] \notin Formatting
               PROVE  \E k \in DOMAIN spans : i \in Places(spans[k].from, spans[k].to)
    OBVIOUS
  <2>1. i \in Places(1, Len(t) + 1)
    BY <1>2 DEF Places
  <2> QED BY <2>1, <1>1 DEF Tiles
<1>6. Readable(t) => Faithful(t, spans)
  BY <1>1, <1>3, <1>4, <1>5 DEF Faithful
<1>7. \A k \in DOMAIN spans : spans[k].type = "narration" =>
        \A i \in Places(spans[k].from, spans[k].to) : t[i] \notin DOMAIN CloseOf
  BY <1>1 DEF Tiles
<1>8. ASSUME Range(t) \cap (Spacing \ Formatting) = {} PROVE Readable(t)
  <2> SUFFICES ASSUME NEW k \in DOMAIN spans PROVE ~IsSpace(t, spans[k])
    BY <1>1
  <2>1. PICK i \in Places(spans[k].from, spans[k].to) : t[i] \notin Formatting
    BY <1>3
  <2>2. i \in DOMAIN t
    <3>1. spans[k] \in Spans
      BY <1>1 DEF Tiles
    <3>2. spans[k].from \in Nat /\ spans[k].to \in Nat
      BY <3>1 DEF Spans
    <3> QED BY <3>2, <2>1, <1>2, <1>3 DEF Places
  <2>3. t[i] \in Range(t)
    BY <2>2 DEF Range
  <2>4. t[i] \notin Spacing
    BY <2>1, <2>3, <1>8
  <2> QED BY <2>1, <2>4 DEF IsSpace
<1> QED BY <1>6, <1>7, <1>8 DEF spans

-----------------------------------------------------------------------------
(* Chapters cut by characters *)

\* The stretches of up to limit places.
Stretches(limit) == {u \in Nat \X Nat : u[1] < u[2] /\ u[2] - u[1] <= limit}

\* What is stripped of formatting begins and ends with something said.
LEMMA StrippedIs ==
  ASSUME NEW t, NEW a \in Nat, NEW b \in Nat
  PROVE  /\ (\A i \in Places(a, b) : t[i] \in Spacing) => Stripped(t, a, b) = <<a, a>>
         /\ (\E i \in Places(a, b) : t[i] \notin Spacing) =>
              \E low, high \in Places(a, b) :
                /\ Stripped(t, a, b) = <<low, high + 1>>
                /\ t[low] \notin Spacing /\ t[high] \notin Spacing
                /\ \A i \in Places(a, b) : t[i] \notin Spacing => low <= i /\ i <= high
<1> DEFINE said == {i \in Places(a, b) : t[i] \notin Spacing}
<1>1. Stripped(t, a, b) = IF said = {} THEN <<a, a>> ELSE <<Min(said), Max(said) + 1>>
  BY DEF Stripped
<1>2. said \in SUBSET Nat /\ said \in SUBSET (0 .. b)
  BY DEF Places
<1>3. \A i : i \in said <=> i \in Places(a, b) /\ t[i] \notin Spacing
  OBVIOUS
<1> HIDE DEF said
<1>4. said # {} => /\ Min(said) \in said /\ Max(said) \in said
                   /\ \A i \in said : Min(said) <= i /\ i <= Max(said)
  BY <1>2, MinIs, MaxIs
<1>5. (\E i \in Places(a, b) : t[i] \notin Spacing) <=> said # {}
  BY <1>3
<1> QED BY <1>1, <1>3, <1>4, <1>5

\* What is said is in a paragraph with whole lines.
LEMMA WholeParagraphsHold ==
  ASSUME NEW t \in Seq(Kinds)
  PROVE  /\ WholeParagraphs(t) \in Seq(Nat \X Nat)
         /\ \A k \in DOMAIN WholeParagraphs(t) : WholeParagraphs(t)[k][1] <= WholeParagraphs(t)[k][2]
         /\ \A i \in DOMAIN t : t[i] \notin Spacing =>
              \E k \in DOMAIN WholeParagraphs(t) : i \in Places(WholeParagraphs(t)[k][1], WholeParagraphs(t)[k][2])
<1> DEFINE breaks == {i \in DOMAIN t : t[i] = "line"}
           LineFrom(i) == Max({0} \cup {p \in breaks : p < i}) + 1
           Whole(p) == LET s == Stripped(t, p[1], p[2])
                       IN <<LineFrom(s[1]), FirstIn(breaks, s[2] - 1, Len(t) + 1)>>
           parts == Runs(t, Spacing)
           whole == [k \in DOMAIN parts |-> Whole(parts[k])]
<1>0. Len(t) \in Nat /\ DOMAIN t = 1 .. Len(t)
  OBVIOUS
<1>1. WholeParagraphs(t) = whole
  BY DEF WholeParagraphs
<1>2. parts \in Seq(Nat \X Nat) /\ Parted(t, Spacing, parts, 1, Len(t) + 1)
  BY RunsPart
<1>3. breaks \in SUBSET Nat /\ breaks \in SUBSET DOMAIN t /\ \A i \in DOMAIN t : i \in breaks <=> t[i] = "line"
  OBVIOUS
<1> HIDE DEF breaks, parts
<1>4. ASSUME NEW i \in 1 .. Len(t) + 1 PROVE LineFrom(i) \in 1 .. i
  <2> DEFINE S == {0} \cup {p \in breaks : p < i}
  <2>1. S \in SUBSET (0 .. i) /\ S # {} /\ \A p \in S : p \in Nat /\ p < i
    <3>1. i \in Nat /\ i >= 1
      BY <1>0
    <3>2. \A p \in breaks : p \in Nat
      BY <1>3
    <3>3. ASSUME NEW p \in S PROVE p \in Nat /\ p < i
      <4>1. p = 0 \/ (p \in Nat /\ p < i)
        BY <3>2
      <4> QED BY <4>1, <3>1
    <3>4. 0 \in S
      OBVIOUS
    <3> HIDE DEF S
    <3> QED BY <3>1, <3>3, <3>4
  <2> HIDE DEF S
  <2>2. Max(S) \in S
    <3>1. i \in Nat
      BY <1>0
    <3> QED BY <2>1, <3>1, MaxIs
  <2>3. Max(S) \in Nat /\ Max(S) < i
    BY <2>1, <2>2
  <2> DEFINE m == Max(S)
  <2>4. LineFrom(i) = m + 1
    BY DEF S
  <2> HIDE DEF m, LineFrom
  <2>5. m \in Nat /\ m < i
    BY <2>3 DEF m
  <2> QED BY <2>4, <2>5
<1> HIDE DEF LineFrom
<1>5. ASSUME NEW k \in DOMAIN parts
      PROVE  /\ whole[k] \in Nat \X Nat /\ whole[k][1] <= whole[k][2]
             /\ \A i \in Places(parts[k][1], parts[k][2]) : t[i] \notin Spacing =>
                  i \in Places(whole[k][1], whole[k][2])
  <2> DEFINE a == parts[k][1]
             b == parts[k][2]
             s == Stripped(t, a, b)
             e == FirstIn(breaks, s[2] - 1, Len(t) + 1)
  <2>1. a \in Nat /\ b \in Nat /\ 1 <= a /\ a <= b /\ b <= Len(t) + 1
    BY <1>2 DEF Parted
  <2>2. whole[k] = <<LineFrom(s[1]), e>>
    OBVIOUS
  <2> HIDE DEF a, b
  <2>3. PICK low \in Places(a, b) : \E high \in Places(a, b) :
          /\ s = <<low, high + 1>> /\ t[low] \notin Spacing /\ t[high] \notin Spacing
          /\ \A i \in Places(a, b) : t[i] \notin Spacing => low <= i /\ i <= high
    <3>1. \E i \in Places(a, b) : t[i] \notin Spacing
      BY RunsPart DEF a, b, parts
    <3> QED BY <3>1, <2>1, StrippedIs
  <2>4. PICK high \in Places(a, b) :
          /\ s = <<low, high + 1>> /\ t[low] \notin Spacing /\ t[high] \notin Spacing
          /\ \A i \in Places(a, b) : t[i] \notin Spacing => low <= i /\ i <= high
    BY <2>3
  <2> HIDE DEF s
  <2>5. s[1] = low /\ s[2] = high + 1 /\ low \in Nat /\ high \in Nat /\ a <= low /\ low <= high /\ high < b
    BY <2>1, <2>4 DEF Places
  <2>6. LineFrom(low) \in 1 .. low
    BY <2>5, <2>1, <1>0, <1>4
  <2>7. e = FirstIn(breaks, high, Len(t) + 1)
    <3>1. s[2] - 1 = high
      BY <2>5
    <3> QED BY <3>1
  <2>8. e \in high .. Len(t) + 1 /\ (e < Len(t) + 1 => e \in breaks)
    BY <2>5, <2>7, <2>1, <1>0, <1>3, FirstInIs
  <2> HIDE DEF e
  <2>9. high \notin breaks
    <3>1. high \in DOMAIN t /\ t[high] \notin Spacing
      BY <2>5, <2>1, <2>4, <1>0
    <3> QED BY <3>1, <1>3 DEF Spacing
  <2>10. e \in high + 1 .. Len(t) + 1
    BY <2>5, <2>8, <2>9, <2>1, <1>0
  <2> DEFINE f == LineFrom(low)
  <2>11. f \in 1 .. low /\ whole[k] = <<f, e>>
    BY <2>2, <2>5, <2>6
  <2> HIDE DEF f, whole
  <2>12. f \in Nat /\ e \in Nat /\ f <= e
    BY <2>5, <2>10, <2>11, <1>0
  <2>13. ASSUME NEW i \in Places(a, b), t[i] \notin Spacing PROVE i \in Places(f, e)
    <3>1. i \in Nat /\ low <= i /\ i <= high
      BY <2>1, <2>4, <2>13 DEF Places
    <3> QED BY <3>1, <2>5, <2>10, <2>11, <1>0 DEF Places
  <2> QED BY <2>11, <2>12, <2>13 DEF a, b
<1>6. whole \in Seq(Nat \X Nat) /\ DOMAIN whole = DOMAIN parts
  <2>1. DOMAIN parts = 1 .. Len(parts) /\ Len(parts) \in Nat
    BY <1>2
  <2>2. whole = [k \in DOMAIN parts |-> whole[k]]
    OBVIOUS
  <2> HIDE DEF whole
  <2> QED BY <2>1, <2>2, <1>5
<1> HIDE DEF whole
<1>7. ASSUME NEW i \in DOMAIN t, t[i] \notin Spacing
      PROVE  \E k \in DOMAIN whole : i \in Places(whole[k][1], whole[k][2])
  <2>1. i \in Places(1, Len(t) + 1)
    BY <1>0 DEF Places
  <2>2. PICK k \in DOMAIN parts : i \in Places(parts[k][1], parts[k][2])
    BY <2>1, <1>7, <1>2 DEF Parted
  <2> QED BY <2>2, <1>5, <1>6, <1>7
<1> QED BY <1>1, <1>5, <1>6, <1>7

\* The units of a paragraph are stretches within the limit, which hold all that is said in
\* it.
LEMMA UnitsAre ==
  ASSUME NEW t \in Seq(Kinds), NEW a \in Nat, NEW b \in Nat, a <= b, NEW limit \in Nat \ {0}
  PROVE  /\ Units(t, a, b, limit) \in Seq(Stretches(limit))
         /\ \A i \in Places(a, b) : \E u \in DOMAIN Units(t, a, b, limit) :
              i \in Places(Units(t, a, b, limit)[u][1], Units(t, a, b, limit)[u][2])
<1> DEFINE Breaks(i) == {p \in Places(i + 1, i + limit) : t[p] = "line"}
           Stop(i) == IF b - i <= limit THEN b
                     ELSE IF Breaks(i) = {} THEN i + limit ELSE Max(Breaks(i))
           next == [i \in Places(a, b) |-> Stop(i)]
           cuts == Cuts(next, a, b)
<1>1. Units(t, a, b, limit) = cuts
  BY Zenon DEF Units
<1>2. ASSUME NEW p \in Places(a, b) PROVE Stop(p) \in p + 1 .. b /\ Stop(p) - p <= limit
  <2> DEFINE B == Breaks(p)
             m == Max(B)
  <2>1. p \in Nat /\ a <= p /\ p < b
    BY DEF Places
  <2>2. B \in SUBSET (0 .. p + limit) /\ p + limit \in Nat /\ \A i \in B : i \in p + 1 .. p + limit - 1
    BY <2>1 DEF Places
  <2>3. Stop(p) = IF b - p <= limit THEN b ELSE IF B = {} THEN p + limit ELSE m
    OBVIOUS
  <2> HIDE DEF B
  <2>4. B # {} => m \in B
    BY <2>2, MaxIs
  <2> HIDE DEF m, Stop
  <2>5. B # {} => m \in p + 1 .. p + limit - 1
    BY <2>2, <2>4
  <2> DEFINE e == Stop(p)
  <2>6. e = IF b - p <= limit THEN b ELSE IF B = {} THEN p + limit ELSE m
    BY <2>3
  <2> HIDE DEF e
  <2>7. e \in Nat /\ p + 1 <= e /\ e <= b /\ e - p <= limit
    <3>1. CASE b - p <= limit
      BY <3>1, <2>1, <2>6
    <3>2. CASE ~(b - p <= limit) /\ B = {}
      BY <3>2, <2>1, <2>6
    <3>3. CASE ~(b - p <= limit) /\ B # {}
      <4>1. e = m /\ m \in Nat /\ p + 1 <= m /\ m <= p + limit - 1
        BY <3>3, <2>1, <2>5, <2>6
      <4>2. p + limit < b
        BY <3>3, <2>1
      <4> QED BY <4>1, <4>2, <2>1
    <3> QED BY <3>1, <3>2, <3>3
  <2> QED BY <2>7, <2>1 DEF e
<1> HIDE DEF Stop
<1>3. \A p \in Places(a, b) : next[p] \in p + 1 .. b
  BY <1>2
<1>31. \A p \in Places(a, b) : next[p] - p <= limit
  BY <1>2
<1> HIDE DEF next
<1>4. /\ cuts \in Seq(Nat \X Nat)
      /\ \A k \in DOMAIN cuts : /\ cuts[k][1] \in Places(a, b) /\ cuts[k][1] \in Nat
                                /\ cuts[k][2] \in cuts[k][1] + 1 .. b /\ cuts[k][2] = next[cuts[k][1]]
      /\ \A i \in Places(a, b) : \E k \in DOMAIN cuts : i \in Places(cuts[k][1], cuts[k][2])
  BY <1>3, CutsFacts
<1> HIDE DEF cuts
<1>5. ASSUME NEW k \in DOMAIN cuts PROVE cuts[k] \in Stretches(limit)
  <2>1. cuts[k] \in Nat \X Nat
    BY <1>4
  <2>2. cuts[k][2] - cuts[k][1] <= limit
    BY <1>31, <1>4
  <2>3. cuts[k][1] < cuts[k][2]
    BY <1>4
  <2> QED BY <2>1, <2>2, <2>3 DEF Stretches
<1>6. cuts \in Seq(Stretches(limit))
  BY <1>4, <1>5
<1> QED BY <1>1, <1>4, <1>6

\* So are those of the whole text.
LEMMA AllUnitsAre ==
  ASSUME NEW t \in Seq(Kinds), NEW limit \in Nat \ {0}
  PROVE  /\ AllUnits(t, limit) \in Seq(Stretches(limit))
         /\ \A i \in DOMAIN t : t[i] \notin Spacing => \E u \in DOMAIN AllUnits(t, limit) :
              i \in Places(AllUnits(t, limit)[u][1], AllUnits(t, limit)[u][2])
<1> DEFINE whole == WholeParagraphs(t)
           seqs == [k \in DOMAIN whole |-> Units(t, whole[k][1], whole[k][2], limit)]
           flat == FlattenSeq(seqs)
           X == Stretches(limit)
<1>1. AllUnits(t, limit) = flat
  BY Zenon DEF AllUnits
<1>2. /\ whole \in Seq(Nat \X Nat)
      /\ \A k \in DOMAIN whole : whole[k][1] <= whole[k][2]
      /\ \A i \in DOMAIN t : t[i] \notin Spacing =>
           \E k \in DOMAIN whole : i \in Places(whole[k][1], whole[k][2])
  BY WholeParagraphsHold
<1> HIDE DEF whole, X
<1>3. DOMAIN whole = 1 .. Len(whole) /\ Len(whole) \in Nat
  BY <1>2
<1>4. ASSUME NEW k \in DOMAIN whole
      PROVE  /\ seqs[k] \in Seq(X)
             /\ \A i \in Places(whole[k][1], whole[k][2]) : \E u \in DOMAIN seqs[k] :
                  i \in Places(seqs[k][u][1], seqs[k][u][2])
  <2>1. whole[k][1] \in Nat /\ whole[k][2] \in Nat /\ whole[k][1] <= whole[k][2]
    BY <1>2
  <2>2. seqs[k] = Units(t, whole[k][1], whole[k][2], limit)
    OBVIOUS
  <2> HIDE DEF seqs
  <2> QED BY <2>1, <2>2, UnitsAre DEF X
<1>5. seqs \in Seq(Seq(X)) /\ DOMAIN seqs = DOMAIN whole
  <2>1. seqs = [k \in DOMAIN whole |-> seqs[k]]
    OBVIOUS
  <2> HIDE DEF seqs
  <2> QED BY <2>1, <1>3, <1>4
<1> HIDE DEF seqs
<1>6. flat \in Seq(X) /\ \E base : Joins(flat, seqs, base, Len(seqs))
  BY <1>5, FlattenIs
<1> HIDE DEF flat
<1>7. PICK base : Joins(flat, seqs, base, Len(seqs))
  BY <1>6
<1>8. ASSUME NEW i \in DOMAIN t, t[i] \notin Spacing
      PROVE  \E u \in DOMAIN flat : i \in Places(flat[u][1], flat[u][2])
  <2>1. PICK k \in DOMAIN whole : i \in Places(whole[k][1], whole[k][2])
    BY <1>2, <1>8
  <2>2. PICK u \in DOMAIN seqs[k] : i \in Places(seqs[k][u][1], seqs[k][u][2])
    BY <2>1, <1>4
  <2>3. k \in 1 .. Len(seqs)
    BY <1>5
  <2>4. base[k] + u \in DOMAIN flat /\ flat[base[k] + u] = seqs[k][u]
    BY <2>3, <1>7 DEF Joins
  <2> QED BY <2>2, <2>4
<1> QED BY <1>1, <1>6, <1>8 DEF X

\* A chapter but the last holds the limit, and none holds twice that.
LEMMA FilledIs ==
  ASSUME NEW limit \in Nat \ {0}, NEW units0 \in Seq(Stretches(limit)),
         NEW c, c = Filled(units0, limit)
  PROVE  /\ c \in Seq(Nat \X Nat)
         /\ \A k \in DOMAIN c : /\ 1 <= c[k][1] /\ c[k][1] < c[k][2] /\ c[k][2] <= Len(units0) + 1
                                /\ Size(units0, c[k][1], c[k][2] - 1) < 2 * limit
                                /\ k + 1 \in DOMAIN c => Size(units0, c[k][1], c[k][2] - 1) >= limit
         /\ \A u \in DOMAIN units0 : \E k \in DOMAIN c : u \in Places(c[k][1], c[k][2])
<1> DEFINE n == Len(units0)
           w == [k \in DOMAIN units0 |-> units0[k][2] - units0[k][1]]
           Full(i) == {j \in 1 .. n + 1 : Size(units0, i, j - 1) >= limit}
           next == [i \in DOMAIN units0 |-> FirstIn(Full(i), i + 1, n + 1)]
<1>0. n \in Nat /\ DOMAIN units0 = 1 .. n /\ Places(1, n + 1) = 1 .. n
  BY DEF Places
<1>1. c = Cuts(next, 1, n + 1)
  BY DEF Filled
<1>2. \A k \in 1 .. n : w[k] \in Nat /\ w[k] <= limit
  <2> SUFFICES ASSUME NEW k \in 1 .. n PROVE w[k] \in Nat /\ w[k] <= limit
    OBVIOUS
  <2>1. units0[k] \in Stretches(limit)
    BY <1>0
  <2> QED BY <2>1, <1>0 DEF Stretches
<1>3. \A i, j : Size(units0, i, j) = SumFunctionOnSet(w, i .. j)
  BY DEF Size
<1> HIDE DEF w
<1>4. ASSUME NEW i \in 1 .. n, NEW j \in i .. n
      PROVE  /\ Size(units0, i, j) \in Nat
             /\ Size(units0, i, j) = Size(units0, i, j - 1) + w[j]
             /\ Size(units0, i, i - 1) = 0
             /\ Size(units0, i, j - 1) \in Nat
  <2>1. i \in Nat /\ j \in Nat /\ i - 1 \in Nat /\ j - 1 \in Nat /\ i <= j /\ j <= n
    BY <1>0
  <2>2. \A x \in i .. j : w[x] \in Nat
    BY <2>1, <1>0, <1>2
  <2>3. SumFunctionOnSet(w, i .. j) \in Nat /\ SumFunctionOnSet(w, i .. j) = SumFunctionOnSet(w, i .. j - 1) + w[j]
    BY <2>1, <2>2, SumUpTo
  <2>4. \A x \in i .. i - 1 : w[x] \in Nat
    BY <2>1
  <2>5. SumFunctionOnSet(w, i .. i - 1) = 0
    BY <2>1, <2>4, SumUpTo
  <2>6. \A x \in i .. j - 1 : w[x] \in Nat
    BY <2>1, <2>2
  <2>7. SumFunctionOnSet(w, i .. j - 1) \in Nat
    BY <2>1, <2>6, SumUpTo
  <2> QED BY <2>3, <2>5, <2>7, <1>3
<1>5. ASSUME NEW i \in 1 .. n
      PROVE  /\ next[i] \in i + 1 .. n + 1
             /\ next[i] < n + 1 => Size(units0, i, next[i] - 1) >= limit
             /\ \A j \in i + 1 .. n + 1 : j < next[i] => Size(units0, i, j - 1) < limit
  <2> DEFINE F == Full(i)
             e == FirstIn(F, i + 1, n + 1)
  <2>1. next[i] = e
    BY <1>0
  <2>2. F \in SUBSET Nat
    OBVIOUS
  <2>3. \A j \in 1 .. n + 1 : j \in F <=> Size(units0, i, j - 1) >= limit
    OBVIOUS
  <2> HIDE DEF F
  <2>4. /\ e \in i + 1 .. n + 1 /\ (e < n + 1 => e \in F)
        /\ \A j \in Nat : i + 1 <= j /\ j < e => j \notin F
    BY <2>2, <1>0, FirstInIs
  <2> HIDE DEF e
  <2>5. ASSUME NEW j \in i + 1 .. n + 1, j < e PROVE Size(units0, i, j - 1) < limit
    <3>1. j \in Nat /\ j \in 1 .. n + 1 /\ j \notin F /\ j - 1 \in i .. n
      BY <2>4, <2>5, <1>0
    <3>2. ~(Size(units0, i, j - 1) >= limit)
      BY <3>1, <2>3
    <3>3. Size(units0, i, j - 1) \in Nat
      BY <3>1, <1>4
    <3> QED BY <3>2, <3>3
  <2>6. e \in 1 .. n + 1
    BY <2>4, <1>0
  <2> HIDE DEF next
  <2> QED BY <2>1, <2>3, <2>4, <2>5, <2>6
<1> HIDE DEF next, n
<1>6. /\ c \in Seq(Nat \X Nat)
      /\ \A k \in DOMAIN c : /\ c[k][1] \in Places(1, n + 1) /\ c[k][1] \in Nat
                             /\ c[k][2] \in c[k][1] + 1 .. n + 1 /\ c[k][2] = next[c[k][1]]
      /\ \A j, k \in DOMAIN c : j < k => c[j][2] <= c[k][1]
      /\ \A i \in Places(1, n + 1) : \E k \in DOMAIN c : i \in Places(c[k][1], c[k][2])
  <2>1. 1 \in Nat /\ n + 1 \in Nat /\ 1 <= n + 1
    BY <1>0
  <2>2. \A p \in Places(1, n + 1) : next[p] \in p + 1 .. n + 1
    BY <1>0, <1>5
  <2> QED BY <2>1, <2>2, <1>1, CutsFacts
<1>7. ASSUME NEW k \in DOMAIN c
      PROVE  /\ 1 <= c[k][1] /\ c[k][1] < c[k][2] /\ c[k][2] <= n + 1
             /\ Size(units0, c[k][1], c[k][2] - 1) < 2 * limit
             /\ k + 1 \in DOMAIN c => Size(units0, c[k][1], c[k][2] - 1) >= limit
  <2> DEFINE i == c[k][1]
             e == c[k][2]
  <2>1. i \in 1 .. n /\ i \in Nat /\ e \in i + 1 .. n + 1 /\ e = next[i]
    BY <1>0, <1>6
  <2>2. k + 1 \in DOMAIN c => e < n + 1
    <3> SUFFICES ASSUME k + 1 \in DOMAIN c PROVE e < n + 1
      OBVIOUS
    <3>1. k < k + 1
      BY <1>6
    <3>2. e <= c[k + 1][1] /\ c[k + 1][1] \in 1 .. n
      BY <3>1, <1>6, <1>0
    <3> HIDE DEF e
    <3> QED BY <3>2, <2>1, <1>0
  <2> HIDE DEF i, e
  <2>3. e - 1 \in i .. n /\ e \in Nat
    BY <2>1, <1>0
  <2> DEFINE full == Size(units0, i, e - 1)
             before == Size(units0, i, e - 1 - 1)
  <2>4. full \in Nat /\ before \in Nat /\ full = before + w[e - 1] /\ w[e - 1] \in Nat /\ w[e - 1] <= limit
    <3>1. w[e - 1] \in Nat /\ w[e - 1] <= limit
      BY <2>1, <2>3, <1>2, <1>0
    <3> QED BY <3>1, <2>1, <2>3, <1>4
  <2>5. before < limit
    <3>1. CASE e - 1 = i
      <4>1. e - 1 - 1 = i - 1
        BY <3>1, <2>1
      <4>2. before = 0
        BY <4>1, <2>1, <2>3, <1>4
      <4> QED BY <4>2
    <3>2. CASE e - 1 # i
      <4>1. e - 1 \in i + 1 .. n + 1 /\ e - 1 < next[i]
        BY <3>2, <2>1, <2>3, <1>0
      <4> QED BY <4>1, <2>1, <1>5
    <3> QED BY <3>1, <3>2
  <2>6. e < n + 1 => full >= limit
    BY <2>1, <1>5
  <2> HIDE DEF full, before
  <2>7. full < 2 * limit
    BY <2>4, <2>5
  <2>8. 1 <= i /\ i < e /\ e <= n + 1
    BY <2>1, <1>0
  <2> QED BY <2>2, <2>6, <2>7, <2>8 DEF i, e, full
<1> QED BY <1>0, <1>6, <1>7 DEF n

\* Chapters by characters hold all that is said; none holds twice the limit, and each but
\* the last holds the limit.
LEMMA ChaptersByChars ==
  ASSUME NEW t \in Seq(Kinds), NEW limit \in Nat \ {0},
         NEW lines, lines = AllUnits(t, limit), NEW chapters, chapters = SplitByChars(t, limit)
  PROVE  /\ \A i \in DOMAIN t : t[i] \notin Spacing =>
              \E k \in DOMAIN chapters : \E u \in Places(chapters[k][1], chapters[k][2]) :
                i \in Places(lines[u][1], lines[u][2])
         /\ \A k \in DOMAIN chapters :
              /\ Size(lines, chapters[k][1], chapters[k][2] - 1) < 2 * limit
              /\ k < Len(chapters) => Size(lines, chapters[k][1], chapters[k][2] - 1) >= limit
<1> DEFINE all == Filled(lines, limit)
           Says(c) == \E u \in Places(c[1], c[2]) : \E i \in Places(lines[u][1], lines[u][2]) :
                              t[i] \notin Spacing
           said == {k \in DOMAIN all : Says(all[k])}
<1>1. chapters = Picked(all, said)
  BY DEF SplitByChars
<1>2. /\ lines \in Seq(Stretches(limit))
      /\ \A i \in DOMAIN t : t[i] \notin Spacing => \E u \in DOMAIN lines : i \in Places(lines[u][1], lines[u][2])
  BY AllUnitsAre
<1>3. /\ all \in Seq(Nat \X Nat)
      /\ \A k \in DOMAIN all : /\ 1 <= all[k][1] /\ all[k][1] < all[k][2] /\ all[k][2] <= Len(lines) + 1
                               /\ Size(lines, all[k][1], all[k][2] - 1) < 2 * limit
                               /\ k + 1 \in DOMAIN all => Size(lines, all[k][1], all[k][2] - 1) >= limit
      /\ \A u \in DOMAIN lines : \E k \in DOMAIN all : u \in Places(all[k][1], all[k][2])
  BY <1>2, FilledIs
<1> HIDE DEF all
<1>4. said \in SUBSET DOMAIN all /\ \A k \in DOMAIN all : Says(all[k]) => k \in said
  OBVIOUS
<1> HIDE DEF said
<1> DEFINE at == InOrder(said)
<1>5. /\ chapters \in Seq(Nat \X Nat)
      /\ at \in [DOMAIN chapters -> said]
      /\ \A k \in DOMAIN chapters : chapters[k] = all[at[k]]
      /\ \A j, k \in DOMAIN chapters : j < k => at[j] < at[k]
      /\ \A i \in said : \E k \in DOMAIN chapters : at[k] = i
  <2>1. all \in Seq(Nat \X Nat) /\ said \in SUBSET DOMAIN all
    BY <1>3, <1>4
  <2> QED BY <1>1, <2>1, PickedIs
<1> HIDE DEF at
<1>6. ASSUME NEW i \in DOMAIN t, t[i] \notin Spacing
      PROVE  \E k \in DOMAIN chapters : \E u \in Places(chapters[k][1], chapters[k][2]) :
               i \in Places(lines[u][1], lines[u][2])
  <2>1. PICK u \in DOMAIN lines : i \in Places(lines[u][1], lines[u][2])
    BY <1>2, <1>6
  <2>2. PICK k \in DOMAIN all : u \in Places(all[k][1], all[k][2])
    BY <1>3
  <2>3. k \in said
    BY <2>1, <2>2, <1>4, <1>6
  <2>4. PICK m \in DOMAIN chapters : at[m] = k
    BY <2>3, <1>5
  <2> QED BY <2>1, <2>2, <2>4, <1>5
<1>7. ASSUME NEW k \in DOMAIN chapters
      PROVE  /\ Size(lines, chapters[k][1], chapters[k][2] - 1) < 2 * limit
             /\ k < Len(chapters) => Size(lines, chapters[k][1], chapters[k][2] - 1) >= limit
  <2>1. at[k] \in DOMAIN all /\ chapters[k] = all[at[k]]
    BY <1>4, <1>5
  <2>2. k < Len(chapters) => at[k] + 1 \in DOMAIN all
    <3> SUFFICES ASSUME k < Len(chapters) PROVE at[k] + 1 \in DOMAIN all
      OBVIOUS
    <3>1. k + 1 \in DOMAIN chapters /\ k < k + 1
      BY <1>5
    <3>2. at[k] < at[k + 1] /\ at[k + 1] \in DOMAIN all
      BY <3>1, <1>4, <1>5
    <3>3. DOMAIN all = 1 .. Len(all) /\ Len(all) \in Nat
      BY <1>3
    <3> QED BY <2>1, <3>2, <3>3
  <2> QED BY <2>1, <2>2, <1>3
<1> QED BY <1>6, <1>7

-----------------------------------------------------------------------------
(* Import and reading: no text is lost *)

\* What the document and the text of a chapter are, at any stage.
TextsAreTyped == document \in Seq(Lines) /\ text \in Seq(Kinds)

\* So it is at first,
LEMMA WrittenAtFirst == ReadingInit => TextsAreTyped
BY DEF ReadingInit, TextsAreTyped

\* every step leaves it so,
LEMMA WrittenStays == TextsAreTyped /\ [ReadingNext]_reading => TextsAreTyped'
<1> SUFFICES ASSUME TextsAreTyped, [ReadingNext]_reading PROVE TextsAreTyped'
  OBVIOUS
<1> USE DEF TextsAreTyped
<1>1. ASSUME NEW line \in Lines, WriteLine(line) PROVE TextsAreTyped'
  BY <1>1 DEF WriteLine
<1>2. ASSUME Import PROVE TextsAreTyped'
  <2>1. PICK t \in Followed \cup {<< >>} : text' = t
    BY <1>2 DEF Import
  <2>2. t \in Seq(Kinds)
    <3>1. << >> \in Seq(Kinds)
      OBVIOUS
    <3>2. t \in Followed \/ t = << >>
      BY <2>1
    <3>3. \A x \in Followed : x \in Seq(Kinds)
      BY FollowedAreTexts
    <3> QED BY <3>1, <3>2, <3>3
  <2>3. document' = << >> /\ << >> \in Seq(Lines)
    BY <1>2 DEF Import
  <2> QED BY <2>1, <2>2, <2>3
<1>3. ASSUME NEW kind \in Kinds, Type(kind) PROVE TextsAreTyped'
  BY <1>3 DEF Type
<1>4. ASSUME UNCHANGED <<document, text>> PROVE TextsAreTyped'
  BY <1>4
<1>5. ASSUME Analyze \/ Answer \/ Repair \/ Complete \/ GiveUp \/ Apply \/ Begin \/ Crash \/ Assemble
      PROVE  UNCHANGED <<document, text>>
  BY <1>5 DEF Analyze, Answer, Repair, Complete, GiveUp, Apply, Begin, Crash, Assemble
<1>6. ASSUME NEW u \in DOMAIN units, Send(u) \/ Hear(u) \/ Retry(u) \/ Fail(u)
      PROVE  UNCHANGED <<document, text>>
  BY <1>6 DEF Send, Hear, Retry, Fail, written
<1>7. ASSUME UNCHANGED reading PROVE UNCHANGED <<document, text>>
  BY <1>7 DEF reading, written
<1> QED BY <1>1, <1>2, <1>3, <1>4, <1>5, <1>6, <1>7 DEF ReadingNext

\* and it is always so.
LEMMA AlwaysWritten == ReadingSpec => []TextsAreTyped
BY WrittenAtFirst, WrittenStays, PTL DEF ReadingSpec

\* Importing by headings or by blank lines (splitter._split_by_title, _split_by_blank)
\* loses no line of text and keeps their order, for every document; by headings the first
\* line may be taken for the title.
THEOREM ImportIsFaithful == ReadingSpec => []ImportKeepsTheText
<1>1. ASSUME TextsAreTyped PROVE ImportKeepsTheText
  BY <1>1, TitlesKeepTheText, BlanksKeepTheText DEF TextsAreTyped, ImportKeepsTheText
<1> QED BY <1>1, AlwaysWritten, PTL

\* The segments of a text that is not refused (source_faithful.segment_source) hold each of
\* its characters once and narrate nothing that is quoted, and no text is refused whose
\* spaces are all formatting; the chapters of any text by characters
\* (splitter._split_by_chars) hold at least the limit and less than twice that, but for the
\* last.
THEOREM TextsAreKept == ReadingSpec => []SegmentsKeepTheText
<1>1. ASSUME TextsAreTyped PROVE SegmentsKeepTheText
  <2>1. CharLimit \in Nat \ {0}
    BY LimitsArePositive
  <2>2. /\ Readable(text) => Faithful(text, Segments(text))
        /\ Range(text) \cap (Spacing \ Formatting) = {} => Readable(text)
        /\ \A k \in DOMAIN Segments(text) : Segments(text)[k].type = "narration" =>
             \A i \in Places(Segments(text)[k].from, Segments(text)[k].to) : text[i] \notin DOMAIN CloseOf
    BY <1>1, SegmentsAreFaithful DEF TextsAreTyped
  <2> DEFINE lines == AllUnits(text, CharLimit)
             chapters == SplitByChars(text, CharLimit)
  <2>3. /\ \A i \in DOMAIN text : text[i] \notin Spacing =>
             \E k \in DOMAIN chapters : \E u \in Places(chapters[k][1], chapters[k][2]) :
               i \in Places(lines[u][1], lines[u][2])
        /\ \A k \in DOMAIN chapters :
             /\ Size(lines, chapters[k][1], chapters[k][2] - 1) < 2 * CharLimit
             /\ k < Len(chapters) => Size(lines, chapters[k][1], chapters[k][2] - 1) >= CharLimit
    BY <1>1, <2>1, ChaptersByChars DEF TextsAreTyped
  <2> QED BY <2>2, <2>3 DEF SegmentsKeepTheText
<1> QED BY <1>1, AlwaysWritten, PTL

-----------------------------------------------------------------------------
(* The annotations of a chapter *)

\* The groups of a chapter are not empty, follow one another and hold every segment.
LEMMA GroupsAre ==
  ASSUME NEW spans \in Seq(Spans), NEW limits, limits.segments \in Nat \ {0},
         NEW c, c = Groups(spans, limits)
  PROVE  /\ c \in Seq(Nat \X Nat)
         /\ \A k \in DOMAIN c : /\ 1 <= c[k][1] /\ c[k][1] < c[k][2] /\ c[k][2] <= Len(spans) + 1
                                /\ c[k][2] - c[k][1] <= limits.segments
                                /\ c[k][1] \in Nat /\ c[k][2] \in Nat
         /\ \A j, k \in DOMAIN c : j < k => c[j][2] <= c[k][1]
         /\ \A i \in DOMAIN spans : \E k \in DOMAIN c : i \in Places(c[k][1], c[k][2])
<1> DEFINE n == Len(spans)
           TooMuch(i) == {j \in DOMAIN spans : Chars(spans, i, j) > limits.chars \/ j - i >= limits.segments}
           next == [i \in DOMAIN spans |-> FirstIn(TooMuch(i), i + 1, n + 1)]
<1>1. n \in Nat /\ DOMAIN spans = 1 .. n
  OBVIOUS
<1>2. c = Cuts(next, 1, n + 1)
  BY DEF Groups
<1>3. ASSUME NEW i \in DOMAIN spans
      PROVE  next[i] \in i + 1 .. n + 1 /\ next[i] - i <= limits.segments
  <2> DEFINE s == limits.segments
             S == TooMuch(i)
             e == FirstIn(S, i + 1, n + 1)
  <2>1. next[i] = e
    OBVIOUS
  <2>2. i \in Nat /\ i + 1 \in Nat /\ n + 1 \in Nat /\ i + 1 <= n + 1 /\ s \in Nat \ {0}
    BY <1>1
  <2>3. S \in SUBSET Nat /\ \A j \in DOMAIN spans : j - i >= s => j \in S
    BY <1>1
  <2> HIDE DEF S
  <2>4. e \in i + 1 .. n + 1 /\ \A j \in Nat : i + 1 <= j /\ j < e => j \notin S
    BY <2>2, <2>3, FirstInIs
  <2> HIDE DEF e, s, n, next
  <2>5. ASSUME e - i > s PROVE FALSE
    <3>1. i + s \in DOMAIN spans /\ i + s \in Nat /\ i + 1 <= i + s /\ i + s < e /\ (i + s) - i >= s
      BY <2>2, <2>4, <2>5, <1>1
    <3> QED BY <3>1, <2>3, <2>4
  <2>6. e - i <= s
    BY <2>5, <2>2, <2>4
  <2> QED BY <2>1, <2>4, <2>6 DEF s
<1> HIDE DEF next
<1>4. 1 \in Nat /\ n + 1 \in Nat /\ 1 <= n + 1 /\ Places(1, n + 1) = DOMAIN spans
  BY <1>1 DEF Places
<1>5. /\ c \in Seq(Nat \X Nat)
      /\ \A k \in DOMAIN c : /\ c[k][1] \in Places(1, n + 1) /\ c[k][1] \in Nat
                             /\ c[k][2] \in c[k][1] + 1 .. n + 1 /\ c[k][2] = next[c[k][1]]
      /\ \A j, k \in DOMAIN c : j < k => c[j][2] <= c[k][1]
      /\ \A i \in Places(1, n + 1) : \E k \in DOMAIN c : i \in Places(c[k][1], c[k][2])
  <2>1. \A p \in Places(1, n + 1) : next[p] \in p + 1 .. n + 1
    BY <1>3, <1>4
  <2> DEFINE b == n + 1
  <2>2. 1 \in Nat /\ b \in Nat /\ 1 <= b /\ (\A p \in Places(1, b) : next[p] \in p + 1 .. b) /\ c = Cuts(next, 1, b)
    BY <2>1, <1>2, <1>4
  <2> HIDE DEF b
  <2>3. /\ c \in Seq(Nat \X Nat)
        /\ \A k \in DOMAIN c : /\ c[k][1] \in Places(1, b) /\ c[k][1] \in Nat
                               /\ c[k][2] \in c[k][1] + 1 .. b /\ c[k][2] = next[c[k][1]]
        /\ \A j, k \in DOMAIN c : j < k => c[j][2] <= c[k][1]
        /\ \A i \in Places(1, b) : \E k \in DOMAIN c : i \in Places(c[k][1], c[k][2])
    BY <2>2, CutsFacts, SMTT(40)
  <2> QED BY <2>3 DEF b
<1>6. ASSUME NEW k \in DOMAIN c
      PROVE  /\ 1 <= c[k][1] /\ c[k][1] < c[k][2] /\ c[k][2] <= n + 1
             /\ c[k][2] - c[k][1] <= limits.segments
             /\ c[k][1] \in Nat /\ c[k][2] \in Nat
  <2> DEFINE x == c[k][1]
             y == c[k][2]
  <2>1. x \in DOMAIN spans /\ x \in Nat /\ y \in x + 1 .. n + 1 /\ y = next[x]
    BY <1>4, <1>5
  <2> HIDE DEF x, y, n
  <2>2. 1 <= x /\ x < y /\ y <= n + 1 /\ y \in Nat /\ y - x <= limits.segments
    BY <2>1, <1>1, <1>3
  <2> QED BY <2>1, <2>2 DEF x, y
<1> QED BY <1>4, <1>5, <1>6

-----------------------------------------------------------------------------
\* One after the other, two sequences that name nothing twice and nothing of each other
\* name nothing twice.
LEMMA InjectiveTogether ==
  ASSUME NEW X, NEW s \in Seq(X), NEW r \in Seq(X), IsInjective(s), IsInjective(r),
         Range(s) \cap Range(r) = {}
  PROVE  /\ s \o r \in Seq(X)
         /\ IsInjective(s \o r)
         /\ Range(s \o r) = Range(s) \cup Range(r)
<1> DEFINE m == Len(s)
           n == Len(r)
           b == s \o r
<1>1. /\ m \in Nat /\ n \in Nat /\ DOMAIN s = 1 .. m /\ DOMAIN r = 1 .. n
      /\ b \in Seq(X) /\ DOMAIN b = 1 .. m + n
      /\ \A i \in 1 .. m : b[i] = s[i]
      /\ \A i \in 1 .. n : b[m + i] = r[i]
  OBVIOUS
<1> HIDE DEF m, n, b
<1>2. \A i \in DOMAIN b : i <= m => i \in DOMAIN s /\ b[i] = s[i]
  BY <1>1
<1>3. \A i \in DOMAIN b : i > m => i - m \in DOMAIN r /\ b[i] = r[i - m]
  <2> TAKE i \in DOMAIN b
  <2> HAVE i > m
  <2>1. i - m \in 1 .. n /\ m + (i - m) = i
    BY <1>1
  <2> QED BY <2>1, <1>1
<1>4. \A i \in DOMAIN b : i \in Nat
  BY <1>1
<1>5. ASSUME NEW i \in DOMAIN b, NEW j \in DOMAIN b, b[i] = b[j] PROVE i = j
  <2>1. CASE i <= m /\ j <= m
    BY <2>1, <1>2, <1>5 DEF IsInjective
  <2>2. CASE i > m /\ j > m
    <3>1. i - m = j - m
      BY <2>2, <1>3, <1>5 DEF IsInjective
    <3> QED BY <3>1, <1>1, <1>4
  <2>3. CASE i <= m /\ j > m
    BY <2>3, <1>2, <1>3, <1>5 DEF Range
  <2>4. CASE i > m /\ j <= m
    BY <2>4, <1>2, <1>3, <1>5 DEF Range
  <2> QED BY <2>1, <2>2, <2>3, <2>4, <1>1, <1>4
<1>6. Range(b) \subseteq Range(s) \cup Range(r)
  BY <1>2, <1>3, <1>4, <1>1 DEF Range
<1>7. Range(s) \subseteq Range(b)
  <2>1. \A i \in DOMAIN s : i \in DOMAIN b /\ b[i] = s[i]
    BY <1>1
  <2> QED BY <2>1 DEF Range
<1>8. Range(r) \subseteq Range(b)
  <2>1. \A i \in DOMAIN r : m + i \in DOMAIN b /\ b[m + i] = r[i]
    BY <1>1
  <2> QED BY <2>1 DEF Range
<1>9. IsInjective(b)
  BY <1>5 DEF IsInjective
<1> QED BY <1>1, <1>6, <1>7, <1>8, <1>9 DEF b

\* What has nothing wrong names segments of the chunk, none of them twice.
LEMMA NothingWrong ==
  ASSUME NEW ids \in SUBSET Nat, NEW given \in Seq(Int), Wrong(given, ids) = {}
  PROVE  given \in Seq(Nat) /\ IsInjective(given) /\ Range(given) \subseteq ids
<1>1. \A k \in DOMAIN given : given[k] \in ids /\ \A j \in 1 .. k - 1 : given[j] # given[k]
  BY DEF Wrong
<1>2. DOMAIN given = 1 .. Len(given) /\ Len(given) \in Nat
  OBVIOUS
<1>3. ASSUME NEW a \in DOMAIN given, NEW b \in DOMAIN given, given[a] = given[b] PROVE a = b
  <2>1. a \in Nat /\ b \in Nat /\ a >= 1 /\ b >= 1
    BY <1>2
  <2>2. ~(a < b)
    BY <2>1, <1>1, <1>3
  <2>3. ~(b < a)
    BY <2>1, <1>1, <1>3
  <2> QED BY <2>1, <2>2, <2>3
<1>4. given \in Seq(Nat)
  <2>1. \A k \in 1 .. Len(given) : given[k] \in Nat
    BY <1>1, <1>2
  <2> QED BY <2>1, <1>2
<1> QED BY <1>1, <1>3, <1>4 DEF IsInjective, Range

\* What the verdict on an answer says of it.
LEMMA VerdictIs ==
  ASSUME NEW ids, NEW given, NEW policy
  PROVE  /\ Verdict(given, ids, policy) = "accepted" => Wrong(given, ids) = {} /\ ids \ Range(given) = {}
         /\ Verdict(given, ids, policy) = "incomplete" =>
              /\ Wrong(given, ids) = {} /\ ids \ Range(given) # {}
              /\ ~TooLow(ids \ Range(given), ids, policy)
<1> DEFINE w == Wrong(given, ids)
           m == ids \ Range(given)
           low == TooLow(m, ids, policy)
           nameless == given[Min(w)] = Nameless
<1>1. Verdict(given, ids, policy) =
        CASE w # {} /\ nameless -> "schema"
          [] w # {} /\ ~nameless -> "reference"
          [] w = {} /\ m = {} -> "accepted"
          [] w = {} /\ m # {} /\ low -> "low"
          [] OTHER -> "incomplete"
  BY DEF Verdict
<1> HIDE DEF w, m, low, nameless
<1>2. CASE w # {}
  <2>1. Verdict(given, ids, policy) = "schema" \/ Verdict(given, ids, policy) = "reference"
    BY <1>1, <1>2
  <2> QED BY <2>1
<1>3. CASE w = {} /\ m = {}
  <2>1. Verdict(given, ids, policy) = "accepted"
    BY <1>1, <1>3
  <2> QED BY <2>1, <1>3 DEF w, m
<1>4. CASE w = {} /\ m # {} /\ low
  <2>1. Verdict(given, ids, policy) = "low"
    BY <1>1, <1>4
  <2> QED BY <2>1
<1>5. CASE w = {} /\ m # {} /\ ~low
  <2>1. Verdict(given, ids, policy) = "incomplete"
    BY <1>1, <1>5
  <2> QED BY <2>1, <1>5 DEF w, m, low
<1> QED BY <1>2, <1>3, <1>4, <1>5

\* The chunks of a text, and the segments of each.
GroupsOf(t) == Groups(Segments(t), GroupLimits)
IdsOf(t, c) == Places(GroupsOf(t)[c][1], GroupsOf(t)[c][2])

\* The segments of the chunks before one.
SeenBefore(t, c) == UNION {IdsOf(t, k) : k \in 1 .. c - 1}

\* The annotations given are those of the chunks before this one, each once.
Collected(t, c, given) ==
  /\ c \in DOMAIN GroupsOf(t)
  /\ given \in Seq(Nat) /\ IsInjective(given) /\ Range(given) = SeenBefore(t, c)

\* An incomplete answer misses no more than the diagnostic can list.
Completable(ids, given) ==
  /\ given \in Seq(Nat) /\ IsInjective(given) /\ Range(given) \subseteq ids
  /\ Cardinality(ids \ Range(given)) <= SampleLimit

\* The inductive invariant of the analysis: while the provider is asked, what has been
\* collected is one annotation of each segment of the chunks before, and nothing else; a
\* chunk to be completed lacks no more than the sample lists; at the end each segment has
\* its one.
Annotation ==
  /\ stage \in {"document", "text"} => chunk = 1 /\ annotations = << >>
  /\ stage \in {"asking", "repairing", "completing"} => Collected(text, chunk, annotations)
  /\ stage = "repairing" => answer \in Seq(Int)
  /\ stage = "completing" => Completable(IdsOf(text, chunk), answer)
  /\ stage = "annotated" => annotations \in Seq(Nat) /\ Covers(annotations, Segments(text))

\* Chunks and Ids of the model are those of its text.
LEMMA ChunksAre == Chunks = GroupsOf(text) /\ \A c : Ids(c) = IdsOf(text, c)
BY DEF Chunks, GroupsOf, Ids, IdsOf

\* A chunk has segments, no segment is of two, and every segment is of one.
LEMMA ChunksOf ==
  ASSUME NEW t \in Seq(Kinds)
  PROVE  /\ Segments(t) \in Seq(Spans)
         /\ GroupsOf(t) \in Seq(Nat \X Nat)
         /\ GroupsOf(t) = << >> => DOMAIN Segments(t) = {}
         /\ GroupsOf(t) # << >> => 1 \in DOMAIN GroupsOf(t)
         /\ SeenBefore(t, 1) = {}
         /\ \A c \in DOMAIN GroupsOf(t) :
              /\ IdsOf(t, c) \in SUBSET Nat /\ IsFiniteSet(IdsOf(t, c))
              /\ Cardinality(IdsOf(t, c)) \in 1 .. GroupLimits.segments
              /\ SeenBefore(t, c) \cap IdsOf(t, c) = {}
              /\ SeenBefore(t, c + 1) = SeenBefore(t, c) \cup IdsOf(t, c)
              /\ c = Len(GroupsOf(t)) => SeenBefore(t, c + 1) = DOMAIN Segments(t)
              /\ c # Len(GroupsOf(t)) => c + 1 \in DOMAIN GroupsOf(t)
<1> DEFINE g == GroupsOf(t)
           s == Segments(t)
<1>1. s \in Seq(Spans)
  BY SegmentsTile DEF Tiles
<1>2. Len(s) \in Nat /\ DOMAIN s = 1 .. Len(s)
  BY <1>1
<1>3. /\ g \in Seq(Nat \X Nat)
      /\ \A k \in DOMAIN g : /\ 1 <= g[k][1] /\ g[k][1] < g[k][2] /\ g[k][2] <= Len(s) + 1
                             /\ g[k][2] - g[k][1] <= GroupLimits.segments
                             /\ g[k][1] \in Nat /\ g[k][2] \in Nat
      /\ \A j, k \in DOMAIN g : j < k => g[j][2] <= g[k][1]
      /\ \A i \in DOMAIN s : \E k \in DOMAIN g : i \in Places(g[k][1], g[k][2])
  <2>1. GroupLimits.segments \in Nat \ {0} /\ g = Groups(s, GroupLimits)
    BY LimitsArePositive DEF GroupsOf
  <2> HIDE DEF g, s
  <2> QED BY <2>1, <1>1, GroupsAre
<1>4. Len(g) \in Nat /\ DOMAIN g = 1 .. Len(g)
  BY <1>3
<1>5. \A c : IdsOf(t, c) = Places(g[c][1], g[c][2])
  BY DEF IdsOf
<1>6. GroupLimits.segments \in Nat \ {0}
  BY LimitsArePositive
<1> HIDE DEF g, s
<1>7. ASSUME g = << >> PROVE DOMAIN s = {}
  <2>1. Len(g) = 0
    BY <1>7
  <2>2. DOMAIN g = {}
    BY <2>1, <1>4
  <2> QED BY <2>2, <1>3
<1>8. SeenBefore(t, 1) = {}
  BY DEF SeenBefore
<1>9. ASSUME NEW c \in DOMAIN g
      PROVE  /\ IdsOf(t, c) \in SUBSET Nat /\ IsFiniteSet(IdsOf(t, c))
             /\ Cardinality(IdsOf(t, c)) \in 1 .. GroupLimits.segments
             /\ SeenBefore(t, c) \cap IdsOf(t, c) = {}
             /\ SeenBefore(t, c + 1) = SeenBefore(t, c) \cup IdsOf(t, c)
             /\ c = Len(g) => SeenBefore(t, c + 1) = DOMAIN s
             /\ c # Len(g) => c + 1 \in DOMAIN g
  <2> DEFINE a == g[c][1]
             b == g[c][2]
  <2>1. /\ a \in Nat /\ b \in Nat /\ 1 <= a /\ a < b /\ b <= Len(s) + 1 /\ b - a <= GroupLimits.segments
        /\ IdsOf(t, c) = a .. b - 1 /\ c \in Nat /\ 1 <= c /\ c <= Len(g)
    BY <1>3, <1>4, <1>5 DEF Places
  <2>2. \A k \in 1 .. c - 1 : k \in DOMAIN g /\ g[k][2] <= a /\ g[k][1] \in Nat /\ g[k][2] \in Nat
    <3> TAKE k \in 1 .. c - 1
    <3>1. k \in DOMAIN g /\ k < c
      BY <2>1, <1>4
    <3> QED BY <3>1, <1>3
  <2>3. SeenBefore(t, c) \cap IdsOf(t, c) = {}
    <3>1. \A k \in 1 .. c - 1 : IdsOf(t, k) \cap IdsOf(t, c) = {}
      <4> SUFFICES ASSUME NEW k \in 1 .. c - 1, NEW x \in IdsOf(t, k), x \in IdsOf(t, c) PROVE FALSE
        OBVIOUS
      <4>1. x \in g[k][1] .. g[k][2] - 1 /\ x \in a .. b - 1
        BY <2>1, <1>5 DEF Places
      <4> DEFINE y == g[k][1]
                 z == g[k][2]
      <4>2. y \in Nat /\ z \in Nat /\ z <= a /\ x \in y .. z - 1
        BY <2>2, <4>1
      <4> HIDE DEF a, b, y, z
      <4> QED BY <4>1, <4>2, <2>1
    <3> QED BY <3>1 DEF SeenBefore
  <2> HIDE DEF a, b
  <2>4. 1 .. (c + 1) - 1 = (1 .. c - 1) \cup {c}
    BY <2>1
  <2>5. SeenBefore(t, c + 1) = SeenBefore(t, c) \cup IdsOf(t, c)
    BY <2>4 DEF SeenBefore
  <2>6. ASSUME c = Len(g) PROVE SeenBefore(t, c + 1) = DOMAIN s
    <3>1. 1 .. (c + 1) - 1 = DOMAIN g
      BY <2>6, <1>4
    <3>2. \A k \in DOMAIN g : IdsOf(t, k) \subseteq DOMAIN s
      <4> TAKE k \in DOMAIN g
      <4> DEFINE y == g[k][1]
                 z == g[k][2]
      <4>1. y \in Nat /\ z \in Nat /\ 1 <= y /\ z <= Len(s) + 1 /\ IdsOf(t, k) = y .. z - 1
        BY <1>3, <1>5 DEF Places
      <4> HIDE DEF y, z
      <4> QED BY <4>1, <1>2
    <3>3. \A i \in DOMAIN s : \E k \in DOMAIN g : i \in IdsOf(t, k)
      BY <1>3, <1>5
    <3> QED BY <3>1, <3>2, <3>3 DEF SeenBefore
  <2>7. IsFiniteSet(IdsOf(t, c)) /\ Cardinality(IdsOf(t, c)) = b - a
    <3>1. a \in Int /\ b - 1 \in Int /\ ~(a > b - 1) /\ (b - 1) - a + 1 = b - a
      BY <2>1
    <3>2. IsFiniteSet(a .. b - 1) /\ Cardinality(a .. b - 1) = IF a > b - 1 THEN 0 ELSE (b - 1) - a + 1
      BY <3>1, FS_Interval
    <3> QED BY <3>1, <3>2, <2>1
  <2>8. IdsOf(t, c) \in SUBSET Nat /\ b - a \in 1 .. GroupLimits.segments
    BY <2>1, <1>6
  <2>9. c # Len(g) => c + 1 \in DOMAIN g
    BY <2>1, <1>4
  <2> QED BY <2>3, <2>5, <2>6, <2>7, <2>8, <2>9
<1>10. g # << >> => 1 \in DOMAIN g
  BY <1>3, <1>4
<1> QED BY <1>1, <1>3, <1>7, <1>8, <1>9, <1>10 DEF g, s

\* The next chunk or, after the last, the whole chapter.
LEMMA Accepting ==
  ASSUME TextsAreTyped, Collected(text, chunk, annotations), UNCHANGED text,
         NEW given \in Seq(Nat), IsInjective(given), Range(given) = IdsOf(text, chunk),
         Judged(given, "accepted")
  PROVE  Annotation'
<1> DEFINE g == GroupsOf(text)
<1>1. /\ annotations' = annotations \o given /\ chunk' = chunk + 1
      /\ stage' = IF chunk = Len(g) THEN "annotated" ELSE "asking"
  BY ChunksAre DEF Judged
<1>2. chunk \in DOMAIN g /\ annotations \in Seq(Nat) /\ IsInjective(annotations) /\ Range(annotations) = SeenBefore(text, chunk)
  BY DEF Collected
<1>3. /\ SeenBefore(text, chunk) \cap IdsOf(text, chunk) = {}
      /\ SeenBefore(text, chunk + 1) = SeenBefore(text, chunk) \cup IdsOf(text, chunk)
      /\ chunk = Len(g) => SeenBefore(text, chunk + 1) = DOMAIN Segments(text)
      /\ chunk # Len(g) => chunk + 1 \in DOMAIN g
  BY <1>2, ChunksOf DEF TextsAreTyped
<1>4. /\ annotations \o given \in Seq(Nat) /\ IsInjective(annotations \o given)
      /\ Range(annotations \o given) = Range(annotations) \cup Range(given)
  BY <1>2, <1>3, InjectiveTogether
<1> HIDE DEF g
<1>5. CASE chunk = Len(g)
  <2>1. stage' = "annotated" /\ annotations' \in Seq(Nat) /\ Covers(annotations', Segments(text))
    BY <1>1, <1>2, <1>3, <1>4, <1>5 DEF Covers
  <2> QED BY <2>1 DEF Annotation
<1>6. CASE chunk # Len(g)
  <2>1. stage' = "asking" /\ Collected(text, chunk', annotations')
    BY <1>1, <1>2, <1>3, <1>4, <1>6 DEF Collected, g
  <2> QED BY <2>1 DEF Annotation
<1> QED BY <1>5, <1>6

\* What is not accepted is completed only if it lacks little.
LEMMA JudgedIs ==
  ASSUME TextsAreTyped, Collected(text, chunk, annotations), UNCHANGED text, NEW given \in Seq(Int),
         Judged(given, Verdict(given, Ids(chunk), Policy))
  PROVE  Annotation'
<1> DEFINE ids == IdsOf(text, chunk)
           v == Verdict(given, ids, Policy)
<1>1. Judged(given, v)
  BY ChunksAre
<1>2. chunk \in DOMAIN GroupsOf(text)
  BY DEF Collected
<1>3. ids \in SUBSET Nat /\ IsFiniteSet(ids) /\ Cardinality(ids) \in 1 .. GroupLimits.segments
  BY <1>2, ChunksOf DEF TextsAreTyped
<1>4. /\ v = "accepted" => Wrong(given, ids) = {} /\ ids \ Range(given) = {}
      /\ v = "incomplete" => Wrong(given, ids) = {} /\ ids \ Range(given) # {} /\ ~TooLow(ids \ Range(given), ids, Policy)
  BY VerdictIs
<1> HIDE DEF ids, v
<1>5. CASE v = "accepted"
  <2>1. given \in Seq(Nat) /\ IsInjective(given) /\ Range(given) = ids
    BY <1>3, <1>4, <1>5, NothingWrong
  <2>2. Judged(given, "accepted")
    BY <1>1, <1>5
  <2> QED BY <2>1, <2>2, Accepting DEF ids
<1>6. CASE v = "incomplete"
  <2>1. stage' = "completing" /\ answer' = given /\ UNCHANGED <<annotations, chunk>>
    BY <1>1, <1>6 DEF Judged
  <2>2. given \in Seq(Nat) /\ IsInjective(given) /\ Range(given) \subseteq ids
    BY <1>3, <1>4, <1>6, NothingWrong
  <2> DEFINE rest == ids \ Range(given)
             n == Cardinality(ids)
             m == Cardinality(rest)
  <2>3. m \in Nat /\ m <= n /\ m # 0
    <3>1. rest \in SUBSET ids /\ rest # {}
      BY <1>4, <1>6
    <3> HIDE DEF rest
    <3>2. IsFiniteSet(rest) /\ m <= n
      BY <3>1, <1>3, FS_Subset
    <3>3. m \in Nat /\ m # 0
      BY <3>1, <3>2, FS_CardinalityType, FS_EmptySet
    <3> QED BY <3>2, <3>3
  <2>4. ~(n >= Policy.low /\ 100 * (n - m) < Policy.percent * n)
    BY <1>4, <1>6 DEF TooLow
  <2> HIDE DEF rest, n, m
  <2>5. n \in 1 .. GroupLimits.segments /\ m \in 1 .. GroupLimits.segments
    <3>1. GroupLimits.segments \in Nat
      BY LimitsArePositive
    <3> QED BY <3>1, <2>3, <1>3 DEF n
  <2>6. n < Policy.low \/ 100 * (n - m) >= Policy.percent * n
    <3>1. Policy.low \in Nat /\ Policy.percent \in Nat
      BY PolicyIsOfNumbers
    <3>2. n \in Nat /\ m \in Nat
      BY <2>3, <2>5
    <3> DEFINE p == Policy.percent * n
               q == 100 * (n - m)
    <3>3. p \in Int /\ q \in Int
      BY <3>1, <3>2
    <3>4. ~(n >= Policy.low /\ q < p)
      BY <2>4
    <3> HIDE DEF p, q
    <3>5. n < Policy.low \/ q >= p
      BY <3>1, <3>2, <3>3, <3>4
    <3> QED BY <3>5 DEF p, q
  <2>7. m <= SampleLimit
    BY <2>3, <2>5, <2>6, SampleCoversWhatMayBeMissing
  <2>8. Completable(ids, given)
    BY <2>2, <2>7 DEF Completable, rest, m
  <2>9. stage' = "completing" /\ Collected(text', chunk', annotations') /\ Completable(IdsOf(text', chunk'), answer')
    BY <2>1, <2>8 DEF ids
  <2> QED BY <2>9 DEF Annotation
<1>7. CASE v # "accepted" /\ v # "incomplete"
  <2>1. stage' = "unread"
    BY <1>1, <1>7 DEF Judged
  <2> QED BY <2>1 DEF Annotation
<1> QED BY <1>5, <1>6, <1>7

\* What a provider may answer is a sequence of segment numbers, known or not.
LEMMA AnswersAre ==
  ASSUME TextsAreTyped, Collected(text, chunk, annotations)
  PROVE  Answers \subseteq Seq(Int)
<1>1. Ids(chunk) \in SUBSET Nat
  BY ChunksAre, ChunksOf DEF TextsAreTyped, Collected
<1>2. SUFFICES ASSUME NEW n, NEW given \in [1 .. n -> Ids(chunk) \cup {Unknown, Nameless}],
                      n \in 0 .. Cardinality(Ids(chunk)) + 1
               PROVE  given \in Seq(Int)
  BY DEF Answers
<1>3. Ids(chunk) \cup {Unknown, Nameless} \subseteq Int
  BY <1>1 DEF Unknown, Nameless
<1>4. n \in Nat
  <2>1. Cardinality(Ids(chunk)) \in Nat
    <3>1. Cardinality(IdsOf(text, chunk)) \in 1 .. GroupLimits.segments
      BY ChunksOf DEF TextsAreTyped, Collected
    <3>2. GroupLimits.segments \in Nat
      BY LimitsArePositive
    <3> QED BY <3>1, <3>2, ChunksAre
  <2> QED BY <2>1, <1>2
<1>5. \A k \in 1 .. n : given[k] \in Int
  BY <1>2, <1>3
<1>6. given \in [1 .. n -> Int]
  BY <1>2, <1>5
<1> QED BY <1>4, <1>6

\* What a repair makes is again a sequence of numbers; the verdict on it says the rest.
LEMMA RepairedIs ==
  ASSUME TextsAreTyped, Collected(text, chunk, annotations), answer \in Seq(Int),
         NEW again \in Repairs(Rebound(answer, Ids(chunk)), Ids(chunk) \ Range(Kept(answer, Ids(chunk))))
  PROVE  Kept(answer, Ids(chunk)) \o again \in Seq(Int)
<1>1. Ids(chunk) \in SUBSET Nat
  BY ChunksAre, ChunksOf DEF TextsAreTyped, Collected
<1>2. Kept(answer, Ids(chunk)) \in Seq(Int)
  <2>1. DOMAIN answer \ Wrong(answer, Ids(chunk)) \in SUBSET DOMAIN answer
    OBVIOUS
  <2> QED BY <2>1, PickedIs DEF Kept
<1>3. Rebound(answer, Ids(chunk)) \in Nat
  <2> DEFINE S == {k \in Wrong(answer, Ids(chunk)) : answer[k] # Nameless}
  <2>1. S \in SUBSET (1 .. Len(answer)) /\ Len(answer) \in Nat
    BY DEF Wrong
  <2> HIDE DEF S
  <2>2. IsFiniteSet(S)
    <3>1. 1 \in Int /\ Len(answer) \in Int
      BY <2>1
    <3>2. IsFiniteSet(1 .. Len(answer))
      BY <3>1, FS_Interval
    <3> QED BY <2>1, <3>2, FS_Subset
  <2>3. Cardinality(S) \in Nat
    BY <2>2, FS_CardinalityType
  <2> QED BY <2>3 DEF Rebound, S
<1>4. again \in [1 .. Rebound(answer, Ids(chunk)) -> Ids(chunk) \ Range(Kept(answer, Ids(chunk)))]
  BY DEF Repairs, Injection
<1> DEFINE n == Rebound(answer, Ids(chunk))
           T == Ids(chunk) \ Range(Kept(answer, Ids(chunk)))
<1>5. n \in Nat /\ again \in [1 .. n -> T] /\ T \subseteq Int
  BY <1>1, <1>3, <1>4
<1> HIDE DEF n, T
<1>6. again \in Seq(Int)
  <2>1. \A k \in 1 .. n : again[k] \in Int
    BY <1>5
  <2>2. again \in [1 .. n -> Int]
    BY <1>5, <2>1
  <2> QED BY <1>5, <2>2
<1> QED BY <1>2, <1>6

\* A completed chunk has each of its segments once: the sample lists all that may be
\* missing.
LEMMA CompletedIs ==
  ASSUME TextsAreTyped, Collected(text, chunk, annotations), Completable(IdsOf(text, chunk), answer),
         NEW sample \in kSubset(Min({SampleLimit, Cardinality(Missing)}), Missing),
         NEW given \in Repairs(Cardinality(sample), sample)
  PROVE  /\ answer \o given \in Seq(Nat) /\ IsInjective(answer \o given)
         /\ Range(answer \o given) = IdsOf(text, chunk)
<1> DEFINE ids == IdsOf(text, chunk)
           rest == ids \ Range(answer)
           m == Cardinality(rest)
<1>1. ids \in SUBSET Nat /\ IsFiniteSet(ids)
  BY ChunksOf DEF TextsAreTyped, Collected
<1>2. Missing = rest
  BY ChunksAre DEF Missing
<1>3. answer \in Seq(Nat) /\ IsInjective(answer) /\ Range(answer) \subseteq ids /\ m <= SampleLimit
  BY DEF Completable
<1>4. rest \in SUBSET ids
  OBVIOUS
<1>5. rest \cap Range(answer) = {} /\ rest \cup Range(answer) = ids
  BY <1>3
<1> HIDE DEF ids, rest
<1>6. IsFiniteSet(rest) /\ m \in Nat
  BY <1>1, <1>4, FS_Subset, FS_CardinalityType
<1>7. SampleLimit \in Nat
  BY PolicyIsOfNumbers
<1> HIDE DEF m
<1>8. Min({SampleLimit, m}) = m
  <2>1. {SampleLimit, m} \in SUBSET Nat /\ {SampleLimit, m} # {}
    BY <1>6, <1>7
  <2>2. Min({SampleLimit, m}) \in {SampleLimit, m} /\ \A y \in {SampleLimit, m} : Min({SampleLimit, m}) <= y
    BY <2>1, MinIs
  <2> QED BY <2>2, <1>3, <1>6, <1>7
<1>9. sample \in SUBSET rest /\ Cardinality(sample) = m
  <2>1. sample \in kSubset(m, rest)
    BY <1>2, <1>8 DEF m
  <2> QED BY <2>1 DEF kSubset
<1>10. sample = rest
  BY <1>6, <1>9, FS_Subset DEF m
<1>11. given \in Injection(1 .. m, rest)
  BY <1>9, <1>10 DEF Repairs
<1>12. given \in Surjection(1 .. m, rest)
  <2>1. Cardinality(1 .. m) = m
    <3>1. 1 \in Int /\ m \in Int
      BY <1>6
    <3>2. Cardinality(1 .. m) = IF 1 > m THEN 0 ELSE m - 1 + 1
      BY <3>1, FS_Interval
    <3> QED BY <3>2, <1>6
  <2> QED BY <2>1, <1>6, <1>11, FS_Injection DEF m
<1>13. given \in [1 .. m -> rest] /\ IsInjective(given) /\ \A x \in rest : \E k \in 1 .. m : given[k] = x
  BY <1>11, <1>12 DEF Injection, Surjection
<1>14. given \in Seq(Nat) /\ DOMAIN given = 1 .. m
  <2>1. rest \subseteq Nat
    BY <1>1, <1>4
  <2>2. \A k \in 1 .. m : given[k] \in Nat
    BY <2>1, <1>13
  <2>3. given \in [1 .. m -> Nat]
    BY <2>2, <1>13
  <2> QED BY <2>3, <1>6
<1>15. Range(given) = rest
  BY <1>13, <1>14 DEF Range
<1>16. /\ answer \o given \in Seq(Nat) /\ IsInjective(answer \o given)
       /\ Range(answer \o given) = Range(answer) \cup Range(given)
  BY <1>3, <1>5, <1>13, <1>14, <1>15, InjectiveTogether
<1> QED BY <1>5, <1>15, <1>16 DEF ids

\* Before an analysis nothing is collected.
LEMMA AnnotationAtFirst == ReadingInit => Annotation
BY DEF ReadingInit, Annotation

\* Every step of the reading keeps what is collected right.
LEMMA AnnotationStays == TextsAreTyped /\ Annotation /\ [ReadingNext]_reading => Annotation'
<1> SUFFICES ASSUME TextsAreTyped, Annotation, [ReadingNext]_reading PROVE Annotation'
  OBVIOUS
<1>1. ASSUME NEW line \in Lines, WriteLine(line) PROVE Annotation'
  BY <1>1 DEF WriteLine, Annotation, annotating
<1>2. ASSUME Import PROVE Annotation'
  BY <1>2 DEF Import, Annotation, annotating
<1>3. ASSUME NEW kind \in Kinds, Type(kind) PROVE Annotation'
  BY <1>3 DEF Type, Annotation, annotating
<1>4. ASSUME Analyze PROVE Annotation'
  <2>1. /\ chunk' = 1 /\ annotations' = << >> /\ UNCHANGED text
        /\ Readable(text) => stage' = IF GroupsOf(text) = << >> THEN "annotated" ELSE "asking"
        /\ ~Readable(text) => stage' = "unread"
    BY <1>4, ChunksAre DEF Analyze, Annotation, annotating
  <2>2. << >> \in Seq(Nat) /\ IsInjective(<< >>) /\ Range(<< >>) = {}
    BY DEF IsInjective, Range
  <2>5. CASE ~Readable(text)
    BY <2>1, <2>5 DEF Annotation
  <2>3. CASE Readable(text) /\ GroupsOf(text) = << >>
    <3>1. DOMAIN Segments(text) = {}
      BY <2>3, ChunksOf DEF TextsAreTyped
    <3>2. stage' = "annotated" /\ annotations' \in Seq(Nat) /\ Covers(annotations', Segments(text'))
      BY <2>1, <2>2, <2>3, <3>1 DEF Covers
    <3> QED BY <3>2 DEF Annotation
  <2>4. CASE Readable(text) /\ GroupsOf(text) # << >>
    <3>1. 1 \in DOMAIN GroupsOf(text) /\ SeenBefore(text, 1) = {}
      BY <2>4, ChunksOf DEF TextsAreTyped
    <3>2. stage' = "asking" /\ Collected(text', chunk', annotations')
      BY <2>1, <2>2, <2>4, <3>1 DEF Collected
    <3> QED BY <3>2 DEF Annotation
  <2> QED BY <2>3, <2>4, <2>5
<1>5. ASSUME Answer PROVE Annotation'
  <2>1. Collected(text, chunk, annotations) /\ UNCHANGED text
    BY <1>5 DEF Answer, Annotation
  <2>2. PICK given \in Answers :
          IF Verdict(given, Ids(chunk), Policy) = "reference"
          THEN stage' = "repairing" /\ answer' = given /\ UNCHANGED <<annotations, chunk>>
          ELSE Judged(given, Verdict(given, Ids(chunk), Policy))
    BY <1>5 DEF Answer
  <2>3. given \in Seq(Int)
    BY <2>1, AnswersAre
  <2>4. CASE Verdict(given, Ids(chunk), Policy) = "reference"
    <3>1. stage' = "repairing" /\ answer' \in Seq(Int) /\ Collected(text', chunk', annotations')
      BY <2>1, <2>2, <2>3, <2>4
    <3> QED BY <3>1 DEF Annotation
  <2>5. CASE Verdict(given, Ids(chunk), Policy) # "reference"
    BY <2>1, <2>2, <2>3, <2>5, JudgedIs
  <2> QED BY <2>4, <2>5
<1>6. ASSUME Repair PROVE Annotation'
  <2>1. Collected(text, chunk, annotations) /\ answer \in Seq(Int) /\ UNCHANGED text
    BY <1>6 DEF Repair, Annotation
  <2>2. PICK again \in Repairs(Rebound(answer, Ids(chunk)), Ids(chunk) \ Range(Kept(answer, Ids(chunk)))) :
          Judged(Kept(answer, Ids(chunk)) \o again, Verdict(Kept(answer, Ids(chunk)) \o again, Ids(chunk), Policy))
    BY <1>6 DEF Repair
  <2>3. Kept(answer, Ids(chunk)) \o again \in Seq(Int)
    BY <2>1, RepairedIs
  <2> QED BY <2>1, <2>2, <2>3, JudgedIs
<1>7. ASSUME Complete PROVE Annotation'
  <2>1. Collected(text, chunk, annotations) /\ Completable(IdsOf(text, chunk), answer) /\ UNCHANGED text
    BY <1>7 DEF Complete, Annotation
  <2>2. PICK sample \in kSubset(Min({SampleLimit, Cardinality(Missing)}), Missing) :
          \E given \in Repairs(Cardinality(sample), sample) : Judged(answer \o given, "accepted")
    BY <1>7 DEF Complete
  <2>3. PICK given \in Repairs(Cardinality(sample), sample) : Judged(answer \o given, "accepted")
    BY <2>2
  <2>4. /\ answer \o given \in Seq(Nat) /\ IsInjective(answer \o given)
        /\ Range(answer \o given) = IdsOf(text, chunk)
    BY <2>1, CompletedIs
  <2> QED BY <2>1, <2>3, <2>4, Accepting
<1>8. ASSUME GiveUp \/ Apply \/ Begin \/ Crash \/ Assemble PROVE Annotation'
  <2>1. stage' \in {"unread", "ready", "rendering", "spoken"}
    BY <1>8 DEF GiveUp, Apply, Begin, Crash, Assemble
  <2> QED BY <2>1 DEF Annotation
<1>9. ASSUME NEW u \in DOMAIN units, Fail(u) PROVE Annotation'
  BY <1>9 DEF Fail, Annotation
<1>10. ASSUME UNCHANGED <<stage, text, chunk, answer, annotations>> PROVE Annotation'
  <2>1. /\ stage' = stage /\ text' = text /\ chunk' = chunk /\ answer' = answer /\ annotations' = annotations
    BY <1>10
  <2> QED BY <2>1 DEF Annotation
<1>11. ASSUME NEW u \in DOMAIN units, Send(u) \/ Hear(u) \/ Retry(u)
       PROVE  UNCHANGED <<stage, text, chunk, answer, annotations>>
  BY <1>11 DEF Send, Hear, Retry, written, annotating
<1>12. ASSUME UNCHANGED reading PROVE UNCHANGED <<stage, text, chunk, answer, annotations>>
  BY <1>12 DEF reading, written, annotating
<1> QED BY <1>1, <1>2, <1>3, <1>4, <1>5, <1>6, <1>7, <1>8, <1>9, <1>10, <1>11, <1>12 DEF ReadingNext

\* What is collected is always right.
LEMMA AlwaysAnnotation == ReadingSpec => [](TextsAreTyped /\ Annotation)
<1>1. TextsAreTyped /\ Annotation /\ [ReadingNext]_reading => (TextsAreTyped /\ Annotation)'
  BY WrittenStays, AnnotationStays
<1>2. ReadingInit => TextsAreTyped /\ Annotation
  BY WrittenAtFirst, AnnotationAtFirst
<1> QED BY <1>1, <1>2, PTL DEF ReadingSpec

\* What the analyzer accepts (analyzer._call_structured_annotations) annotates each segment
\* of the chapter once, for every text, every limit of a chunk and every answer, repair and
\* completion.
THEOREM AcceptedAnnotatesAll == ReadingSpec => []AcceptedIsComplete
<1>1. Annotation => AcceptedIsComplete
  BY DEF Annotation, AcceptedIsComplete
<1> QED BY <1>1, AlwaysAnnotation, PTL

-----------------------------------------------------------------------------
(* The speech plan *)

\* A piece ends after it begins, and not beyond what is cut.
LEMMA PieceEnds ==
  ASSUME NEW t \in Seq(Kinds), NEW a \in Nat, NEW b \in Nat, NEW max \in Nat \ {0}, NEW i \in Places(a, b)
  PROVE  (IF b - i <= max THEN b ELSE Cut(t, a, i, b, max)) \in i + 1 .. b
<1> DEFINE within == {c \in Boundaries(t, a, b) : i < c /\ c <= i + max}
           primary == {c \in within : \/ t[c - 1] \in Primary
                                      \/ c - 2 >= a /\ t[c - 2] \in Primary}
<1>1. i \in Nat /\ a <= i /\ i < b /\ i + max \in Nat
  BY DEF Places
<1>2. Boundaries(t, a, b) \subseteq Nat
  <2>1. ASSUME NEW j \in Places(a, b) PROVE After(t, {"close", "quote"}, j + 1, b) \in Nat
    <3>1. j + 1 \in Nat /\ j + 1 <= b
      BY <2>1 DEF Places
    <3>2. After(t, {"close", "quote"}, j + 1, b) \in j + 1 .. b
      BY <3>1, AfterIs
    <3> QED BY <3>1, <3>2
  <2> QED BY <2>1 DEF Boundaries
<1>3. \A c \in within : c \in Nat /\ i < c /\ c <= i + max
  BY <1>2
<1>4. primary \subseteq within
  OBVIOUS
<1>5. Cut(t, a, i, b, max) = IF primary # {} THEN Max(primary) ELSE IF within # {} THEN Max(within) ELSE i + max
  BY DEF Cut
<1> HIDE DEF within, primary
<1>6. \A S \in SUBSET within : S # {} => Max(S) \in within
  <2> SUFFICES ASSUME NEW S \in SUBSET within, S # {} PROVE Max(S) \in within
    OBVIOUS
  <2>1. S \in SUBSET (0 .. i + max)
    BY <1>1, <1>3
  <2> DEFINE n == i + max
  <2>2. n \in Nat /\ S \in SUBSET (0 .. n)
    BY <2>1, <1>1
  <2> HIDE DEF n
  <2>3. Max(S) \in S
    BY <2>2, MaxIs
  <2> QED BY <2>3
<1>7. Cut(t, a, i, b, max) \in i + 1 .. i + max
  <2>1. CASE primary # {}
    BY <2>1, <1>1, <1>3, <1>4, <1>5, <1>6
  <2>2. CASE primary = {} /\ within # {}
    BY <2>2, <1>1, <1>3, <1>5, <1>6
  <2>3. CASE primary = {} /\ within = {}
    BY <2>3, <1>1, <1>5
  <2> QED BY <2>1, <2>2, <2>3
<1> QED BY <1>1, <1>7

\* Pieces that are in order, within the places from a to b, each a pause or with something
\* said.
InPieces(t, c, a, b) ==
  /\ c \in Seq(Nat \X Nat) /\ DOMAIN c = 1 .. Len(c) /\ Len(c) \in Nat
  /\ \A k \in DOMAIN c : /\ c[k][1] \in Nat /\ c[k][2] \in Nat
                         /\ a <= c[k][1] /\ c[k][1] <= c[k][2] /\ c[k][2] <= b
                         /\ c[k][1] = c[k][2] \/ \E i \in Places(c[k][1], c[k][2]) : t[i] \notin Spacing
  /\ \A j, k \in DOMAIN c : j < k => c[j][2] <= c[k][1]

\* So is what is spoken of a stretch, which leaves out nothing but spaces,
LEMMA SpokenPiecesAre ==
  ASSUME NEW t \in Seq(Kinds), NEW a \in Nat, NEW b \in Nat, NEW max \in Nat \ {0},
         NEW c, c = SpokenPieces(t, a, b, max)
  PROVE  /\ InPieces(t, c, a, b)
         /\ \A i \in Places(a, b) : t[i] \notin Spacing =>
              \E k \in DOMAIN c : i \in Places(c[k][1], c[k][2])
<1> DEFINE x == Stripped(t, a, b)[1]
           y == Stripped(t, a, b)[2]
           next == [i \in Places(x, y) |-> IF y - i <= max THEN y ELSE Cut(t, x, i, y, max)]
           p == Pieces(t, x, y, max)
           Tells(piece) == \E i \in Places(piece[1], piece[2]) : t[i] \notin Spacing
           spoken == {k \in DOMAIN p : Tells(p[k])}
<1>1. c = Picked(p, spoken)
  BY DEF SpokenPieces
<1>2. /\ x \in Nat /\ y \in Nat /\ x <= y /\ a <= x
      /\ x < y => y <= b
      /\ \A i \in Places(a, b) : t[i] \notin Spacing => i \in Places(x, y)
  <2>1. CASE \A i \in Places(a, b) : t[i] \in Spacing
    <3>1. Stripped(t, a, b) = <<a, a>>
      BY <2>1, StrippedIs
    <3>2. x = a /\ y = a
      BY <3>1
    <3> QED BY <2>1, <3>2
  <2>2. CASE \E i \in Places(a, b) : t[i] \notin Spacing
    <3>1. PICK low \in Places(a, b), high \in Places(a, b) :
            /\ Stripped(t, a, b) = <<low, high + 1>>
            /\ t[low] \notin Spacing /\ t[high] \notin Spacing
            /\ \A i \in Places(a, b) : t[i] \notin Spacing => low <= i /\ i <= high
      BY <2>2, StrippedIs
    <3>2. x = low /\ y = high + 1
      BY <3>1
    <3>3. low \in Nat /\ high \in Nat /\ a <= low /\ low <= high /\ high < b
      BY <3>1 DEF Places
    <3>4. \A i \in Places(a, b) : t[i] \notin Spacing => i \in Places(x, y)
      BY <3>1, <3>2, <3>3 DEF Places
    <3> QED BY <3>2, <3>3, <3>4
  <2> QED BY <2>1, <2>2
<1>3. p = Cuts(next, x, y)
  BY DEF Pieces
<1> HIDE DEF x, y, p
<1>4. \A i \in Places(x, y) : next[i] \in i + 1 .. y
  BY <1>2, PieceEnds
<1> HIDE DEF next
<1>5. /\ p \in Seq(Nat \X Nat)
      /\ \A k \in DOMAIN p : /\ p[k][1] \in Places(x, y) /\ p[k][1] \in Nat
                             /\ p[k][2] \in p[k][1] + 1 .. y
      /\ \A j, k \in DOMAIN p : j < k => p[j][2] <= p[k][1]
      /\ \A i \in Places(x, y) : \E k \in DOMAIN p : i \in Places(p[k][1], p[k][2])
  BY <1>2, <1>3, <1>4, CutsFacts
<1>6. spoken \in SUBSET DOMAIN p /\ \A k \in spoken : Tells(p[k])
  OBVIOUS
<1>7. \A k \in DOMAIN p : Tells(p[k]) => k \in spoken
  OBVIOUS
<1> DEFINE o == InOrder(spoken)
<1> HIDE DEF spoken
<1>8. /\ c \in Seq(Nat \X Nat)
      /\ o \in [DOMAIN c -> spoken]
      /\ \A k \in DOMAIN c : c[k] = p[o[k]]
      /\ \A j, k \in DOMAIN c : j < k => o[j] < o[k]
      /\ \A i \in spoken : \E k \in DOMAIN c : o[k] = i
  <2>1. p \in Seq(Nat \X Nat) /\ spoken \in SUBSET DOMAIN p
    BY <1>5, <1>6
  <2> QED BY <1>1, <2>1, PickedIs
<1> HIDE DEF o, Tells
<1>9. ASSUME NEW k \in DOMAIN c
      PROVE  /\ c[k][1] \in Nat /\ c[k][2] \in Nat
             /\ a <= c[k][1] /\ c[k][1] < c[k][2] /\ c[k][2] <= b
             /\ \E i \in Places(c[k][1], c[k][2]) : t[i] \notin Spacing
  <2>1. o[k] \in DOMAIN p /\ o[k] \in spoken /\ c[k] = p[o[k]]
    BY <1>6, <1>8
  <2> DEFINE q == p[o[k]]
             l == q[1]
             h == q[2]
  <2>2. l \in Places(x, y) /\ l \in Nat /\ h \in l + 1 .. y
    BY <2>1, <1>5
  <2>3. Tells(c[k])
    BY <2>1, <1>6
  <2>4. c[k][1] = l /\ c[k][2] = h
    BY <2>1
  <2> HIDE DEF l, h
  <2>5. h \in Nat /\ x <= l /\ l < h /\ h <= y
    BY <2>2, <1>2 DEF Places
  <2>6. a <= l /\ h <= b
    BY <2>2, <2>5, <1>2
  <2> QED BY <2>2, <2>3, <2>4, <2>5, <2>6 DEF Tells
<1>10. ASSUME NEW j \in DOMAIN c, NEW k \in DOMAIN c, j < k PROVE c[j][2] <= c[k][1]
  <2>1. o[j] \in DOMAIN p /\ o[k] \in DOMAIN p /\ o[j] < o[k] /\ c[j] = p[o[j]] /\ c[k] = p[o[k]]
    BY <1>6, <1>8, <1>10
  <2> QED BY <2>1, <1>5
<1>11. ASSUME NEW i \in Places(a, b), t[i] \notin Spacing
       PROVE  \E k \in DOMAIN c : i \in Places(c[k][1], c[k][2])
  <2>1. i \in Places(x, y)
    BY <1>2, <1>11
  <2>2. PICK m \in DOMAIN p : i \in Places(p[m][1], p[m][2])
    BY <2>1, <1>5
  <2>3. m \in spoken
    BY <2>2, <1>7, <1>11 DEF Tells
  <2>4. PICK k \in DOMAIN c : o[k] = m
    BY <2>3, <1>8
  <2> QED BY <2>2, <2>4, <1>8
<1>12. DOMAIN c = 1 .. Len(c) /\ Len(c) \in Nat
  BY <1>8
<1>13. \A k \in DOMAIN c : c[k][1] <= c[k][2]
  BY <1>9
<1>14. InPieces(t, c, a, b)
  BY <1>8, <1>9, <1>10, <1>12, <1>13 DEF InPieces
<1> QED BY <1>11, <1>14

\* a single pause,
LEMMA PauseIsPiece ==
  ASSUME NEW t, NEW a \in Nat, NEW b \in Nat, a <= b
  PROVE  InPieces(t, <<Pause(a)>>, a, b) /\ Len(<<Pause(a)>>) = 1
<1> DEFINE c == <<Pause(a)>>
<1>1. /\ c \in Seq(Nat \X Nat) /\ DOMAIN c = 1 .. 1 /\ Len(c) = 1 /\ c[1] = <<a, a>>
  BY DEF Pause
<1> HIDE DEF c
<1>2. \A k \in DOMAIN c : k = 1
  BY <1>1
<1>3. InPieces(t, c, a, b)
  BY <1>1, <1>2 DEF InPieces
<1> QED BY <1>1, <1>3 DEF c

\* and so is what is spoken of a segment, which has one pause for all where _tts_text replaces it
\* and every letter where it does not.
LEMMA SpokenOfIs ==
  ASSUME NEW t \in Seq(Kinds), NEW book, NEW item, item.from \in Nat, item.to \in Nat,
         NEW max \in Nat \ {0}, NEW c, c = SpokenOf(t, book, item, max)
  PROVE  /\ InPieces(t, c, item.from, item.to)
         /\ IsReplaced(t, book, item) => Len(c) = 1
         /\ ~IsReplaced(t, book, item) => \A i \in Places(item.from, item.to) : t[i] \in Letters =>
              \E p \in DOMAIN c : i \in Places(c[p][1], c[p][2])
<1> DEFINE a == item.from
           b == item.to
           said == Has(t, <<a, b>>, Letters)
<1>1. CASE IsReplaced(t, book, item)
  <2>1. c = <<Pause(a)>>
    BY <1>1 DEF SpokenOf
  <2>2. a <= b
    BY <1>1 DEF IsReplaced, Has, Places
  <2> QED BY <1>1, <2>1, <2>2, PauseIsPiece
<1>2. CASE ~IsReplaced(t, book, item) /\ said
  <2>1. c = SpokenPieces(t, a, b, max)
    BY <1>2 DEF SpokenOf
  <2> HIDE DEF a, b
  <2>2. a \in Nat /\ b \in Nat
    BY DEF a, b
  <2>3. \A i : t[i] \in Letters => t[i] \notin Spacing
    BY DEF Letters, Spacing
  <2>4. InPieces(t, c, a, b) /\ \A i \in Places(a, b) : t[i] \notin Spacing =>
          \E p \in DOMAIN c : i \in Places(c[p][1], c[p][2])
    BY <2>1, <2>2, SpokenPiecesAre
  <2> QED BY <2>3, <2>4, <1>2 DEF a, b
<1>3. CASE ~IsReplaced(t, book, item) /\ ~said
  <2>1. c = << >>
    BY <1>3 DEF SpokenOf
  <2>2. InPieces(t, << >>, a, b)
    <3>1. << >> \in Seq(Nat \X Nat) /\ Len(<< >>) = 0 /\ DOMAIN << >> = {} /\ 1 .. 0 = {}
      OBVIOUS
    <3> QED BY <3>1 DEF InPieces
  <2>3. \A i \in Places(a, b) : t[i] \notin Letters
    BY <1>3 DEF Has
  <2> QED BY <1>3, <2>1, <2>2, <2>3
<1> QED BY <1>1, <1>2, <1>3

\* and so are the requests of a unit, of which a pause is one.
LEMMA CallsAre ==
  ASSUME NEW t \in Seq(Kinds), NEW unit, unit.from \in Nat, unit.to \in Nat,
         NEW max \in Nat \ {0}, NEW c, c = Calls(t, unit, max)
  PROVE  /\ InPieces(t, c, unit.from, unit.to)
         /\ IsPause(unit) => Len(c) = 1
         /\ \A i \in Places(unit.from, unit.to) : t[i] \notin Spacing =>
              \E p \in DOMAIN c : i \in Places(c[p][1], c[p][2])
<1> DEFINE a == unit.from
           b == unit.to
<1>1. CASE IsPause(unit)
  <2>1. c = <<Pause(a)>> /\ a = b
    BY <1>1 DEF Calls, IsPause
  <2>2. Places(a, b) = {}
    BY <2>1 DEF Places
  <2> QED BY <1>1, <2>1, <2>2, PauseIsPiece
<1>2. CASE ~IsPause(unit)
  <2>1. c = SpokenPieces(t, a, b, max)
    BY <1>2 DEF Calls
  <2> HIDE DEF a, b
  <2>2. a \in Nat /\ b \in Nat
    BY DEF a, b
  <2>3. InPieces(t, c, a, b) /\ \A i \in Places(a, b) : t[i] \notin Spacing =>
          \E p \in DOMAIN c : i \in Places(c[p][1], c[p][2])
    BY <2>1, <2>2, SpokenPiecesAre
  <2> QED BY <2>3, <1>2 DEF a, b
<1> QED BY <1>1, <1>2

\* Units that read the segment at a place: in order, within it, each is a pause or says
\* something; a pause stands for it where it is replaced, and every letter of it is in one where
\* it is not.
ReadsSegment(t, book, art, k, us) ==
  /\ us \in Seq(Range(us)) /\ DOMAIN us = 1 .. Len(us) /\ Len(us) \in Nat
  /\ \A p \in DOMAIN us :
       /\ us[p].place = k /\ us[p].emotion = art[k].emotion
       /\ us[p].voice = VoiceFor(book, Called(art, art[k].speaker))
       /\ us[p].from \in Nat /\ us[p].to \in Nat
       /\ art[k].from <= us[p].from /\ us[p].from <= us[p].to /\ us[p].to <= art[k].to
       /\ IsPause(us[p]) \/ \E i \in Places(us[p].from, us[p].to) : t[i] \notin Spacing
  /\ \A p, q \in DOMAIN us : p < q => us[p].to <= us[q].from
  /\ IsReplaced(t, book, art[k]) => Len(us) = 1 /\ IsPause(us[1])
  /\ ~IsReplaced(t, book, art[k]) => \A i \in Places(art[k].from, art[k].to) : t[i] \in Letters =>
       \E p \in DOMAIN us : i \in Places(us[p].from, us[p].to)

\* SpeechUnits reads each segment of an artifact.
LEMMA UnitsOfAre ==
  ASSUME NEW t \in Seq(Kinds), NEW book, NEW art, NEW k, art[k].from \in Nat, art[k].to \in Nat,
         NEW max \in Nat \ {0}, NEW us, us = UnitsOf(t, book, art, k, max)
  PROVE  ReadsSegment(t, book, art, k, us)
<1> DEFINE item == art[k]
           a == item.from
           b == item.to
           pieces == SpokenOf(t, book, item, max)
           voice == VoiceFor(book, Called(art, item.speaker))
<1>1. us = [p \in DOMAIN pieces |->
              [place |-> k, segment |-> item.segment, part |-> p, from |-> pieces[p][1], to |-> pieces[p][2],
               voice |-> voice, emotion |-> item.emotion]]
  BY DEF UnitsOf
<1>2. item.from \in Nat /\ item.to \in Nat
  OBVIOUS
<1>3. IsReplaced(t, book, item) => pieces = <<Pause(item.from)>>
  BY DEF SpokenOf
<1> HIDE DEF item, voice, pieces
<1>4. /\ InPieces(t, pieces, item.from, item.to)
      /\ IsReplaced(t, book, item) => Len(pieces) = 1
      /\ ~IsReplaced(t, book, item) => \A i \in Places(item.from, item.to) : t[i] \in Letters =>
           \E p \in DOMAIN pieces : i \in Places(pieces[p][1], pieces[p][2])
  <2>1. pieces = SpokenOf(t, book, item, max)
    BY DEF pieces
  <2> QED BY <2>1, <1>2, SpokenOfIs
<1> HIDE DEF a, b
<1>5. DOMAIN us = DOMAIN pieces /\ DOMAIN pieces = 1 .. Len(pieces) /\ Len(pieces) \in Nat
  BY <1>1, <1>4 DEF InPieces
<1>6. ASSUME NEW p \in DOMAIN us
      PROVE  /\ us[p].place = k /\ us[p].emotion = item.emotion /\ us[p].voice = voice
             /\ us[p].from = pieces[p][1] /\ us[p].to = pieces[p][2]
  BY <1>1, <1>5
<1>7. us \in Seq(Range(us)) /\ DOMAIN us = 1 .. Len(us) /\ Len(us) = Len(pieces)
  <2> DEFINE n == Len(pieces)
  <2>1. n \in Nat /\ DOMAIN us = 1 .. n
    BY <1>5
  <2>2. us = [p \in DOMAIN us |-> us[p]]
    BY <1>1, <1>5
  <2>3. \A p \in DOMAIN us : us[p] \in Range(us)
    BY DEF Range
  <2> HIDE DEF n
  <2>4. us \in [1 .. n -> Range(us)]
    BY <2>1, <2>2, <2>3
  <2>5. us \in Seq(Range(us)) /\ Len(us) = n
    BY <2>1, <2>4
  <2> QED BY <2>1, <2>5 DEF n
<1>8. \A p \in DOMAIN us : /\ us[p].from \in Nat /\ us[p].to \in Nat
                           /\ item.from <= us[p].from /\ us[p].from <= us[p].to /\ us[p].to <= item.to
                           /\ us[p].from = us[p].to \/ \E i \in Places(us[p].from, us[p].to) : t[i] \notin Spacing
  BY <1>4, <1>5, <1>6 DEF InPieces
<1>9. \A p, q \in DOMAIN us : p < q => us[p].to <= us[q].from
  BY <1>4, <1>5, <1>6 DEF InPieces
<1>10. ~IsReplaced(t, book, item) => \A i \in Places(item.from, item.to) : t[i] \in Letters =>
         \E p \in DOMAIN us : i \in Places(us[p].from, us[p].to)
  BY <1>4, <1>5, <1>6
<1>11. IsReplaced(t, book, item) => Len(us) = 1 /\ us[1].from = us[1].to
  <2> SUFFICES ASSUME IsReplaced(t, book, item) PROVE Len(us) = 1 /\ us[1].from = us[1].to
    OBVIOUS
  <2>1. Len(us) = 1 /\ 1 \in DOMAIN us
    BY <1>4, <1>7
  <2>2. pieces[1][1] = pieces[1][2]
    BY <1>3 DEF Pause
  <2> QED BY <2>1, <2>2, <1>6
<1> QED BY <1>5, <1>6, <1>7, <1>8, <1>9, <1>10, <1>11 DEF item, voice, ReadsSegment, IsPause

\* The artifact as far as speech needs to know it.
IsArtifact(t, art) ==
  /\ DOMAIN art = 1 .. Len(art) /\ Len(art) \in Nat
  /\ \A k \in DOMAIN art : art[k].from \in Nat /\ art[k].to \in Nat
  /\ Faithful(t, art)

\* Units that read the segments of an artifact in their order: a pause for each that is
\* replaced, each letter of the others.
IsPlan(t, book, art, plan) ==
  /\ DOMAIN plan = 1 .. Len(plan) /\ Len(plan) \in Nat
  /\ \A u \in DOMAIN plan :
       LET k == plan[u].place
       IN /\ k \in DOMAIN art /\ plan[u].emotion = art[k].emotion
          /\ plan[u].voice = VoiceFor(book, Called(art, art[k].speaker))
          /\ plan[u].from \in Nat /\ plan[u].to \in Nat
          /\ art[k].from <= plan[u].from /\ plan[u].from <= plan[u].to /\ plan[u].to <= art[k].to
          /\ IsPause(plan[u]) \/ \E i \in Places(plan[u].from, plan[u].to) : t[i] \notin Spacing
  /\ \A u, v \in DOMAIN plan : u < v =>
       /\ plan[u].place <= plan[v].place
       /\ plan[u].place = plan[v].place => plan[u].to <= plan[v].from
  /\ \A k \in DOMAIN art : IsReplaced(t, book, art[k]) =>
       \E u \in DOMAIN plan : /\ plan[u].place = k /\ IsPause(plan[u])
                              /\ \A v \in DOMAIN plan : plan[v].place = k => v = u
  /\ \A k \in DOMAIN art : ~IsReplaced(t, book, art[k]) =>
       \A i \in Places(art[k].from, art[k].to) : t[i] \in Letters =>
         \E u \in DOMAIN plan : plan[u].place = k /\ i \in Places(plan[u].from, plan[u].to)

\* The speech plan of an artifact is a plan.
LEMMA PlanIs ==
  ASSUME NEW t \in Seq(Kinds), NEW book, NEW art, IsArtifact(t, art), NEW max \in Nat \ {0},
         NEW plan, plan = SpeechUnits(t, book, art, max)
  PROVE  IsPlan(t, book, art, plan)
<1> DEFINE seqs == [k \in DOMAIN art |-> UnitsOf(t, book, art, k, max)]
           X == UNION {Range(seqs[k]) : k \in DOMAIN seqs}
<1>1. plan = FlattenSeq(seqs)
  BY DEF SpeechUnits
<1>2. DOMAIN seqs = DOMAIN art /\ \A k \in DOMAIN art : seqs[k] = UnitsOf(t, book, art, k, max)
  OBVIOUS
<1>3. DOMAIN art = 1 .. Len(art) /\ Len(art) \in Nat /\ \A k \in DOMAIN art : art[k].from \in Nat /\ art[k].to \in Nat
  BY DEF IsArtifact
<1>4. seqs = [k \in 1 .. Len(art) |-> seqs[k]]
  BY <1>3
<1> HIDE DEF seqs
<1>5. ASSUME NEW k \in DOMAIN art
      PROVE  ReadsSegment(t, book, art, k, seqs[k])
  BY <1>2, <1>3, UnitsOfAre
<1>6. seqs \in Seq(Seq(X))
  <2>1. ASSUME NEW k \in 1 .. Len(art) PROVE seqs[k] \in Seq(X)
    <3>1. k \in DOMAIN art /\ k \in DOMAIN seqs
      BY <1>2, <1>3
    <3>2. Range(seqs[k]) \subseteq X
      BY <3>1
    <3>3. seqs[k] \in Seq(Range(seqs[k]))
      BY <3>1, <1>5 DEF ReadsSegment
    <3> HIDE DEF X
    <3>4. \A p \in 1 .. Len(seqs[k]) : seqs[k][p] \in X
      BY <3>2, <3>3
    <3> QED BY <3>3, <3>4
  <2> HIDE DEF X
  <2> DEFINE n == Len(art)
  <2>2. n \in Nat /\ seqs = [k \in 1 .. n |-> seqs[k]] /\ \A k \in 1 .. n : seqs[k] \in Seq(X)
    BY <1>3, <1>4, <2>1
  <2> HIDE DEF n
  <2>3. seqs \in [1 .. n -> Seq(X)]
    BY <2>2
  <2> QED BY <2>2, <2>3
<1> HIDE DEF X
<1>7. PICK base : /\ Joins(plan, seqs, base, Len(seqs))
                  /\ \A j, k \in DOMAIN seqs : j < k => base[j] + Len(seqs[j]) <= base[k]
  BY <1>1, <1>6, FlattenIs
<1>8. Len(seqs) = Len(art)
  BY <1>2, <1>3, <1>6
<1>9. plan \in Seq(X)
  BY <1>1, <1>6, FlattenIs
<1>10. /\ \A k \in DOMAIN art : base[k] \in Nat
       /\ \A k \in DOMAIN art : \A n \in DOMAIN seqs[k] :
            base[k] + n \in DOMAIN plan /\ plan[base[k] + n] = seqs[k][n]
       /\ \A i \in DOMAIN plan : \E k \in DOMAIN art : \E n \in DOMAIN seqs[k] : i = base[k] + n
  <2>1. DOMAIN art = 1 .. Len(seqs)
    BY <1>3, <1>8
  <2> DEFINE m == Len(seqs)
  <2>2. DOMAIN art = 1 .. m /\ Joins(plan, seqs, base, m)
    BY <2>1, <1>7
  <2> HIDE DEF m
  <2> QED BY <2>2 DEF Joins
<1>11. \A j, k \in DOMAIN art : j < k => base[j] + Len(seqs[j]) <= base[k]
  BY <1>2, <1>7
<1>12. ASSUME NEW u \in DOMAIN plan
       PROVE  \E k \in DOMAIN art : \E n \in DOMAIN seqs[k] : u = base[k] + n /\ plan[u] = seqs[k][n] /\ plan[u].place = k
  <2>1. PICK k \in DOMAIN art : \E n \in DOMAIN seqs[k] : u = base[k] + n
    BY <1>10
  <2>2. PICK n \in DOMAIN seqs[k] : u = base[k] + n
    BY <2>1
  <2>3. plan[u] = seqs[k][n]
    BY <2>2, <1>10
  <2>4. seqs[k][n].place = k
    BY <1>5 DEF ReadsSegment
  <2> QED BY <2>2, <2>3, <2>4
<1>13. ASSUME NEW u \in DOMAIN plan
       PROVE  LET k == plan[u].place
              IN /\ k \in DOMAIN art /\ plan[u].emotion = art[k].emotion
                 /\ plan[u].voice = VoiceFor(book, Called(art, art[k].speaker))
                 /\ plan[u].from \in Nat /\ plan[u].to \in Nat
                 /\ art[k].from <= plan[u].from /\ plan[u].from <= plan[u].to /\ plan[u].to <= art[k].to
                 /\ IsPause(plan[u]) \/ \E i \in Places(plan[u].from, plan[u].to) : t[i] \notin Spacing
  <2>1. PICK k \in DOMAIN art : \E n \in DOMAIN seqs[k] : u = base[k] + n /\ plan[u] = seqs[k][n] /\ plan[u].place = k
    BY <1>12
  <2>2. PICK n \in DOMAIN seqs[k] : u = base[k] + n /\ plan[u] = seqs[k][n] /\ plan[u].place = k
    BY <2>1
  <2> QED BY <2>2, <1>5 DEF ReadsSegment
<1>14. ASSUME NEW u \in DOMAIN plan, NEW v \in DOMAIN plan, u < v
       PROVE  /\ plan[u].place <= plan[v].place
              /\ plan[u].place = plan[v].place => plan[u].to <= plan[v].from
  <2>1. PICK k \in DOMAIN art : \E n \in DOMAIN seqs[k] : u = base[k] + n /\ plan[u] = seqs[k][n] /\ plan[u].place = k
    BY <1>12
  <2>2. PICK n \in DOMAIN seqs[k] : u = base[k] + n /\ plan[u] = seqs[k][n] /\ plan[u].place = k
    BY <2>1
  <2>3. PICK l \in DOMAIN art : \E m \in DOMAIN seqs[l] : v = base[l] + m /\ plan[v] = seqs[l][m] /\ plan[v].place = l
    BY <1>12
  <2>4. PICK m \in DOMAIN seqs[l] : v = base[l] + m /\ plan[v] = seqs[l][m] /\ plan[v].place = l
    BY <2>3
  <2> DEFINE x == base[k]
             y == base[l]
             z == Len(seqs[l])
  <2>5. x \in Nat /\ y \in Nat /\ z \in Nat /\ n \in Nat /\ m \in Nat /\ m <= z /\ n >= 1 /\ k \in Nat /\ l \in Nat
    <3>1. k \in Nat /\ l \in Nat /\ x \in Nat /\ y \in Nat
      BY <1>3, <1>10
    <3>2. DOMAIN seqs[k] = 1 .. Len(seqs[k]) /\ Len(seqs[k]) \in Nat
      BY <1>5 DEF ReadsSegment
    <3>3. DOMAIN seqs[l] = 1 .. Len(seqs[l]) /\ Len(seqs[l]) \in Nat
      BY <1>5 DEF ReadsSegment
    <3> QED BY <3>1, <3>2, <3>3
  <2>6. l < k => y + z <= x
    BY <1>11
  <2>7. u = x + n /\ v = y + m
    BY <2>2, <2>4
  <2> HIDE DEF x, y, z
  <2>8. ~(l < k)
    BY <2>5, <2>6, <2>7, <1>14
  <2>9. ASSUME k = l PROVE plan[u].to <= plan[v].from
    <3>1. x = y
      BY <2>9 DEF x, y
    <3>2. n < m
      BY <3>1, <2>5, <2>7, <1>14
    <3> QED BY <3>2, <2>2, <2>4, <2>9, <1>5 DEF ReadsSegment
  <2> QED BY <2>2, <2>4, <2>5, <2>8, <2>9
<1>15. ASSUME NEW k \in DOMAIN art, ~IsReplaced(t, book, art[k]),
              NEW i \in Places(art[k].from, art[k].to), t[i] \in Letters
       PROVE  \E u \in DOMAIN plan : plan[u].place = k /\ i \in Places(plan[u].from, plan[u].to)
  <2>1. PICK n \in DOMAIN seqs[k] : i \in Places(seqs[k][n].from, seqs[k][n].to)
    BY <1>5, <1>15 DEF ReadsSegment
  <2>2. base[k] + n \in DOMAIN plan /\ plan[base[k] + n] = seqs[k][n] /\ seqs[k][n].place = k
    BY <1>5, <1>10 DEF ReadsSegment
  <2> QED BY <2>1, <2>2
<1>16. DOMAIN plan = 1 .. Len(plan) /\ Len(plan) \in Nat
  BY <1>9
<1>17. ASSUME NEW k \in DOMAIN art, IsReplaced(t, book, art[k])
       PROVE  \E u \in DOMAIN plan : /\ plan[u].place = k /\ IsPause(plan[u])
                                     /\ \A v \in DOMAIN plan : plan[v].place = k => v = u
  <2>1. ReadsSegment(t, book, art, k, seqs[k])
    BY <1>5
  <2>2. DOMAIN seqs[k] = {1} /\ IsPause(seqs[k][1]) /\ seqs[k][1].place = k
    BY <2>1, <1>17 DEF ReadsSegment
  <2>3. base[k] + 1 \in DOMAIN plan /\ plan[base[k] + 1] = seqs[k][1]
    BY <2>2, <1>10
  <2>4. ASSUME NEW v \in DOMAIN plan, plan[v].place = k PROVE v = base[k] + 1
    <3>1. PICK l \in DOMAIN art : \E m \in DOMAIN seqs[l] : v = base[l] + m /\ plan[v] = seqs[l][m] /\ plan[v].place = l
      BY <1>12
    <3>2. l = k
      BY <3>1, <2>4
    <3> QED BY <3>1, <3>2, <2>2
  <2> QED BY <2>2, <2>3, <2>4
<1> QED BY <1>13, <1>14, <1>15, <1>16, <1>17 DEF IsPlan

-----------------------------------------------------------------------------
(* The sound of a unit *)

\* All that is said of a unit.
SoundOf(t, unit, provider) ==
  LET calls == Calls(t, unit, provider.limit)
  IN [n \in DOMAIN calls |-> [from |-> calls[n][1], to |-> calls[n][2], voice |-> unit.voice,
                              emotion |-> IF provider.emotional THEN unit.emotion ELSE "neutral"]]

\* Sound that speaks a unit: the calls in order, within the unit, every letter in one; of a
\* pause, one.
IsSound(t, unit, provider, sound) ==
  /\ DOMAIN sound = 1 .. Len(sound) /\ Len(sound) \in Nat /\ sound \in Seq(Range(sound))
  /\ \A n \in DOMAIN sound :
       /\ sound[n].from \in Nat /\ sound[n].to \in Nat
       /\ unit.from <= sound[n].from /\ sound[n].from <= sound[n].to /\ sound[n].to <= unit.to
       /\ sound[n].voice = unit.voice
       /\ sound[n].emotion = IF provider.emotional THEN unit.emotion ELSE "neutral"
  /\ IsPause(unit) => Len(sound) = 1
  /\ \A m, n \in DOMAIN sound : m < n => sound[m].to <= sound[n].from
  /\ \A i \in Places(unit.from, unit.to) : t[i] \notin Spacing =>
       \E n \in DOMAIN sound : i \in Places(sound[n].from, sound[n].to)

\* The calls of a unit are such a sound.
LEMMA SoundIs ==
  ASSUME NEW t \in Seq(Kinds), NEW unit, unit.from \in Nat, unit.to \in Nat,
         NEW provider, provider.limit \in Nat \ {0}, NEW sound, sound = SoundOf(t, unit, provider)
  PROVE  IsSound(t, unit, provider, sound)
<1> DEFINE a == unit.from
           b == unit.to
           c == Calls(t, unit, provider.limit)
           emotion == IF provider.emotional THEN unit.emotion ELSE "neutral"
<1>1. sound = [n \in DOMAIN c |-> [from |-> c[n][1], to |-> c[n][2], voice |-> unit.voice, emotion |-> emotion]]
  BY DEF SoundOf
<1>2. /\ InPieces(t, c, a, b)
      /\ IsPause(unit) => Len(c) = 1
      /\ \A i \in Places(a, b) : t[i] \notin Spacing =>
           \E p \in DOMAIN c : i \in Places(c[p][1], c[p][2])
  <2> DEFINE max == provider.limit
  <2>1. max \in Nat \ {0} /\ c = Calls(t, unit, max)
    OBVIOUS
  <2> HIDE DEF c, max
  <2> QED BY <2>1, CallsAre
<1> HIDE DEF a, b, c, emotion
<1>3. DOMAIN sound = DOMAIN c
  BY <1>1
<1>4. \A n \in DOMAIN sound : /\ sound[n].from = c[n][1] /\ sound[n].to = c[n][2]
                              /\ sound[n].voice = unit.voice /\ sound[n].emotion = emotion
  BY <1>1, <1>3
<1>5. sound \in Seq(Range(sound)) /\ DOMAIN sound = 1 .. Len(sound) /\ Len(sound) \in Nat /\ Len(sound) = Len(c)
  <2> DEFINE n == Len(c)
  <2>1. n \in Nat /\ DOMAIN sound = 1 .. n
    BY <1>2, <1>3 DEF InPieces
  <2>2. sound = [p \in DOMAIN sound |-> sound[p]]
    BY <1>1, <1>3
  <2>3. \A p \in DOMAIN sound : sound[p] \in Range(sound)
    BY DEF Range
  <2> HIDE DEF n
  <2>4. sound \in [1 .. n -> Range(sound)]
    BY <2>1, <2>2, <2>3
  <2>5. sound \in Seq(Range(sound)) /\ Len(sound) = n
    BY <2>1, <2>4
  <2> QED BY <2>1, <2>5 DEF n
<1>6. \A n \in DOMAIN sound :
        /\ sound[n].from \in Nat /\ sound[n].to \in Nat
        /\ a <= sound[n].from /\ sound[n].from <= sound[n].to /\ sound[n].to <= b
  BY <1>2, <1>3, <1>4 DEF InPieces
<1>7. \A m, n \in DOMAIN sound : m < n => sound[m].to <= sound[n].from
  BY <1>2, <1>3, <1>4 DEF InPieces
<1>8. \A i \in Places(a, b) : t[i] \notin Spacing => \E n \in DOMAIN sound : i \in Places(sound[n].from, sound[n].to)
  BY <1>2, <1>3, <1>4 DEF InPieces
<1> QED BY <1>2, <1>4, <1>5, <1>6, <1>7, <1>8 DEF IsSound, a, b, emotion

\* A place is in one segment of an artifact.
LEMMA OneSegment ==
  ASSUME NEW t, NEW art, IsArtifact(t, art), NEW i \in Nat, NEW j \in DOMAIN art, NEW k \in DOMAIN art,
         i \in Places(art[j].from, art[j].to), i \in Places(art[k].from, art[k].to)
  PROVE  j = k
<1>1. art[j].from \in Nat /\ art[j].to \in Nat /\ art[k].from \in Nat /\ art[k].to \in Nat
  BY DEF IsArtifact
<1>2. j # k => art[j].to <= art[k].from \/ art[k].to <= art[j].from
  BY DEF IsArtifact, Faithful
<1>3. art[j].from <= i /\ i < art[j].to /\ art[k].from <= i /\ i < art[k].to
  BY <1>1 DEF Places
<1> QED BY <1>1, <1>2, <1>3

\* The n-th part of the sound of a unit is what is said for a place in the k-th segment.
SaysIt(t, book, art, plan, sounds, i, k, u, n) ==
  IF IsReplaced(t, book, art[k]) THEN plan[u].place = k
                                 ELSE i \in Places(sounds[u][n].from, sounds[u][n].to)

\* A place is said once, in a unit of its segment.
IsSaidOnce(t, book, art, plan, sounds, i) ==
  \E k \in DOMAIN art : \E u \in DOMAIN sounds : \E n \in DOMAIN sounds[u] :
    /\ i \in Places(art[k].from, art[k].to) /\ plan[u].place = k
    /\ SaysIt(t, book, art, plan, sounds, i, k, u, n)
    /\ \A v \in DOMAIN sounds : \A m \in DOMAIN sounds[v] :
         SaysIt(t, book, art, plan, sounds, i, k, v, m) => v = u /\ m = n

\* Sounds that speak the units of a plan.
AllSound(t, plan, provider, sounds) ==
  DOMAIN sounds = DOMAIN plan /\ \A u \in DOMAIN plan : IsSound(t, plan[u], provider, sounds[u])

\* A segment that is replaced has one pause for all its places.
LEMMA PausedOnce ==
  ASSUME NEW t, NEW book, NEW art, NEW plan, IsPlan(t, book, art, plan),
         NEW provider, NEW sounds, AllSound(t, plan, provider, sounds),
         NEW k \in DOMAIN art, NEW i \in Places(art[k].from, art[k].to), IsReplaced(t, book, art[k])
  PROVE  IsSaidOnce(t, book, art, plan, sounds, i)
<1>1. PICK u \in DOMAIN plan : /\ plan[u].place = k /\ IsPause(plan[u])
                               /\ \A v \in DOMAIN plan : plan[v].place = k => v = u
  BY DEF IsPlan
<1>2. DOMAIN sounds[u] = {1} /\ DOMAIN sounds = DOMAIN plan
  <2>1. IsSound(t, plan[u], provider, sounds[u])
    BY DEF AllSound
  <2> QED BY <1>1, <2>1 DEF IsSound, AllSound
<1> QED BY <1>1, <1>2 DEF IsSaidOnce, SaysIt

\* Of a plan whose units have sounded, every letter has been said once, in its voice.
LEMMA SaidOnce ==
  ASSUME NEW t \in Seq(Kinds), NEW book, NEW art, IsArtifact(t, art), NEW plan, IsPlan(t, book, art, plan),
         NEW provider, NEW sounds, AllSound(t, plan, provider, sounds),
         NEW i \in DOMAIN t, t[i] \in Letters
  PROVE  IsSaidOnce(t, book, art, plan, sounds, i)
<1>1. i \in Nat /\ t[i] \notin Formatting /\ t[i] \notin Spacing
  BY DEF Letters, Formatting, Spacing
<1>2. PICK k \in DOMAIN art : i \in Places(art[k].from, art[k].to)
  BY <1>1 DEF IsArtifact, Faithful
<1>3. CASE IsReplaced(t, book, art[k])
  BY <1>2, <1>3, PausedOnce
<1>4. CASE ~IsReplaced(t, book, art[k])
  <2>1. PICK u \in DOMAIN plan : plan[u].place = k /\ i \in Places(plan[u].from, plan[u].to)
    BY <1>2, <1>4 DEF IsPlan
  <2>2. PICK n \in DOMAIN sounds[u] : i \in Places(sounds[u][n].from, sounds[u][n].to)
    BY <1>1, <2>1 DEF IsSound, AllSound
  <2>3. ASSUME NEW v \in DOMAIN plan, NEW m \in DOMAIN sounds[v],
               i \in Places(sounds[v][m].from, sounds[v][m].to)
        PROVE  v = u /\ m = n
    <3> DEFINE l == plan[v].place
    <3>1. /\ l \in DOMAIN art /\ plan[v].from \in Nat /\ plan[v].to \in Nat
          /\ art[l].from <= plan[v].from /\ plan[v].to <= art[l].to
      BY DEF IsPlan
    <3>2. /\ sounds[v][m].from \in Nat /\ sounds[v][m].to \in Nat
          /\ plan[v].from <= sounds[v][m].from /\ sounds[v][m].to <= plan[v].to
      BY DEF IsSound, AllSound
    <3>3. i \in Places(plan[v].from, plan[v].to)
      BY <1>1, <2>3, <3>1, <3>2 DEF Places
    <3>4. art[l].from \in Nat /\ art[l].to \in Nat
      BY <3>1 DEF IsArtifact
    <3>5. i \in Places(art[l].from, art[l].to)
      BY <1>1, <3>1, <3>3, <3>4 DEF Places
    <3>6. l = k
      BY <1>1, <1>2, <3>1, <3>5, OneSegment
    <3>7. v = u
      <4>1. plan[u].from \in Nat /\ plan[u].to \in Nat
        BY DEF IsPlan
      <4>2. u \in Nat /\ v \in Nat
        BY DEF IsPlan
      <4>3. u < v => plan[u].to <= plan[v].from
        BY <2>1, <3>6 DEF IsPlan
      <4>4. v < u => plan[v].to <= plan[u].from
        BY <2>1, <3>6 DEF IsPlan
      <4>5. plan[u].from <= i /\ i < plan[u].to /\ plan[v].from <= i /\ i < plan[v].to
        BY <1>1, <2>1, <3>1, <3>3, <4>1 DEF Places
      <4> QED BY <1>1, <3>1, <4>1, <4>2, <4>3, <4>4, <4>5
    <3>8. m = n
      <4> DEFINE x == sounds[u]
      <4>1. n \in DOMAIN x /\ m \in DOMAIN x /\ i \in Places(x[m].from, x[m].to) /\ i \in Places(x[n].from, x[n].to)
        BY <2>2, <2>3, <3>7
      <4>2. IsSound(t, plan[u], provider, x)
        BY DEF AllSound
      <4> HIDE DEF x
      <4>3. /\ x[n].from \in Nat /\ x[n].to \in Nat /\ x[m].from \in Nat /\ x[m].to \in Nat
            /\ m \in Nat /\ n \in Nat
        BY <4>1, <4>2 DEF IsSound
      <4>4. (m < n => x[m].to <= x[n].from) /\ (n < m => x[n].to <= x[m].from)
        BY <4>1, <4>2 DEF IsSound
      <4>5. x[m].from <= i /\ i < x[m].to /\ x[n].from <= i /\ i < x[n].to
        BY <1>1, <4>1, <4>3 DEF Places
      <4> QED BY <1>1, <4>3, <4>4, <4>5
    <3> QED BY <3>7, <3>8
  <2> QED BY <1>2, <1>4, <2>1, <2>2, <2>3 DEF IsSaidOnce, SaysIt, AllSound
<1> QED BY <1>3, <1>4

\* The state of a unit: what was said of it is the beginning of all that is to be said.
InTurn(t, unit, provider, r) ==
  LET whole == SoundOf(t, unit, provider)
  IN /\ r \in [unit : {unit}, at : {"todo", "asked", "done"}, sound : Seq(Range(whole)), tries : Nat]
     /\ \A n \in DOMAIN r.sound : r.sound[n] = whole[n]
     /\ Len(r.sound) <= Len(whole)
     /\ r.at = "done" <=> Len(r.sound) = Len(whole)

\* The sound of a cached file is that of its identity.
FitsItsKey(t, e) ==
  \E s \in Settings : e.key.provider = s.provider.id /\ e.sound = SoundOf(t, e.key, s.provider)

\* The identity of a unit has all that decides what is said of it.
LEMMA KeyIsEnough ==
  ASSUME NEW t, NEW unit, NEW provider
  PROVE  SoundOf(t, Key(unit, provider), provider) = SoundOf(t, unit, provider)
<1> DEFINE k == Key(unit, provider)
<1>1. k.from = unit.from /\ k.to = unit.to /\ k.voice = unit.voice /\ k.emotion = unit.emotion
  BY DEF Key
<1> HIDE DEF k
<1>2. Calls(t, k, provider.limit) = Calls(t, unit, provider.limit)
  BY <1>1 DEF Calls, IsPause
<1> DEFINE c == Calls(t, unit, provider.limit)
<1>3. SoundOf(t, k, provider) =
        [n \in DOMAIN c |-> [from |-> c[n][1], to |-> c[n][2], voice |-> unit.voice,
                             emotion |-> IF provider.emotional THEN unit.emotion ELSE "neutral"]]
  BY <1>1, <1>2 DEF SoundOf
<1>4. SoundOf(t, unit, provider) =
        [n \in DOMAIN c |-> [from |-> c[n][1], to |-> c[n][2], voice |-> unit.voice,
                             emotion |-> IF provider.emotional THEN unit.emotion ELSE "neutral"]]
  BY DEF SoundOf
<1> QED BY <1>3, <1>4 DEF k

\* Nothing is found in the cache under the key of a unit but the whole sound of that unit.
LEMMA CachedIs ==
  ASSUME \A e \in cache : FitsItsKey(text, e), NEW s \in Settings, NEW unit
  PROVE  Cached(unit, s.provider) \in {<< >>, SoundOf(text, unit, s.provider)}
<1> DEFINE found == {e \in cache : e.key = Key(unit, s.provider)}
<1>1. CASE found = {}
  BY <1>1 DEF Cached
<1>2. CASE found # {}
  <2> DEFINE e == CHOOSE x \in found : TRUE
  <2>1. e \in found
    BY <1>2
  <2>2. Cached(unit, s.provider) = e.sound
    BY <1>2 DEF Cached
  <2>3. e \in cache /\ e.key = Key(unit, s.provider)
    BY <2>1
  <2> HIDE DEF e, found
  <2>4. PICK r \in Settings : e.key.provider = r.provider.id /\ e.sound = SoundOf(text, e.key, r.provider)
    BY <2>3 DEF FitsItsKey
  <2>5. e.key.provider = s.provider.id
    BY <2>3 DEF Key
  <2>6. r.provider = s.provider
    BY <2>4, <2>5, ProviderIsItsId
  <2>7. e.sound = SoundOf(text, Key(unit, s.provider), s.provider)
    BY <2>3, <2>4, <2>6
  <2> QED BY <2>2, <2>7, KeyIsEnough
<1> QED BY <1>1, <1>2

\* A unit that is a pause or says something begins with nothing of it or, from the cache, with all.
LEMMA BegunIs ==
  ASSUME TextsAreTyped, \A e \in cache : FitsItsKey(text, e), NEW s \in Settings, NEW unit,
         unit.from \in Nat, unit.to \in Nat,
         IsPause(unit) \/ \E i \in Places(unit.from, unit.to) : text[i] \notin Spacing
  PROVE  InTurn(text, unit, s.provider, Begun(unit, s.provider))
<1> DEFINE whole == SoundOf(text, unit, s.provider)
           sound == Cached(unit, s.provider)
           r == Begun(unit, s.provider)
<1>1. sound \in {<< >>, whole}
  BY CachedIs
<1>2. IsSound(text, unit, s.provider, whole)
  <2>1. s.provider.limit \in Nat \ {0}
    BY LimitsArePositive
  <2> QED BY <2>1, SoundIs DEF TextsAreTyped
<1>3. whole \in Seq(Range(whole)) /\ DOMAIN whole = 1 .. Len(whole) /\ Len(whole) \in Nat /\ DOMAIN whole # {}
  <2> HIDE DEF whole
  <2>1. CASE IsPause(unit)
    <3>1. Len(whole) = 1 /\ DOMAIN whole = 1 .. Len(whole)
      BY <1>2, <2>1 DEF IsSound
    <3>2. 1 \in DOMAIN whole
      BY <3>1
    <3> QED BY <1>2, <3>1, <3>2 DEF IsSound
  <2>2. CASE \E i \in Places(unit.from, unit.to) : text[i] \notin Spacing
    BY <1>2, <2>2 DEF IsSound
  <2> QED BY <2>1, <2>2
<1>4. r = [unit |-> unit, at |-> IF sound = << >> THEN "todo" ELSE "done", sound |-> sound, tries |-> 0]
  BY DEF Begun
<1>8. InTurn(text, unit, s.provider, r) <=>
        /\ r \in [unit : {unit}, at : {"todo", "asked", "done"}, sound : Seq(Range(whole)), tries : Nat]
        /\ \A n \in DOMAIN r.sound : r.sound[n] = whole[n]
        /\ Len(r.sound) <= Len(whole)
        /\ r.at = "done" <=> Len(r.sound) = Len(whole)
  <2> HIDE DEF r
  <2> QED BY DEF InTurn
<1> HIDE DEF whole, sound, r
<1>5. Len(whole) # 0
  BY <1>3
<1>6. ASSUME sound = << >> PROVE InTurn(text, unit, s.provider, r)
  <2>1. r.unit = unit /\ r.at = "todo" /\ r.sound = << >> /\ << >> \in Seq(Range(whole)) /\ Len(r.sound) = 0 /\ DOMAIN r.sound = {}
    BY <1>4, <1>6
  <2>2. r \in [unit : {unit}, at : {"todo", "asked", "done"}, sound : Seq(Range(whole)), tries : Nat]
    BY <1>4, <1>6, <2>1
  <2>3. 0 <= Len(whole) /\ (r.at = "done" <=> Len(r.sound) = Len(whole))
    BY <2>1, <1>3, <1>5
  <2> QED BY <2>1, <2>2, <2>3, <1>8
<1>7. ASSUME sound = whole, sound # << >> PROVE InTurn(text, unit, s.provider, r)
  <2>1. r.unit = unit /\ r.at = "done" /\ r.sound = whole
    BY <1>4, <1>7
  <2>2. r \in [unit : {unit}, at : {"todo", "asked", "done"}, sound : Seq(Range(whole)), tries : Nat]
    BY <1>4, <1>7, <1>3
  <2>3. /\ \A n \in DOMAIN r.sound : r.sound[n] = whole[n]
        /\ Len(r.sound) <= Len(whole) /\ r.at = "done" /\ Len(r.sound) = Len(whole)
    BY <2>1, <1>3
  <2> QED BY <2>2, <2>3, <1>8
<1> QED BY <1>1, <1>6, <1>7 DEF r

\* One more request of a unit, and whether it was the last.
LEMMA HeardIs ==
  ASSUME TextsAreTyped, NEW unit, unit.from \in Nat, unit.to \in Nat, setting \in Settings, NEW u,
         InTurn(text, unit, setting.provider, units[u]), units[u].at = "asked",
         NEW whole, whole = SoundOf(text, unit, setting.provider)
  PROVE  /\ Heard(u) \in Seq(Range(whole)) /\ Len(Heard(u)) <= Len(whole)
         /\ \A n \in DOMAIN Heard(u) : Heard(u)[n] = whole[n]
         /\ IsWhole(u) <=> Len(Heard(u)) = Len(whole)
         /\ IsWhole(u) => Heard(u) = whole
<1> DEFINE sound == units[u].sound
           c == CallsOf(u)
           h == Heard(u)
<1>1. IsSound(text, unit, setting.provider, whole)
  <2>1. setting.provider.limit \in Nat \ {0}
    BY LimitsArePositive
  <2> QED BY <2>1, SoundIs DEF TextsAreTyped
<1>2. whole \in Seq(Range(whole)) /\ DOMAIN whole = 1 .. Len(whole) /\ Len(whole) \in Nat
  BY <1>1 DEF IsSound
<1>3. /\ units[u].unit = unit /\ sound \in Seq(Range(whole)) /\ Len(sound) < Len(whole)
      /\ \A n \in DOMAIN sound : sound[n] = whole[n]
  <2>1. /\ units[u].unit = unit /\ sound \in Seq(Range(whole)) /\ Len(sound) <= Len(whole)
        /\ \A n \in DOMAIN sound : sound[n] = whole[n]
        /\ Len(sound) # Len(whole)
    BY DEF InTurn
  <2> QED BY <2>1, <1>2
<1>4. c = Calls(text, unit, setting.provider.limit)
  BY <1>3 DEF CallsOf
<1>5. whole = [n \in DOMAIN c |-> [from |-> c[n][1], to |-> c[n][2], voice |-> unit.voice,
                                   emotion |-> IF setting.provider.emotional THEN unit.emotion ELSE "neutral"]]
  BY <1>4 DEF SoundOf
<1>6. Len(c) = Len(whole)
  <2>1. c \in Seq(Nat \X Nat)
    <3> DEFINE max == setting.provider.limit
    <3>1. max \in Nat \ {0} /\ c = Calls(text, unit, max)
      BY <1>4, LimitsArePositive
    <3> HIDE DEF c, max
    <3>2. InPieces(text, c, unit.from, unit.to)
      BY <3>1, CallsAre DEF TextsAreTyped
    <3> QED BY <3>2 DEF InPieces
  <2>2. DOMAIN c = 1 .. Len(c) /\ Len(c) \in Nat
    BY <2>1
  <2>3. DOMAIN whole = DOMAIN c
    BY <1>5
  <2> QED BY <2>2, <2>3, <1>2
<1>7. Said(u) = [from |-> c[Len(sound) + 1][1], to |-> c[Len(sound) + 1][2], voice |-> unit.voice,
                 emotion |-> IF setting.provider.emotional THEN unit.emotion ELSE "neutral"]
  BY <1>3 DEF Said
<1> HIDE DEF c
<1>8. Len(sound) + 1 \in DOMAIN whole /\ Len(sound) \in Nat
  BY <1>2, <1>3
<1>9. Said(u) = whole[Len(sound) + 1]
  <2>1. Len(sound) + 1 \in DOMAIN c
    BY <1>5, <1>8
  <2> QED BY <2>1, <1>5, <1>7
<1>10. h = Append(sound, whole[Len(sound) + 1])
  BY <1>9 DEF Heard
<1> HIDE DEF sound, h
<1>11. whole[Len(sound) + 1] \in Range(whole)
  BY <1>8 DEF Range
<1>12. h \in Seq(Range(whole)) /\ Len(h) = Len(sound) + 1
  BY <1>3, <1>10, <1>11
<1>13. \A n \in DOMAIN h : h[n] = whole[n]
  <2> TAKE n \in DOMAIN h
  <2>1. n \in 1 .. Len(sound) + 1
    BY <1>12
  <2>2. CASE n = Len(sound) + 1
    BY <2>2, <1>3, <1>8, <1>10, <1>11
  <2>3. CASE n # Len(sound) + 1
    <3>1. n \in DOMAIN sound
      BY <2>1, <2>3, <1>3, <1>8
    <3>2. h[n] = sound[n]
      BY <3>1, <1>3, <1>10, <1>11
    <3> QED BY <3>1, <3>2, <1>3
  <2> QED BY <2>2, <2>3
<1>14. IsWhole(u) <=> Len(h) = Len(whole)
  BY <1>6 DEF IsWhole, c, h
<1>15. Len(h) = Len(whole) => h = whole
  <2>1. DOMAIN h = 1 .. Len(h)
    BY <1>12
  <2> QED BY <2>1, <1>2, <1>12, <1>13
<1>16. Len(h) <= Len(whole)
  BY <1>2, <1>3, <1>8, <1>12
<1> QED BY <1>12, <1>13, <1>14, <1>15, <1>16 DEF h

-----------------------------------------------------------------------------
(* The rendering *)

\* The plan of the chapter in the setting of this rendering.
PlanNow == SpeechUnits(text, setting.book, artifact, UnitMax)

\* While it is rendered, every unit has said the beginning of what it is to say.
Rendering ==
  /\ units = [u \in DOMAIN PlanNow |-> units[u]]
  /\ \A u \in DOMAIN PlanNow : InTurn(text, PlanNow[u], setting.provider, units[u])

\* When it is assembled, the audio of each unit is all it is to say.
Rendered ==
  /\ DOMAIN audio = DOMAIN PlanNow
  /\ \A u \in DOMAIN PlanNow : /\ audio[u].sound = SoundOf(text, PlanNow[u], setting.provider)
                               /\ audio[u].place = PlanNow[u].place

\* The inductive invariant of the rendering: the artifact is one of the text, what is
\* cached is the whole sound of its key, and the units are those of the plan, each of which
\* has said the beginning of its sound.
Speech ==
  /\ stage \in {"ready", "rendering", "spoken"} => IsArtifact(text, artifact)
  /\ stage \in {"document", "text"} => cache = {}
  /\ stage # "rendering" => units = << >>
  /\ \A e \in cache : FitsItsKey(text, e)
  /\ stage \in {"rendering", "spoken"} => setting \in Settings /\ Offered(setting.book, artifact, Catalogue)
  /\ stage = "rendering" => Rendering
  /\ stage = "spoken" => Rendered

\* Before a rendering nothing is said.
LEMMA SpeechAtFirst == ReadingInit => Speech
BY DEF ReadingInit, Speech

\* The plan of the chapter is one.
LEMMA PlanNowIs ==
  ASSUME TextsAreTyped, IsArtifact(text, artifact), NEW book
  PROVE  IsPlan(text, book, artifact, SpeechUnits(text, book, artifact, UnitMax))
<1>1. UnitMax \in Nat \ {0}
  BY LimitsArePositive
<1> QED BY <1>1, PlanIs DEF TextsAreTyped

\* What Apply accepts is an artifact of the text.
LEMMA AppliedIs ==
  ASSUME TextsAreTyped, Annotation, Apply, stage' = "ready"
  PROVE  IsArtifact(text, artifact')
<1> DEFINE spans == Segments(text)
<1>1. annotations \in Seq(Nat) /\ Range(annotations) = DOMAIN spans
  BY DEF Apply, Annotation, Covers
<1>2. PICK said \in [DOMAIN spans -> Sayings] :
        LET made == Artifact(spans, annotations, said)
            accepted == Covers(annotations, spans) /\ Valid(text, made)
        IN /\ artifact' = IF accepted THEN made ELSE << >>
           /\ stage' = IF accepted THEN "ready" ELSE "unread"
  BY DEF Apply
<1> DEFINE made == Artifact(spans, annotations, said)
           speaker(k) == SpeakerOf(spans[annotations[k]], said[annotations[k]].name)
<1>3. artifact' = made /\ Faithful(text, made)
  BY <1>2 DEF Valid
<1>4. made = [k \in DOMAIN annotations |->
               [segment |-> annotations[k], from |-> spans[annotations[k]].from, to |-> spans[annotations[k]].to,
                speaker |-> speaker(k), name |-> said[annotations[k]].name, emotion |-> said[annotations[k]].emotion]]
  BY DEF Artifact
<1>5. spans \in Seq(Spans)
  BY ChunksOf DEF TextsAreTyped
<1> HIDE DEF spans, made, speaker
<1>6. \A k \in DOMAIN annotations : annotations[k] \in DOMAIN spans
  BY <1>1 DEF Range
<1>7. \A i \in DOMAIN spans : spans[i].from \in Nat /\ spans[i].to \in Nat
  <2>1. \A i \in DOMAIN spans : spans[i] \in Spans
    BY <1>5
  <2> QED BY <2>1 DEF Spans
<1>8. DOMAIN made = DOMAIN annotations
  BY <1>4
<1>9. \A k \in DOMAIN made : made[k].from \in Nat /\ made[k].to \in Nat
  BY <1>4, <1>6, <1>7, <1>8
<1>10. DOMAIN made = 1 .. Len(made) /\ Len(made) \in Nat
  <2> DEFINE n == Len(annotations)
  <2>1. n \in Nat /\ DOMAIN made = 1 .. n
    BY <1>1, <1>8
  <2>2. made = [p \in DOMAIN made |-> made[p]]
    BY <1>4, <1>8
  <2>3. \A p \in DOMAIN made : made[p] \in Range(made)
    BY DEF Range
  <2> HIDE DEF n
  <2>4. made \in [1 .. n -> Range(made)]
    BY <2>1, <2>2, <2>3
  <2>5. made \in Seq(Range(made))
    BY <2>1, <2>4
  <2> QED BY <2>5
<1> QED BY <1>3, <1>9, <1>10 DEF IsArtifact

\* What a request begins with.
LEMMA BeginIs ==
  ASSUME TextsAreTyped, Speech, Begin
  PROVE  Speech'
<1>1. PICK s \in Settings :
        /\ Accepted(s)
        /\ setting' = s
        /\ LET plan == SpeechUnits(text, s.book, artifact, UnitMax)
           IN units' = [u \in DOMAIN plan |-> Begun(plan[u], s.provider)]
  BY DEF Begin
<1>2. IsArtifact(text, artifact) /\ \A e \in cache : FitsItsKey(text, e)
  BY DEF Begin, Speech
<1>3. stage' = "rendering" /\ UNCHANGED <<text, artifact, cache>>
  BY DEF Begin, annotating
<1> DEFINE plan == SpeechUnits(text, s.book, artifact, UnitMax)
<1>4. plan = PlanNow'
  BY <1>1, <1>3 DEF PlanNow
<1>5. IsPlan(text, s.book, artifact, plan)
  BY <1>2, PlanNowIs
<1>6. units' = [u \in DOMAIN plan |-> Begun(plan[u], s.provider)]
  BY <1>1
<1> HIDE DEF plan
<1>7. ASSUME NEW u \in DOMAIN plan PROVE InTurn(text, plan[u], s.provider, units'[u])
  <2>1. /\ plan[u].from \in Nat /\ plan[u].to \in Nat
        /\ IsPause(plan[u]) \/ \E i \in Places(plan[u].from, plan[u].to) : text[i] \notin Spacing
    BY <1>5 DEF IsPlan
  <2>2. InTurn(text, plan[u], s.provider, Begun(plan[u], s.provider))
    BY <1>2, <2>1, BegunIs
  <2> QED BY <1>6, <2>2
<1>8. units' = [u \in DOMAIN plan |-> units'[u]]
  BY <1>6
<1>9. Rendering'
  BY <1>1, <1>3, <1>4, <1>7, <1>8 DEF Rendering
<1>10. Offered(setting'.book, artifact', Catalogue) /\ setting' \in Settings
  BY <1>1, <1>3 DEF Accepted
<1> QED BY <1>2, <1>3, <1>9, <1>10 DEF Speech

\* What a unit is while it is rendered.
LEMMA UnitNow ==
  ASSUME TextsAreTyped, Speech, NEW u \in DOMAIN units
  PROVE  /\ stage = "rendering" /\ setting \in Settings /\ u \in DOMAIN PlanNow
         /\ PlanNow[u].from \in Nat /\ PlanNow[u].to \in Nat
         /\ InTurn(text, PlanNow[u], setting.provider, units[u])
         /\ units[u].unit = PlanNow[u]
         /\ units[u].at \in {"todo", "asked", "done"} /\ units[u].tries \in Nat
         /\ units[u] \in [unit : {PlanNow[u]}, at : {"todo", "asked", "done"},
                          sound : Seq(Range(SoundOf(text, PlanNow[u], setting.provider))), tries : Nat]
<1>1. stage = "rendering"
  BY DEF Speech
<1>2. setting \in Settings /\ Rendering /\ IsArtifact(text, artifact)
  BY <1>1 DEF Speech
<1>3. u \in DOMAIN PlanNow
  <2>1. units = [v \in DOMAIN PlanNow |-> units[v]]
    BY <1>2 DEF Rendering
  <2>2. DOMAIN units = DOMAIN PlanNow
    BY <2>1
  <2> QED BY <2>2
<1>4. InTurn(text, PlanNow[u], setting.provider, units[u])
  BY <1>2, <1>3 DEF Rendering
<1>5. units[u] \in [unit : {PlanNow[u]}, at : {"todo", "asked", "done"},
                    sound : Seq(Range(SoundOf(text, PlanNow[u], setting.provider))), tries : Nat]
  BY <1>4 DEF InTurn
<1>6. IsPlan(text, setting.book, artifact, PlanNow)
  BY <1>2, PlanNowIs DEF PlanNow
<1>7. PlanNow[u].from \in Nat /\ PlanNow[u].to \in Nat
  BY <1>3, <1>6 DEF IsPlan
<1> QED BY <1>1, <1>2, <1>3, <1>4, <1>5, <1>7

\* A step that changes one unit, and keeps it in turn, keeps all in turn.
LEMMA OneUnitMoves ==
  ASSUME TextsAreTyped, Speech, NEW u \in DOMAIN units, NEW r,
         UNCHANGED <<stage, text, artifact, setting>>,
         units' = [units EXCEPT ![u] = r],
         InTurn(text, PlanNow[u], setting.provider, r),
         \A e \in cache' : FitsItsKey(text, e)
  PROVE  Speech'
<1>1. stage = "rendering" /\ u \in DOMAIN PlanNow /\ setting \in Settings
  BY UnitNow
<1>2. Rendering /\ IsArtifact(text, artifact) /\ Offered(setting.book, artifact, Catalogue)
  BY <1>1 DEF Speech
<1>3. PlanNow' = PlanNow
  BY DEF PlanNow
<1>4. units = [v \in DOMAIN PlanNow |-> units[v]] /\ DOMAIN units = DOMAIN PlanNow
  <2>1. units = [v \in DOMAIN PlanNow |-> units[v]]
    BY <1>2 DEF Rendering
  <2> QED BY <2>1
<1>5. units' = [v \in DOMAIN PlanNow |-> units'[v]]
  BY <1>4
<1>6. \A v \in DOMAIN PlanNow : units'[v] = IF v = u THEN r ELSE units[v]
  BY <1>4
<1>7. \A v \in DOMAIN PlanNow : InTurn(text, PlanNow[v], setting.provider, units[v])
  BY <1>2 DEF Rendering
<1>8. \A v \in DOMAIN PlanNow : InTurn(text, PlanNow[v], setting.provider, units'[v])
  BY <1>6, <1>7
<1>9. Rendering'
  BY <1>3, <1>5, <1>8 DEF Rendering
<1> QED BY <1>1, <1>2, <1>9 DEF Speech

\* A unit whose sound is whole is published under its own identity.
LEMMA PublishedIs ==
  ASSUME TextsAreTyped, Speech, NEW u \in Asked, IsWhole(u), NEW manifest
  PROVE  FitsItsKey(text, Entry(u, manifest))
<1> DEFINE x == PlanNow[u]
           whole == SoundOf(text, x, setting.provider)
<1>1. u \in DOMAIN units /\ units[u].at = "asked"
  BY DEF Asked
<1>2. /\ setting \in Settings /\ x.from \in Nat /\ x.to \in Nat /\ units[u].unit = x
      /\ InTurn(text, x, setting.provider, units[u])
  BY <1>1, UnitNow
<1> HIDE DEF x
<1>3. Heard(u) = whole
  BY <1>1, <1>2, HeardIs
<1>4. Entry(u, manifest).key = Key(x, setting.provider) /\ Entry(u, manifest).sound = whole
  BY <1>2, <1>3 DEF Entry
<1>5. Key(x, setting.provider).provider = setting.provider.id
  BY DEF Key
<1>6. whole = SoundOf(text, Key(x, setting.provider), setting.provider)
  BY KeyIsEnough
<1> HIDE DEF whole
<1> QED BY <1>2, <1>4, <1>5, <1>6 DEF FitsItsKey

\* A call that is sent leaves the rendering right.
LEMMA SendIs ==
  ASSUME TextsAreTyped, Speech, NEW u \in DOMAIN units, Send(u)
  PROVE  Speech'
<1> DEFINE x == PlanNow[u]
           whole == SoundOf(text, x, setting.provider)
           r == [units[u] EXCEPT !.at = "asked"]
<1>1. /\ units' = [units EXCEPT ![u] = r]
      /\ UNCHANGED <<stage, text, artifact, setting, cache>> /\ units[u].at = "todo"
  BY DEF Send, written, annotating
<1>2. /\ InTurn(text, x, setting.provider, units[u])
      /\ units[u] \in [unit : {x}, at : {"todo", "asked", "done"}, sound : Seq(Range(whole)), tries : Nat]
  BY UnitNow
<1> HIDE DEF x
<1>3. /\ r \in [unit : {x}, at : {"todo", "asked", "done"}, sound : Seq(Range(whole)), tries : Nat]
      /\ r.sound = units[u].sound /\ r.at = "asked"
  BY <1>2
<1> HIDE DEF r
<1>4. InTurn(text, x, setting.provider, r)
  BY <1>1, <1>2, <1>3 DEF InTurn
<1>5. \A e \in cache' : FitsItsKey(text, e)
  BY <1>1 DEF Speech
<1> QED BY <1>1, <1>4, <1>5, OneUnitMoves DEF x

\* So does one that is sent again,
LEMMA RetryIs ==
  ASSUME TextsAreTyped, Speech, NEW u \in DOMAIN units, Retry(u)
  PROVE  Speech'
<1> DEFINE x == PlanNow[u]
           whole == SoundOf(text, x, setting.provider)
           r == [units[u] EXCEPT !.tries = units[u].tries + 1]
<1>1. /\ units' = [units EXCEPT ![u] = r]
      /\ UNCHANGED <<stage, text, artifact, setting, cache>> /\ units[u].at = "asked"
  BY DEF Retry, written, annotating, Asked
<1>2. /\ InTurn(text, x, setting.provider, units[u])
      /\ units[u] \in [unit : {x}, at : {"todo", "asked", "done"}, sound : Seq(Range(whole)), tries : Nat]
  BY UnitNow
<1> HIDE DEF x
<1>3. /\ r \in [unit : {x}, at : {"todo", "asked", "done"}, sound : Seq(Range(whole)), tries : Nat]
      /\ r.sound = units[u].sound /\ r.at = units[u].at
  BY <1>2
<1> HIDE DEF r
<1>4. InTurn(text, x, setting.provider, r)
  BY <1>1, <1>2, <1>3 DEF InTurn
<1>5. \A e \in cache' : FitsItsKey(text, e)
  BY <1>1 DEF Speech
<1> QED BY <1>1, <1>4, <1>5, OneUnitMoves DEF x

\* one that is answered,
LEMMA HearIs ==
  ASSUME TextsAreTyped, Speech, NEW u \in DOMAIN units, Hear(u)
  PROVE  Speech'
<1> DEFINE x == PlanNow[u]
           whole == SoundOf(text, x, setting.provider)
           r == [unit |-> units[u].unit, at |-> IF IsWhole(u) THEN "done" ELSE "asked", sound |-> Heard(u), tries |-> 0]
<1>1. /\ units' = [units EXCEPT ![u] = r] /\ u \in Asked
      /\ cache' = IF IsWhole(u) THEN cache \cup {Entry(u, TRUE)} ELSE cache
      /\ UNCHANGED <<stage, text, artifact, setting>>
  BY DEF Hear, written, annotating
<1>2. units[u].at = "asked"
  BY <1>1 DEF Asked
<1>3. /\ InTurn(text, x, setting.provider, units[u]) /\ setting \in Settings
      /\ x.from \in Nat /\ x.to \in Nat /\ units[u].unit = x
  BY UnitNow
<1> HIDE DEF x
<1>4. /\ Heard(u) \in Seq(Range(whole)) /\ Len(Heard(u)) <= Len(whole)
      /\ \A n \in DOMAIN Heard(u) : Heard(u)[n] = whole[n]
      /\ IsWhole(u) <=> Len(Heard(u)) = Len(whole)
  BY <1>2, <1>3, HeardIs
<1>5. r.sound = Heard(u) /\ (r.at = "done" <=> IsWhole(u))
  OBVIOUS
<1>6. r \in [unit : {x}, at : {"todo", "asked", "done"}, sound : Seq(Range(whole)), tries : Nat]
  BY <1>3, <1>4
<1> HIDE DEF r
<1>7. InTurn(text, x, setting.provider, r)
  BY <1>4, <1>5, <1>6 DEF InTurn
<1>8. \A e \in cache' : FitsItsKey(text, e)
  <2>1. \A e \in cache : FitsItsKey(text, e)
    BY DEF Speech
  <2>2. IsWhole(u) => FitsItsKey(text, Entry(u, TRUE))
    BY <1>1, PublishedIs
  <2> QED BY <1>1, <2>1, <2>2
<1> QED BY <1>1, <1>7, <1>8, OneUnitMoves DEF x

\* and the end of the process, after which only the cache is left.
LEMMA CrashIs ==
  ASSUME TextsAreTyped, Speech, Crash
  PROVE  Speech'
<1>1. PICK filed \in SUBSET {u \in Asked : IsWhole(u)} : cache' = cache \cup {Entry(u, FALSE) : u \in filed}
  BY DEF Crash
<1>2. stage = "rendering" /\ stage' = "ready" /\ units' = << >> /\ UNCHANGED <<text, artifact>>
  BY DEF Crash, annotating
<1>3. \A e \in cache : FitsItsKey(text, e)
  BY DEF Speech
<1>4. \A u \in filed : FitsItsKey(text, Entry(u, FALSE))
  BY <1>1, PublishedIs
<1>5. \A e \in cache' : FitsItsKey(text, e)
  BY <1>1, <1>3, <1>4
<1> QED BY <1>2, <1>5 DEF Speech

\* What Assemble has before it.
LEMMA AllDone ==
  ASSUME TextsAreTyped, Speech, Assemble
  PROVE  /\ setting \in Settings /\ IsArtifact(text, artifact) /\ Offered(setting.book, artifact, Catalogue)
         /\ IsPlan(text, setting.book, artifact, PlanNow) /\ DOMAIN units = DOMAIN PlanNow
         /\ \A u \in DOMAIN PlanNow :
              /\ units[u].unit = PlanNow[u]
              /\ units[u].sound = SoundOf(text, PlanNow[u], setting.provider)
              /\ IsSound(text, PlanNow[u], setting.provider, units[u].sound)
<1>1. stage = "rendering" /\ \A u \in DOMAIN units : units[u].at = "done"
  BY DEF Assemble
<1>2. setting \in Settings /\ IsArtifact(text, artifact) /\ Offered(setting.book, artifact, Catalogue) /\ Rendering
  BY <1>1 DEF Speech
<1>3. IsPlan(text, setting.book, artifact, PlanNow)
  BY <1>2, PlanNowIs DEF PlanNow
<1>4. DOMAIN units = DOMAIN PlanNow
  <2>1. units = [v \in DOMAIN PlanNow |-> units[v]]
    BY <1>2 DEF Rendering
  <2> QED BY <2>1
<1>5. ASSUME NEW u \in DOMAIN PlanNow
      PROVE  /\ units[u].unit = PlanNow[u]
             /\ units[u].sound = SoundOf(text, PlanNow[u], setting.provider)
             /\ IsSound(text, PlanNow[u], setting.provider, units[u].sound)
  <2> DEFINE x == PlanNow[u]
             whole == SoundOf(text, x, setting.provider)
             sound == units[u].sound
  <2>1. units[u].unit = x /\ units[u].at = "done" /\ InTurn(text, x, setting.provider, units[u]) /\ x.from \in Nat /\ x.to \in Nat
    BY <1>1, <1>4, UnitNow
  <2> HIDE DEF x
  <2>2. IsSound(text, x, setting.provider, whole)
    <3>1. setting.provider.limit \in Nat \ {0}
      BY <1>2, LimitsArePositive
    <3> QED BY <2>1, <3>1, SoundIs DEF TextsAreTyped
  <2>3. whole \in Seq(Range(whole)) /\ DOMAIN whole = 1 .. Len(whole)
    BY <2>2 DEF IsSound
  <2>4. sound \in Seq(Range(whole)) /\ Len(sound) = Len(whole) /\ \A n \in DOMAIN sound : sound[n] = whole[n]
    BY <2>1 DEF InTurn
  <2> HIDE DEF whole, sound
  <2>5. sound = whole
    <3>1. DOMAIN sound = 1 .. Len(sound)
      BY <2>4
    <3> QED BY <3>1, <2>3, <2>4
  <2> QED BY <2>1, <2>2, <2>5 DEF x, whole, sound
<1> QED BY <1>2, <1>3, <1>4, <1>5

\* The audio assembled of units that are done is all they are to say.
LEMMA AssembleIs ==
  ASSUME TextsAreTyped, Speech, Assemble
  PROVE  Speech'
<1>1. /\ setting \in Settings /\ IsArtifact(text, artifact) /\ Offered(setting.book, artifact, Catalogue)
      /\ DOMAIN units = DOMAIN PlanNow
      /\ \A u \in DOMAIN PlanNow : /\ units[u].unit = PlanNow[u]
                                   /\ units[u].sound = SoundOf(text, PlanNow[u], setting.provider)
  BY AllDone
<1>2. /\ stage' = "spoken" /\ units' = << >> /\ UNCHANGED <<text, artifact, setting, cache>>
      /\ DOMAIN audio' = DOMAIN units
      /\ \A u \in DOMAIN units : audio'[u].sound = units[u].sound /\ audio'[u].place = units[u].unit.place
  BY DEF Assemble, annotating
<1>3. PlanNow' = PlanNow
  BY <1>2 DEF PlanNow
<1>4. \A u \in DOMAIN PlanNow : /\ audio'[u].sound = SoundOf(text, PlanNow[u], setting.provider)
                                /\ audio'[u].place = PlanNow[u].place
  BY <1>1, <1>2
<1>5. DOMAIN audio' = DOMAIN PlanNow
  BY <1>1, <1>2
<1>6. Rendered'
  BY <1>2, <1>3, <1>4, <1>5 DEF Rendered
<1>7. \A e \in cache' : FitsItsKey(text, e)
  BY <1>2 DEF Speech
<1> QED BY <1>1, <1>2, <1>6, <1>7 DEF Speech

\* Every step of the reading keeps the rendering right.
LEMMA SpeechStays == TextsAreTyped /\ Annotation /\ Speech /\ [ReadingNext]_reading => Speech'
<1> SUFFICES ASSUME TextsAreTyped, Annotation, Speech, [ReadingNext]_reading PROVE Speech'
  OBVIOUS
<1>1. ASSUME NEW line \in Lines, WriteLine(line) PROVE Speech'
  BY <1>1 DEF WriteLine, Speech, speaking
<1>2. ASSUME Import PROVE Speech'
  BY <1>2 DEF Import, Speech, speaking
<1>3. ASSUME NEW kind \in Kinds, Type(kind) PROVE Speech'
  BY <1>3 DEF Type, Speech, speaking
<1>4. ASSUME Analyze \/ Answer \/ Repair \/ Complete \/ GiveUp PROVE Speech'
  <2>1. /\ stage' \in {"asking", "repairing", "completing", "annotated", "unread"} /\ stage # "rendering"
        /\ UNCHANGED <<text, cache, units>>
    BY <1>4 DEF Analyze, Answer, Repair, Complete, GiveUp, Judged, speaking
  <2> QED BY <2>1 DEF Speech
<1>5. ASSUME Apply PROVE Speech'
  <2>1. stage' \in {"ready", "unread"} /\ stage # "rendering" /\ UNCHANGED <<text, cache, units>>
    BY <1>5 DEF Apply, speaking
  <2>2. stage' = "ready" => IsArtifact(text, artifact')
    BY <1>5, AppliedIs
  <2> QED BY <2>1, <2>2 DEF Speech
<1>6. ASSUME Begin PROVE Speech'
  BY <1>6, BeginIs
<1>7. ASSUME Crash PROVE Speech'
  BY <1>7, CrashIs
<1>8. ASSUME Assemble PROVE Speech'
  BY <1>8, AssembleIs
<1>9. ASSUME NEW u \in DOMAIN units, Fail(u) PROVE Speech'
  <2>1. stage = "rendering"
    BY UnitNow
  <2> QED BY <1>9, <2>1 DEF Fail, Speech, annotating
<1>10. ASSUME NEW u \in DOMAIN units, Send(u) \/ Hear(u) \/ Retry(u) PROVE Speech'
  BY <1>10, SendIs, HearIs, RetryIs
<1>11. ASSUME UNCHANGED reading PROVE Speech'
  <2>1. UNCHANGED <<stage, text, artifact, setting, units, cache, audio>>
    BY <1>11 DEF reading, written, annotating, speaking
  <2>2. PlanNow' = PlanNow
    BY <2>1 DEF PlanNow
  <2> QED BY <2>1, <2>2 DEF Speech, Rendering, Rendered
<1> QED BY <1>1, <1>2, <1>3, <1>4, <1>5, <1>6, <1>7, <1>8, <1>9, <1>10, <1>11 DEF ReadingNext

-----------------------------------------------------------------------------
(* What the audio of a chapter says *)

\* What is rendered is then what was written.
LEMMA SpokenIs == TextsAreTyped /\ Speech => SpokenAsWritten
<1> SUFFICES ASSUME TextsAreTyped, Speech, stage = "spoken", NEW i \in {j \in DOMAIN text : text[j] \in Letters}
             PROVE  LET Part(x) == audio[x[1]].sound[x[2]]
                        parts == UNION {{u} \X DOMAIN audio[u].sound : u \in DOMAIN audio}
                        item == artifact[SegmentOf(i)]
                        said == {x \in parts : IF IsReplaced(text, setting.book, item)
                                               THEN audio[x[1]].place = SegmentOf(i)
                                               ELSE i \in Places(Part(x).from, Part(x).to)}
                    IN /\ Cardinality(said) = 1
                       /\ \A x \in said :
                            /\ Part(x).voice = VoiceFor(setting.book, Called(artifact, item.speaker))
                            /\ Part(x).voice \in Catalogue
                            /\ Part(x).emotion = IF setting.provider.emotional THEN item.emotion ELSE "neutral"
  BY DEF SpokenAsWritten
<1> DEFINE Part(x) == audio[x[1]].sound[x[2]]
           parts == UNION {{u} \X DOMAIN audio[u].sound : u \in DOMAIN audio}
           said == {x \in parts : IF IsReplaced(text, setting.book, artifact[SegmentOf(i)])
                                  THEN audio[x[1]].place = SegmentOf(i)
                                  ELSE i \in Places(Part(x).from, Part(x).to)}
           sounds == [u \in DOMAIN audio |-> audio[u].sound]
           Says(k, v, m) == SaysIt(text, setting.book, artifact, PlanNow, sounds, i, k, v, m)
<1>1. /\ IsArtifact(text, artifact) /\ Rendered /\ setting \in Settings
      /\ Offered(setting.book, artifact, Catalogue)
  BY DEF Speech
<1>2. IsPlan(text, setting.book, artifact, PlanNow)
  BY <1>1, PlanNowIs DEF PlanNow
<1>3. DOMAIN audio = DOMAIN PlanNow /\ DOMAIN sounds = DOMAIN PlanNow
  BY <1>1 DEF Rendered
<1>4. \A u \in DOMAIN audio : sounds[u] = audio[u].sound
  OBVIOUS
<1>5. ASSUME NEW u \in DOMAIN PlanNow PROVE IsSound(text, PlanNow[u], setting.provider, sounds[u])
  <2>1. sounds[u] = SoundOf(text, PlanNow[u], setting.provider)
    BY <1>1, <1>3, <1>4 DEF Rendered
  <2>2. PlanNow[u].from \in Nat /\ PlanNow[u].to \in Nat
    BY <1>2 DEF IsPlan
  <2>3. setting.provider.limit \in Nat \ {0}
    BY <1>1, LimitsArePositive
  <2> QED BY <2>1, <2>2, <2>3, SoundIs DEF TextsAreTyped
<1> HIDE DEF sounds, Says
<1>6. i \in DOMAIN text /\ text[i] \in Letters /\ i \in Nat
  BY DEF TextsAreTyped
<1>7. PICK k \in DOMAIN artifact : \E u \in DOMAIN sounds : \E n \in DOMAIN sounds[u] :
        /\ i \in Places(artifact[k].from, artifact[k].to) /\ PlanNow[u].place = k
        /\ Says(k, u, n)
        /\ \A v \in DOMAIN sounds : \A m \in DOMAIN sounds[v] : Says(k, v, m) => v = u /\ m = n
  <2>1. IsSaidOnce(text, setting.book, artifact, PlanNow, sounds, i)
    <3>1. AllSound(text, PlanNow, setting.provider, sounds)
      BY <1>3, <1>5 DEF AllSound
    <3> QED BY <1>1, <1>2, <1>6, <3>1, SaidOnce DEF TextsAreTyped
  <2> QED BY <2>1 DEF IsSaidOnce, Says
<1>8. PICK u \in DOMAIN sounds : \E n \in DOMAIN sounds[u] :
        /\ i \in Places(artifact[k].from, artifact[k].to) /\ PlanNow[u].place = k
        /\ Says(k, u, n)
        /\ \A v \in DOMAIN sounds : \A m \in DOMAIN sounds[v] : Says(k, v, m) => v = u /\ m = n
  BY <1>7
<1>9. PICK n \in DOMAIN sounds[u] :
        /\ i \in Places(artifact[k].from, artifact[k].to) /\ PlanNow[u].place = k
        /\ Says(k, u, n)
        /\ \A v \in DOMAIN sounds : \A m \in DOMAIN sounds[v] : Says(k, v, m) => v = u /\ m = n
  BY <1>8
<1>10. SegmentOf(i) = k
  <2> DEFINE held == {h \in DOMAIN artifact : i \in Places(artifact[h].from, artifact[h].to)}
  <2>1. k \in held
    BY <1>9
  <2>2. \A h \in held : h = k
    BY <1>1, <1>6, <1>9, OneSegment
  <2>3. SegmentOf(i) = CHOOSE h \in DOMAIN artifact : i \in Places(artifact[h].from, artifact[h].to)
    BY DEF SegmentOf
  <2> QED BY <2>1, <2>2, <2>3
<1>11. u \in DOMAIN audio /\ sounds[u] = audio[u].sound
  BY <1>3, <1>4
<1>18. ASSUME NEW v \in DOMAIN audio, NEW m \in DOMAIN audio[v].sound, NEW x, x = <<v, m>>
       PROVE  Says(k, v, m) <=> IF IsReplaced(text, setting.book, artifact[SegmentOf(i)])
                                THEN audio[x[1]].place = SegmentOf(i)
                                ELSE i \in Places(Part(x).from, Part(x).to)
  <2>1. audio[v].place = PlanNow[v].place
    BY <1>1, <1>3 DEF Rendered
  <2>2. x[1] = v /\ x[2] = m /\ Part(x) = sounds[v][m]
    BY <1>4, <1>18
  <2> HIDE DEF Part
  <2> QED BY <2>1, <2>2, <1>10 DEF Says, SaysIt
<1>12. said = {<<u, n>>}
  <2>1. <<u, n>> \in said
    <3>1. <<u, n>> \in {u} \X DOMAIN audio[u].sound
      BY <1>9, <1>11
    <3>2. <<u, n>> \in parts
      BY <3>1, <1>11
    <3>3. IF IsReplaced(text, setting.book, artifact[SegmentOf(i)])
          THEN audio[<<u, n>>[1]].place = SegmentOf(i)
          ELSE i \in Places(Part(<<u, n>>).from, Part(<<u, n>>).to)
      <4> DEFINE x == <<u, n>>
      <4>1. u \in DOMAIN audio /\ n \in DOMAIN audio[u].sound /\ x = <<u, n>> /\ Says(k, u, n)
        BY <1>9, <1>11
      <4> HIDE DEF x, Part
      <4> QED BY <4>1, <1>18 DEF x
    <3> HIDE DEF parts, Part
    <3> QED BY <3>2, <3>3
  <2>2. ASSUME NEW x \in said PROVE x = <<u, n>>
    <3>1. PICK v \in DOMAIN audio : x \in {v} \X DOMAIN audio[v].sound
      OBVIOUS
    <3>2. x = <<v, x[2]>> /\ x[1] = v /\ x[2] \in DOMAIN audio[v].sound
      BY <3>1
    <3>3. IF IsReplaced(text, setting.book, artifact[SegmentOf(i)])
          THEN audio[x[1]].place = SegmentOf(i)
          ELSE i \in Places(Part(x).from, Part(x).to)
      OBVIOUS
    <3>4. v \in DOMAIN sounds /\ x[2] \in DOMAIN sounds[v]
      BY <3>2, <1>3, <1>4
    <3> HIDE DEF Part, parts, said
    <3>6. Says(k, v, x[2])
      BY <3>2, <3>3, <1>18
    <3>5. v = u /\ x[2] = n
      BY <3>4, <3>6, <1>9
    <3> QED BY <3>2, <3>5
  <2> HIDE DEF said
  <2> QED BY <2>1, <2>2
<1>13. /\ Part(<<u, n>>).voice = PlanNow[u].voice
       /\ Part(<<u, n>>).emotion = IF setting.provider.emotional THEN PlanNow[u].emotion ELSE "neutral"
  <2>1. Part(<<u, n>>) = sounds[u][n]
    BY <1>11
  <2>2. u \in DOMAIN PlanNow
    BY <1>3
  <2> HIDE DEF Part
  <2> QED BY <2>1, <2>2, <1>5 DEF IsSound
<1>14. /\ PlanNow[u].voice = VoiceFor(setting.book, Called(artifact, artifact[k].speaker))
       /\ PlanNow[u].emotion = artifact[k].emotion
  BY <1>2, <1>3, <1>9 DEF IsPlan
<1>15. VoiceFor(setting.book, Called(artifact, artifact[k].speaker)) \in Catalogue
  BY <1>1 DEF Offered, VoiceUsage
<1> HIDE DEF Part, parts
<1>16. Cardinality(said) = 1
  BY <1>12, FS_Singleton
<1>17. \A x \in said :
         /\ Part(x).voice = VoiceFor(setting.book, Called(artifact, artifact[SegmentOf(i)].speaker))
         /\ Part(x).voice \in Catalogue
         /\ Part(x).emotion = IF setting.provider.emotional THEN artifact[SegmentOf(i)].emotion ELSE "neutral"
  <2> HIDE DEF said
  <2> QED BY <1>10, <1>12, <1>13, <1>14, <1>15
<1> QED BY <1>16, <1>17 DEF Part, parts, said

\* The rendering is always right.
LEMMA AlwaysSpeech == ReadingSpec => [](TextsAreTyped /\ Annotation /\ Speech)
<1>1. TextsAreTyped /\ Annotation /\ Speech /\ [ReadingNext]_reading => (TextsAreTyped /\ Annotation /\ Speech)'
  BY WrittenStays, AnnotationStays, SpeechStays
<1>2. ReadingInit => TextsAreTyped /\ Annotation /\ Speech
  BY WrittenAtFirst, AnnotationAtFirst, SpeechAtFirst
<1> QED BY <1>1, <1>2, PTL DEF ReadingSpec

\* The audio (tts.generate_chapter_audio) says each letter of the chapter once, in the
\* voice and the emotion of its segment, whatever was cached by other requests, cut short
\* by a failure or left by a crash.
THEOREM AudioIsSpokenAsWritten == ReadingSpec => []SpokenAsWritten
BY SpokenIs, AlwaysSpeech, PTL

-----------------------------------------------------------------------------
(* The timing *)

\* The times of the segments up to one are those of the units of the segments up to it.
AddUp(N, M, place, a, time) ==
  \A q \in 0 .. M : SumFunctionOnSet(time, 1 .. q) = SumFunctionOnSet(a, {v \in 1 .. N : place[v] <= q})

\* The start of each unit is the time of the units before it.
LEMMA TimesAddUp ==
  ASSUME NEW N \in Nat, NEW M \in Nat, NEW place, \A v \in 1 .. N : place[v] \in 1 .. M,
         NEW a, \A v \in 1 .. N : a[v] \in Nat,
         NEW time, \A k \in 1 .. M : time[k] = SumFunctionOnSet(a, {v \in 1 .. N : place[v] = k})
  PROVE  AddUp(N, M, place, a, time)
<1> DEFINE S == 1 .. N
           At(k) == {v \in S : place[v] = k}
           UpTo(q) == {v \in S : place[v] <= q}
           Q == {q \in Nat : q <= M => SumFunctionOnSet(time, 1 .. q) = SumFunctionOnSet(a, UpTo(q))}
<1>1. IsFiniteSet(S)
  <2>1. 1 \in Int /\ N \in Int
    OBVIOUS
  <2> QED BY <2>1, FS_Interval
<1>2. \A v \in S : place[v] \in 1 .. M /\ place[v] \in Nat /\ a[v] \in Nat
  OBVIOUS
<1>3. \A k \in 1 .. M : time[k] = SumFunctionOnSet(a, At(k)) /\ At(k) \in SUBSET S
  OBVIOUS
<1>4. UpTo(0) = {}
  BY <1>2
<1>5. ASSUME NEW q \in Nat
      PROVE  UpTo(q + 1) = UpTo(q) \cup At(q + 1) /\ UpTo(q) \cap At(q + 1) = {} /\ UpTo(q) \in SUBSET S
  BY <1>2, <1>5
<1> HIDE DEF S, At, UpTo
<1>6. \A k \in 1 .. M : time[k] \in Nat
  <2> TAKE k \in 1 .. M
  <2>1. At(k) \in SUBSET S /\ time[k] = SumFunctionOnSet(a, At(k))
    BY <1>3
  <2> QED BY <2>1, <1>1, <1>2, SumIsNat
<1>7. 0 \in Q
  <2>1. IsFiniteSet({})
    BY FS_EmptySet
  <2>2. SumFunctionOnSet(time, {}) = 0 /\ SumFunctionOnSet(a, {}) = 0
    BY <2>1, SumStep
  <2>3. 1 .. 0 = {}
    OBVIOUS
  <2> QED BY <2>2, <2>3, <1>4
<1>8. ASSUME NEW q \in Nat, q \in Q PROVE q + 1 \in Q
  <2> SUFFICES ASSUME q + 1 <= M PROVE SumFunctionOnSet(time, 1 .. q + 1) = SumFunctionOnSet(a, UpTo(q + 1))
    OBVIOUS
  <2>1. SumFunctionOnSet(time, 1 .. q) = SumFunctionOnSet(a, UpTo(q))
    BY <1>8
  <2> HIDE DEF Q
  <2> DEFINE r == q + 1
  <2>2. r \in Nat /\ 1 \in Nat /\ 1 <= r /\ r - 1 = q /\ r \in 1 .. M
    OBVIOUS
  <2>3. \A x \in 1 .. r : time[x] \in Nat
    BY <2>2, <1>6
  <2> HIDE DEF r
  <2>4. SumFunctionOnSet(time, 1 .. r) = SumFunctionOnSet(time, 1 .. r - 1) + time[r]
    BY <2>2, <2>3, SumUpTo
  <2>5. SumFunctionOnSet(time, 1 .. r) = SumFunctionOnSet(time, 1 .. q) + time[r]
    BY <2>2, <2>4
  <2>6. /\ UpTo(r) = UpTo(q) \cup At(r) /\ UpTo(q) \cap At(r) = {}
        /\ UpTo(q) \in SUBSET S /\ At(r) \in SUBSET S
    BY <1>3, <1>5, <2>2 DEF r
  <2>7. SumFunctionOnSet(a, UpTo(r)) = SumFunctionOnSet(a, UpTo(q)) + SumFunctionOnSet(a, At(r))
    BY <2>6, <1>1, <1>2, SumOfTwo
  <2>8. time[r] = SumFunctionOnSet(a, At(r))
    BY <2>2, <1>3
  <2> QED BY <2>1, <2>5, <2>7, <2>8 DEF r
<1>9. \A q \in Nat : q \in Q
  <2> HIDE DEF Q
  <2> QED BY <1>7, <1>8, Upward
<1> QED BY <1>9 DEF S, UpTo, AddUp

\* The duration of a sound is a number.
LEMMA DurationIs ==
  ASSUME NEW t, NEW unit, NEW provider, NEW s, IsSound(t, unit, provider, s)
  PROVE  Duration(s) \in Nat
<1> DEFINE f == [n \in DOMAIN s |-> Lasts(s[n])]
           S == DOMAIN s
<1>1. S = 1 .. Len(s) /\ Len(s) \in Nat
  BY DEF IsSound
<1>2. IsFiniteSet(S)
  <2>1. 1 \in Int /\ Len(s) \in Int
    BY <1>1
  <2> QED BY <2>1, <1>1, FS_Interval
<1>3. \A n \in S : s[n].from \in Nat /\ s[n].to \in Nat /\ s[n].from <= s[n].to
  BY DEF IsSound
<1>4. \A n \in S : f[n] \in Nat
  BY <1>3 DEF Lasts, IsPause
<1>5. DOMAIN f = S
  OBVIOUS
<1> HIDE DEF f, S
<1>6. SumFunctionOnSet(f, S) \in Nat
  BY <1>2, <1>4, SumIsNat
<1>7. Duration(s) = 10 * SumFunctionOnSet(f, S)
  BY <1>5 DEF Duration, SumFunction, f
<1> QED BY <1>6, <1>7

\* What the segments before one are counted for, and what ffprobe lost, is where its first unit
\* begins.
LEMMA AssembledInTime ==
  ASSUME TextsAreTyped, Speech, Assemble
  PROVE  TimingFollowsTheAudio'
<1>15. PICK lost \in SUBSET DOMAIN units :
         /\ audio' = [u \in DOMAIN units |-> [sound |-> units[u].sound, start |-> Offset(u),
                                              place |-> units[u].unit.place, measured |-> u \notin lost]]
         /\ timing' = [k \in DOMAIN artifact |-> Accrued(k, lost)]
  BY DEF Assemble
<1> DEFINE N == Len(PlanNow)
           M == Len(artifact)
           place == [v \in 1 .. N |-> PlanNow[v].place]
           D == [v \in 1 .. N |-> Duration(units[v].sound)]
           a == [u \in DOMAIN units |-> Measured(u, lost) + IF u < Len(units) THEN Silence ELSE 0]
           o == [v \in DOMAIN units |-> Duration(units[v].sound) + Silence]
           time == [k \in DOMAIN artifact |-> Accrued(k, lost)]
           unheard == [v \in DOMAIN audio' |-> IF audio'[v].measured THEN 0 ELSE Duration(audio'[v].sound)]
<1>1. /\ IsArtifact(text, artifact) /\ IsPlan(text, setting.book, artifact, PlanNow)
      /\ DOMAIN units = DOMAIN PlanNow
      /\ \A u \in DOMAIN PlanNow : /\ units[u].unit = PlanNow[u]
                                   /\ IsSound(text, PlanNow[u], setting.provider, units[u].sound)
  BY AllDone
<1>2. N \in Nat /\ M \in Nat /\ DOMAIN PlanNow = 1 .. N /\ DOMAIN units = 1 .. N /\ DOMAIN artifact = 1 .. M
  BY <1>1 DEF IsPlan, IsArtifact
<1>3. Len(units) = N
  <2>1. stage = "rendering" /\ Rendering
    BY DEF Assemble, Speech
  <2>2. units = [v \in DOMAIN PlanNow |-> units[v]]
    BY <2>1 DEF Rendering
  <2>3. \A v \in DOMAIN PlanNow : units[v] \in Range(units)
    BY <1>1 DEF Range
  <2> HIDE DEF N
  <2>4. units \in [1 .. N -> Range(units)]
    BY <1>2, <2>2, <2>3
  <2>5. units \in Seq(Range(units))
    BY <1>2, <2>4
  <2>6. Len(units) \in Nat /\ DOMAIN units = 1 .. Len(units)
    BY <2>5
  <2> QED BY <1>2, <2>6
<1>5. \A v \in 1 .. N : place[v] = PlanNow[v].place /\ D[v] = Duration(units[v].sound) /\ D[v] \in Nat
  <2> HIDE DEF N
  <2> QED BY <1>1, <1>2, DurationIs
<1>6. \A v \in 1 .. N : place[v] \in 1 .. M
  <2>1. \A v \in DOMAIN PlanNow : PlanNow[v].place \in DOMAIN artifact
    BY <1>1 DEF IsPlan
  <2> HIDE DEF N, M, place
  <2> QED BY <2>1, <1>2, <1>5
<1>7. \A u, v \in 1 .. N : u < v => place[u] <= place[v]
  <2>1. \A u, v \in DOMAIN PlanNow : u < v => PlanNow[u].place <= PlanNow[v].place
    BY <1>1 DEF IsPlan
  <2> HIDE DEF N, place
  <2> QED BY <2>1, <1>2, <1>5
<1>8. \A v \in 1 .. N : /\ a[v] = (IF v \in lost THEN 0 ELSE D[v]) + (IF v < N THEN 1 ELSE 0)
                        /\ o[v] = D[v] + 1
  <2> HIDE DEF N, D
  <2> QED BY <1>2, <1>3, <1>5 DEF Silence, Measured
<1>9. \A k \in 1 .. M : time[k] = SumFunctionOnSet(a, {v \in 1 .. N : place[v] = k})
  <2> TAKE k \in 1 .. M
  <2>1. UnitsAt(k) = {v \in 1 .. N : place[v] = k}
    <3> HIDE DEF N, M, place
    <3> QED BY <1>1, <1>2, <1>5 DEF UnitsAt
  <2>2. time[k] = Accrued(k, lost)
    BY <1>2
  <2>3. Accrued(k, lost) = SumFunctionOnSet(a, UnitsAt(k))
    BY DEF Accrued
  <2> HIDE DEF N, M, place, a, time
  <2> QED BY <2>1, <2>2, <2>3
<1>10. \A u \in 1 .. N : /\ audio'[u].place = place[u] /\ audio'[u].start = SumFunctionOnSet(o, 1 .. u - 1)
  <2> TAKE u \in 1 .. N
  <2>1. audio'[u].start = Offset(u) /\ audio'[u].place = units[u].unit.place
    BY <1>2, <1>15
  <2>2. Offset(u) = SumFunctionOnSet(o, 1 .. u - 1)
    BY DEF Offset
  <2> HIDE DEF o, N, place
  <2> QED BY <1>1, <1>2, <1>5, <2>1, <2>2
<1>11. DOMAIN audio' = 1 .. N /\ timing' = time
  BY <1>2, <1>15
<1>4. \A v \in 1 .. N : unheard[v] = IF v \in lost THEN D[v] ELSE 0
  <2> TAKE v \in 1 .. N
  <2>1. v \in DOMAIN audio' /\ audio'[v].sound = units[v].sound /\ (audio'[v].measured <=> v \notin lost)
    BY <1>2, <1>15
  <2>2. unheard[v] = IF audio'[v].measured THEN 0 ELSE Duration(audio'[v].sound)
    BY <2>1
  <2> HIDE DEF unheard, N, D
  <2> QED BY <2>1, <2>2, <1>5
<1> HIDE DEF N, M, place, D, a, o, time, unheard
<1>12. \A v \in 1 .. N : a[v] \in Nat
  BY <1>2, <1>5, <1>8
<1>13. \A q \in 0 .. M : SumFunctionOnSet(time, 1 .. q) = SumFunctionOnSet(a, {v \in 1 .. N : place[v] <= q})
  <2>1. AddUp(N, M, place, a, time)
    BY <1>2, <1>6, <1>9, <1>12, TimesAddUp
  <2> QED BY <2>1 DEF AddUp
<1>14. ASSUME NEW u \in 1 .. N, \A v \in 1 .. u - 1 : audio'[v].place # audio'[u].place
       PROVE  audio'[u].start = SumFunctionOnSet(timing', 1 .. audio'[u].place - 1)
                + SumFunctionOnSet(unheard, 1 .. u - 1)
  <2> DEFINE p == place[u]
  <2>1. p \in 1 .. M /\ p - 1 \in 0 .. M /\ p \in Nat /\ u \in Nat
    BY <1>2, <1>6
  <2>2. {v \in 1 .. N : place[v] <= p - 1} = 1 .. u - 1
    <3>1. ASSUME NEW v \in 1 .. N PROVE place[v] <= p - 1 <=> v \in 1 .. u - 1
      <4>1. place[v] \in Nat /\ v \in Nat
        BY <1>2, <1>6
      <4>2. CASE v < u
        <5>1. place[v] <= p
          BY <4>2, <1>7
        <5>2. v \in 1 .. u - 1
          BY <4>1, <4>2, <2>1
        <5>3. audio'[v].place # audio'[u].place
          BY <5>2, <1>14
        <5>4. audio'[v].place = place[v] /\ audio'[u].place = p
          BY <1>10
        <5> HIDE DEF p
        <5>5. place[v] # p
          BY <5>3, <5>4
        <5> QED BY <5>1, <5>2, <5>5, <4>1, <2>1
      <4>3. CASE v = u
        <5> HIDE DEF p
        <5>1. place[v] = p
          BY <4>3 DEF p
        <5> QED BY <5>1, <4>1, <4>3, <2>1
      <4>4. CASE v > u
        <5>1. p <= place[v]
          BY <4>1, <4>4, <1>7
        <5> HIDE DEF p
        <5> QED BY <5>1, <4>1, <4>4, <2>1
      <4> QED BY <4>1, <4>2, <4>3, <4>4, <2>1
    <3>2. 1 .. u - 1 \subseteq 1 .. N
      BY <1>2, <2>1
    <3> HIDE DEF p
    <3> QED BY <3>1, <3>2
  <2> HIDE DEF p
  <2>3. SumFunctionOnSet(time, 1 .. p - 1) = SumFunctionOnSet(a, 1 .. u - 1)
    BY <1>13, <2>1, <2>2
  <2>4. SumFunctionOnSet(o, 1 .. u - 1) = SumFunctionOnSet(a, 1 .. u - 1) + SumFunctionOnSet(unheard, 1 .. u - 1)
    <3>1. IsFiniteSet(1 .. u - 1)
      <4>1. 1 \in Int /\ u - 1 \in Int
        BY <2>1
      <4> QED BY <4>1, FS_Interval
    <3>2. \A x \in 1 .. u - 1 : o[x] = a[x] + unheard[x] /\ a[x] \in Nat /\ unheard[x] \in Nat
      <4> TAKE x \in 1 .. u - 1
      <4>1. x \in 1 .. N /\ x < N
        BY <1>2, <2>1
      <4> QED BY <4>1, <1>4, <1>5, <1>8
    <3> DEFINE X == 1 .. u - 1
    <3> HIDE DEF X
    <3>3. IsFiniteSet(X) /\ \A x \in X : o[x] = a[x] + unheard[x] /\ a[x] \in Nat /\ unheard[x] \in Nat
      BY <3>1, <3>2 DEF X
    <3> QED BY <3>3, SumsTogether DEF X
  <2> QED BY <2>3, <2>4, <1>10, <1>11 DEF p
<1> QED BY <1>11, <1>14 DEF TimingFollowsTheAudio, unheard

\* Every step keeps the timing that of the audio.
LEMMA TimingStays == TextsAreTyped /\ Speech /\ TimingFollowsTheAudio /\ [ReadingNext]_reading => TimingFollowsTheAudio'
<1> SUFFICES ASSUME TextsAreTyped, Speech, TimingFollowsTheAudio, [ReadingNext]_reading PROVE TimingFollowsTheAudio'
  OBVIOUS
<1>1. ASSUME Assemble PROVE TimingFollowsTheAudio'
  BY <1>1, AssembledInTime
<1>2. ASSUME stage' # "spoken" PROVE TimingFollowsTheAudio'
  BY <1>2 DEF TimingFollowsTheAudio
<1>3. ASSUME UNCHANGED <<stage, audio, timing>> PROVE TimingFollowsTheAudio'
  BY <1>3 DEF TimingFollowsTheAudio
<1>4. ASSUME \/ \E line \in Lines : WriteLine(line)
             \/ Import
             \/ \E kind \in Kinds : Type(kind)
             \/ Analyze \/ Answer \/ Repair \/ Complete \/ GiveUp \/ Apply \/ Begin \/ Crash
      PROVE  stage' # "spoken"
  BY <1>4 DEF WriteLine, Import, Type, Analyze, Answer, Judged, Repair, Complete, GiveUp, Apply, Begin, Crash
<1>5. ASSUME NEW u \in DOMAIN units, Fail(u) PROVE stage' # "spoken"
  BY <1>5 DEF Fail
<1>6. ASSUME NEW u \in DOMAIN units, Send(u) \/ Hear(u) \/ Retry(u) PROVE UNCHANGED <<stage, audio, timing>>
  BY <1>6 DEF Send, Hear, Retry, written
<1>7. ASSUME UNCHANGED reading PROVE UNCHANGED <<stage, audio, timing>>
  BY <1>7 DEF reading, written, speaking
<1> QED BY <1>1, <1>2, <1>3, <1>4, <1>5, <1>6, <1>7 DEF ReadingNext

\* What timing.json counts for the segments before one is where the first sound of that one
\* begins in the file.
THEOREM TimingIsInTime == ReadingSpec => []TimingFollowsTheAudio
<1>1. ReadingInit => TimingFollowsTheAudio
  BY DEF ReadingInit, TimingFollowsTheAudio
<1> QED BY <1>1, TimingStays, AlwaysSpeech, PTL DEF ReadingSpec

-----------------------------------------------------------------------------
(* The types of what is planned, said and recorded *)

\* A function on the first numbers is a sequence of what it takes them to.
LEMMA IsSequence ==
  ASSUME NEW n \in Nat, NEW X, NEW f, f = [p \in 1 .. n |-> f[p]], \A p \in 1 .. n : f[p] \in X
  PROVE  f \in Seq(X)
<1>1. f \in [1 .. n -> X]
  OBVIOUS
<1> QED BY <1>1

\* The units of a plan in some voices.
UnitsIn(voices) ==
  [place : Nat, segment : Nat, part : Nat, from : Nat, to : Nat, voice : voices, emotion : Emotions]

\* The units of a segment have one of the voices that are checked before the rendering.
LEMMA UnitsOfTyped ==
  ASSUME NEW t \in Seq(Kinds), NEW book, NEW art \in Seq(Items), NEW k \in DOMAIN art, NEW max \in Nat \ {0},
         NEW us, us = UnitsOf(t, book, art, k, max)
  PROVE  us \in Seq(UnitsIn(VoiceUsage(book, art)))
<1> DEFINE item == art[k]
           a == item.from
           b == item.to
           pieces == SpokenOf(t, book, item, max)
           voice == VoiceFor(book, Called(art, item.speaker))
<1>1. us = [p \in DOMAIN pieces |->
              [place |-> k, segment |-> item.segment, part |-> p, from |-> pieces[p][1], to |-> pieces[p][2],
               voice |-> voice, emotion |-> item.emotion]]
  BY DEF UnitsOf
<1>2. voice \in VoiceUsage(book, art)
  BY DEF VoiceUsage
<1>3. /\ a \in Nat /\ b \in Nat /\ item.segment \in Nat /\ item.emotion \in Emotions
      /\ k \in Nat
  <2>1. item \in Items /\ k \in Nat
    OBVIOUS
  <2> HIDE DEF item
  <2> QED BY <2>1 DEF Items
<1> HIDE DEF item, voice, pieces
<1>5. pieces \in Seq(Nat \X Nat)
  <2>1. pieces = SpokenOf(t, book, item, max)
    BY DEF pieces
  <2>2. InPieces(t, pieces, item.from, item.to)
    BY <2>1, <1>3, SpokenOfIs
  <2> QED BY <2>2 DEF InPieces
<1> HIDE DEF a, b
<1> DEFINE n == Len(pieces)
<1>6. n \in Nat /\ DOMAIN pieces = 1 .. n
  BY <1>5
<1>7. ASSUME NEW p \in 1 .. n PROVE us[p] \in UnitsIn(VoiceUsage(book, art))
  <2>1. p \in DOMAIN pieces /\ p \in Nat
    BY <1>6
  <2>2. pieces[p] \in Nat \X Nat
    BY <1>5, <2>1
  <2>3. pieces[p][1] \in Nat /\ pieces[p][2] \in Nat
    BY <2>2
  <2>4. us[p] = [place |-> k, segment |-> item.segment, part |-> p, from |-> pieces[p][1], to |-> pieces[p][2],
                 voice |-> voice, emotion |-> item.emotion]
    BY <1>1, <2>1
  <2> QED BY <2>1, <2>3, <2>4, <1>2, <1>3 DEF UnitsIn
<1>8. us = [p \in 1 .. n |-> us[p]]
  BY <1>1, <1>6
<1> HIDE DEF n
<1> QED BY <1>6, <1>7, <1>8, IsSequence

\* So have those of the whole chapter.
LEMMA PlanTyped ==
  ASSUME NEW t \in Seq(Kinds), NEW book, NEW art \in Seq(Items), NEW max \in Nat \ {0},
         NEW plan, plan = SpeechUnits(t, book, art, max)
  PROVE  plan \in Seq(UnitsIn(VoiceUsage(book, art)))
<1> DEFINE seqs == [k \in DOMAIN art |-> UnitsOf(t, book, art, k, max)]
           X == UnitsIn(VoiceUsage(book, art))
           n == Len(art)
<1>1. plan = FlattenSeq(seqs)
  BY DEF SpeechUnits
<1>2. n \in Nat /\ DOMAIN art = 1 .. n
  OBVIOUS
<1>3. \A k \in DOMAIN art : seqs[k] \in Seq(X)
  <2> SUFFICES ASSUME NEW k \in DOMAIN art PROVE seqs[k] \in Seq(X)
    OBVIOUS
  <2>1. seqs[k] = UnitsOf(t, book, art, k, max)
    OBVIOUS
  <2> HIDE DEF seqs
  <2> QED BY <2>1, UnitsOfTyped
<1>4. seqs = [k \in 1 .. n |-> seqs[k]]
  BY <1>2
<1> HIDE DEF seqs, X, n
<1>5. seqs \in Seq(Seq(X))
  BY <1>2, <1>3, <1>4, IsSequence
<1> QED BY <1>1, <1>5, FlattenIs DEF X

\* Voices that are offered make units of the voices of the catalogue.
LEMMA OfferedPlanTyped ==
  ASSUME NEW t \in Seq(Kinds), NEW book, NEW art \in Seq(Items), Offered(book, art, Catalogue),
         NEW plan, plan = SpeechUnits(t, book, art, UnitMax)
  PROVE  plan \in Seq(SynthesisUnits)
<1>1. UnitMax \in Nat \ {0}
  BY LimitsArePositive
<1>2. plan \in Seq(UnitsIn(VoiceUsage(book, art)))
  BY <1>1, PlanTyped
<1>3. UnitsIn(VoiceUsage(book, art)) \subseteq SynthesisUnits
  BY DEF Offered, UnitsIn, SynthesisUnits
<1> QED BY <1>2, <1>3

\* All that is said of a unit is in its voice.
LEMMA SoundTyped ==
  ASSUME NEW t \in Seq(Kinds), NEW unit, unit.from \in Nat, unit.to \in Nat, unit.voice \in Catalogue,
         unit.emotion \in Emotions, NEW s \in Settings, NEW sound, sound = SoundOf(t, unit, s.provider)
  PROVE  sound \in Seq(Sounds)
<1> DEFINE provider == s.provider
           n == Len(sound)
           E == IF provider.emotional THEN unit.emotion ELSE "neutral"
           c == Calls(t, unit, provider.limit)
<1>1. sound = [p \in DOMAIN c |-> [from |-> c[p][1], to |-> c[p][2], voice |-> unit.voice, emotion |-> E]]
  BY DEF SoundOf
<1>2. c \in Seq(Nat \X Nat)
  <2> DEFINE max == provider.limit
  <2>1. max \in Nat \ {0} /\ c = Calls(t, unit, max)
    BY LimitsArePositive
  <2> HIDE DEF c, max
  <2>2. InPieces(t, c, unit.from, unit.to)
    BY <2>1, CallsAre
  <2> QED BY <2>2 DEF InPieces
<1>3. E \in Emotions
  BY DEF Emotions
<1> HIDE DEF provider, c, E
<1> DEFINE m == Len(c)
<1>4. m \in Nat /\ DOMAIN c = 1 .. m
  BY <1>2
<1>5. ASSUME NEW p \in 1 .. m PROVE sound[p] \in Sounds
  <2>1. p \in DOMAIN c
    BY <1>4
  <2>2. c[p] \in Nat \X Nat
    BY <1>2, <2>1
  <2>3. c[p][1] \in Nat /\ c[p][2] \in Nat
    BY <2>2
  <2> QED BY <1>1, <1>3, <2>1, <2>3 DEF Sounds
<1>6. sound = [p \in 1 .. m |-> sound[p]]
  BY <1>1, <1>4
<1> HIDE DEF m
<1> QED BY <1>4, <1>5, <1>6, IsSequence

SpokenUnits ==
  [unit : SynthesisUnits, at : {"todo", "asked", "done"}, sound : Seq(Sounds), tries : Nat]

\* Units that are in their turn are units of the plan with sound of their voice.
LEMMA UnitsTyped ==
  ASSUME NEW t \in Seq(Kinds), NEW art \in Seq(Items), NEW s \in Settings, Offered(s.book, art, Catalogue),
         NEW plan, plan = SpeechUnits(t, s.book, art, UnitMax),
         NEW us, us = [u \in DOMAIN plan |-> us[u]],
         \A u \in DOMAIN plan : InTurn(t, plan[u], s.provider, us[u])
  PROVE  us \in Seq(SpokenUnits)
<1> DEFINE n == Len(plan)
<1>1. plan \in Seq(SynthesisUnits)
  BY OfferedPlanTyped
<1>2. n \in Nat /\ DOMAIN plan = 1 .. n
  BY <1>1
<1>3. ASSUME NEW u \in DOMAIN plan PROVE us[u] \in SpokenUnits
  <2> DEFINE x == plan[u]
             whole == SoundOf(t, x, s.provider)
             r == us[u]
  <2>1. x \in SynthesisUnits
    BY <1>1, <1>3
  <2>2. InTurn(t, x, s.provider, r)
    OBVIOUS
  <2> HIDE DEF x, r
  <2>3. r \in [unit : {x}, at : {"todo", "asked", "done"}, sound : Seq(Range(whole)), tries : Nat]
    BY <2>2 DEF InTurn
  <2> HIDE DEF whole
  <2>4. x.from \in Nat /\ x.to \in Nat /\ x.voice \in Catalogue /\ x.emotion \in Emotions
    BY <2>1 DEF SynthesisUnits
  <2>5. whole \in Seq(Sounds)
    BY <2>4, SoundTyped DEF whole
  <2>6. Range(whole) \subseteq Sounds
    BY <2>5 DEF Range
  <2>7. Seq(Range(whole)) \subseteq Seq(Sounds)
    BY <2>6
  <2>8. r \in SpokenUnits
    BY <2>1, <2>3, <2>7 DEF SpokenUnits
  <2> QED BY <2>8 DEF r
<1>4. us = [u \in 1 .. n |-> us[u]]
  BY <1>2
<1> HIDE DEF n
<1> QED BY <1>2, <1>3, <1>4, IsSequence

\* What apply_annotations makes of a chapter has a known speaker in every segment.
LEMMA ItemsTyped ==
  ASSUME TextsAreTyped, Annotation, Apply
  PROVE  artifact' \in Seq(Items)
<1> DEFINE spans == Segments(text)
<1>1. annotations \in Seq(Nat) /\ Range(annotations) = DOMAIN spans
  BY DEF Apply, Annotation, Covers
<1>2. PICK said \in [DOMAIN spans -> Sayings] :
        LET made == Artifact(spans, annotations, said)
            accepted == Covers(annotations, spans) /\ Valid(text, made)
        IN /\ artifact' = IF accepted THEN made ELSE << >>
           /\ stage' = IF accepted THEN "ready" ELSE "unread"
  BY DEF Apply
<1> DEFINE made == Artifact(spans, annotations, said)
           n == Len(annotations)
<1>3. artifact' = made \/ artifact' = << >>
  BY <1>2
<1>4. made = [k \in DOMAIN annotations |->
        LET i == annotations[k]
        IN [segment |-> i, from |-> spans[i].from, to |-> spans[i].to,
            speaker |-> SpeakerOf(spans[i], said[i].name), name |-> said[i].name, emotion |-> said[i].emotion]]
  BY DEF Artifact
<1>5. spans \in Seq(Spans)
  BY ChunksOf DEF TextsAreTyped
<1> HIDE DEF spans, made
<1>6. n \in Nat /\ DOMAIN annotations = 1 .. n
  BY <1>1
<1>7. ASSUME NEW k \in 1 .. n PROVE made[k] \in Items
  <2> DEFINE i == annotations[k]
             span == spans[i]
             s == said[i]
             speaker == SpeakerOf(span, s.name)
  <2>1. i \in Nat /\ i \in DOMAIN spans
    <3>1. k \in DOMAIN annotations
      BY <1>6
    <3>2. annotations[k] \in Range(annotations)
      BY <3>1 DEF Range
    <3> QED BY <3>1, <3>2, <1>1
  <2>2. span \in Spans /\ s \in Sayings
    BY <2>1, <1>5
  <2>3. made[k] = [segment |-> i, from |-> span.from, to |-> span.to,
                   speaker |-> speaker, name |-> s.name, emotion |-> s.emotion]
    BY <1>4, <1>6
  <2> HIDE DEF i, span, s
  <2>4. span.from \in Nat /\ span.to \in Nat
    BY <2>2 DEF Spans
  <2>5. s.name = "nobody" \/ s.name \in DOMAIN Character
    BY <2>2, SayingsAreKnown
  <2>6. speaker \in {"narrator", "unresolved"} \cup Range(Character)
    BY <2>5 DEF SpeakerOf, Range
  <2>7. s.name \in {x.name : x \in Sayings} /\ s.emotion \in Emotions
    BY <2>2 DEF Emotions
  <2> HIDE DEF speaker
  <2> QED BY <2>1, <2>3, <2>4, <2>6, <2>7 DEF Items
<1>8. made = [k \in 1 .. n |-> made[k]]
  BY <1>4, <1>6
<1> HIDE DEF n
<1>9. made \in Seq(Items)
  BY <1>6, <1>7, <1>8, IsSequence
<1>10. << >> \in Seq(Items)
  OBVIOUS
<1> QED BY <1>3, <1>9, <1>10

\* What the analysis of a chapter writes.
LEMMA AnnotatingTyped ==
  ASSUME ReadingTypeOK, TextsAreTyped, Annotation, [ReadingNext]_reading, Annotation'
  PROVE  /\ chunk' \in Nat \ {0} /\ answer' \in Seq(Int) /\ annotations' \in Seq(Nat)
         /\ artifact' \in Seq(Items)
<1>1. /\ chunk \in Nat \ {0} /\ answer \in Seq(Int) /\ annotations \in Seq(Nat) /\ artifact \in Seq(Items)
      /\ stage \in {"document", "text", "asking", "repairing", "completing", "annotated", "unread",
                    "ready", "rendering", "spoken"}
  BY DEF ReadingTypeOK
<1>2. << >> \in Seq(Nat) /\ << >> \in Seq(Int) /\ \A c \in Nat \ {0} : c + 1 \in Nat \ {0}
  OBVIOUS
<1>3. CASE Answer \/ Repair \/ Complete
  <2>1. /\ chunk' \in {chunk, chunk + 1}
        /\ \/ stage' \in {"asking", "annotated"} /\ answer' = << >>
           \/ stage' \in {"repairing", "completing"}
           \/ stage' = "unread" /\ answer' = << >> /\ annotations' = annotations
        /\ UNCHANGED artifact
    BY <1>3 DEF Answer, Repair, Complete, Judged
  <2>2. /\ stage' = "repairing" => answer' \in Seq(Int)
        /\ stage' = "completing" => answer' \in Seq(Nat)
        /\ stage' \in {"asking", "repairing", "completing", "annotated"} => annotations' \in Seq(Nat)
    BY DEF Annotation, Completable, Collected
  <2>3. Seq(Nat) \subseteq Seq(Int)
    OBVIOUS
  <2> QED BY <2>1, <2>2, <2>3, <1>1, <1>2
<1>4. CASE Apply
  <2>1. chunk' = 1 /\ annotations' = << >> /\ UNCHANGED answer
    BY <1>4 DEF Apply
  <2> QED BY <2>1, <1>1, <1>2, <1>4, ItemsTyped
<1>5. CASE ~(Answer \/ Repair \/ Complete \/ Apply)
  <2>1. UNCHANGED <<chunk, annotations, artifact>> /\ answer' \in {answer, << >>}
    <3>1. CASE UNCHANGED reading
      BY <3>1 DEF reading, annotating
    <3>2. CASE \E line \in Lines : WriteLine(line)
      BY <3>2 DEF WriteLine, annotating
    <3>3. CASE \E kind \in Kinds : Type(kind)
      BY <3>3 DEF Type, annotating
    <3>4. CASE Import \/ Analyze \/ GiveUp \/ Begin \/ Crash \/ Assemble
      BY <3>4 DEF Import, Analyze, GiveUp, Begin, Crash, Assemble, annotating
    <3>5. CASE \E u \in DOMAIN units : Send(u) \/ Hear(u) \/ Retry(u) \/ Fail(u)
      BY <3>5 DEF Send, Hear, Retry, Fail, annotating
    <3> QED BY <1>5, <3>1, <3>2, <3>3, <3>4, <3>5 DEF ReadingNext
  <2> QED BY <2>1, <1>1, <1>2
<1> QED BY <1>3, <1>4, <1>5

\* A unit that is whole is published under a key of the request, with sound of its voice.
LEMMA EntryTyped ==
  ASSUME ReadingTypeOK, TextsAreTyped, Speech, NEW u \in Asked, IsWhole(u), NEW manifest \in BOOLEAN
  PROVE  Entry(u, manifest) \in [key : Keys, sound : Seq(Sounds), manifest : BOOLEAN]
<1> DEFINE x == units[u].unit
           whole == SoundOf(text, x, setting.provider)
<1>1. u \in DOMAIN units /\ units[u].at = "asked"
  BY DEF Asked
<1>2. /\ setting \in Settings /\ x.from \in Nat /\ x.to \in Nat
      /\ InTurn(text, x, setting.provider, units[u])
  BY <1>1, UnitNow
<1>3. x \in SynthesisUnits
  <2>1. units \in Seq(SpokenUnits)
    BY DEF ReadingTypeOK, SpokenUnits
  <2>2. units[u] \in SpokenUnits
    BY <1>1, <2>1
  <2> QED BY <2>2 DEF SpokenUnits
<1>4. Heard(u) = whole
  <2> HIDE DEF x
  <2> QED BY <1>1, <1>2, HeardIs
<1>5. Entry(u, manifest) = [key |-> Key(x, setting.provider), sound |-> whole, manifest |-> manifest]
  BY <1>4 DEF Entry
<1> HIDE DEF x
<1>6. x.voice \in Catalogue /\ x.emotion \in Emotions /\ x.segment \in Nat /\ x.part \in Nat
  BY <1>3 DEF SynthesisUnits
<1>7. whole \in Seq(Sounds)
  BY <1>2, <1>6, SoundTyped DEF TextsAreTyped
<1>8. Key(x, setting.provider) \in Keys
  BY <1>2, <1>6 DEF Key, Keys
<1> HIDE DEF whole
<1> QED BY <1>5, <1>7, <1>8

\* What is cached keeps to the catalogue, a crash in the middle of its publication included.
LEMMA CacheTyped ==
  ASSUME ReadingTypeOK, TextsAreTyped, Speech, [ReadingNext]_reading
  PROVE  cache' \subseteq [key : Keys, sound : Seq(Sounds), manifest : BOOLEAN]
<1> DEFINE E == [key : Keys, sound : Seq(Sounds), manifest : BOOLEAN]
<1>1. cache \subseteq E
  BY DEF ReadingTypeOK
<1>2. \A u \in Asked : IsWhole(u) => \A manifest \in BOOLEAN : Entry(u, manifest) \in E
  BY EntryTyped
<1> HIDE DEF E
<1>3. ASSUME NEW u \in DOMAIN units, Hear(u) PROVE cache' \subseteq E
  BY <1>1, <1>2, <1>3 DEF Hear
<1>4. ASSUME Crash PROVE cache' \subseteq E
  <2>1. PICK filed \in SUBSET {u \in Asked : IsWhole(u)} : cache' = cache \cup {Entry(u, FALSE) : u \in filed}
    BY <1>4 DEF Crash
  <2> QED BY <2>1, <1>1, <1>2
<1>5. UNCHANGED cache \/ Crash \/ \E u \in DOMAIN units : Hear(u)
  <2>1. CASE UNCHANGED reading
    BY <2>1 DEF reading
  <2>2. CASE \E line \in Lines : WriteLine(line)
    BY <2>2 DEF WriteLine
  <2>3. CASE \E kind \in Kinds : Type(kind)
    BY <2>3 DEF Type
  <2>4. CASE Import \/ Analyze \/ Answer \/ Repair \/ Complete \/ GiveUp \/ Apply \/ Begin \/ Assemble
    BY <2>4 DEF Import, Analyze, Answer, Repair, Complete, GiveUp, Apply, Begin, Assemble
  <2>5. CASE \E u \in DOMAIN units : Send(u) \/ Retry(u) \/ Fail(u)
    BY <2>5 DEF Send, Retry, Fail
  <2> QED BY <2>1, <2>2, <2>3, <2>4, <2>5 DEF ReadingNext
<1>6. cache' \subseteq E
  BY <1>1, <1>3, <1>4, <1>5
<1> QED BY <1>6 DEF E

\* The file and its timing are made of what was said.
LEMMA AssembledTyped ==
  ASSUME ReadingTypeOK, TextsAreTyped, Speech, Assemble
  PROVE  /\ audio' \in Seq([sound : Seq(Sounds), start : Nat, place : Nat, measured : BOOLEAN])
         /\ timing' \in Seq(Nat)
<1>15. PICK lost \in SUBSET DOMAIN units :
         /\ audio' = [u \in DOMAIN units |-> [sound |-> units[u].sound, start |-> Offset(u),
                                              place |-> units[u].unit.place, measured |-> u \notin lost]]
         /\ timing' = [k \in DOMAIN artifact |-> Accrued(k, lost)]
  BY DEF Assemble
<1> DEFINE n == Len(units)
           S == 1 .. n
           spaced == [v \in DOMAIN units |-> Duration(units[v].sound) + Silence]
           accrued == [u \in DOMAIN units |-> Measured(u, lost) + IF u < Len(units) THEN Silence ELSE 0]
           X == [sound : Seq(Sounds), start : Nat, place : Nat, measured : BOOLEAN]
<1>1. units \in Seq(SpokenUnits) /\ artifact \in Seq(Items)
  BY DEF ReadingTypeOK, SpokenUnits
<1>2. n \in Nat /\ DOMAIN units = S
  BY <1>1
<1>3. IsFiniteSet(S)
  <2>1. 1 \in Int /\ n \in Int
    BY <1>2
  <2> QED BY <2>1, FS_Interval
<1>4. \A u \in S : Duration(units[u].sound) \in Nat
  <2>1. \A u \in DOMAIN units : IsSound(text, PlanNow[u], setting.provider, units[u].sound)
    BY AllDone
  <2> QED BY <1>2, <2>1, DurationIs
<1>5. \A u \in S : spaced[u] \in Nat /\ accrued[u] \in Nat
  BY <1>2, <1>4 DEF Silence, Measured
<1>6. /\ \A u \in S : Offset(u) = SumFunctionOnSet(spaced, 1 .. u - 1)
      /\ \A k : Accrued(k, lost) = SumFunctionOnSet(accrued, UnitsAt(k))
  BY DEF Offset, Accrued
<1>7. (\A u \in S : 1 .. u - 1 \subseteq S) /\ \A k : UnitsAt(k) \subseteq S
  BY <1>2 DEF UnitsAt
<1> HIDE DEF spaced, accrued
<1>8. /\ \A u \in S : Offset(u) \in Nat
      /\ \A k : Accrued(k, lost) \in Nat
  <2>1. /\ \A s \in SUBSET S : SumFunctionOnSet(spaced, s) \in Nat
        /\ \A s \in SUBSET S : SumFunctionOnSet(accrued, s) \in Nat
    <3> HIDE DEF S
    <3> QED BY <1>3, <1>5, SumIsNat
  <2> QED BY <2>1, <1>6, <1>7
<1>9. \A u \in S : units[u].sound \in Seq(Sounds) /\ units[u].unit.place \in Nat
  <2> SUFFICES ASSUME NEW u \in S PROVE units[u].sound \in Seq(Sounds) /\ units[u].unit.place \in Nat
    OBVIOUS
  <2>1. units[u] \in SpokenUnits
    BY <1>1, <1>2
  <2>2. units[u].sound \in Seq(Sounds) /\ units[u].unit \in SynthesisUnits
    BY <2>1 DEF SpokenUnits
  <2> QED BY <2>2 DEF SynthesisUnits
<1>10. audio' = [u \in S |-> [sound |-> units[u].sound, start |-> Offset(u),
                              place |-> units[u].unit.place, measured |-> u \notin lost]]
  BY <1>2, <1>15
<1>11. \A u \in S : audio'[u] \in X
  <2> TAKE u \in S
  <2>1. audio'[u] = [sound |-> units[u].sound, start |-> Offset(u), place |-> units[u].unit.place,
                     measured |-> u \notin lost]
    BY <1>10
  <2>2. (u \notin lost) \in BOOLEAN
    OBVIOUS
  <2>3. units[u].sound \in Seq(Sounds) /\ Offset(u) \in Nat /\ units[u].unit.place \in Nat
    BY <1>8, <1>9
  <2> HIDE DEF S
  <2>4. PICK m \in BOOLEAN : m = (u \notin lost)
    BY <2>2
  <2>5. audio'[u] = [sound |-> units[u].sound, start |-> Offset(u), place |-> units[u].unit.place, measured |-> m]
    BY <2>1, <2>4
  <2> QED BY <2>3, <2>5
<1>12. audio' = [u \in S |-> audio'[u]]
  BY <1>10
<1>13. audio' \in Seq(X)
  <2> DEFINE f == audio'
  <2>1. f = [u \in 1 .. n |-> f[u]] /\ \A u \in 1 .. n : f[u] \in X
    BY <1>11, <1>12
  <2> HIDE DEF f, n, X
  <2>2. f \in Seq(X)
    BY <2>1, <1>2, IsSequence
  <2> QED BY <2>2 DEF f
<1>14. timing' \in Seq(Nat)
  <2> DEFINE m == Len(artifact)
             f == timing'
  <2>1. m \in Nat /\ DOMAIN artifact = 1 .. m
    BY <1>1
  <2>2. timing' = [k \in 1 .. m |-> Accrued(k, lost)]
    BY <2>1, <1>15
  <2>3. f = [k \in 1 .. m |-> f[k]] /\ \A k \in 1 .. m : f[k] \in Nat
    BY <2>2, <1>8
  <2> HIDE DEF f, m
  <2>4. f \in Seq(Nat)
    BY <2>1, <2>3, IsSequence
  <2> QED BY <2>4 DEF f
<1> QED BY <1>13, <1>14 DEF X

\* What is rendered is the plan of a setting whose voices are offered.
LEMMA UnitsStayTyped ==
  ASSUME Speech', artifact' \in Seq(Items), text' \in Seq(Kinds)
  PROVE  units' \in Seq(SpokenUnits)
<1>1. CASE stage' = "rendering"
  <2>1. /\ setting' \in Settings /\ Offered(setting'.book, artifact', Catalogue)
        /\ units' = [u \in DOMAIN PlanNow' |-> units'[u]]
        /\ \A u \in DOMAIN PlanNow' : InTurn(text', PlanNow'[u], setting'.provider, units'[u])
    BY <1>1 DEF Speech, Rendering
  <2>2. PlanNow' = SpeechUnits(text', setting'.book, artifact', UnitMax)
    BY DEF PlanNow
  <2> DEFINE s == setting'
             plan == PlanNow'
             us == units'
             t == text'
             art == artifact'
  <2>3. /\ s \in Settings /\ Offered(s.book, art, Catalogue) /\ t \in Seq(Kinds) /\ art \in Seq(Items)
        /\ us = [u \in DOMAIN plan |-> us[u]] /\ plan = SpeechUnits(t, s.book, art, UnitMax)
        /\ \A u \in DOMAIN plan : InTurn(t, plan[u], s.provider, us[u])
    BY <2>1, <2>2
  <2> HIDE DEF s, plan, us, t, art
  <2>4. us \in Seq(SpokenUnits)
    BY <2>3, UnitsTyped
  <2> QED BY <2>4 DEF us
<1>2. CASE stage' # "rendering"
  <2>1. units' = << >>
    BY <1>2 DEF Speech
  <2> QED BY <2>1
<1> QED BY <1>1, <1>2

\* There are finitely many units.
LEMMA UnitsAreFinite == ReadingTypeOK => IsFiniteSet(DOMAIN units)
<1> SUFFICES ASSUME ReadingTypeOK PROVE IsFiniteSet(DOMAIN units)
  OBVIOUS
<1> DEFINE n == Len(units)
<1>1. units \in Seq(SpokenUnits)
  BY DEF ReadingTypeOK, SpokenUnits
<1>2. n \in Nat /\ DOMAIN units = 1 .. n
  BY <1>1
<1>3. 1 \in Int /\ n \in Int
  BY <1>2
<1> QED BY <1>2, <1>3, FS_Interval

\* What is left of the state.
LEMMA RestTyped ==
  ASSUME ReadingTypeOK, TextsAreTyped, Speech, [ReadingNext]_reading
  PROVE  /\ stage' \in {"document", "text", "asking", "repairing", "completing", "annotated", "unread",
                        "ready", "rendering", "spoken"}
         /\ setting' \in Settings \cup {Unset}
         /\ rounds' \in 0 .. MaxRounds /\ failures' \in 0 .. MaxFailures /\ crashes' \in 0 .. MaxCrashes
         /\ UNCHANGED audio \/ audio' = << >> \/ Assemble
         /\ UNCHANGED timing \/ timing' = << >> \/ Assemble
<1>1. /\ stage \in {"document", "text", "asking", "repairing", "completing", "annotated", "unread",
                    "ready", "rendering", "spoken"}
      /\ setting \in Settings \cup {Unset}
      /\ rounds \in 0 .. MaxRounds /\ failures \in 0 .. MaxFailures /\ crashes \in 0 .. MaxCrashes
  BY DEF ReadingTypeOK
<1>2. {MaxRounds, MaxFailures, MaxCrashes} \subseteq Nat
  BY BoundsAreNumbers
<1>3. CASE UNCHANGED reading
  BY <1>1, <1>3 DEF reading, written, speaking, counters
<1>4. CASE \E line \in Lines : WriteLine(line)
  BY <1>1, <1>4 DEF WriteLine, speaking, counters
<1>5. CASE \E kind \in Kinds : Type(kind)
  BY <1>1, <1>5 DEF Type, speaking, counters
<1>6. CASE Import \/ Analyze \/ GiveUp \/ Apply
  BY <1>1, <1>6 DEF Import, Analyze, GiveUp, Apply, speaking, counters
<1>7. CASE Answer \/ Repair \/ Complete
  BY <1>1, <1>7 DEF Answer, Repair, Complete, Judged, speaking, counters
<1>8. CASE Begin
  BY <1>1, <1>2, <1>8 DEF Begin
<1>9. CASE Crash
  BY <1>1, <1>2, <1>9 DEF Crash
<1>10. CASE Assemble
  <2>1. PICK lost \in SUBSET DOMAIN units : /\ failures' = failures + Cardinality(lost)
                                           /\ failures + Cardinality(lost) <= MaxFailures
    BY <1>10 DEF Assemble
  <2>2. Cardinality(lost) \in Nat
    <3>1. IsFiniteSet(DOMAIN units)
      BY UnitsAreFinite
    <3> QED BY <3>1, FS_Subset, FS_CardinalityType
  <2>3. failures' \in 0 .. MaxFailures
    BY <1>1, <1>2, <2>1, <2>2
  <2> QED BY <1>1, <1>10, <2>3 DEF Assemble
<1>11. CASE \E u \in DOMAIN units : Send(u) \/ Hear(u)
  BY <1>1, <1>11 DEF Send, Hear, written, counters
<1>12. CASE \E u \in DOMAIN units : Retry(u) \/ Fail(u)
  BY <1>1, <1>2, <1>12 DEF Retry, Fail, written
<1> QED BY <1>3, <1>4, <1>5, <1>6, <1>7, <1>8, <1>9, <1>10, <1>11, <1>12 DEF ReadingNext

\* Every step keeps the types.
LEMMA ReadingTypesStay ==
  ASSUME ReadingTypeOK, TextsAreTyped, Annotation, Speech, [ReadingNext]_reading,
         TextsAreTyped', Annotation', Speech'
  PROVE  ReadingTypeOK'
<1>1. document' \in Seq(Lines) /\ text' \in Seq(Kinds)
  BY DEF TextsAreTyped
<1>2. /\ chunk' \in Nat \ {0} /\ answer' \in Seq(Int) /\ annotations' \in Seq(Nat)
      /\ artifact' \in Seq(Items)
  BY AnnotatingTyped
<1>3. units' \in Seq(SpokenUnits)
  BY <1>1, <1>2, UnitsStayTyped
<1>4. cache' \subseteq [key : Keys, sound : Seq(Sounds), manifest : BOOLEAN]
  BY CacheTyped
<1>5. audio' \in Seq([sound : Seq(Sounds), start : Nat, place : Nat, measured : BOOLEAN]) /\ timing' \in Seq(Nat)
  <2>1. audio \in Seq([sound : Seq(Sounds), start : Nat, place : Nat, measured : BOOLEAN]) /\ timing \in Seq(Nat)
    BY DEF ReadingTypeOK
  <2>2. << >> \in Seq([sound : Seq(Sounds), start : Nat, place : Nat, measured : BOOLEAN]) /\ << >> \in Seq(Nat)
    OBVIOUS
  <2> QED BY <2>1, <2>2, RestTyped, AssembledTyped
<1> QED BY <1>1, <1>2, <1>3, <1>4, <1>5, RestTyped DEF ReadingTypeOK, SpokenUnits

\* What the worker holds of a chapter, from its import to its file, is of its types: no
\* unit, cached file (tts_partials.py) or recorded sound is ever in a voice the catalogue
\* of the TTS provider does not have, and no segment has a speaker the registry does not.
THEOREM ReadingIsTyped == ReadingSpec => []ReadingTypeOK
<1>1. ReadingInit => ReadingTypeOK
  <2> SUFFICES ASSUME ReadingInit PROVE ReadingTypeOK
    OBVIOUS
  <2>1. 0 \in 0 .. MaxRounds /\ 0 \in 0 .. MaxFailures /\ 0 \in 0 .. MaxCrashes
    BY BoundsAreNumbers
  <2>2. 1 \in Nat \ {0} /\ \A X : << >> \in Seq(X)
    OBVIOUS
  <2> QED BY <2>1, <2>2 DEF ReadingInit, ReadingTypeOK
<1> QED BY <1>1, ReadingTypesStay, AlwaysSpeech, PTL DEF ReadingSpec

-----------------------------------------------------------------------------
(* The calls to the provider *)

\* The units that wait are among finitely many.
LEMMA AskedIsFinite == ReadingTypeOK => IsFiniteSet(Asked)
<1>1. Asked \subseteq DOMAIN units
  BY DEF Asked
<1> QED BY <1>1, UnitsAreFinite, FS_Subset

\* Only a unit that is sent joins them, and a rendering begins with none.
LEMMA AskedMoves ==
  ASSUME [ReadingNext]_reading, Speech', ReadingTypeOK
  PROVE  Asked' \subseteq Asked \/ \E u \in DOMAIN units : Send(u) /\ Asked' \subseteq Asked \cup {u}
<1>1. CASE units' = << >>
  <2>1. Asked' = {}
    BY <1>1 DEF Asked
  <2> QED BY <2>1
<1>2. CASE UNCHANGED units
  BY <1>2 DEF Asked
<1>3. CASE Begin
  <2>1. PICK s \in Settings :
          units' = [u \in DOMAIN SpeechUnits(text, s.book, artifact, UnitMax) |->
                      Begun(SpeechUnits(text, s.book, artifact, UnitMax)[u], s.provider)]
    BY <1>3 DEF Begin
  <2>2. \A u \in DOMAIN units' : units'[u].at # "asked"
    BY <2>1 DEF Begun
  <2> QED BY <2>2 DEF Asked
<1>4. ASSUME NEW u \in DOMAIN units, Send(u)
      PROVE  Asked' \subseteq Asked \cup {u}
  <2>1. units' = [units EXCEPT ![u].at = "asked"]
    BY <1>4 DEF Send
  <2>2. DOMAIN units' = DOMAIN units /\ \A v \in DOMAIN units : v # u => units'[v] = units[v]
    BY <2>1
  <2> QED BY <2>2 DEF Asked
<1>5. ASSUME NEW u \in DOMAIN units, Hear(u) \/ Retry(u)
      PROVE  Asked' \subseteq Asked
  <2>1. u \in Asked
    BY <1>5 DEF Hear, Retry
  <2>2. DOMAIN units' = DOMAIN units /\ \A v \in DOMAIN units : v # u => units'[v] = units[v]
    BY <1>5 DEF Hear, Retry
  <2> QED BY <2>1, <2>2 DEF Asked
<1>6. \/ UNCHANGED units \/ units' = << >> \/ Begin
      \/ \E u \in DOMAIN units : Send(u) \/ Hear(u) \/ Retry(u)
  <2>1. CASE UNCHANGED reading
    BY <2>1 DEF reading, speaking
  <2>2. CASE \E line \in Lines : WriteLine(line)
    BY <2>2 DEF WriteLine, speaking
  <2>3. CASE \E kind \in Kinds : Type(kind)
    BY <2>3 DEF Type, speaking
  <2>4. CASE Import \/ Analyze \/ Answer \/ Repair \/ Complete \/ GiveUp \/ Apply \/ Crash \/ Assemble
    BY <2>4 DEF Import, Analyze, Answer, Repair, Complete, GiveUp, Apply, Crash, Assemble, speaking
  <2>5. CASE \E u \in DOMAIN units : Fail(u)
    BY <2>5 DEF Fail
  <2> QED BY <2>1, <2>2, <2>3, <2>4, <2>5 DEF ReadingNext
<1> QED BY <1>1, <1>2, <1>3, <1>4, <1>5, <1>6

\* A unit is only sent while there is room for it.
LEMMA ConcurrencyStays ==
  ReadingTypeOK /\ Speech' /\ WithinConcurrency /\ [ReadingNext]_reading => WithinConcurrency'
<1> SUFFICES ASSUME ReadingTypeOK, Speech', WithinConcurrency, [ReadingNext]_reading
             PROVE  WithinConcurrency'
  OBVIOUS
<1> DEFINE A == Asked
           B == Asked'
<1>1. IsFiniteSet(A)
  BY AskedIsFinite
<1>2. Cardinality(A) \in Nat /\ Capacity \in Nat /\ Cardinality(A) <= Capacity
  BY <1>1, FS_CardinalityType, LimitsArePositive DEF WithinConcurrency
<1>3. CASE Asked' \subseteq Asked
  <2>1. B \subseteq A
    BY <1>3
  <2> HIDE DEF A, B
  <2>2. Cardinality(B) <= Cardinality(A) /\ Cardinality(B) \in Nat
    BY <1>1, <2>1, FS_Subset, FS_CardinalityType
  <2>3. Cardinality(B) <= Capacity
    BY <1>2, <2>2
  <2> QED BY <2>3 DEF B, WithinConcurrency
<1>4. ASSUME NEW u, Send(u), Asked' \subseteq Asked \cup {u} PROVE WithinConcurrency'
  <2>1. Cardinality(A) < Capacity
    BY <1>4 DEF Send
  <2>2. B \subseteq A \cup {u}
    BY <1>4
  <2> HIDE DEF A, B
  <2>3. IsFiniteSet(A \cup {u}) /\ Cardinality(A \cup {u}) \in {Cardinality(A), Cardinality(A) + 1}
    BY <1>1, FS_AddElement
  <2>4. Cardinality(B) <= Cardinality(A \cup {u}) /\ Cardinality(B) \in Nat
    BY <2>2, <2>3, FS_Subset, FS_CardinalityType
  <2>5. Cardinality(B) <= Capacity
    BY <1>2, <2>1, <2>3, <2>4
  <2> QED BY <2>5 DEF B, WithinConcurrency
<1> QED BY <1>3, <1>4, AskedMoves

\* No more units wait for the TTS provider than it takes calls at a time
\* (tts._provider_concurrency), however they fail, are retried, given up or rendered again.
THEOREM ProviderIsNotOverrun == ReadingSpec => []WithinConcurrency
<1>1. ReadingInit => WithinConcurrency
  <2> SUFFICES ASSUME ReadingInit PROVE WithinConcurrency
    OBVIOUS
  <2>1. Asked = {}
    BY DEF ReadingInit, Asked
  <2>2. Cardinality({}) = 0 /\ Capacity \in Nat
    BY FS_EmptySet, LimitsArePositive
  <2> QED BY <2>1, <2>2 DEF WithinConcurrency
<1> QED BY <1>1, ConcurrencyStays, ReadingIsTyped, AlwaysSpeech, PTL DEF ReadingSpec

-----------------------------------------------------------------------------
(* The files of a generation. *)

-----------------------------------------------------------------------------
(* The inductive invariant.  Its parts take the rows and the files they speak *)
(* of as parameters, so that a step can be described by what it does to them. *)

\* A row that exists, of this text, which the chapter had.
MadeOf(rows, g, t) ==
  g \in Gens /\ rows[g].status # "absent" /\ rows[g].of.text = t /\ t \in Texts

\* A route knows what it will enqueue: a generation of the text it has read.
RouteIsRight(r, rec, rows) ==
  /\ rec.phase \in {"asked", "inserting", "enqueueing"} =>
       r \notin Batch /\ rec.inputs.text \in Texts
  /\ rec.phase = "enqueueing" => MadeOf(rows, rec.gen, rec.inputs.text)

\* The source a job was given is the text of its generation.
JobIsRight(r, rec, rows) ==
  rec.gen # 0 =>
    r \notin Batch /\ \E t \in Texts : rec.source = <<t>> /\ MadeOf(rows, rec.gen, t)

Chosen == {"starting", "rendering", "promoting", "rendered", "checked"}

\* From the moment it has read the chapter, a consumer has the text of the
\* generation it renders, and what it has moved into place is there.
ConsumerIsRight(rec, rows, kept) ==
  /\ rec.phase # "idle" => rec.request \in Requests
  /\ rec.phase \in {"loaded", "inserting"} \cup Chosen => rec.inputs.text \in Texts
  /\ rec.phase = "loaded" => rec.gen = 0 \/ MadeOf(rows, rec.gen, rec.inputs.text)
  /\ rec.phase \in Chosen => MadeOf(rows, rec.gen, rec.inputs.text)
  /\ rec.phase \in {"promoting", "rendered", "checked"} => kept[rec.gen].audio # Nobody
  /\ rec.phase \in {"rendered", "checked"} => kept[rec.gen].timing # Nobody

RowIsRight(g, rows, kept) ==
  /\ rows[g].status # "absent" => rows[g].of.text \in Texts
  /\ \A render \in {kept[g].audio, kept[g].timing} :
       render # Nobody => rows[g].status # "absent" /\ render.text = rows[g].of.text
  /\ rows[g].status = "ready" => kept[g].audio # Nobody /\ kept[g].timing # Nobody

IInv ==
  /\ TypeOK
  /\ \A g \in Gens : RowIsRight(g, gen, files)
  /\ \A r \in Requests : RouteIsRight(r, route[r], gen)
  /\ \A r \in Requests : JobIsRight(r, job[r], gen)
  /\ \A c \in Consumers : ConsumerIsRight(consumer[c], gen, files)

LEMMA StartFacts ==
  /\ NoInputs \in Inputs /\ NoGen \in Gen /\ NoGen.status = "absent"
  /\ NewRoute \in Route /\ NewRoute.phase = "new" /\ Answered \in Route /\ Answered.phase = "done"
  /\ NoJob \in Job /\ NoJob.gen = 0 /\ Ended \in Job /\ Ended.gen = 0
  /\ Idle \in Consumer /\ Idle.phase = "idle"
<1>1. NoInputs \in Inputs
  BY BoundAssumption DEF NoInputs, Inputs, Modes
<1>2. NoGen \in Gen /\ NoGen.status = "absent"
  BY <1>1 DEF NoGen, Gen
<1>3. NewRoute \in Route /\ NewRoute.phase = "new"
  BY <1>1 DEF NewRoute, Route
<1>4. Answered \in Route /\ Answered.phase = "done"
  BY <1>1 DEF Answered, NewRoute, Route
<1>5. NoJob \in Job /\ NoJob.gen = 0 /\ Ended \in Job /\ Ended.gen = 0
  BY DEF NoJob, Ended, Job, Source
<1>6. Idle \in Consumer /\ Idle.phase = "idle"
  BY <1>1 DEF Idle, Consumer, Phase
<1> QED BY <1>2, <1>3, <1>4, <1>5, <1>6, <1>1

-----------------------------------------------------------------------------
(* What no step undoes *)

\* A row that exists keeps what it is of.
Grows(rows, next) ==
  \A g \in Gens : rows[g].status # "absent" =>
    next[g].status # "absent" /\ next[g].of = rows[g].of

\* A file that is there stays there, or another one takes its place.
Stays(kept, next) ==
  \A g \in Gens : /\ kept[g].audio # Nobody => next[g].audio # Nobody
                  /\ kept[g].timing # Nobody => next[g].timing # Nobody

LEMMA RightStays ==
  ASSUME NEW rows, NEW next, NEW kept, NEW later, Grows(rows, next), Stays(kept, later)
  PROVE  /\ \A g, t : MadeOf(rows, g, t) => MadeOf(next, g, t)
         /\ \A r, rec : RouteIsRight(r, rec, rows) => RouteIsRight(r, rec, next)
         /\ \A r, rec : JobIsRight(r, rec, rows) => JobIsRight(r, rec, next)
         /\ \A rec : ConsumerIsRight(rec, rows, kept) => ConsumerIsRight(rec, next, later)
<1>1. \A g, t : MadeOf(rows, g, t) => MadeOf(next, g, t)
  BY DEF Grows, MadeOf
<1>2. \A r, rec : RouteIsRight(r, rec, rows) => RouteIsRight(r, rec, next)
  BY <1>1 DEF RouteIsRight
<1>3. \A r, rec : JobIsRight(r, rec, rows) => JobIsRight(r, rec, next)
  BY <1>1 DEF JobIsRight
<1>4. ASSUME NEW rec, ConsumerIsRight(rec, rows, kept) PROVE ConsumerIsRight(rec, next, later)
  <2>1. rec.phase \in Chosen => rec.gen \in Gens
    BY <1>4 DEF ConsumerIsRight, MadeOf
  <2> QED BY <1>1, <1>4, <2>1 DEF ConsumerIsRight, Stays, Chosen
<1> QED BY <1>1, <1>2, <1>3, <1>4

\* The shape of the state and the rows after a step.
Shape ==
  /\ TypeOK
  /\ \A g \in Gens : RowIsRight(g, gen, files)

\* A step whose routes, jobs and consumers are as they were or right.
LEMMA StepKeepsIInv ==
  ASSUME IInv, Shape', Grows(gen, gen'), Stays(files, files'),
         \A r \in Requests : route'[r] = route[r] \/ RouteIsRight(r, route'[r], gen'),
         \A r \in Requests : job'[r] = job[r] \/ JobIsRight(r, job'[r], gen'),
         \A c \in Consumers :
           consumer'[c] = consumer[c] \/ ConsumerIsRight(consumer'[c], gen', files')
  PROVE  IInv'
<1>1. \A r \in Requests : RouteIsRight(r, route'[r], gen')
  BY RightStays DEF IInv
<1>2. \A r \in Requests : JobIsRight(r, job'[r], gen')
  BY RightStays DEF IInv
<1>3. \A c \in Consumers : ConsumerIsRight(consumer'[c], gen', files')
  BY RightStays DEF IInv
<1> QED BY <1>1, <1>2, <1>3 DEF IInv, Shape

\* The steps that leave the rows and the files as they are.
LEMMA SameRows ==
  ASSUME IInv, UNCHANGED <<gen, files>>, TypeOK'
  PROVE  Shape' /\ Grows(gen, gen') /\ Stays(files, files')
BY DEF IInv, Shape, RowIsRight, Grows, Stays

\* A row gets another status: ready only when its files are there.
LEMMA StatusMoves ==
  ASSUME IInv, NEW g \in Gens, gen[g].status # "absent",
         NEW status \in {"queued", "running", "ready", "failed"},
         gen' = [gen EXCEPT ![g].status = status],
         status = "ready" => files[g].audio # Nobody /\ files[g].timing # Nobody,
         UNCHANGED files
  PROVE  /\ gen' \in [Gens -> Gen] /\ Grows(gen, gen') /\ Stays(files, files')
         /\ \A h \in Gens : RowIsRight(h, gen', files')
<1> DEFINE row == [gen[g] EXCEPT !.status = status]
<1>1. gen \in [Gens -> Gen] /\ gen[g] \in Gen
  BY DEF IInv, TypeOK
<1>2. row \in Gen /\ row.status = status /\ row.of = gen[g].of
  BY <1>1 DEF Gen
<1>3. gen' = [gen EXCEPT ![g] = row]
  BY <1>1
<1> HIDE DEF row
<1>4. gen'[g] = row /\ gen' \in [Gens -> Gen] /\ \A h \in Gens \ {g} : gen'[h] = gen[h]
  BY <1>1, <1>2, <1>3
<1>5. Grows(gen, gen')
  BY <1>2, <1>4 DEF Grows
<1>6. \A h \in Gens : RowIsRight(h, gen', files')
  <2>1. RowIsRight(g, gen', files')
    BY <1>2, <1>4 DEF IInv, RowIsRight
  <2>2. \A h \in Gens \ {g} : RowIsRight(h, gen', files')
    BY <1>4 DEF IInv, RowIsRight
  <2> QED BY <2>1, <2>2
<1> QED BY <1>4, <1>5, <1>6 DEF Stays

\* A row is made.
LEMMA RowIsMade ==
  ASSUME IInv, NEW g \in Gens, gen[g].status = "absent", NEW inputs \in Inputs,
         inputs.text \in Texts, NEW analysed \in BOOLEAN, NEW once \in BOOLEAN,
         gen' = [gen EXCEPT ![g] = NewRow(inputs, analysed, once)], UNCHANGED files
  PROVE  /\ gen' \in [Gens -> Gen] /\ Grows(gen, gen') /\ Stays(files, files')
         /\ \A h \in Gens : RowIsRight(h, gen', files')
         /\ MadeOf(gen', g, inputs.text)
<1> DEFINE row == NewRow(inputs, analysed, once)
<1>1. row \in Gen /\ row.status = "queued" /\ row.of = inputs
  BY DEF NewRow, Gen
<1>2. gen \in [Gens -> Gen]
  BY DEF IInv, TypeOK
<1> HIDE DEF row
<1>3. gen'[g] = row /\ gen' \in [Gens -> Gen] /\ \A h \in Gens \ {g} : gen'[h] = gen[h]
  BY <1>1, <1>2 DEF row
<1>4. Grows(gen, gen')
  BY <1>3 DEF Grows
<1>5. \A h \in Gens : RowIsRight(h, gen', files')
  <2>1. RowIsRight(g, gen', files')
    BY <1>1, <1>3 DEF IInv, RowIsRight
  <2>2. \A h \in Gens \ {g} : RowIsRight(h, gen', files')
    BY <1>3 DEF IInv, RowIsRight
  <2> QED BY <2>1, <2>2
<1>6. MadeOf(gen', g, inputs.text)
  BY <1>1, <1>3 DEF MadeOf
<1> QED BY <1>3, <1>4, <1>5, <1>6 DEF Stays

-----------------------------------------------------------------------------
(* The routes *)

LEMMA OneRoute ==
  ASSUME IInv, NEW r \in Requests, NEW next \in Route, route' = [route EXCEPT ![r] = next],
         RouteIsRight(r, next, gen')
  PROVE  /\ route' \in [Requests -> Route]
         /\ \A s \in Requests : route'[s] = route[s] \/ RouteIsRight(s, route'[s], gen')
<1>1. route \in [Requests -> Route]
  BY DEF IInv, TypeOK
<1> QED BY <1>1

LEMMA OneJob ==
  ASSUME IInv, NEW r \in Requests, NEW next \in Job, job' = [job EXCEPT ![r] = next],
         JobIsRight(r, next, gen')
  PROVE  /\ job' \in [Requests -> Job]
         /\ \A s \in Requests : job'[s] = job[s] \/ JobIsRight(s, job'[s], gen')
<1>1. job \in [Requests -> Job]
  BY DEF IInv, TypeOK
<1> QED BY <1>1

LEMMA ReadFacts ==
  ASSUME TypeOK
  PROVE  /\ ReadChapter \in Inputs /\ ReadChapter.text = chapter.text /\ chapter.text \in Texts
         /\ \A inputs \in Inputs : Keying(inputs) \in Inputs /\ Keying(inputs).text = inputs.text
BY BoundAssumption DEF TypeOK, ReadChapter, Keying, Inputs, Modes

\* A generation that may be reused exists and is of the text it was looked up by.
LEMMA ReusableIsMade ==
  ASSUME NEW inputs \in Inputs, inputs.text \in Texts, NEW analysed, NEW force,
         NEW g \in Reusable(inputs, analysed, force)
  PROVE  g \in Gens /\ MadeOf(gen, g, inputs.text)
BY DEF Reusable, Keyed, MadeOf

LEMMA NeedIsBoolean ==
  ASSUME NEW inputs, NEW analysed, NEW force \in BOOLEAN
  PROVE  NeedsNewIdentity(inputs, analysed, force) \in BOOLEAN
BY DEF NeedsNewIdentity

LEMMA AskKeeps ==
  ASSUME IInv, NEW r \in Requests, Ask(r)
  PROVE  IInv'
<1>1. PICK mode \in Modes, force \in BOOLEAN :
        route' = [route EXCEPT ![r].phase = "asked", ![r].force = force,
                               ![r].inputs = [ReadChapter EXCEPT !.mode = mode]]
  BY DEF Ask
<1> DEFINE inputs == [ReadChapter EXCEPT !.mode = mode]
           next == [route[r] EXCEPT !.phase = "asked", !.force = force, !.inputs = inputs]
<1>2. TypeOK /\ route[r] \in Route
  BY DEF IInv, TypeOK
<1>3. inputs \in Inputs /\ inputs.text \in Texts
  BY <1>2, ReadFacts DEF Inputs
<1>4. route' = [route EXCEPT ![r] = next]
  BY <1>1, <1>2 DEF TypeOK
<1> HIDE DEF inputs
<1>5. next \in Route /\ next.phase = "asked" /\ next.inputs = inputs
  BY <1>2, <1>3 DEF Route
<1> HIDE DEF next
<1>6. RouteIsRight(r, next, gen')
  BY <1>3, <1>5 DEF RouteIsRight, Ask
<1>7. /\ route' \in [Requests -> Route]
      /\ \A s \in Requests : route'[s] = route[s] \/ RouteIsRight(s, route'[s], gen')
  BY <1>4, <1>5, <1>6, OneRoute
<1>8. TypeOK'
  BY <1>2, <1>7 DEF TypeOK, Ask
<1> QED BY <1>7, <1>8, SameRows, StepKeepsIInv DEF Ask

LEMMA AskBatchKeeps ==
  ASSUME IInv, NEW r \in Requests, AskBatch(r)
  PROVE  IInv'
<1>1. TypeOK /\ job[r] \in Job /\ r \in Batch
  BY DEF IInv, TypeOK, AskBatch
<1> DEFINE next == [job[r] EXCEPT !.status = "pending", !.source = SourceOf(r)]
<1>2. SourceOf(r) \in Source
  BY <1>1 DEF SourceOf, Source, TypeOK
<1>3. next \in Job /\ next.gen = job[r].gen
  BY <1>1, <1>2 DEF Job
<1>4. job' = [job EXCEPT ![r] = next]
  BY <1>1 DEF AskBatch, TypeOK
<1> HIDE DEF next
<1>5. JobIsRight(r, next, gen')
  BY <1>1, <1>3 DEF IInv, JobIsRight
<1>6. /\ job' \in [Requests -> Job]
      /\ \A s \in Requests : job'[s] = job[s] \/ JobIsRight(s, job'[s], gen')
  BY <1>3, <1>4, <1>5, OneJob
<1>7. /\ route' \in [Requests -> Route]
      /\ \A s \in Requests : route'[s] = route[s] \/ RouteIsRight(s, route'[s], gen')
  <2>1. RouteIsRight(r, Answered, gen')
    BY StartFacts DEF RouteIsRight
  <2> QED BY <2>1, OneRoute, StartFacts DEF AskBatch
<1>8. TypeOK'
  BY <1>1, <1>6, <1>7 DEF TypeOK, AskBatch
<1> QED BY <1>6, <1>7, <1>8, SameRows, StepKeepsIInv DEF AskBatch

LEMMA LookUpKeeps ==
  ASSUME IInv, NEW r \in Requests, LookUp(r)
  PROVE  IInv'
<1> DEFINE inputs == Keying(route[r].inputs)
           force == route[r].force
<1>1. TypeOK /\ route[r] \in Route /\ force \in BOOLEAN
  BY DEF IInv, TypeOK, Route
<1>2. /\ r \notin Batch /\ inputs \in Inputs /\ inputs.text \in Texts
      /\ inputs.text = route[r].inputs.text
  <2>1. r \notin Batch /\ route[r].inputs.text \in Texts
    BY DEF IInv, RouteIsRight, LookUp
  <2>2. route[r].inputs \in Inputs
    BY <1>1 DEF Route
  <2> QED BY <1>1, <2>1, <2>2, ReadFacts
<1>3. \E next \in Route : route' = [route EXCEPT ![r] = next] /\ RouteIsRight(r, next, gen')
  <2>1. ASSUME NEW g \in Reusable(inputs, FALSE, force),
               route' = [route EXCEPT ![r].phase = "enqueueing", ![r].gen = g]
        PROVE  \E next \in Route : route' = [route EXCEPT ![r] = next] /\ RouteIsRight(r, next, gen')
    <3> DEFINE next == [route[r] EXCEPT !.phase = "enqueueing", !.gen = g]
    <3>1. g \in Gens /\ MadeOf(gen, g, route[r].inputs.text)
      BY <1>2, ReusableIsMade
    <3>2. next \in Route /\ next.gen = g /\ next.inputs = route[r].inputs
      BY <1>1, <3>1 DEF Route
    <3>3. route' = [route EXCEPT ![r] = next]
      BY <1>1, <2>1 DEF TypeOK
    <3> HIDE DEF next
    <3>4. RouteIsRight(r, next, gen')
      BY <1>2, <3>1, <3>2 DEF RouteIsRight, LookUp, MadeOf
    <3> QED BY <3>2, <3>3, <3>4
  <2>2. ASSUME route' = [route EXCEPT ![r].phase = "inserting", ![r].inputs = inputs,
                                      ![r].once = NeedsNewIdentity(inputs, FALSE, force)]
        PROVE  \E next \in Route : route' = [route EXCEPT ![r] = next] /\ RouteIsRight(r, next, gen')
    <3> DEFINE once == NeedsNewIdentity(inputs, FALSE, force)
               next == [route[r] EXCEPT !.phase = "inserting", !.inputs = inputs, !.once = once]
    <3>1. once \in BOOLEAN
      BY <1>1, NeedIsBoolean
    <3> HIDE DEF once
    <3>2. route' = [route EXCEPT ![r] = next]
      BY <1>1, <2>2 DEF TypeOK, once
    <3> HIDE DEF inputs, force
    <3>3. next \in Route /\ next.inputs = inputs /\ next.phase = "inserting"
      BY <1>1, <1>2, <3>1 DEF Route
    <3> HIDE DEF next
    <3>4. RouteIsRight(r, next, gen')
      BY <1>2, <3>3 DEF RouteIsRight
    <3> QED BY <3>2, <3>3, <3>4
  <2> QED BY <2>1, <2>2 DEF LookUp
<1>4. /\ route' \in [Requests -> Route]
      /\ \A s \in Requests : route'[s] = route[s] \/ RouteIsRight(s, route'[s], gen')
  BY <1>3, OneRoute
<1>5. TypeOK'
  BY <1>1, <1>4 DEF TypeOK, LookUp
<1> QED BY <1>4, <1>5, SameRows, StepKeepsIInv DEF LookUp

LEMMA InsertGenKeeps ==
  ASSUME IInv, NEW r \in Requests, InsertGen(r)
  PROVE  IInv'
<1> DEFINE inputs == route[r].inputs
<1>1. /\ TypeOK /\ route[r] \in Route /\ inputs \in Inputs /\ inputs.text \in Texts
      /\ r \notin Batch /\ route[r].once \in BOOLEAN
  BY DEF IInv, TypeOK, Route, RouteIsRight, InsertGen
<1>2. CASE route' = [route EXCEPT ![r] = Answered] /\ UNCHANGED gen
  <2>1. RouteIsRight(r, Answered, gen')
    BY StartFacts DEF RouteIsRight
  <2>2. /\ route' \in [Requests -> Route]
        /\ \A s \in Requests : route'[s] = route[s] \/ RouteIsRight(s, route'[s], gen')
    BY <1>2, <2>1, OneRoute, StartFacts
  <2>3. TypeOK'
    BY <1>1, <1>2, <2>2 DEF TypeOK, InsertGen
  <2> QED BY <1>2, <2>2, <2>3, SameRows, StepKeepsIInv DEF InsertGen
<1>3. ASSUME NEW g \in NextGen, gen' = [gen EXCEPT ![g] = NewRow(inputs, FALSE, route[r].once)],
             route' = [route EXCEPT ![r].phase = "enqueueing", ![r].gen = g]
      PROVE  IInv'
  <2>1. g \in Gens /\ gen[g].status = "absent"
    BY DEF NextGen
  <2>2. UNCHANGED <<chapter, registry, files, job, consumer>>
    BY DEF InsertGen
  <2>3. /\ gen' \in [Gens -> Gen] /\ Grows(gen, gen') /\ Stays(files, files')
        /\ \A h \in Gens : RowIsRight(h, gen', files')
        /\ MadeOf(gen', g, inputs.text)
    BY <1>1, <1>3, <2>1, <2>2, RowIsMade
  <2> DEFINE next == [route[r] EXCEPT !.phase = "enqueueing", !.gen = g]
  <2>4. next \in Route /\ next.gen = g /\ next.inputs = inputs
    BY <1>1, <2>1 DEF Route
  <2>5. route' = [route EXCEPT ![r] = next]
    BY <1>1, <1>3 DEF TypeOK
  <2> HIDE DEF next
  <2>6. RouteIsRight(r, next, gen')
    BY <1>1, <2>3, <2>4 DEF RouteIsRight
  <2>7. /\ route' \in [Requests -> Route]
        /\ \A s \in Requests : route'[s] = route[s] \/ RouteIsRight(s, route'[s], gen')
    BY <2>4, <2>5, <2>6, OneRoute
  <2>8. Shape'
    BY <1>1, <2>2, <2>3, <2>7 DEF Shape, TypeOK
  <2> QED BY <2>2, <2>3, <2>7, <2>8, StepKeepsIInv
<1> QED BY <1>2, <1>3 DEF InsertGen

LEMMA EnqueueKeeps ==
  ASSUME IInv, NEW r \in Requests, Enqueue(r)
  PROVE  IInv'
<1>1. /\ TypeOK /\ job[r] \in Job /\ r \notin Batch /\ route[r].inputs.text \in Texts
      /\ route[r].gen \in Gens /\ MadeOf(gen, route[r].gen, route[r].inputs.text)
  BY DEF IInv, TypeOK, Enqueue, RouteIsRight, MadeOf
<1> DEFINE source == <<route[r].inputs.text>>
           next == [job[r] EXCEPT !.status = "pending", !.gen = route[r].gen, !.source = source]
<1>2. source \in Source
  BY <1>1 DEF Source
<1>3. job' = [job EXCEPT ![r] = next]
  BY <1>1 DEF Enqueue, TypeOK
<1> HIDE DEF source
<1>4. next \in Job /\ next.gen = route[r].gen /\ next.source = source
  BY <1>1, <1>2 DEF Job
<1> HIDE DEF next
<1>5. JobIsRight(r, next, gen')
  BY <1>1, <1>4 DEF JobIsRight, Enqueue, source
<1>6. /\ job' \in [Requests -> Job]
      /\ \A s \in Requests : job'[s] = job[s] \/ JobIsRight(s, job'[s], gen')
  BY <1>3, <1>4, <1>5, OneJob
<1>7. /\ route' \in [Requests -> Route]
      /\ \A s \in Requests : route'[s] = route[s] \/ RouteIsRight(s, route'[s], gen')
  <2>1. RouteIsRight(r, Answered, gen')
    BY StartFacts DEF RouteIsRight
  <2> QED BY <2>1, OneRoute, StartFacts DEF Enqueue
<1>8. TypeOK'
  BY <1>1, <1>6, <1>7 DEF TypeOK, Enqueue
<1> QED BY <1>6, <1>7, <1>8, SameRows, StepKeepsIInv DEF Enqueue

-----------------------------------------------------------------------------
(* The queue *)

\* A job that keeps its generation and source, or gives both up.
LEMMA JobMoves ==
  ASSUME IInv, NEW r \in Requests, NEW next \in Job, job' = [job EXCEPT ![r] = next],
         next.gen = 0 \/ (next.gen = job[r].gen /\ next.source = job[r].source),
         UNCHANGED gen
  PROVE  /\ job' \in [Requests -> Job]
         /\ \A s \in Requests : job'[s] = job[s] \/ JobIsRight(s, job'[s], gen')
<1>1. JobIsRight(r, next, gen')
  BY DEF IInv, JobIsRight
<1> QED BY <1>1, OneJob

LEMMA GiveBackFacts ==
  ASSUME TypeOK, NEW r \in Requests
  PROVE  /\ GiveBack(r) \in Job
         /\ \/ GiveBack(r).gen = 0
            \/ GiveBack(r).gen = job[r].gen /\ GiveBack(r).source = job[r].source
<1>1. job[r] \in Job
  BY DEF TypeOK
<1> DEFINE next == [job[r] EXCEPT !.status = "pending"]
<1>2. next \in Job /\ next.gen = job[r].gen /\ next.source = job[r].source
  BY <1>1 DEF Job
<1>3. GiveBack(r) \in {Ended, next}
  BY DEF GiveBack
<1> HIDE DEF next
<1> QED BY <1>2, <1>3, StartFacts

LEMMA OneConsumer ==
  ASSUME IInv, NEW c \in Consumers, NEW next \in Consumer,
         consumer' = [consumer EXCEPT ![c] = next], ConsumerIsRight(next, gen', files')
  PROVE  /\ consumer' \in [Consumers -> Consumer]
         /\ \A d \in Consumers :
              consumer'[d] = consumer[d] \/ ConsumerIsRight(consumer'[d], gen', files')
<1>1. consumer \in [Consumers -> Consumer]
  BY DEF IInv, TypeOK
<1> QED BY <1>1

LEMMA ClaimKeeps ==
  ASSUME IInv, NEW c \in Consumers, NEW r \in Requests, Claim(c, r)
  PROVE  IInv'
<1>1. TypeOK /\ job[r] \in Job /\ job[r].claims \in Nat
  BY DEF IInv, TypeOK, Job
<1> DEFINE claim == job[r].claims + 1
           next == [job[r] EXCEPT !.status = "running", !.claims = claim]
           busy == [Idle EXCEPT !.phase = "claimed", !.request = r, !.claim = claim]
<1>2. claim \in Nat
  BY <1>1
<1>3. job' = [job EXCEPT ![r] = next]
  BY <1>1 DEF Claim, TypeOK
<1>4. consumer' = [consumer EXCEPT ![c] = busy]
  BY DEF Claim
<1> HIDE DEF claim
<1>5. next \in Job /\ next.gen = job[r].gen /\ next.source = job[r].source
  BY <1>1, <1>2 DEF Job
<1>6. busy \in Consumer /\ busy.phase = "claimed" /\ busy.request = r
  <2>1. Idle \in Consumer
    BY StartFacts
  <2> HIDE DEF Idle
  <2> QED BY <1>2, <2>1 DEF Consumer, Phase
<1> HIDE DEF next, busy
<1>7. ConsumerIsRight(busy, gen', files')
  BY <1>6 DEF ConsumerIsRight, Chosen
<1>8. /\ job' \in [Requests -> Job]
      /\ \A s \in Requests : job'[s] = job[s] \/ JobIsRight(s, job'[s], gen')
  BY <1>5, <1>3, JobMoves DEF Claim
<1>9. /\ consumer' \in [Consumers -> Consumer]
      /\ \A d \in Consumers :
           consumer'[d] = consumer[d] \/ ConsumerIsRight(consumer'[d], gen', files')
  BY <1>6, <1>4, <1>7, OneConsumer
<1>10. TypeOK'
  BY <1>1, <1>8, <1>9 DEF Claim, TypeOK
<1> QED BY <1>8, <1>9, <1>10, SameRows, StepKeepsIInv DEF Claim

LEMMA QueueKeeps ==
  ASSUME IInv, NEW r \in Requests, MarkStale(r) \/ Recover(r) \/ Cancel(r)
  PROVE  IInv'
<1>1. TypeOK /\ job[r] \in Job /\ UNCHANGED <<gen, chapter, registry, files, route, consumer>>
  BY DEF IInv, TypeOK, MarkStale, Recover, Cancel
<1>2. \E next \in Job :
        /\ job' = [job EXCEPT ![r] = next]
        /\ next.gen = 0 \/ (next.gen = job[r].gen /\ next.source = job[r].source)
  <2>1. CASE job' = [job EXCEPT ![r] = Ended]
    BY <2>1, StartFacts
  <2>2. CASE job' = [job EXCEPT ![r] = GiveBack(r)]
    BY <1>1, <2>2, GiveBackFacts
  <2>3. CASE job' = [job EXCEPT ![r].cancel = TRUE]
    <3>1. PICK b \in BOOLEAN : job' = [job EXCEPT ![r].cancel = b]
      BY <2>3
    <3> DEFINE next == [job[r] EXCEPT !.cancel = b]
    <3>2. next \in Job /\ next.gen = job[r].gen /\ next.source = job[r].source
      BY <1>1 DEF Job
    <3>3. job' = [job EXCEPT ![r] = next]
      BY <1>1, <3>1 DEF TypeOK
    <3> HIDE DEF next
    <3> QED BY <3>2, <3>3
  <2> QED BY <2>1, <2>2, <2>3 DEF MarkStale, Recover, Cancel
<1>3. /\ job' \in [Requests -> Job]
      /\ \A s \in Requests : job'[s] = job[s] \/ JobIsRight(s, job'[s], gen')
  BY <1>1, <1>2, JobMoves
<1>4. TypeOK'
  BY <1>1, <1>3 DEF TypeOK
<1> QED BY <1>1, <1>3, <1>4, SameRows, StepKeepsIInv

LEMMA EndKeeps ==
  ASSUME IInv, NEW c \in Consumers, End(c)
  PROVE  IInv'
<1> DEFINE r == consumer[c].request
<1>1. TypeOK /\ r \in Requests /\ job[r] \in Job
  BY DEF IInv, TypeOK, ConsumerIsRight, End
<1>2. /\ job' \in [Requests -> Job]
      /\ \A s \in Requests : job'[s] = job[s] \/ JobIsRight(s, job'[s], gen')
  <2>1. CASE job' = job
    BY <1>1, <2>1 DEF TypeOK
  <2>2. CASE job' = [job EXCEPT ![r] = GiveBack(r)]
    BY <1>1, <2>2, GiveBackFacts, JobMoves DEF End
  <2>3. CASE job' = [job EXCEPT ![r] = Ended]
    BY <1>1, <2>3, StartFacts, JobMoves DEF End
  <2> QED BY <2>1, <2>2, <2>3 DEF End
<1>3. /\ consumer' \in [Consumers -> Consumer]
      /\ \A d \in Consumers :
           consumer'[d] = consumer[d] \/ ConsumerIsRight(consumer'[d], gen', files')
  <2>1. ConsumerIsRight(Idle, gen', files')
    BY StartFacts DEF ConsumerIsRight, Chosen
  <2> QED BY <2>1, StartFacts, OneConsumer DEF End
<1>4. TypeOK'
  BY <1>1, <1>2, <1>3 DEF TypeOK, End
<1> QED BY <1>2, <1>3, <1>4, SameRows, StepKeepsIInv DEF End

-----------------------------------------------------------------------------
(* The consumers *)

\* A consumer that goes on in another phase with what it has.
LEMMA GotoFacts ==
  ASSUME IInv, NEW c \in Consumers, NEW phase \in Phase, Goto(c, phase)
  PROVE  \E next \in Consumer :
           /\ consumer' = [consumer EXCEPT ![c] = next]
           /\ next.phase = phase /\ next.request = consumer[c].request
           /\ next.gen = consumer[c].gen /\ next.inputs = consumer[c].inputs
<1> DEFINE next == [consumer[c] EXCEPT !.phase = phase]
<1>1. consumer[c] \in Consumer
  BY DEF IInv, TypeOK
<1>2. /\ next \in Consumer /\ next.phase = phase /\ next.request = consumer[c].request
      /\ next.gen = consumer[c].gen /\ next.inputs = consumer[c].inputs
  BY <1>1 DEF Consumer
<1>3. consumer' = [consumer EXCEPT ![c] = next]
  BY DEF Goto
<1> HIDE DEF next
<1> QED BY <1>2, <1>3

\* A consumer that ends, or gives its job back.
LEMMA LeaveFacts ==
  ASSUME IInv, NEW c \in Consumers, consumer[c].phase # "idle",
         NEW phase \in {"ending", "retrying"}, Goto(c, phase)
  PROVE  /\ consumer' \in [Consumers -> Consumer]
         /\ \A d \in Consumers :
              consumer'[d] = consumer[d] \/ ConsumerIsRight(consumer'[d], gen', files')
<1>1. PICK next \in Consumer :
           /\ consumer' = [consumer EXCEPT ![c] = next]
           /\ next.phase = phase /\ next.request = consumer[c].request
           /\ next.gen = consumer[c].gen /\ next.inputs = consumer[c].inputs
  BY GotoFacts DEF Phase
<1>2. ConsumerIsRight(next, gen', files')
  BY <1>1 DEF IInv, ConsumerIsRight, Chosen
<1> QED BY <1>1, <1>2, OneConsumer

LEMMA LoadKeeps ==
  ASSUME IInv, NEW c \in Consumers, Load(c)
  PROVE  IInv'
<1>1. /\ TypeOK /\ consumer[c] \in Consumer /\ consumer[c].phase = "claimed"
      /\ UNCHANGED <<gen, chapter, registry, files, route, job>>
  BY DEF IInv, TypeOK, Load, queue
<1>2. /\ consumer' \in [Consumers -> Consumer]
      /\ \A d \in Consumers :
           consumer'[d] = consumer[d] \/ ConsumerIsRight(consumer'[d], gen', files')
  <2>1. CASE Goto(c, "ending")
    BY <1>1, <2>1, LeaveFacts
  <2>2. CASE /\ SourceIsCurrent(c)
             /\ consumer' = [consumer EXCEPT ![c].phase = "loaded", ![c].inputs = ReadChapter,
                                        ![c].gen = job[consumer[c].request].gen]
    <3> DEFINE r == consumer[c].request
               next == [consumer[c] EXCEPT !.phase = "loaded", !.inputs = ReadChapter,
                                           !.gen = job[r].gen]
    <3>1. r \in Requests /\ job[r] \in Job /\ JobIsRight(r, job[r], gen)
      BY <1>1 DEF IInv, TypeOK, ConsumerIsRight
    <3>2. ReadChapter \in Inputs /\ ReadChapter.text = chapter.text /\ chapter.text \in Texts
      BY <1>1, ReadFacts
    <3>3. consumer' = [consumer EXCEPT ![c] = next]
      BY <1>1, <2>2 DEF TypeOK
    <3>4. /\ next \in Consumer /\ next.phase = "loaded" /\ next.request = r
          /\ next.gen = job[r].gen /\ next.inputs = ReadChapter
      <4> HIDE DEF r
      <4>1. job[r].gen \in Gens \cup {0}
        BY <3>1 DEF Job
      <4>2. r = consumer[c].request
        BY DEF r
      <4> QED BY <1>1, <3>2, <4>1, <4>2 DEF Consumer, Phase
    <3> HIDE DEF next
    <3>5. ASSUME job[r].gen # 0 PROVE MadeOf(gen, job[r].gen, chapter.text)
      <4>1. PICK t \in Texts : job[r].source = <<t>> /\ MadeOf(gen, job[r].gen, t)
        BY <3>1, <3>5 DEF JobIsRight
      <4>2. SourceOf(r) = <<chapter.text>> /\ job[r].source \in {<<>>, SourceOf(r)}
        BY <2>2, <3>1, <3>5 DEF SourceOf, SourceIsCurrent, JobIsRight
      <4>3. t = chapter.text
        BY <4>1, <4>2
      <4> QED BY <4>1, <4>3
    <3>6. ConsumerIsRight(next, gen', files')
      BY <1>1, <3>1, <3>2, <3>4, <3>5 DEF ConsumerIsRight, Chosen
    <3> QED BY <3>3, <3>4, <3>6, OneConsumer
  <2> QED BY <2>1, <2>2 DEF Load
<1>3. TypeOK'
  BY <1>1, <1>2 DEF TypeOK
<1> QED BY <1>1, <1>2, <1>3, SameRows, StepKeepsIInv

LEMMA TakeFacts ==
  ASSUME IInv, NEW c \in Consumers, consumer[c].phase = "loaded", NEW g \in Gens,
         MadeOf(gen, g, consumer[c].inputs.text), Take(c, g), UNCHANGED <<gen, files>>
  PROVE  /\ consumer' \in [Consumers -> Consumer]
         /\ \A d \in Consumers :
              consumer'[d] = consumer[d] \/ ConsumerIsRight(consumer'[d], gen', files')
<1> DEFINE phase == IF gen[g].status = "ready" THEN "ending" ELSE "starting"
           next == [consumer[c] EXCEPT !.gen = g, !.phase = phase]
<1>1. /\ consumer[c] \in Consumer /\ ConsumerIsRight(consumer[c], gen, files)
      /\ consumer \in [Consumers -> Consumer]
  BY DEF IInv, TypeOK
<1>2. phase \in Phase /\ phase \in {"ending", "starting"}
  BY DEF Phase
<1>3. consumer' = [consumer EXCEPT ![c] = next]
  BY <1>1 DEF Take
<1> HIDE DEF phase
<1>4. /\ next \in Consumer /\ next.phase = phase /\ next.request = consumer[c].request
      /\ next.gen = g /\ next.inputs = consumer[c].inputs
  BY <1>1, <1>2 DEF Consumer
<1> HIDE DEF next
<1>5. ConsumerIsRight(next, gen', files')
  BY <1>1, <1>2, <1>4 DEF ConsumerIsRight, Chosen
<1> QED BY <1>3, <1>4, <1>5, OneConsumer

LEMMA FetchKeeps ==
  ASSUME IInv, NEW c \in Consumers, Fetch(c)
  PROVE  IInv'
<1> DEFINE inputs == Keying(consumer[c].inputs)
<1>1. /\ TypeOK /\ consumer[c] \in Consumer /\ consumer[c].phase = "loaded"
      /\ ConsumerIsRight(consumer[c], gen, files)
      /\ UNCHANGED <<gen, chapter, registry, files, route, job>>
  BY DEF IInv, TypeOK, Fetch, queue
<1>2. inputs \in Inputs /\ inputs.text = consumer[c].inputs.text /\ inputs.text \in Texts
  BY <1>1, ReadFacts DEF Consumer, ConsumerIsRight
<1>3. /\ consumer' \in [Consumers -> Consumer]
      /\ \A d \in Consumers :
           consumer'[d] = consumer[d] \/ ConsumerIsRight(consumer'[d], gen', files')
  <2>1. CASE consumer[c].gen # 0 /\ Take(c, consumer[c].gen)
    <3>1. MadeOf(gen, consumer[c].gen, consumer[c].inputs.text) /\ consumer[c].gen \in Gens
      BY <1>1, <2>1 DEF ConsumerIsRight, MadeOf
    <3> QED BY <1>1, <2>1, <3>1, TakeFacts
  <2>2. ASSUME NEW g \in Reusable(inputs, Analysed(c), FALSE), Take(c, g)
        PROVE  /\ consumer' \in [Consumers -> Consumer]
               /\ \A d \in Consumers :
                    consumer'[d] = consumer[d] \/ ConsumerIsRight(consumer'[d], gen', files')
    <3>1. g \in Gens /\ MadeOf(gen, g, inputs.text)
      BY <1>2, ReusableIsMade
    <3> QED BY <1>1, <1>2, <2>2, <3>1, TakeFacts
  <2>3. CASE consumer' = [consumer EXCEPT ![c].phase = "inserting", ![c].inputs = inputs,
                          ![c].once = NeedsNewIdentity(inputs, Analysed(c), FALSE)]
    <3> DEFINE once == NeedsNewIdentity(inputs, Analysed(c), FALSE)
               next == [consumer[c] EXCEPT !.phase = "inserting", !.inputs = inputs, !.once = once]
    <3>1. once \in BOOLEAN
      BY NeedIsBoolean
    <3>2. consumer' = [consumer EXCEPT ![c] = next]
      BY <1>1, <2>3 DEF TypeOK
    <3> HIDE DEF once, inputs
    <3>3. /\ next \in Consumer /\ next.phase = "inserting" /\ next.request = consumer[c].request
          /\ next.inputs = inputs
      BY <1>1, <1>2, <3>1 DEF Consumer, Phase
    <3> HIDE DEF next
    <3>4. ConsumerIsRight(next, gen', files')
      BY <1>1, <1>2, <3>3 DEF ConsumerIsRight, Chosen
    <3> QED BY <3>2, <3>3, <3>4, OneConsumer
  <2> QED BY <2>1, <2>2, <2>3 DEF Fetch
<1>4. TypeOK'
  BY <1>1, <1>3 DEF TypeOK
<1> QED BY <1>1, <1>3, <1>4, SameRows, StepKeepsIInv

LEMMA ConsumerInsertsKeeps ==
  ASSUME IInv, NEW c \in Consumers, ConsumerInserts(c)
  PROVE  IInv'
<1> DEFINE inputs == consumer[c].inputs
<1>1. /\ TypeOK /\ consumer[c] \in Consumer /\ consumer[c].phase = "inserting"
      /\ inputs \in Inputs /\ inputs.text \in Texts /\ consumer[c].once \in BOOLEAN
      /\ consumer[c].request \in Requests
      /\ UNCHANGED <<chapter, registry, files, route, job>>
  BY DEF IInv, TypeOK, ConsumerInserts, queue, Consumer, ConsumerIsRight
<1>2. CASE Goto(c, "ending") /\ UNCHANGED gen
  <2>1. /\ consumer' \in [Consumers -> Consumer]
        /\ \A d \in Consumers :
             consumer'[d] = consumer[d] \/ ConsumerIsRight(consumer'[d], gen', files')
    BY <1>1, <1>2, LeaveFacts
  <2>2. TypeOK'
    BY <1>1, <1>2, <2>1 DEF TypeOK
  <2> QED BY <1>1, <1>2, <2>1, <2>2, SameRows, StepKeepsIInv
<1>3. ASSUME NEW g \in NextGen,
             gen' = [gen EXCEPT ![g] = NewRow(inputs, Analysed(c), consumer[c].once)],
             consumer' = [consumer EXCEPT ![c].phase = "starting", ![c].gen = g,
                                          ![c].inputs = [inputs EXCEPT !.revision = 0],
                                          ![c].once = FALSE]
      PROVE  IInv'
  <2>1. g \in Gens /\ gen[g].status = "absent" /\ Analysed(c) \in BOOLEAN
    BY DEF NextGen, Analysed
  <2>2. /\ gen' \in [Gens -> Gen] /\ Grows(gen, gen') /\ Stays(files, files')
        /\ \A h \in Gens : RowIsRight(h, gen', files')
        /\ MadeOf(gen', g, inputs.text)
    BY <1>1, <1>3, <2>1, RowIsMade
  <2>3. PICK b \in BOOLEAN :
          consumer' = [consumer EXCEPT ![c].phase = "starting", ![c].gen = g,
                        ![c].inputs = [inputs EXCEPT !.revision = 0], ![c].once = b]
    BY <1>3
  <2> DEFINE later == [inputs EXCEPT !.revision = 0]
             next == [consumer[c] EXCEPT !.phase = "starting", !.gen = g, !.inputs = later,
                                         !.once = b]
  <2>4. later \in Inputs /\ later.text = inputs.text
    BY <1>1, BoundAssumption DEF Inputs
  <2>5. consumer' = [consumer EXCEPT ![c] = next]
    BY <1>1, <2>3 DEF TypeOK
  <2> HIDE DEF later
  <2>6. /\ next \in Consumer /\ next.phase = "starting" /\ next.gen = g /\ next.inputs = later
        /\ next.request = consumer[c].request
    BY <1>1, <2>1, <2>4 DEF Consumer, Phase
  <2> HIDE DEF next
  <2>7. ConsumerIsRight(next, gen', files')
    BY <1>1, <2>2, <2>4, <2>6 DEF ConsumerIsRight, Chosen
  <2>8. /\ consumer' \in [Consumers -> Consumer]
        /\ \A d \in Consumers :
             consumer'[d] = consumer[d] \/ ConsumerIsRight(consumer'[d], gen', files')
    BY <2>5, <2>6, <2>7, OneConsumer
  <2>9. Shape'
    BY <1>1, <2>2, <2>8 DEF Shape, TypeOK
  <2> QED BY <1>1, <2>2, <2>8, <2>9, StepKeepsIInv
<1> QED BY <1>2, <1>3 DEF ConsumerInserts

\* What a consumer that has chosen its generation knows of it.
LEMMA ChosenFacts ==
  ASSUME IInv, NEW c \in Consumers, consumer[c].phase \in Chosen
  PROVE  /\ TypeOK /\ consumer[c] \in Consumer /\ consumer[c].request \in Requests
         /\ consumer[c].gen \in Gens /\ consumer[c].inputs.text \in Texts
         /\ gen[consumer[c].gen].status # "absent"
         /\ gen[consumer[c].gen].of.text = consumer[c].inputs.text
         /\ ConsumerIsRight(consumer[c], gen, files)
BY DEF IInv, TypeOK, ConsumerIsRight, MadeOf, Chosen

\* ... and a step of its own on the rows, after which it goes on or leaves.
LEMMA ChosenStep ==
  ASSUME IInv, NEW c \in Consumers, consumer[c].phase \in Chosen,
         Grows(gen, gen'), Stays(files, files'), gen' \in [Gens -> Gen],
         files' \in [Gens -> [audio : Render \cup {Nobody}, timing : Render \cup {Nobody}]],
         \A h \in Gens : RowIsRight(h, gen', files'),
         UNCHANGED <<registry, route, job>>,
         chapter' \in [text : Texts, mode : Modes, version : Versions, active : Gens \cup {0}],
         NEW phase \in {"rendering", "promoting", "rendered", "checked", "ending", "retrying"},
         Goto(c, phase),
         phase \in {"promoting", "rendered", "checked"} =>
           files'[consumer[c].gen].audio # Nobody,
         phase \in {"rendered", "checked"} => files'[consumer[c].gen].timing # Nobody
  PROVE  IInv'
<1>1. PICK next \in Consumer :
        /\ consumer' = [consumer EXCEPT ![c] = next]
        /\ next.phase = phase /\ next.request = consumer[c].request
        /\ next.gen = consumer[c].gen /\ next.inputs = consumer[c].inputs
  BY GotoFacts DEF Phase
<1>2. ConsumerIsRight(consumer[c], gen', files')
  BY ChosenFacts, RightStays
<1>3. ConsumerIsRight(next, gen', files')
  BY <1>1, <1>2 DEF ConsumerIsRight, Chosen
<1>4. /\ consumer' \in [Consumers -> Consumer]
      /\ \A d \in Consumers :
           consumer'[d] = consumer[d] \/ ConsumerIsRight(consumer'[d], gen', files')
  BY <1>1, <1>3, OneConsumer
<1>5. Shape'
  BY <1>4 DEF IInv, Shape, TypeOK
<1> QED BY <1>4, <1>5, StepKeepsIInv

LEMMA StatusStepKeeps ==
  ASSUME IInv, NEW c \in Consumers, consumer[c].phase \in Chosen,
         NEW status \in {"queued", "running", "ready", "failed"},
         gen' = [gen EXCEPT ![consumer[c].gen].status = status],
         status = "ready" => /\ files[consumer[c].gen].audio # Nobody
                             /\ files[consumer[c].gen].timing # Nobody,
         NEW phase \in {"rendering", "ending", "retrying"}, Goto(c, phase),
         UNCHANGED <<registry, files, route, job>>,
         chapter' \in [text : Texts, mode : Modes, version : Versions, active : Gens \cup {0}]
  PROVE  IInv'
<1>1. /\ gen' \in [Gens -> Gen] /\ Grows(gen, gen') /\ Stays(files, files')
      /\ \A h \in Gens : RowIsRight(h, gen', files')
  BY ChosenFacts, StatusMoves
<1>2. files' \in [Gens -> [audio : Render \cup {Nobody}, timing : Render \cup {Nobody}]]
  BY DEF IInv, TypeOK
<1> QED BY <1>1, <1>2, ChosenStep

LEMMA SameRowsStep ==
  ASSUME IInv, NEW c \in Consumers, consumer[c].phase \in Chosen,
         NEW phase \in {"checked", "ending"}, Goto(c, phase),
         phase = "checked" => consumer[c].phase = "rendered",
         UNCHANGED <<gen, chapter, registry, files, route, job>>
  PROVE  IInv'
<1>1. ConsumerIsRight(consumer[c], gen, files)
  BY ChosenFacts
<1>2. phase = "checked" => /\ files[consumer[c].gen].audio # Nobody
                           /\ files[consumer[c].gen].timing # Nobody
  BY <1>1 DEF ConsumerIsRight
<1>3. Grows(gen, gen') /\ Stays(files, files') /\ \A h \in Gens : RowIsRight(h, gen', files')
  BY DEF IInv, Grows, Stays
<1>4. /\ gen' \in [Gens -> Gen]
      /\ files' \in [Gens -> [audio : Render \cup {Nobody}, timing : Render \cup {Nobody}]]
      /\ chapter' \in [text : Texts, mode : Modes, version : Versions, active : Gens \cup {0}]
  BY DEF IInv, TypeOK
<1> QED BY <1>2, <1>3, <1>4, ChosenStep

LEMMA StartKeeps ==
  ASSUME IInv, NEW c \in Consumers, Start(c)
  PROVE  IInv'
<1>1. consumer[c].phase \in Chosen
  BY DEF Start, Chosen
<1> QED BY <1>1, StatusStepKeeps DEF Start, queue, IInv, TypeOK

LEMMA RenderFailsKeeps ==
  ASSUME IInv, NEW c \in Consumers, RenderFails(c)
  PROVE  IInv'
<1>1. consumer[c].phase \in Chosen
  BY DEF RenderFails, Chosen
<1> QED BY <1>1, StatusStepKeeps DEF RenderFails, queue, IInv, TypeOK

LEMMA RenderFacts ==
  ASSUME IInv, NEW c \in Consumers, consumer[c].phase \in Chosen
  PROVE  /\ RenderOf(c) \in Render /\ RenderOf(c) # Nobody
         /\ RenderOf(c).text = gen[consumer[c].gen].of.text
<1>1. consumer[c].claim \in Nat
  BY ChosenFacts DEF Consumer
<1> QED BY <1>1, ChosenFacts, RenderAssumption DEF RenderOf, Render

LEMMA PromoteKeeps ==
  ASSUME IInv, NEW c \in Consumers, PromoteAudio(c) \/ PromoteTiming(c)
  PROVE  IInv'
<1> DEFINE g == consumer[c].gen
           File == [audio : Render \cup {Nobody}, timing : Render \cup {Nobody}]
<1>1. /\ consumer[c].phase \in Chosen /\ files \in [Gens -> File] /\ g \in Gens
      /\ ConsumerIsRight(consumer[c], gen, files) /\ gen[g].status # "absent"
      /\ UNCHANGED <<gen, chapter, registry, route, job>>
  <2>1. consumer[c].phase \in Chosen
    BY DEF PromoteAudio, PromoteTiming, Chosen
  <2> QED BY <2>1, ChosenFacts DEF TypeOK, PromoteAudio, PromoteTiming, queue
<1>2. RenderOf(c) \in Render /\ RenderOf(c) # Nobody /\ RenderOf(c).text = gen[g].of.text
  BY <1>1, RenderFacts
<1>3. \E next \in File, phase \in {"promoting", "rendered"} :
        /\ files' = [files EXCEPT ![g] = next] /\ Goto(c, phase)
        /\ next.audio \in {files[g].audio, RenderOf(c)} /\ next.audio # Nobody
        /\ next.timing \in {files[g].timing, RenderOf(c)}
        /\ phase = "rendered" => next.timing # Nobody
  <2>1. CASE PromoteAudio(c)
    <3> DEFINE next == [files[g] EXCEPT !.audio = RenderOf(c)]
    <3>1. next \in File /\ next.audio = RenderOf(c) /\ next.timing = files[g].timing
      BY <1>1, <1>2
    <3>2. files' = [files EXCEPT ![g] = next] /\ Goto(c, "promoting")
      BY <1>1, <2>1 DEF PromoteAudio
    <3> HIDE DEF next, File
    <3> QED BY <1>2, <3>1, <3>2
  <2>2. CASE PromoteTiming(c)
    <3> DEFINE next == [files[g] EXCEPT !.timing = RenderOf(c)]
    <3>1. next \in File /\ next.timing = RenderOf(c) /\ next.audio = files[g].audio
      BY <1>1, <1>2
    <3>2. files' = [files EXCEPT ![g] = next] /\ Goto(c, "rendered")
      BY <1>1, <2>2 DEF PromoteTiming
    <3>3. files[g].audio # Nobody
      BY <1>1, <2>2 DEF ConsumerIsRight, PromoteTiming
    <3> HIDE DEF next, File
    <3> QED BY <1>2, <3>1, <3>2, <3>3
  <2> QED BY <2>1, <2>2
<1>4. PICK next \in File, phase \in {"promoting", "rendered"} :
        /\ files' = [files EXCEPT ![g] = next] /\ Goto(c, phase)
        /\ next.audio \in {files[g].audio, RenderOf(c)} /\ next.audio # Nobody
        /\ next.timing \in {files[g].timing, RenderOf(c)}
        /\ phase = "rendered" => next.timing # Nobody
  BY <1>3
<1> HIDE DEF File
<1>5. files' \in [Gens -> File] /\ files'[g] = next /\ \A h \in Gens \ {g} : files'[h] = files[h]
  BY <1>1, <1>4
<1>6. Stays(files, files') /\ Grows(gen, gen')
  BY <1>1, <1>2, <1>4, <1>5 DEF Stays, Grows
<1>7. \A h \in Gens : RowIsRight(h, gen', files')
  <2>1. RowIsRight(g, gen', files')
    <3>1. RowIsRight(g, gen, files)
      BY <1>1 DEF IInv
    <3> QED BY <1>1, <1>2, <1>4, <1>5, <3>1 DEF RowIsRight
  <2>2. \A h \in Gens \ {g} : RowIsRight(h, gen', files')
    BY <1>1, <1>5 DEF IInv, RowIsRight
  <2> QED BY <2>1, <2>2
<1>8. /\ gen' \in [Gens -> Gen]
      /\ chapter' \in [text : Texts, mode : Modes, version : Versions, active : Gens \cup {0}]
  BY <1>1 DEF IInv, TypeOK
<1>9. /\ files' \in [Gens -> [audio : Render \cup {Nobody}, timing : Render \cup {Nobody}]]
      /\ files'[consumer[c].gen].audio # Nobody
      /\ phase = "rendered" => files'[consumer[c].gen].timing # Nobody
  BY <1>4, <1>5 DEF File
<1> HIDE DEF g
<1> QED BY <1>1, <1>4, <1>6, <1>7, <1>8, <1>9, ChosenStep

LEMMA CheckOwnerKeeps ==
  ASSUME IInv, NEW c \in Consumers, CheckOwner(c)
  PROVE  IInv'
<1>1. /\ consumer[c].phase \in Chosen /\ consumer[c].phase = "rendered"
      /\ UNCHANGED <<chapter, registry, files, route, job>>
  BY DEF CheckOwner, Chosen, queue
<1>2. CASE (Goto(c, "ending") \/ Goto(c, "checked")) /\ UNCHANGED gen
  BY <1>1, <1>2, SameRowsStep
<1>3. CASE gen' = [gen EXCEPT ![consumer[c].gen].status = "failed"] /\ Goto(c, "ending")
  BY <1>1, <1>3, StatusStepKeeps DEF IInv, TypeOK
<1> QED BY <1>2, <1>3 DEF CheckOwner

LEMMA ActivateKeeps ==
  ASSUME IInv, NEW c \in Consumers, Activate(c)
  PROVE  IInv'
<1> DEFINE g == consumer[c].gen
<1>1. /\ consumer[c].phase \in Chosen /\ consumer[c].phase = "checked" /\ g \in Gens
      /\ gen[g].status # "absent" /\ TypeOK
      /\ files[g].audio # Nobody /\ files[g].timing # Nobody
      /\ UNCHANGED <<registry, files, route, job>>
  <2>1. consumer[c].phase \in Chosen /\ consumer[c].phase = "checked"
    BY DEF Activate, Chosen
  <2> QED BY <2>1, ChosenFacts DEF Activate, ConsumerIsRight, queue
<1>2. CASE gen' = [gen EXCEPT ![g].status = "failed"] /\ Goto(c, "ending") /\ UNCHANGED chapter
  BY <1>1, <1>2, StatusStepKeeps DEF TypeOK
<1>3. CASE Goto(c, "ending") /\ UNCHANGED <<gen, chapter>>
  BY <1>1, <1>3, SameRowsStep
<1>4. CASE /\ gen' = [gen EXCEPT ![g].status =
                     IF @ \in {"queued", "running", "ready"} THEN "ready" ELSE @]
           /\ chapter' = IF gen[g].of.mode = consumer[c].inputs.mode /\ ~ActiveIsNewer(g)
                         THEN [chapter EXCEPT !.active = g] ELSE chapter
           /\ Goto(c, "ending")
  <2>1. gen[g] \in Gen
    BY <1>1 DEF TypeOK
  <2>2. PICK status \in {"ready", "failed"} : gen' = [gen EXCEPT ![g].status = status]
    BY <1>1, <1>4, <2>1 DEF Gen, TypeOK
  <2>3. chapter' \in [text : Texts, mode : Modes, version : Versions, active : Gens \cup {0}]
    BY <1>1, <1>4 DEF TypeOK
  <2> HIDE DEF g
  <2> QED BY <1>1, <1>4, <2>2, <2>3, StatusStepKeeps DEF g
<1> QED BY <1>2, <1>3, <1>4 DEF Activate

LEMMA EditsKeep ==
  ASSUME IInv, EditText \/ SaveAudioMode \/ EditRegistry
  PROVE  IInv'
<1>1. UNCHANGED <<gen, files, route, job, consumer>>
  BY DEF EditText, SaveAudioMode, EditRegistry, queue
<1>2. /\ chapter' \in [text : Texts, mode : Modes, version : Versions, active : Gens \cup {0}]
      /\ registry' \in Revisions
  BY DEF IInv, TypeOK, EditText, SaveAudioMode, EditRegistry
<1>3. TypeOK'
  BY <1>1, <1>2 DEF IInv, TypeOK
<1> QED BY <1>1, <1>3, SameRows, StepKeepsIInv

-----------------------------------------------------------------------------
LEMMA IInvInit ==
  ASSUME Init
  PROVE  IInv
<1>1. TypeOK
  <2>1. chapter \in [text : Texts, mode : Modes, version : Versions, active : Gens \cup {0}]
    BY BoundAssumption DEF Init
  <2> HIDE DEF NoGen, NewRoute, NoJob, Idle
  <2> QED BY <2>1, BoundAssumption, StartFacts DEF Init, TypeOK
<1>2. \A g \in Gens : RowIsRight(g, gen, files)
  BY StartFacts DEF Init, RowIsRight
<1>3. \A r \in Requests : RouteIsRight(r, route[r], gen) /\ JobIsRight(r, job[r], gen)
  BY StartFacts DEF Init, RouteIsRight, JobIsRight
<1>4. \A c \in Consumers : ConsumerIsRight(consumer[c], gen, files)
  BY StartFacts DEF Init, ConsumerIsRight, Chosen
<1> QED BY <1>1, <1>2, <1>3, <1>4 DEF IInv

LEMMA IInvStep ==
  ASSUME IInv, [Next]_vars
  PROVE  IInv'
<1>1. CASE UNCHANGED vars
  BY <1>1, SameRows, StepKeepsIInv DEF vars, IInv, TypeOK
<1>2. ASSUME NEW c \in Consumers, ConsumerStep(c) PROVE IInv'
  BY <1>2, LoadKeeps, FetchKeeps, ConsumerInsertsKeeps, StartKeeps, PromoteKeeps,
     RenderFailsKeeps, CheckOwnerKeeps, ActivateKeeps, EndKeeps DEF ConsumerStep
<1>3. ASSUME NEW r \in Requests,
             Ask(r) \/ AskBatch(r) \/ LookUp(r) \/ InsertGen(r) \/ Enqueue(r) \/ MarkStale(r)
               \/ Recover(r) \/ Cancel(r)
      PROVE  IInv'
  BY <1>3, AskKeeps, AskBatchKeeps, LookUpKeeps, InsertGenKeeps, EnqueueKeeps, QueueKeeps
<1> QED BY <1>1, <1>2, <1>3, ClaimKeeps, EditsKeep DEF Next

LEMMA Inductive == Spec => []IInv
BY IInvInit, IInvStep, PTL DEF Spec

-----------------------------------------------------------------------------
(* The theorems *)

\* The shape of the state, whatever the requests, consumers and edits do.
THEOREM TypeCorrect == Spec => []TypeOK
<1>1. IInv => TypeOK
  BY DEF IInv
<1> QED BY <1>1, Inductive, PTL

\* The files of a generation are renders of the text it was created for, and a
\* ready generation has both, though the route, the queue and the consumer each
\* read the chapter at their own time (run_single_generation,
\* create_or_reuse_generation).
THEOREM FilesAreOfTheirText == Spec => []RenderedFromItsText
<1>1. IInv => RenderedFromItsText
  BY DEF IInv, RowIsRight, RenderedFromItsText
<1> QED BY <1>1, Inductive, PTL

\* What resolve_active_generation gives a reader is complete and was rendered from
\* the text the chapter has, though edits move no pointer.
THEOREM PlaybackIsCurrent == Spec => []PlayedIsCurrent
<1>1. IInv => PlayedIsCurrent
  <2> SUFFICES ASSUME IInv, Playable,
                      NEW render \in {files[chapter.active].audio, files[chapter.active].timing}
               PROVE  render # Nobody /\ render.text = chapter.text
    BY DEF PlayedIsCurrent
  <2>1. chapter.active \in Gens
    BY DEF IInv, TypeOK, Playable
  <2>2. RowIsRight(chapter.active, gen, files)
    BY <2>1 DEF IInv
  <2> QED BY <2>2 DEF RowIsRight, Playable
<1> QED BY <1>1, Inductive, PTL

LEMMA SwitchStep ==
  ASSUME IInv, [Next]_vars, chapter'.active # chapter.active
  PROVE  LET g == chapter'.active IN
           /\ gen[g].of.text = chapter.text /\ gen[g].of.revision = registry
           /\ files[g].audio.text = chapter.text
           /\ chapter.active # 0 /\ gen[chapter.active].status = "ready" => g > chapter.active
<1>1. TypeOK /\ chapter.active \in Gens \cup {0}
  BY DEF IInv, TypeOK
<1>2. PICK c \in Consumers : Activate(c)
  <2>1. CASE EditText \/ SaveAudioMode
    BY <1>1, <2>1 DEF EditText, SaveAudioMode, TypeOK
  <2>2. CASE UNCHANGED chapter
    BY <2>2
  <2> QED BY <2>1, <2>2 DEF Next, vars, Ask, AskBatch, LookUp, InsertGen, Enqueue, MarkStale,
         Recover, Cancel, ConsumerStep, Load, Fetch, ConsumerInserts, Start, PromoteAudio,
         PromoteTiming, RenderFails, CheckOwner, End, Claim, EditRegistry
<1> DEFINE g == consumer[c].gen
<1>3. /\ g \in Gens /\ RowIsRight(g, gen, files) /\ files[g].audio # Nobody
  <2>1. consumer[c].phase = "checked" /\ consumer[c].phase \in Chosen
    BY <1>2 DEF Activate, Chosen
  <2> QED BY <2>1, ChosenFacts DEF IInv, ConsumerIsRight
<1>4. /\ SourceMatches(g) /\ gen[g].of.revision = registry /\ ~ActiveIsNewer(g)
      /\ chapter' = [chapter EXCEPT !.active = g]
  BY <1>2 DEF Activate
<1>5. chapter'.active = g
  BY <1>1, <1>4 DEF TypeOK
<1>6. files[g].audio.text = chapter.text /\ gen[g].of.text = chapter.text
  BY <1>3, <1>4 DEF RowIsRight, SourceMatches
<1>7. chapter.active # 0 /\ gen[chapter.active].status = "ready" => g > chapter.active
  <2>1. chapter.active # 0 /\ gen[chapter.active].status = "ready" => ~(chapter.active > g)
    BY <1>4 DEF ActiveIsNewer
  <2>2. g \in Nat /\ chapter.active \in Nat
    <3>1. \A n \in Gens : n \in Nat
      BY GenAssumption
    <3>2. g \in Gens /\ chapter.active \in Gens \cup {0}
      BY <1>1, <1>3
    <3> HIDE DEF g
    <3> QED BY <3>1, <3>2
  <2>3. g # chapter.active
    BY <1>5
  <2> QED BY <2>1, <2>2, <2>3
<1> QED BY <1>4, <1>5, <1>6, <1>7

\* The pointer moves only to a generation of the text the chapter has, rendered
\* from it, and of the current registry; and never from a ready generation to an
\* older one (mark_generation_ready_and_activate).
THEOREM PointerMovesToCurrent == Spec => SwitchIsCurrent
<1>1. ASSUME IInv, [Next]_vars
      PROVE  [chapter'.active # chapter.active =>
                LET g == chapter'.active IN
                  /\ gen[g].of.text = chapter.text /\ gen[g].of.revision = registry
                  /\ files[g].audio.text = chapter.text
                  /\ chapter.active # 0 /\ gen[chapter.active].status = "ready"
                       => g > chapter.active]_vars
  BY <1>1, SwitchStep
<1> QED BY <1>1, Inductive, PTL DEF Spec, SwitchIsCurrent
=============================================================================
