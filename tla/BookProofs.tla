----------------------------- MODULE BookProofs -----------------------------
(***************************************************************************)
(* Theorems about what authors change in a book: its chapters (BookEditing) *)
(* for any number of chapters, any texts, any tabs and any number of edits  *)
(* and deaths of the process, and its characters (CharacterRegistry), for   *)
(* any characters, artifacts, threads, corrections, migrations and bounds.  *)
(***************************************************************************)
EXTENDS BookEditing, CharacterRegistry, FiniteSetTheorems, TLAPS

-----------------------------------------------------------------------------
(* Finite sets of naturals *)

\* The elements of a finite set, ordered by a number of their own, have the
\* ranks 1, 2, ... up to the size of the set.
LEMMA Ranks ==
  ASSUME NEW S, IsFiniteSet(S), NEW f \in [S -> Nat],
         \A x, y \in S : f[x] = f[y] => x = y,
         NEW rank, rank = [x \in S |-> Cardinality({y \in S : f[y] =< f[x]})]
  PROVE  /\ rank \in [S -> 1 .. Cardinality(S)]
         /\ \A x, y \in S : f[x] < f[y] => rank[x] < rank[y]
         /\ \A x, y \in S : rank[x] = rank[y] => x = y
         /\ \A k \in 1 .. Cardinality(S) : \E x \in S : rank[x] = k
<1> DEFINE Below(x) == {y \in S : f[y] =< f[x]}
<1>0. Cardinality(S) \in Nat
  BY FS_CardinalityType
<1>1. ASSUME NEW x \in S
      PROVE  /\ rank[x] = Cardinality(Below(x)) /\ IsFiniteSet(Below(x))
             /\ rank[x] \in Nat /\ rank[x] \in 1 .. Cardinality(S)
  <2>1. Below(x) \subseteq S /\ x \in Below(x)
    OBVIOUS
  <2>2. IsFiniteSet(Below(x)) /\ Cardinality(Below(x)) =< Cardinality(S)
    BY <2>1, FS_Subset
  <2>3. Cardinality(Below(x)) \in Nat /\ Cardinality(Below(x)) # 0
    BY <2>1, <2>2, FS_CardinalityType, FS_EmptySet
  <2>4. rank[x] = Cardinality(Below(x))
    OBVIOUS
  <2> HIDE DEF Below
  <2> QED BY <1>0, <2>2, <2>3, <2>4
<1>2. ASSUME NEW x \in S, NEW y \in S, f[x] < f[y]
      PROVE  rank[x] < rank[y]
  <2>1. f[x] \in Nat /\ f[y] \in Nat
    OBVIOUS
  <2>2. Below(x) \subseteq Below(y) \ {y}
    <3> SUFFICES ASSUME NEW z \in S, f[z] =< f[x] PROVE f[z] =< f[y] /\ z # y
      OBVIOUS
    <3>1. f[z] \in Nat
      OBVIOUS
    <3> QED BY <1>2, <2>1, <3>1
  <2>3. y \in Below(y)
    BY <2>1
  <2>4. IsFiniteSet(Below(y) \ {y}) /\ Cardinality(Below(y) \ {y}) = Cardinality(Below(y)) - 1
    BY <1>1, <2>3, FS_RemoveElement
  <2> HIDE DEF Below
  <2>5. Cardinality(Below(x)) =< Cardinality(Below(y) \ {y})
    BY <2>2, <2>4, FS_Subset
  <2>6. rank[x] \in Nat /\ rank[y] \in Nat
    BY <1>1
  <2>7. rank[x] = Cardinality(Below(x)) /\ rank[y] = Cardinality(Below(y))
    BY <1>1
  <2> QED BY <2>4, <2>5, <2>6, <2>7
<1>3. rank \in [S -> 1 .. Cardinality(S)]
  BY <1>1
<1>4. ASSUME NEW x \in S, NEW y \in S, rank[x] = rank[y]
      PROVE  x = y
  <2>1. f[x] \in Nat /\ f[y] \in Nat
    OBVIOUS
  <2>3. rank[x] \in Nat /\ rank[y] \in Nat
    BY <1>1
  <2>2. ~ (f[x] < f[y]) /\ ~ (f[y] < f[x])
    <3> DEFINE a == rank[x]  b == rank[y]
    <3>1. f[x] < f[y] => a < b
      BY <1>2
    <3>2. f[y] < f[x] => b < a
      BY <1>2
    <3>3. a \in Nat /\ a = b
      BY <2>3, <1>4
    <3> HIDE DEF a, b
    <3> QED BY <3>1, <3>2, <3>3
  <2> QED BY <2>1, <2>2
<1>5. rank \in Injection(S, 1 .. Cardinality(S))
  BY <1>3, <1>4 DEF Injection, IsInjective
<1>6. IsFiniteSet(1 .. Cardinality(S)) /\ Cardinality(1 .. Cardinality(S)) = Cardinality(S)
  BY <1>0, FS_Interval
<1>7. rank \in Surjection(S, 1 .. Cardinality(S))
  BY <1>5, <1>6, FS_Injection
<1>8. \A k \in 1 .. Cardinality(S) : \E x \in S : rank[x] = k
  BY <1>7 DEF Surjection
<1> QED BY <1>2, <1>3, <1>4, <1>8

LEMMA LargestOf ==
  ASSUME NEW S, IsFiniteSet(S), S # {}, NEW f \in [S -> Nat],
         \A x, y \in S : f[x] = f[y] => x = y
  PROVE  /\ \E x \in S : \A y \in S : f[x] >= f[y]
         /\ \E x \in S : \A y \in S : f[x] =< f[y]
<1> DEFINE rank == [x \in S |-> Cardinality({y \in S : f[y] =< f[x]})]
<1>0. Cardinality(S) \in Nat /\ Cardinality(S) # 0
  BY FS_CardinalityType, FS_EmptySet
<1>1. /\ rank \in [S -> 1 .. Cardinality(S)]
      /\ \A x, y \in S : f[x] < f[y] => rank[x] < rank[y]
      /\ \A k \in 1 .. Cardinality(S) : \E x \in S : rank[x] = k
  <2> DEFINE r == rank
  <2>1. r = [x \in S |-> Cardinality({y \in S : f[y] =< f[x]})]
    OBVIOUS
  <2> HIDE DEF r
  <2>2. /\ r \in [S -> 1 .. Cardinality(S)]
        /\ \A x, y \in S : f[x] < f[y] => r[x] < r[y]
        /\ \A k \in 1 .. Cardinality(S) : \E x \in S : r[x] = k
    BY SMTT(25), <2>1, Ranks
  <2> QED BY <2>2 DEF r
<1> HIDE DEF rank
<1>2. PICK x \in S : rank[x] = Cardinality(S)
  BY <1>0, <1>1
<1>3. PICK z \in S : rank[z] = 1
  BY <1>0, <1>1
<1>4. ASSUME NEW y \in S PROVE f[x] >= f[y] /\ f[z] =< f[y]
  <2>1. f[x] \in Nat /\ f[y] \in Nat /\ f[z] \in Nat /\ rank[y] \in 1 .. Cardinality(S)
    BY <1>1
  <2>2. ~ (f[x] < f[y]) /\ ~ (f[y] < f[z])
    BY <1>0, <1>1, <1>2, <1>3, <2>1
  <2> QED BY <2>1, <2>2
<1> QED BY <1>4

\* The members of a finite set of chapters can be listed, once each.
LEMMA SeqsCover ==
  ASSUME NEW S, IsFiniteSet(S), NEW order \in SetToSeqs(S)
  PROVE  /\ Cardinality(S) \in Nat
         /\ order \in [1 .. Cardinality(S) -> S]
         /\ DOMAIN order = 1 .. Cardinality(S) /\ Len(order) = Cardinality(S)
         /\ \A i, j \in 1 .. Cardinality(S) : order[i] = order[j] => i = j
         /\ \A x \in S : \E i \in 1 .. Cardinality(S) : order[i] = x
         /\ ToSet(order) = S
<1>0. Cardinality(S) \in Nat
  BY FS_CardinalityType
<1>1. /\ order \in [1 .. Cardinality(S) -> S]
      /\ \A i, j \in 1 .. Cardinality(S) : order[i] = order[j] => i = j
  BY DEF SetToSeqs
<1>2. order \in Injection(1 .. Cardinality(S), S)
  BY <1>1 DEF Injection, IsInjective
<1>3. Cardinality(1 .. Cardinality(S)) = Cardinality(S)
  BY <1>0, FS_Interval
<1>4. order \in Surjection(1 .. Cardinality(S), S)
  BY <1>2, <1>3, FS_Injection
<1>5. \A x \in S : \E i \in 1 .. Cardinality(S) : order[i] = x
  BY <1>4 DEF Surjection
<1>6. DOMAIN order = 1 .. Cardinality(S)
  BY <1>1
<1>7. order \in Seq(S) /\ Len(order) = Cardinality(S)
  <2>1. order \in Seq(S)
    BY <1>0, <1>1
  <2> QED BY <1>0, <1>6, <2>1
<1>8. ToSet(order) = S
  BY <1>1, <1>5, <1>6 DEF ToSet
<1> QED BY <1>0, <1>1, <1>5, <1>6, <1>7, <1>8

-----------------------------------------------------------------------------
(* The inductive invariant *)

\* What a tab may show.
TabShows(s) ==
  \/ tab[s] = Blank
  \/ tab[s] \in [what : {"chapter"}, key : Chapters, seq : Nat, text : Texts \cup {NoText}]
  \/ tab[s] \in [what : {"meta"}, meta : Meta]

LockedOps == {"adding", "removing", "renumbering", "ordering"}

\* What a request in progress remembers, and what it may still rely on because
\* it holds the lock of the book.
Restoring(s) ==
  call[s] \in [op : {"same", "saving", "restoring"}, version : Version,
               key : Chapters, text : Texts]
Adding(s) ==
  /\ call[s] \in [op : {"adding"}, seq : Nat]
  /\ \A c \in Live : chapter[c].seq < call[s].seq
  /\ crashes = 0 => call[s].seq =< Cardinality(Live)
  /\ \E c \in Chapters : chapter[c] = Absent
Removing(s) ==
  /\ call[s].op = "removing"
  /\ call[s] \in [op : {"removing"}, key : Live, rest : SetToSeqs(Live \ {call[s].key})]
  /\ Cardinality(Live) > 1
Renumbering(s) ==
  /\ call[s].op = "renumbering"
  /\ call[s] \in [op : {"renumbering"}, key : Chapters, rest : SetToSeqs(Live)]
Ordering(s) ==
  /\ call[s].op = "ordering"
  /\ call[s] \in [op : {"ordering"}, order : SetToSeqs(Live)]
Setting(s) == call[s] \in [op : {"settings"}, prologue : BOOLEAN]

InProgress(s) ==
  \/ call[s] = Idle \/ Restoring(s) \/ Setting(s)
  \/ Adding(s) \/ Removing(s) \/ Renumbering(s) \/ Ordering(s)

Exclusive == \A s \in Sessions : lock = s <=> call[s].op \in LockedOps

\* A chapter has a text, and no two have the same position.
RowsHold ==
  /\ \A c \in Live : chapter[c].text \in Texts
  /\ \A c, d \in Live : chapter[c].seq = chapter[d].seq => c = d

\* The positions have no gap, unless a removal is between its transactions or
\* was interrupted there.
NoGap ==
  crashes = 0 /\ (\A s \in Sessions : call[s].op # "renumbering") =>
    \A c \in Live : chapter[c].seq < Cardinality(Live)

Inv ==
  /\ TypeOK
  /\ Live # {}
  /\ RowsHold
  /\ NoGap
  /\ Exclusive
  /\ \A s \in Sessions : TabShows(s) /\ InProgress(s)

-----------------------------------------------------------------------------
(* The operators *)

\* Chapters at different positions can be listed in the order of the positions.
LEMMA InOrderIsListed ==
  ASSUME NEW S \in SUBSET Chapters, IsFiniteSet(S), \A c \in S : chapter[c].seq \in Nat,
         \A c, d \in S : chapter[c].seq = chapter[d].seq => c = d
  PROVE  InOrder(S) \in SetToSeqs(S)
<1> DEFINE f == [c \in S |-> chapter[c].seq]
           rank == [x \in S |-> Cardinality({y \in S : f[y] =< f[x]})]
           n == Cardinality(S)
           order == [k \in 1 .. n |-> CHOOSE x \in S : rank[x] = k]
<1>1. f \in [S -> Nat] /\ \A x, y \in S : f[x] = f[y] => x = y
  OBVIOUS
<1>2. \A x \in S : f[x] = chapter[x].seq
  OBVIOUS
<1> HIDE DEF f
<1>3. /\ rank \in [S -> 1 .. n]
      /\ \A x, y \in S : f[x] < f[y] => rank[x] < rank[y]
      /\ \A k \in 1 .. n : \E x \in S : rank[x] = k
  <2> DEFINE r == rank
  <2>1. r = [x \in S |-> Cardinality({y \in S : f[y] =< f[x]})]
    OBVIOUS
  <2> HIDE DEF r
  <2>2. /\ r \in [S -> 1 .. Cardinality(S)]
        /\ \A x, y \in S : f[x] < f[y] => r[x] < r[y]
        /\ \A k \in 1 .. Cardinality(S) : \E x \in S : r[x] = k
    BY <1>1, <2>1, Ranks
  <2> QED BY <2>2 DEF r
<1> HIDE DEF rank
<1>4. n \in Nat
  BY FS_CardinalityType
<1> HIDE DEF n
<1>5. \A k \in 1 .. n : order[k] \in S /\ rank[order[k]] = k
  BY <1>3
<1>6. order \in [1 .. n -> S] /\ \A i, j \in 1 .. n : i # j => order[i] # order[j]
  BY <1>5
<1>7. order \in SetToSeqs(S)
  BY <1>6 DEF SetToSeqs, n
<1>8. \A i, j \in DOMAIN order : i < j => chapter[order[i]].seq < chapter[order[j]].seq
  <2> SUFFICES ASSUME NEW i \in 1 .. n, NEW j \in 1 .. n, i < j
               PROVE  chapter[order[i]].seq < chapter[order[j]].seq
    OBVIOUS
  <2>1. order[i] \in S /\ order[j] \in S /\ rank[order[i]] = i /\ rank[order[j]] = j
    BY <1>5
  <2> HIDE DEF order
  <2>2. ~ (f[order[j]] < f[order[i]]) /\ order[i] # order[j]
    BY <1>3, <2>1, <1>4
  <2>3. f[order[i]] \in Nat /\ f[order[j]] \in Nat /\ f[order[i]] # f[order[j]]
    BY <1>1, <2>1, <2>2
  <2>4. f[order[i]] < f[order[j]]
    BY <2>2, <2>3
  <2> QED BY <1>2, <2>1, <2>4
<1> HIDE DEF order
<1>9. \E o \in SetToSeqs(S) :
        \A i, j \in DOMAIN o : i < j => chapter[o[i]].seq < chapter[o[j]].seq
  BY <1>7, <1>8
<1> QED BY <1>9 DEF InOrder

\* Renumbering the chapters of an order gives each its place in it.
LEMMA ReorderedRows ==
  ASSUME chapter \in [Chapters -> Row], NEW S \in SUBSET Chapters, IsFiniteSet(S),
         NEW order \in SetToSeqs(S)
  PROVE  /\ Reordered(order) \in [Chapters -> Row]
         /\ \A c \in Chapters : /\ Reordered(order)[c].here = chapter[c].here
                                /\ Reordered(order)[c].text = chapter[c].text
         /\ \A c \in S : /\ Reordered(order)[c].seq \in Nat
                         /\ Reordered(order)[c].seq < Cardinality(S)
         /\ \A c, d \in S : Reordered(order)[c].seq = Reordered(order)[d].seq => c = d
         /\ \A c \in Chapters \ S : Reordered(order)[c] = chapter[c]
<1>1. /\ Cardinality(S) \in Nat /\ Len(order) = Cardinality(S) /\ ToSet(order) = S
      /\ order \in [1 .. Cardinality(S) -> S]
      /\ \A x \in S : \E i \in 1 .. Cardinality(S) : order[i] = x
  BY SeqsCover
<1> DEFINE place(c) == CHOOSE n \in 0 .. Len(order) - 1 : order[n + 1] = c
<1>2. \A c \in Chapters : Reordered(order)[c] =
        IF c \in S THEN [chapter[c] EXCEPT !.seq = place(c)] ELSE chapter[c]
  BY <1>1 DEF Reordered
<1>3. ASSUME NEW c \in S
      PROVE  place(c) \in 0 .. Cardinality(S) - 1 /\ order[place(c) + 1] = c
  <2>1. PICK i \in 1 .. Cardinality(S) : order[i] = c
    BY <1>1
  <2>2. i - 1 \in 0 .. Len(order) - 1 /\ order[(i - 1) + 1] = c
    BY <1>1, <2>1
  <2> QED BY <1>1, <2>2
<1> HIDE DEF place
<1>4. \A c \in Chapters : chapter[c] \in Row
  OBVIOUS
<1>5. ASSUME NEW c \in S
      PROVE  /\ Reordered(order)[c] \in Row /\ Reordered(order)[c].seq = place(c)
             /\ Reordered(order)[c].here = chapter[c].here
             /\ Reordered(order)[c].text = chapter[c].text
  <2>1. place(c) \in Nat
    BY <1>1, <1>3
  <2> QED BY <1>2, <1>4, <2>1 DEF Row
<1>6. DOMAIN Reordered(order) = Chapters
  BY DEF Reordered
<1>7. Reordered(order) \in [Chapters -> Row]
  <2>1. Reordered(order) = [c \in Chapters |-> Reordered(order)[c]]
    BY DEF Reordered
  <2>2. \A c \in Chapters : Reordered(order)[c] \in Row
    BY <1>2, <1>4, <1>5
  <2> HIDE DEF Reordered
  <2> QED BY <2>1, <2>2
<1>8. \A c \in S : Reordered(order)[c].seq \in Nat /\ Reordered(order)[c].seq < Cardinality(S)
  BY <1>1, <1>3, <1>5
<1>9. \A c, d \in S : Reordered(order)[c].seq = Reordered(order)[d].seq => c = d
  BY <1>3, <1>5
<1> QED BY <1>2, <1>5, <1>7, <1>8, <1>9

\* The members of a finite set of positions can be counted in their order.
LEMMA Counted ==
  ASSUME NEW left, IsFiniteSet(left), \A i \in left : i \in Nat
  PROVE  /\ \A k \in 1 .. Cardinality(left) :
              \E i \in left : Cardinality({j \in left : j =< i}) = k
         /\ \A i \in left : Cardinality({j \in left : j =< i}) \in 1 .. Cardinality(left)
         /\ \A i, k \in left :
              Cardinality({j \in left : j =< i}) = Cardinality({j \in left : j =< k}) => i = k
<1> DEFINE f == [i \in left |-> i]
           rank == [x \in left |-> Cardinality({y \in left : f[y] =< f[x]})]
<1>1. f \in [left -> Nat] /\ \A x, y \in left : f[x] = f[y] => x = y
  OBVIOUS
<1>2. \A x \in left : rank[x] = Cardinality({y \in left : y =< x})
  <2> SUFFICES ASSUME NEW x \in left PROVE {y \in left : f[y] =< f[x]} = {y \in left : y =< x}
    OBVIOUS
  <2> QED OBVIOUS
<1>3. rank = [x \in left |-> Cardinality({y \in left : f[y] =< f[x]})]
  OBVIOUS
<1> HIDE DEF f, rank
<1>4. /\ \A k \in 1 .. Cardinality(left) : \E x \in left : rank[x] = k
      /\ rank \in [left -> 1 .. Cardinality(left)]
      /\ \A x, y \in left : rank[x] = rank[y] => x = y
  <2>1. /\ rank \in [left -> 1 .. Cardinality(left)]
        /\ \A x, y \in left : f[x] < f[y] => rank[x] < rank[y]
        /\ \A x, y \in left : rank[x] = rank[y] => x = y
        /\ \A k \in 1 .. Cardinality(left) : \E x \in left : rank[x] = k
    BY <1>1, <1>3, Ranks
  <2> QED BY <2>1
<1> QED BY <1>2, <1>4

\* Pruning a history, and saving a version, gives a history.
LEMMA PrunedHistory ==
  ASSUME NEW h \in Seq(Version), NEW n
  PROVE  Pruned(h, n) \in Seq(Version)
<1> DEFINE keep == Newest(h, n)
           left == {i \in DOMAIN h : keep[i]}
           pick(k) == CHOOSE i \in left : Cardinality({j \in left : j =< i}) = k
<1>1. DOMAIN h = 1 .. Len(h) /\ Len(h) \in Nat
  OBVIOUS
<1>2. left \in SUBSET (1 .. Len(h))
  BY <1>1
<1> HIDE DEF left
<1>3. IsFiniteSet(left)
  <2>1. IsFiniteSet(1 .. Len(h))
    BY <1>1, FS_Interval
  <2> QED BY <1>2, <2>1, FS_Subset
<1>4. \A i \in left : i \in Nat
  BY <1>2
<1>5. Cardinality(left) \in Nat
  BY <1>3, FS_CardinalityType
<1>6. \A k \in 1 .. Cardinality(left) : pick(k) \in left
  <2>1. \A k \in 1 .. Cardinality(left) :
          \E i \in left : Cardinality({j \in left : j =< i}) = k
    BY <1>3, <1>4, Counted
  <2> QED BY <2>1
<1>7. \A i \in left : h[i] \in Version
  BY <1>1, <1>2
<1>8. Pruned(h, n) = [k \in 1 .. Cardinality(left) |-> h[pick(k)]]
  BY DEF Pruned, left
<1> HIDE DEF pick
<1>9. \A k \in 1 .. Cardinality(left) : h[pick(k)] \in Version
  BY <1>6, <1>7
<1> QED BY <1>5, <1>8, <1>9

LEMMA SavedHistory ==
  ASSUME NEW h \in Seq(Version), NEW n \in Nat, NEW t \in Texts, NEW c \in Chapters
  PROVE  Saved(h, n, t, c) \in Seq(Version)
<1> DEFINE v == [seq |-> n, text |-> t, of |-> c]
<1>1. v \in Version
  BY DEF Version
<1>2. Append(h, v) \in Seq(Version)
  BY <1>1
<1> QED BY <1>2, PrunedHistory DEF Saved

\* What pruning leaves of the versions of a position.
LEMMA PrunedVersions ==
  ASSUME NEW h \in Seq(Version), NEW n, NEW m
  PROVE  LET kept == {i \in VersionsOf(h, m) : Newest(h, n)[i]} IN
         /\ Cardinality(VersionsOf(Pruned(h, n), m)) = Cardinality(kept)
         /\ \A t : (\E i \in kept : h[i].text = t) => Has(Pruned(h, n), m, t)
<1> DEFINE keep == Newest(h, n)
           left == {i \in DOMAIN h : keep[i]}
           rank(i) == Cardinality({j \in left : j =< i})
           pick(k) == CHOOSE i \in left : rank(i) = k
           P == Pruned(h, n)
           kept == {i \in VersionsOf(h, m) : keep[i]}
<1>1. DOMAIN h = 1 .. Len(h) /\ Len(h) \in Nat
  OBVIOUS
<1>2. left \in SUBSET (1 .. Len(h)) /\ \A i \in DOMAIN h : i \in left <=> keep[i]
  BY <1>1
<1>3. P = [k \in 1 .. Cardinality(left) |-> h[pick(k)]]
  BY DEF Pruned
<1> HIDE DEF left, P, keep
<1>4. IsFiniteSet(left) /\ \A i \in left : i \in Nat
  <2>1. IsFiniteSet(1 .. Len(h))
    BY <1>1, FS_Interval
  <2>2. IsFiniteSet(left)
    BY <1>2, <2>1, FS_Subset
  <2> QED BY <1>1, <1>2, <2>2
<1>5. /\ \A k \in 1 .. Cardinality(left) : pick(k) \in left /\ rank(pick(k)) = k
      /\ \A i \in left : rank(i) \in 1 .. Cardinality(left)
      /\ \A i, j \in left : rank(i) = rank(j) => i = j
  <2>1. /\ \A k \in 1 .. Cardinality(left) : \E i \in left : rank(i) = k
        /\ \A i \in left : rank(i) \in 1 .. Cardinality(left)
        /\ \A i, j \in left : rank(i) = rank(j) => i = j
    BY <1>4, Counted
  <2> HIDE DEF rank
  <2> QED BY <2>1
<1> HIDE DEF rank, pick
<1>6. /\ \A i \in left : rank(i) \in DOMAIN P /\ P[rank(i)] = h[i] /\ pick(rank(i)) = i
      /\ \A k \in DOMAIN P : pick(k) \in left /\ P[k] = h[pick(k)] /\ rank(pick(k)) = k
  BY <1>3, <1>5
<1>7. kept \subseteq left /\ \A i \in left : i \in kept <=> h[i].seq = m
  BY <1>2 DEF VersionsOf
<1> HIDE DEF kept
<1>8. \A i \in kept : rank(i) \in VersionsOf(P, m) /\ P[rank(i)] = h[i]
  BY <1>6, <1>7 DEF VersionsOf
<1>9. \A k \in VersionsOf(P, m) : pick(k) \in kept /\ rank(pick(k)) = k
  BY <1>6, <1>7 DEF VersionsOf
<1>10. Cardinality(VersionsOf(P, m)) = Cardinality(kept)
  <2> DEFINE f == [i \in kept |-> rank(i)]
  <2>1. \A i \in kept : pick(rank(i)) = i
    BY <1>6, <1>7
  <2>2. f \in Bijection(kept, VersionsOf(P, m))
    BY <1>8, <1>9, <2>1 DEF Bijection, Injection, Surjection, IsInjective
  <2>3. IsFiniteSet(kept)
    BY <1>4, <1>7, FS_Subset
  <2>4. ExistsBijection(kept, VersionsOf(P, m))
    BY <2>2 DEF ExistsBijection
  <2> QED BY <2>3, <2>4, FS_Bijection
<1>11. \A t : (\E i \in kept : h[i].text = t) => Has(P, m, t)
  BY <1>8 DEF Has
<1> QED BY <1>10, <1>11 DEF kept, P, keep

\* No position has more versions than are kept.
NoneTooMany(h) ==
  \A n \in Nat : Cardinality(VersionsOf(h, n)) =< Kept
Full(h, n) == Cardinality(VersionsOf(h, n)) >= Kept

\* Which versions of a position are its newest: all of them, or all but one.
LEMMA NewestOf ==
  ASSUME NEW mine, IsFiniteSet(mine), \A i \in mine : i \in Nat,
         Cardinality(mine) \in Nat, Cardinality(mine) =< Kept + 1,
         NEW recent, recent = {i \in mine : Cardinality({k \in mine : k > i}) < Kept}
  PROVE  IF Cardinality(mine) =< Kept THEN recent = mine
         ELSE /\ Cardinality(recent) = Kept
              /\ \A top \in mine : (\A i \in mine : i =< top) => top \in recent
<1> DEFINE over(i) == {k \in mine : k > i}
<1>0. Kept \in Nat /\ Kept > 0
  BY BoundAssumption
<1>1. \A i \in mine : /\ IsFiniteSet(over(i)) /\ Cardinality(over(i)) \in Nat
                       /\ Cardinality(over(i)) =< Cardinality(mine) - 1
  <2> SUFFICES ASSUME NEW i \in mine
               PROVE  /\ IsFiniteSet(over(i)) /\ Cardinality(over(i)) \in Nat
                      /\ Cardinality(over(i)) =< Cardinality(mine) - 1
    OBVIOUS
  <2>1. over(i) \subseteq mine \ {i}
    OBVIOUS
  <2>2. IsFiniteSet(mine \ {i}) /\ Cardinality(mine \ {i}) = Cardinality(mine) - 1
    BY FS_RemoveElement
  <2> QED BY <2>1, <2>2, FS_Subset, FS_CardinalityType
<1>4. recent = {i \in mine : Cardinality(over(i)) < Kept}
  OBVIOUS
<1>5. \A i, k \in mine : k \in over(i) <=> k > i
  OBVIOUS
<1>6. \A i \in mine : over(i) \subseteq mine
  OBVIOUS
<1> HIDE DEF over
<1>2. CASE Cardinality(mine) =< Kept
  <2>1. \A i \in mine : Cardinality(over(i)) < Kept
    BY <1>0, <1>1, <1>2
  <2> QED BY <1>2, <1>4, <2>1
<1>3. CASE ~ (Cardinality(mine) =< Kept)
  <2>1. Cardinality(mine) = Kept + 1
    BY <1>0, <1>3
  <2>2. mine # {}
    BY <1>0, <2>1, FS_EmptySet
  <2>3. PICK least \in mine : \A i \in mine : least =< i
    <3> DEFINE f == [i \in mine |-> i]
    <3>1. f \in [mine -> Nat] /\ \A x, y \in mine : f[x] = f[y] => x = y
      OBVIOUS
    <3>2. \E x \in mine : \A y \in mine : f[x] =< f[y]
      BY <2>2, <3>1, LargestOf
    <3> QED BY <3>2
  <2>4. over(least) = mine \ {least}
    BY <1>5, <1>6, <2>3
  <2>5. IsFiniteSet(mine \ {least}) /\ Cardinality(mine \ {least}) = Kept
    <3>1. /\ IsFiniteSet(mine \ {least})
          /\ Cardinality(mine \ {least}) = IF least \in mine THEN Cardinality(mine) - 1
                                            ELSE Cardinality(mine)
      BY FS_RemoveElement
    <3>2. \A n \in Nat : n = Kept + 1 => n - 1 = Kept
      BY <1>0
    <3>3. Cardinality(mine \ {least}) = Cardinality(mine) - 1
      BY <3>1
    <3>4. Cardinality(mine \ {least}) = Kept
      BY <2>1, <3>2, <3>3
    <3> QED BY <3>1, <3>4
  <2>6. ASSUME NEW i \in mine \ {least} PROVE Cardinality(over(i)) < Kept
    <3>1. over(i) \subseteq (mine \ {least}) \ {i}
      BY <1>5, <1>6, <2>3
    <3>2. /\ IsFiniteSet((mine \ {least}) \ {i})
          /\ Cardinality((mine \ {least}) \ {i}) = Kept - 1
      BY <2>5, FS_RemoveElement
    <3>3. Cardinality(over(i)) =< Kept - 1
      BY <3>1, <3>2, FS_Subset
    <3> QED BY <1>0, <1>1, <3>3
  <2>7. recent = mine \ {least}
    BY <1>0, <1>4, <2>3, <2>4, <2>5, <2>6
  <2>8. ASSUME NEW top \in mine, \A i \in mine : i =< top PROVE top # least
    <3>1. SUFFICES ASSUME top = least PROVE FALSE
      OBVIOUS
    <3>2. mine = {least}
      BY <2>3, <2>8, <3>1
    <3> QED BY <1>0, <2>1, <3>2, FS_Singleton
  <2> QED BY <1>3, <2>5, <2>7, <2>8
<1> QED BY <1>2, <1>3

\* The versions of a history are finitely many.
LEMMA VersionsAreFinite ==
  ASSUME NEW h \in Seq(Version), NEW n
  PROVE  /\ VersionsOf(h, n) \subseteq 1 .. Len(h) /\ IsFiniteSet(VersionsOf(h, n))
         /\ Cardinality(VersionsOf(h, n)) \in Nat
<1>1. Len(h) \in Nat /\ VersionsOf(h, n) \in SUBSET (1 .. Len(h))
  BY DEF VersionsOf
<1>2. IsFiniteSet(1 .. Len(h))
  BY <1>1, FS_Interval
<1>3. IsFiniteSet(VersionsOf(h, n))
  BY <1>1, <1>2, FS_Subset
<1> QED BY <1>1, <1>3, FS_CardinalityType

\* Pruning the versions of a position that has at most one too many leaves the
\* newest of them, and those of the other positions.
LEMMA Prunes ==
  ASSUME NEW h \in Seq(Version), NEW n, NEW m,
         Cardinality(VersionsOf(h, m)) =< IF m = n THEN Kept + 1 ELSE Kept
  PROVE  LET p == Pruned(h, n) IN
         /\ Cardinality(VersionsOf(p, m)) =< Kept
         /\ Full(h, m) => Full(p, m)
         /\ Cardinality(VersionsOf(h, m)) =< Kept =>
              \A t : Has(h, m, t) => Has(p, m, t)
         /\ Len(h) \in VersionsOf(h, m) => Has(p, m, h[Len(h)].text)
<1> DEFINE mine == VersionsOf(h, m)
           recent == {i \in mine : Cardinality({k \in mine : k > i}) < Kept}
           kept == {i \in mine : Newest(h, n)[i]}
           p == Pruned(h, n)
<1>0. Kept \in Nat /\ Kept > 0 /\ Len(h) \in Nat /\ DOMAIN h = 1 .. Len(h)
  BY BoundAssumption
<1>1. /\ mine \subseteq 1 .. Len(h) /\ IsFiniteSet(mine) /\ Cardinality(mine) \in Nat
      /\ \A i \in mine : i \in Nat
  <2>1. /\ mine \subseteq 1 .. Len(h) /\ IsFiniteSet(mine) /\ Cardinality(mine) \in Nat
    BY VersionsAreFinite
  <2> QED BY <1>0, <2>1
<1>2. /\ Cardinality(VersionsOf(p, m)) = Cardinality(kept)
      /\ \A t : (\E i \in kept : h[i].text = t) => Has(p, m, t)
  BY PrunedVersions
<1>3. kept = IF m = n THEN recent ELSE mine
  <2>1. \A i \in mine : i \in DOMAIN h /\ h[i].seq = m
    BY DEF VersionsOf
  <2>2. CASE m = n
    BY <2>1, <2>2 DEF Newest
  <2>3. CASE m # n
    BY <2>1, <2>3 DEF Newest
  <2> QED BY <2>2, <2>3
<1> HIDE DEF kept
<1>4. \A i \in mine : i =< Len(h)
  BY <1>0, <1>1
<1>5. CASE Cardinality(mine) =< Kept
  <2>1. recent = mine
    <3>1. Cardinality(mine) =< Kept + 1
      BY <1>0, <1>1, <1>5
    <3> HIDE DEF mine
    <3> QED BY <1>1, <1>5, <3>1, NewestOf
  <2>2. kept = mine
    BY <1>3, <2>1
  <2>3. \A t : Has(h, m, t) => Has(p, m, t)
    BY <1>2, <2>2 DEF Has
  <2>4. Len(h) \in mine => Has(p, m, h[Len(h)].text)
    BY <1>2, <2>2
  <2> HIDE DEF mine, recent, p
  <2> QED BY <1>2, <1>5, <2>2, <2>3, <2>4 DEF Full, mine, p
<1>6. CASE ~ (Cardinality(mine) =< Kept)
  <2>1. m = n /\ Cardinality(mine) =< Kept + 1
    BY <1>6
  <2>2. /\ Cardinality(recent) = Kept
        /\ \A top \in mine : (\A i \in mine : i =< top) => top \in recent
    BY <1>0, <1>1, <1>6, <2>1, NewestOf
  <2>3. kept = recent
    BY <1>3, <2>1
  <2>4. Len(h) \in mine => Has(p, m, h[Len(h)].text)
    BY <1>2, <1>4, <2>2, <2>3
  <2>5. Cardinality(mine) > Kept
    BY <1>0, <1>1, <1>6
  <2>6. Cardinality(VersionsOf(p, m)) = Kept
    BY <1>2, <2>2, <2>3
  <2>7. Cardinality(VersionsOf(p, m)) =< Kept /\ Full(p, m)
    BY <1>0, <2>6 DEF Full
  <2>8. ~ (Cardinality(VersionsOf(h, m)) =< Kept)
    BY <1>6
  <2> QED BY <2>4, <2>7, <2>8
<1> QED BY <1>5, <1>6

\* Saving a text under a position: it is in the history then, no position has
\* more versions than are kept, and what is lost is lost to newer versions.
LEMMA SavedVersions ==
  ASSUME NEW h \in Seq(Version), NoneTooMany(h), NEW n \in Nat, NEW t \in Texts,
         NEW c \in Chapters
  PROVE  LET new == Saved(h, n, t, c) IN
         /\ Has(new, n, t) /\ NoneTooMany(new)
         /\ \A m \in Nat : Full(h, m) => Full(new, m)
         /\ \A m \in Nat : \A u : Has(h, m, u) => Has(new, m, u) \/ Full(new, m)
<1> DEFINE v == [seq |-> n, text |-> t, of |-> c]
           long == Append(h, v)
<1>0. Kept \in Nat /\ Kept > 0
  BY BoundAssumption
<1>1. CASE Has(h, n, t)
  <2>1. \A m \in Nat : /\ Cardinality(VersionsOf(h, m)) =< Kept /\ Kept =< Kept + 1
                        /\ Cardinality(VersionsOf(h, m)) \in Nat
    BY <1>0, VersionsAreFinite DEF NoneTooMany
  <2>2. ASSUME NEW m \in Nat
        PROVE  /\ Cardinality(VersionsOf(Pruned(h, n), m)) =< Kept
               /\ Full(h, m) => Full(Pruned(h, n), m)
               /\ \A u : Has(h, m, u) => Has(Pruned(h, n), m, u)
    <3>1. Cardinality(VersionsOf(h, m)) =< IF m = n THEN Kept + 1 ELSE Kept
      BY <1>0, <2>1
    <3> QED BY <2>1, <3>1, Prunes
  <2>3. Saved(h, n, t, c) = Pruned(h, n)
    BY <1>1 DEF Saved
  <2>4. NoneTooMany(Pruned(h, n))
    BY <2>2 DEF NoneTooMany
  <2>5. Has(Pruned(h, n), n, t)
    BY <1>1, <2>2
  <2>6. \A m \in Nat : Full(h, m) => Full(Pruned(h, n), m)
    BY <2>2
  <2>7. \A m \in Nat : \A u : Has(h, m, u) => Has(Pruned(h, n), m, u)
    BY <2>2
  <2> QED BY <2>3, <2>4, <2>5, <2>6, <2>7
<1>2. CASE ~ Has(h, n, t)
  <2>1. /\ long \in Seq(Version) /\ Len(h) \in Nat /\ Len(long) = Len(h) + 1
        /\ DOMAIN h = 1 .. Len(h) /\ DOMAIN long = 1 .. Len(h) + 1
        /\ long[Len(h) + 1] = v /\ \A i \in 1 .. Len(h) : long[i] = h[i]
    <3>1. v \in Version
      BY DEF Version
    <3> HIDE DEF v
    <3> QED BY <3>1
  <2>2. v.seq = n /\ v.text = t
    OBVIOUS
  <2>3. Saved(h, n, t, c) = Pruned(long, n)
    BY <1>2 DEF Saved
  <2> HIDE DEF long, v
  <2>4. ASSUME NEW m \in Nat
        PROVE  /\ VersionsOf(long, m) = IF m = n THEN VersionsOf(h, m) \cup {Len(h) + 1}
                                        ELSE VersionsOf(h, m)
               /\ \A u : Has(h, m, u) => Has(long, m, u)
    <3>1. VersionsOf(long, m) = IF m = n THEN VersionsOf(h, m) \cup {Len(h) + 1}
                                ELSE VersionsOf(h, m)
      <4>1. \A i : i \in 1 .. Len(h) + 1 <=> i \in 1 .. Len(h) \/ i = Len(h) + 1
        BY <2>1
      <4>2. \A i : i \in VersionsOf(long, m) <=>
                   i \in VersionsOf(h, m) \/ (i = Len(h) + 1 /\ n = m)
        BY <2>1, <2>2, <4>1 DEF VersionsOf
      <4> QED BY <4>2
    <3>2. \A i \in VersionsOf(h, m) : i \in VersionsOf(long, m) /\ long[i] = h[i]
      BY <2>1, <3>1 DEF VersionsOf
    <3> QED BY <3>1, <3>2 DEF Has
  <2>5. ASSUME NEW m \in Nat
        PROVE  /\ Cardinality(VersionsOf(h, m)) =< Kept /\ Cardinality(VersionsOf(h, m)) \in Nat
               /\ Cardinality(VersionsOf(long, m)) =
                    IF m = n THEN Cardinality(VersionsOf(h, m)) + 1
                    ELSE Cardinality(VersionsOf(h, m))
               /\ Cardinality(VersionsOf(long, m)) \in Nat
    <3>1. /\ VersionsOf(h, m) \subseteq 1 .. Len(h) /\ IsFiniteSet(VersionsOf(h, m))
          /\ Cardinality(VersionsOf(h, m)) \in Nat
      BY VersionsAreFinite
    <3>2. Len(h) + 1 \notin VersionsOf(h, m)
      BY <2>1, <3>1
    <3>3. Cardinality(VersionsOf(h, m) \cup {Len(h) + 1}) = Cardinality(VersionsOf(h, m)) + 1
      BY <3>1, <3>2, FS_AddElement
    <3>4. Cardinality(VersionsOf(h, m)) =< Kept
      BY DEF NoneTooMany
    <3>5. CASE m = n
      <4>1. VersionsOf(long, m) = VersionsOf(h, m) \cup {Len(h) + 1}
        BY <2>4, <3>5
      <4>2. Cardinality(VersionsOf(long, m)) = Cardinality(VersionsOf(h, m)) + 1
        BY <3>3, <4>1
      <4>3. Cardinality(VersionsOf(long, m)) \in Nat
        BY <3>1, <4>2
      <4> QED BY <3>1, <3>4, <3>5, <4>2, <4>3
    <3>6. CASE m # n
      <4>1. VersionsOf(long, m) = VersionsOf(h, m)
        BY <2>4, <3>6
      <4> QED BY <3>1, <3>4, <3>6, <4>1
    <3> QED BY <3>5, <3>6
  <2>6. ASSUME NEW m \in Nat
        PROVE  /\ Cardinality(VersionsOf(Pruned(long, n), m)) =< Kept
               /\ Full(long, m) => Full(Pruned(long, n), m)
               /\ Cardinality(VersionsOf(long, m)) =< Kept =>
                    \A u : Has(long, m, u) => Has(Pruned(long, n), m, u)
               /\ Len(long) \in VersionsOf(long, m) => Has(Pruned(long, n), m, long[Len(long)].text)
    <3>1. Cardinality(VersionsOf(long, m)) =< IF m = n THEN Kept + 1 ELSE Kept
      <4>1. \A x \in Nat : x =< Kept => x + 1 =< Kept + 1
        BY <1>0
      <4>2. CASE m = n
        BY <2>5, <4>1, <4>2
      <4>3. CASE m # n
        BY <2>5, <4>3
      <4> QED BY <4>2, <4>3
    <3> QED BY <2>1, <3>1, Prunes
  <2>7. Has(Pruned(long, n), n, t)
    <3>1. Len(long) \in VersionsOf(long, n) /\ long[Len(long)].text = t
      BY <2>1, <2>2, <2>4
    <3> QED BY <2>6, <3>1
  <2>8. ASSUME NEW m \in Nat, Full(h, m) PROVE Full(Pruned(long, n), m)
    <3>1. Full(long, m)
      <4>1. \A x, y \in Nat : x >= Kept /\ (y = x \/ y = x + 1) => y >= Kept
        BY <1>0
      <4>2. /\ Cardinality(VersionsOf(h, m)) \in Nat /\ Cardinality(VersionsOf(long, m)) \in Nat
            /\ \/ Cardinality(VersionsOf(long, m)) = Cardinality(VersionsOf(h, m))
               \/ Cardinality(VersionsOf(long, m)) = Cardinality(VersionsOf(h, m)) + 1
        BY <2>5
      <4> QED BY <2>8, <4>1, <4>2 DEF Full
    <3> QED BY <2>6, <3>1
  <2>9. ASSUME NEW m \in Nat, NEW u, Has(h, m, u)
        PROVE  Has(Pruned(long, n), m, u) \/ Full(Pruned(long, n), m)
    <3>1. Has(long, m, u)
      BY <2>4, <2>9
    <3>2. CASE Cardinality(VersionsOf(long, m)) =< Kept
      BY <2>6, <3>1, <3>2
    <3>3. CASE ~ (Cardinality(VersionsOf(long, m)) =< Kept)
      <4>1. Full(long, m)
        BY <1>0, <2>5, <3>3 DEF Full
      <4> QED BY <2>6, <4>1
    <3> QED BY <3>2, <3>3
  <2> QED BY <2>3, <2>6, <2>7, <2>8, <2>9 DEF NoneTooMany
<1> QED BY <1>1, <1>2

-----------------------------------------------------------------------------
(* What a step leaves to the other requests *)

LEMMA LiveRows ==
  ASSUME chapter \in [Chapters -> Row]
  PROVE  /\ Live \in SUBSET Chapters /\ IsFiniteSet(Live) /\ Cardinality(Live) \in Nat
         /\ \A c \in Chapters : c \in Live <=> chapter[c].here
         /\ \A c \in Chapters : chapter[c].seq \in Nat
<1>1. Live \in SUBSET Chapters /\ \A c \in Chapters : c \in Live <=> chapter[c].here
  BY DEF Live
<1>2. IsFiniteSet(Live) /\ Cardinality(Live) \in Nat
  BY <1>1, ChapterAssumption, FS_Subset, FS_CardinalityType
<1>3. \A c \in Chapters : chapter[c].seq \in Nat
  BY DEF Row
<1> QED BY <1>1, <1>2, <1>3

\* The rows are where they were.
InPlace ==
  /\ Live' = Live
  /\ \A c \in Live : chapter'[c].seq = chapter[c].seq
  /\ \A c \in Chapters : chapter[c] = Absent => chapter'[c] = Absent

\* A request goes on where the rows stay in place; one without the lock, or
\* one that ends, whatever happens to them.
LEMMA OthersGoOn ==
  ASSUME NEW r, InProgress(r), call'[r] = call[r],
         \/ InPlace /\ crashes' = crashes
         \/ call[r].op \notin LockedOps
  PROVE  InProgress(r)'
<1>1. CASE call[r] = Idle
  BY <1>1 DEF InProgress
<1>2. CASE Restoring(r)
  BY <1>2 DEF InProgress, Restoring
<1>3. CASE Setting(r)
  BY <1>3 DEF InProgress, Setting
<1>4. CASE Adding(r)
  <2>1. InPlace /\ crashes' = crashes
    BY <1>4 DEF Adding, LockedOps
  <2>2. call'[r] \in [op : {"adding"}, seq : Nat] /\ (crashes' = 0 => call'[r].seq =< Cardinality(Live'))
    BY <1>4, <2>1 DEF Adding, InPlace
  <2>3. \A c \in Live' : chapter'[c].seq < call'[r].seq
    BY <1>4, <2>1 DEF Adding, InPlace
  <2>4. \E c \in Chapters : chapter'[c] = Absent
    BY <1>4, <2>1 DEF Adding, InPlace
  <2> QED BY <2>2, <2>3, <2>4 DEF InProgress, Adding
<1>5. CASE Removing(r)
  <2>1. Live' = Live
    BY <1>5 DEF Removing, LockedOps, InPlace
  <2> QED BY <1>5, <2>1 DEF InProgress, Removing
<1>6. CASE Renumbering(r)
  <2>1. Live' = Live
    BY <1>6 DEF Renumbering, LockedOps, InPlace
  <2> QED BY <1>6, <2>1 DEF InProgress, Renumbering
<1>7. CASE Ordering(r)
  <2>1. Live' = Live
    BY <1>7 DEF Ordering, LockedOps, InPlace
  <2> QED BY <1>7, <2>1 DEF InProgress, Ordering
<1> QED BY <1>1, <1>2, <1>3, <1>4, <1>5, <1>6, <1>7 DEF InProgress

\* What a step of s does to the requests and the tabs.
LocalTo(s) ==
  /\ DOMAIN call' = Sessions /\ DOMAIN tab' = Sessions
  /\ \A r \in Sessions \ {s} : call'[r] = call[r] /\ tab'[r] = tab[r]

LEMMA UnlockedSteps ==
  ASSUME Inv, NEW s \in Sessions, LocalTo(s), TypeOK', TabShows(s)', InProgress(s)',
         lock' = lock, crashes' = crashes,
         call[s].op \notin LockedOps, call'[s].op \notin LockedOps,
         InPlace, \A c \in Live : chapter'[c].text \in Texts
  PROVE  Inv'
<1>1. Live' # {}
  BY DEF Inv, InPlace
<1>2. RowsHold'
  BY DEF Inv, InPlace, RowsHold
<1>3. NoGap'
  <2> SUFFICES ASSUME crashes = 0, \A r \in Sessions : call'[r].op # "renumbering"
               PROVE  \A c \in Live : chapter'[c].seq < Cardinality(Live)
    BY DEF NoGap, InPlace
  <2>1. \A r \in Sessions : call[r].op # "renumbering"
    BY DEF LocalTo, LockedOps
  <2>2. \A c \in Live : chapter[c].seq < Cardinality(Live)
    BY <2>1 DEF Inv, NoGap
  <2> QED BY <2>2 DEF InPlace
<1>4. Exclusive'
  BY DEF Inv, Exclusive, LocalTo
<1>5. ASSUME NEW r \in Sessions \ {s} PROVE TabShows(r)' /\ InProgress(r)'
  <2>1. call'[r] = call[r] /\ tab'[r] = tab[r] /\ TabShows(r) /\ InProgress(r)
    BY DEF LocalTo, Inv
  <2>2. InProgress(r)'
    BY <2>1, OthersGoOn
  <2> QED BY <2>1, <2>2 DEF TabShows
<1> QED BY <1>1, <1>2, <1>3, <1>4, <1>5 DEF Inv

\* A request that takes the lock leaves the rows as they are.
LEMMA LockingSteps ==
  ASSUME Inv, NEW s \in Sessions, LocalTo(s), TypeOK', TabShows(s)', InProgress(s)',
         lock = Free, lock' = s, UNCHANGED <<chapter, crashes>>,
         call'[s].op \in LockedOps \ {"renumbering"}
  PROVE  Inv'
<1>1. Live' = Live
  BY DEF Live
<1>2. RowsHold' /\ Live' # {}
  BY <1>1 DEF Inv, RowsHold
<1>3. \A r \in Sessions : call[r].op \notin LockedOps
  BY SessionAssumption DEF Inv, Exclusive
<1>4. NoGap'
  <2>1. \A r \in Sessions : call[r].op # "renumbering"
    BY <1>3 DEF LockedOps
  <2> QED BY <1>1, <2>1 DEF Inv, NoGap
<1>5. Exclusive'
  BY <1>3 DEF Exclusive, LocalTo
<1>6. ASSUME NEW r \in Sessions \ {s} PROVE TabShows(r)' /\ InProgress(r)'
  <2>1. call'[r] = call[r] /\ tab'[r] = tab[r] /\ TabShows(r) /\ InProgress(r)
    BY DEF LocalTo, Inv
  <2>2. InProgress(r)'
    BY <1>3, <2>1, OthersGoOn
  <2> QED BY <2>1, <2>2 DEF TabShows
<1> QED BY <1>2, <1>4, <1>5, <1>6 DEF Inv

\* The request that holds the lock may change the rows: no other relies on them.
LEMMA LockedSteps ==
  ASSUME Inv, NEW s \in Sessions, LocalTo(s), TypeOK', TabShows(s)', InProgress(s)',
         lock = s, crashes' = crashes,
         \/ lock' = s /\ call'[s].op \in LockedOps
         \/ lock' = Free /\ call'[s].op \notin LockedOps,
         Live' # {}, RowsHold', NoGap'
  PROVE  Inv'
<1>1. \A r \in Sessions \ {s} : call[r].op \notin LockedOps
  BY DEF Inv, Exclusive
<1>2. Exclusive'
  BY <1>1, SessionAssumption DEF Exclusive, LocalTo
<1>3. ASSUME NEW r \in Sessions \ {s} PROVE TabShows(r)' /\ InProgress(r)'
  <2>1. call'[r] = call[r] /\ tab'[r] = tab[r] /\ TabShows(r) /\ InProgress(r)
    BY DEF LocalTo, Inv
  <2>2. InProgress(r)'
    BY <1>1, <2>1, OthersGoOn
  <2> QED BY <2>1, <2>2 DEF TabShows
<1> QED BY <1>2, <1>3 DEF Inv

\* The operation of a request says what it remembers.
LEMMA OperationOf ==
  ASSUME Inv, NEW s \in Sessions
  PROVE  /\ call[s].op = "idle" => call[s] = Idle
         /\ call[s].op \in {"same", "saving", "restoring"} => Restoring(s)
         /\ call[s].op = "settings" => Setting(s)
         /\ call[s].op = "adding" => Adding(s)
         /\ call[s].op = "removing" => Removing(s)
         /\ call[s].op = "renumbering" => Renumbering(s)
         /\ call[s].op = "ordering" => Ordering(s)
<1>1. InProgress(s)
  BY DEF Inv
<1>2. /\ call[s] = Idle => call[s].op = "idle"
      /\ Restoring(s) => call[s].op \in {"same", "saving", "restoring"}
      /\ Setting(s) => call[s].op = "settings"
      /\ Adding(s) => call[s].op = "adding"
  BY DEF Idle, Restoring, Setting, Adding
<1>3. /\ Removing(s) => call[s].op = "removing"
      /\ Renumbering(s) => call[s].op = "renumbering"
      /\ Ordering(s) => call[s].op = "ordering"
  BY DEF Removing, Renumbering, Ordering
<1> QED BY <1>1, <1>2, <1>3 DEF InProgress

-----------------------------------------------------------------------------
(* Every action keeps the invariant *)

LEMMA Unmoved ==
  ASSUME chapter' = chapter
  PROVE  InPlace
BY DEF InPlace, Live

LEMMA Begins ==
  ASSUME Init
  PROVE  Inv
<1>1. PICK text \in [1 .. Uploaded -> Texts] :
        chapter = [c \in Chapters |-> IF c > Uploaded THEN Absent
                     ELSE [here |-> TRUE, seq |-> c - 1, text |-> text[c]]]
  BY DEF Init
<1>2. Chapters \subseteq Nat /\ Chapters = 1 .. Cardinality(Chapters)
      /\ Uploaded \in Chapters /\ Cardinality(Chapters) \in Nat
  BY ChapterAssumption, FS_CardinalityType
<1>3. \A c \in Chapters : IF c > Uploaded THEN chapter[c] = Absent
                          ELSE /\ chapter[c].here /\ chapter[c].seq = c - 1
                               /\ chapter[c].text \in Texts /\ chapter[c] \in Row
  <2> SUFFICES ASSUME NEW c \in Chapters, ~ (c > Uploaded)
               PROVE  /\ chapter[c].here /\ chapter[c].seq = c - 1
                      /\ chapter[c].text \in Texts /\ chapter[c] \in Row
    BY <1>1
  <2>1. c - 1 \in Nat /\ c \in 1 .. Uploaded
    BY <1>2
  <2>2. text[c] \in Texts /\ chapter[c] = [here |-> TRUE, seq |-> c - 1, text |-> text[c]]
    BY <1>1, <2>1
  <2> QED BY <2>1, <2>2 DEF Row
<1>4. chapter \in [Chapters -> Row]
  <2>1. Absent \in Row
    BY DEF Absent, Row
  <2>2. \A c \in Chapters : chapter[c] \in Row
    BY <1>3, <2>1
  <2>3. chapter = [c \in Chapters |-> chapter[c]]
    BY <1>1
  <2> QED BY <2>2, <2>3
<1>5. Live = 1 .. Uploaded
  <2>1. \A c \in Chapters : chapter[c].here <=> ~ (c > Uploaded)
    BY <1>3 DEF Absent
  <2> QED BY <1>2, <2>1 DEF Live
<1>6. Cardinality(Live) = Uploaded /\ Live # {}
  <2>1. Uploaded \in Nat /\ 1 =< Uploaded
    BY <1>2
  <2>2. Cardinality(1 .. Uploaded) = Uploaded
    BY <2>1, FS_Interval
  <2>3. 1 \in 1 .. Uploaded
    BY <2>1
  <2> QED BY <1>5, <2>2, <2>3
<1>7. RowsHold
  <2>1. \A c \in Live : ~ (c > Uploaded) /\ c \in Nat /\ c \in Chapters
    BY <1>2, <1>5
  <2> QED BY <1>3, <2>1 DEF RowsHold
<1>8. NoGap
  <2>1. \A c \in Live : c \in Nat /\ c =< Uploaded /\ c \in Chapters
    BY <1>2, <1>5
  <2> QED BY <1>2, <1>3, <1>6, <2>1 DEF NoGap
<1>9. \A s \in Sessions : TabShows(s) /\ InProgress(s)
  BY DEF Init, TabShows, InProgress
<1>10. Exclusive
  BY SessionAssumption DEF Init, Exclusive, Idle, LockedOps
<1>11. TypeOK
  <2>1. meta \in Meta
    <3>1. TRUE \in BOOLEAN /\ FALSE \in BOOLEAN
      OBVIOUS
    <3>2. {TRUE} \subseteq BOOLEAN /\ {FALSE} \subseteq BOOLEAN
      BY <3>1
    <3>3. PICK p \in SUBSET BOOLEAN, q \in SUBSET BOOLEAN :
            meta \in [language : Languages, prologue : p, correct : q]
      BY <3>2 DEF Init
    <3> QED BY <3>3 DEF Meta
  <2>2. history \in Seq(Version) /\ lock \in Sessions \cup {Free}
        /\ DOMAIN tab = Sessions /\ DOMAIN call = Sessions
    BY DEF Init
  <2>4. analysed \in BOOLEAN
    <3>1. analysed = FALSE
      BY DEF Init
    <3> QED BY <3>1
  <2>3. edits \in 0 .. MaxEdits /\ crashes \in 0 .. MaxCrashes
    BY BoundAssumption DEF Init
  <2> QED BY <1>4, <2>1, <2>2, <2>3, <2>4 DEF TypeOK
<1> QED BY <1>6, <1>7, <1>8, <1>9, <1>10, <1>11 DEF Inv

LEMMA LoadSteps ==
  ASSUME Inv, NEW s \in Sessions, LoadChapter(s) \/ LoadMeta(s)
  PROVE  Inv'
<1> USE DEF book
<1>1. UNCHANGED <<chapter, history, meta, analysed, lock, call, edits, crashes>> /\ call[s] = Idle
  BY DEF LoadChapter, LoadMeta
<1>2. LocalTo(s)
  BY <1>1 DEF LoadChapter, LoadMeta, LocalTo, Inv, TypeOK
<1>3. TabShows(s)'
  <2>1. CASE LoadChapter(s)
    <3>1. PICK c \in Live : tab' = [tab EXCEPT ![s] = [what |-> "chapter", key |-> c,
                                      seq |-> chapter[c].seq, text |-> chapter[c].text]]
      BY <2>1 DEF LoadChapter
    <3>2. c \in Chapters /\ chapter[c] \in Row
      BY DEF Live, Inv, TypeOK
    <3>3. tab'[s] = [what |-> "chapter", key |-> c, seq |-> chapter[c].seq, text |-> chapter[c].text]
      BY <3>1 DEF Inv, TypeOK
    <3> QED BY <3>2, <3>3 DEF TabShows, Row
  <2>2. CASE LoadMeta(s)
    BY <2>2 DEF LoadMeta, TabShows, Inv, TypeOK
  <2> QED BY <2>1, <2>2
<1>4. TypeOK'
  BY <1>1, <1>2 DEF Inv, TypeOK, LocalTo
<1>5. InProgress(s)'
  BY <1>1 DEF InProgress
<1>6. InPlace /\ \A c \in Live : chapter'[c].text \in Texts
  BY <1>1, Unmoved DEF Inv, RowsHold
<1>7. call[s].op \notin LockedOps /\ call'[s].op \notin LockedOps
  BY <1>1 DEF Idle, LockedOps
<1> QED BY <1>1, <1>2, <1>3, <1>4, <1>5, <1>6, <1>7, UnlockedSteps

\* The text of a chapter that is there is overwritten.
LEMMA TextWritten ==
  ASSUME Inv, NEW S \in SUBSET Live, NEW t \in Texts,
         chapter' = [c \in Chapters |-> IF c \in S THEN [chapter[c] EXCEPT !.text = t]
                                        ELSE chapter[c]]
  PROVE  /\ chapter' \in [Chapters -> Row] /\ InPlace
         /\ \A c \in Live : chapter'[c].text \in Texts
<1>1. \A c \in Chapters : chapter[c] \in Row
  BY DEF Inv, TypeOK
<1>2. \A c \in Chapters : /\ chapter'[c] \in Row
                          /\ chapter'[c].here = chapter[c].here /\ chapter'[c].seq = chapter[c].seq
                          /\ c \in S => chapter'[c].text = t
                          /\ c \notin S => chapter'[c] = chapter[c]
  BY <1>1 DEF Row
<1>3. chapter' \in [Chapters -> Row]
  BY <1>2
<1>4. Live' = Live
  BY <1>2 DEF Live
<1>5. \A c \in Chapters : chapter[c] = Absent => c \notin S
  BY DEF Live, Absent
<1>6. \A c \in Live : c \in Chapters
  BY DEF Live
<1> QED BY <1>2, <1>3, <1>4, <1>5, <1>6 DEF InPlace, Inv, RowsHold

LEMMA EditSteps ==
  ASSUME Inv, NEW s \in Sessions, NEW t \in Texts, NEW given \in SUBSET Conditions, Edit(s, t, given)
  PROVE  Inv'
<1> USE DEF book
<1>1. /\ call[s] = Idle /\ edits < MaxEdits /\ edits' = edits + 1
      /\ tab' = [tab EXCEPT ![s] = Blank]
      /\ UNCHANGED <<meta, analysed, lock, call, crashes>>
  BY DEF Edit, Saves, Opens
<1>2. LocalTo(s) /\ TabShows(s)'
  BY <1>1 DEF LocalTo, TabShows, Inv, TypeOK
<1>3. /\ chapter' \in [Chapters -> Row] /\ InPlace
      /\ \A c \in Live : chapter'[c].text \in Texts
      /\ history' \in Seq(Version)
  <2>1. ASSUME NEW c \in At(tab[s].seq), Matches(c, tab[s], given),
               chapter' = [chapter EXCEPT ![c].text = t],
               history' = IF t = chapter[c].text THEN history
                          ELSE Saved(history, chapter[c].seq, chapter[c].text, c)
        PROVE  /\ chapter' \in [Chapters -> Row] /\ InPlace
               /\ \A d \in Live : chapter'[d].text \in Texts
               /\ history' \in Seq(Version)
    <3>1. c \in Live /\ c \in Chapters
      BY DEF At, Live
    <3>2. chapter' = [d \in Chapters |-> IF d \in {c} THEN [chapter[d] EXCEPT !.text = t]
                                         ELSE chapter[d]]
      BY <2>1, <3>1 DEF Inv, TypeOK
    <3>3. chapter[c].seq \in Nat /\ chapter[c].text \in Texts
      BY <3>1 DEF Inv, TypeOK, Row, RowsHold
    <3>4. history' \in Seq(Version)
      BY <2>1, <3>1, <3>3, SavedHistory DEF Inv, TypeOK
    <3>5. {c} \in SUBSET Live
      BY <3>1
    <3> QED BY <3>2, <3>4, <3>5, TextWritten
  <2>2. CASE UNCHANGED <<chapter, history>>
    BY <2>2, Unmoved DEF Inv, TypeOK, RowsHold
  <2> QED BY <2>1, <2>2 DEF Edit
<1>4. TypeOK'
  BY <1>1, <1>2, <1>3, BoundAssumption DEF Inv, TypeOK, LocalTo
<1>5. InProgress(s)'
  BY <1>1 DEF InProgress
<1>7. call[s].op \notin LockedOps /\ call'[s].op \notin LockedOps
  BY <1>1 DEF Idle, LockedOps
<1> QED BY <1>1, <1>2, <1>3, <1>4, <1>5, <1>7, UnlockedSteps

LEMMA RestoreReads ==
  ASSUME Inv, NEW s \in Sessions, RestoreRead(s)
  PROVE  Inv'
<1> USE DEF book
<1>0. PICK i \in DOMAIN history : \E c \in At(history[i].seq) :
        /\ Starts(s)
        /\ call' = [call EXCEPT ![s] =
             [op |-> IF history[i].text = chapter[c].text THEN "same" ELSE "saving",
              version |-> history[i], key |-> c, text |-> chapter[c].text]]
        /\ edits' = edits + 1
        /\ UNCHANGED <<chapter, history, book, lock, tab, crashes>>
  BY DEF RestoreRead
<1>1. PICK c \in At(history[i].seq) :
        /\ Starts(s)
        /\ call' = [call EXCEPT ![s] =
             [op |-> IF history[i].text = chapter[c].text THEN "same" ELSE "saving",
              version |-> history[i], key |-> c, text |-> chapter[c].text]]
        /\ edits' = edits + 1
        /\ UNCHANGED <<chapter, history, book, lock, tab, crashes>>
  BY <1>0
<1>2. call[s] = Idle /\ edits < MaxEdits
  BY <1>1 DEF Starts, Opens
<1>3. LocalTo(s) /\ TabShows(s)'
  BY <1>1 DEF LocalTo, TabShows, Inv, TypeOK
<1>4. Restoring(s)'
  <2>1. history[i] \in Version
    BY DEF Inv, TypeOK
  <2>2. c \in Chapters /\ chapter[c].text \in Texts
    BY DEF At, Live, Inv, RowsHold
  <2>3. call'[s] = [op |-> IF history[i].text = chapter[c].text THEN "same" ELSE "saving",
                    version |-> history[i], key |-> c, text |-> chapter[c].text]
    BY <1>1 DEF Inv, TypeOK
  <2> QED BY <2>1, <2>2, <2>3 DEF Restoring
<1>5. TypeOK'
  BY <1>1, <1>2, <1>3, BoundAssumption DEF Inv, TypeOK, LocalTo
<1>6. InPlace /\ \A d \in Live : chapter'[d].text \in Texts
  BY <1>1, Unmoved DEF Inv, RowsHold
<1>7. call[s].op \notin LockedOps /\ call'[s].op \notin LockedOps
  BY <1>2, <1>4 DEF Idle, LockedOps, Restoring
<1> QED BY <1>1, <1>3, <1>4, <1>5, <1>6, <1>7, UnlockedSteps DEF InProgress

LEMMA RestoreSteps ==
  ASSUME Inv, NEW s \in Sessions, RestoreSame(s) \/ RestoreSave(s) \/ RestoreWrite(s)
  PROVE  Inv'
<1> USE DEF book
<1>1. Restoring(s)
  <2>1. call[s].op \in {"same", "saving", "restoring"}
    BY DEF RestoreSame, RestoreSave, RestoreWrite
  <2> QED BY <2>1, OperationOf
<1>2. call[s].version \in Version /\ call[s].key \in Chapters /\ call[s].text \in Texts
  BY <1>1 DEF Restoring
<1>3. LocalTo(s) /\ TabShows(s)' /\ UNCHANGED <<meta, analysed, lock, tab, edits, crashes>>
  BY DEF RestoreSame, RestoreSave, RestoreWrite, LocalTo, TabShows, Inv, TypeOK
<1>4. call'[s] = Idle \/ Restoring(s)'
  <2>1. CASE RestoreSave(s)
    <3>1. call'[s] = [call[s] EXCEPT !.op = "restoring"]
      BY <2>1 DEF RestoreSave, Inv, TypeOK
    <3> QED BY <1>1, <3>1 DEF Restoring
  <2>2. CASE RestoreSame(s) \/ RestoreWrite(s)
    BY <2>2 DEF RestoreSame, RestoreWrite, Inv, TypeOK
  <2> QED BY <2>1, <2>2
<1>5. /\ chapter' \in [Chapters -> Row] /\ InPlace
      /\ \A c \in Live : chapter'[c].text \in Texts
  <2>1. CASE RestoreWrite(s)
    <3>1. At(call[s].version.seq) \in SUBSET Live /\ call[s].version.text \in Texts
      BY <1>2 DEF At, Version
    <3>2. chapter' = [c \in Chapters |->
             IF c \in At(call[s].version.seq)
             THEN [chapter[c] EXCEPT !.text = call[s].version.text] ELSE chapter[c]]
      BY <2>1 DEF RestoreWrite
    <3> QED BY <3>1, <3>2, TextWritten
  <2>2. CASE UNCHANGED chapter
    BY <2>2, Unmoved DEF Inv, TypeOK, RowsHold
  <2> QED BY <2>1, <2>2 DEF RestoreSame, RestoreSave
<1>6. history' \in Seq(Version)
  <2>1. CASE RestoreSave(s)
    <3>1. call[s].version.seq \in Nat
      BY <1>2 DEF Version
    <3> QED BY <1>2, <2>1, <3>1, SavedHistory DEF RestoreSave, Inv, TypeOK
  <2>2. CASE UNCHANGED history
    BY <2>2 DEF Inv, TypeOK
  <2> QED BY <2>1, <2>2 DEF RestoreSame, RestoreWrite
<1>7. TypeOK'
  BY <1>3, <1>5, <1>6 DEF Inv, TypeOK, LocalTo
<1>8. call[s].op \notin LockedOps /\ call'[s].op \notin LockedOps
  BY <1>1, <1>4 DEF Idle, LockedOps, Restoring
<1> QED BY <1>3, <1>4, <1>5, <1>7, <1>8, UnlockedSteps DEF InProgress

\* The next position is behind those of all chapters, and a chapter is unused.
LEMMA AddReads ==
  ASSUME Inv, NEW s \in Sessions, AddRead(s)
  PROVE  Inv'
<1> USE DEF book
<1> DEFINE seqs == {chapter[c].seq : c \in Live}
           next == 1 + Max(seqs)
<1>1. /\ call[s] = Idle /\ edits < MaxEdits /\ edits' = edits + 1
      /\ lock = Free /\ lock' = s
      /\ UNCHANGED <<chapter, history, meta, analysed, tab, crashes>>
  BY DEF AddRead, StartsLocked, Starts, Opens
<1>2. call' = [call EXCEPT ![s] = [op |-> "adding", seq |-> next]]
  BY DEF AddRead, Inv
<1>3. /\ Live \in SUBSET Chapters /\ IsFiniteSet(Live) /\ Cardinality(Live) \in Nat
      /\ \A c \in Chapters : chapter[c].seq \in Nat
  BY LiveRows DEF Inv, TypeOK
<1>4. Max(seqs) \in seqs /\ \A n \in seqs : Max(seqs) >= n
  <2> DEFINE f == [c \in Live |-> chapter[c].seq]
  <2>1. f \in [Live -> Nat] /\ \A x, y \in Live : f[x] = f[y] => x = y
    BY <1>3 DEF Inv, RowsHold
  <2>2. \A x \in Live : f[x] = chapter[x].seq
    OBVIOUS
  <2> HIDE DEF f
  <2>3. \E x \in Live : \A y \in Live : f[x] >= f[y]
    BY <1>3, <2>1, LargestOf DEF Inv
  <2>4. \E x \in seqs : \A y \in seqs : x >= y
    BY <2>2, <2>3
  <2> HIDE DEF seqs
  <2> QED BY <2>4 DEF Max
<1>5. PICK last \in Live : Max(seqs) = chapter[last].seq
  BY <1>4
<1>6. next \in Nat /\ \A c \in Live : chapter[c].seq < next
  <2>1. \A c \in Live : chapter[c].seq \in Nat /\ chapter[c].seq \in seqs
    BY <1>3
  <2>2. Max(seqs) \in Nat
    BY <1>3, <1>5
  <2> DEFINE m == Max(seqs)
  <2>3. m \in Nat /\ \A c \in Live : chapter[c].seq \in Nat /\ m >= chapter[c].seq
    BY <1>4, <2>1, <2>2
  <2> HIDE DEF m
  <2>4. \A c \in Live : chapter[c].seq < 1 + m
    BY <2>3
  <2> QED BY <2>3, <2>4 DEF m
<1>7. crashes = 0 => next =< Cardinality(Live)
  <2> SUFFICES ASSUME crashes = 0 PROVE next =< Cardinality(Live)
    OBVIOUS
  <2>1. \A r \in Sessions : call[r].op # "renumbering"
    BY <1>1, SessionAssumption DEF Inv, Exclusive, LockedOps
  <2>2. chapter[last].seq < Cardinality(Live) /\ chapter[last].seq \in Nat
    BY <1>3, <2>1 DEF Inv, NoGap
  <2> QED BY <1>3, <1>5, <2>2
<1>8. \E c \in Chapters : chapter[c] = Absent
  <2> SUFFICES ASSUME \A c \in Chapters : chapter[c] # Absent PROVE FALSE
    OBVIOUS
  <2>1. {c \in Chapters : chapter[c] # Absent} = Chapters
    OBVIOUS
  <2>2. Cardinality({c \in Chapters : chapter[c] # Absent}) < Cardinality(Chapters)
    BY DEF AddRead
  <2>3. Cardinality(Chapters) \in Nat
    BY ChapterAssumption, FS_CardinalityType
  <2> QED BY <2>1, <2>2, <2>3
<1> HIDE DEF next
<1>9. LocalTo(s) /\ TabShows(s)' /\ call'[s] = [op |-> "adding", seq |-> next]
  BY <1>1, <1>2 DEF LocalTo, TabShows, Inv, TypeOK
<1>10. InProgress(s)'
  <2>1. Live' = Live
    BY <1>1 DEF Live
  <2>2. Adding(s)'
    BY <1>1, <1>6, <1>7, <1>8, <1>9, <2>1 DEF Adding
  <2> QED BY <2>2 DEF InProgress
<1>11. TypeOK'
  BY <1>1, <1>9, BoundAssumption DEF Inv, TypeOK, LocalTo
<1>12. call'[s].op \in LockedOps \ {"renumbering"}
  BY <1>9 DEF LockedOps
<1> QED BY <1>1, <1>9, <1>10, <1>11, <1>12, LockingSteps

LEMMA RemoveReads ==
  ASSUME Inv, NEW s \in Sessions, RemoveRead(s)
  PROVE  Inv'
<1> USE DEF book
<1>1. PICK c \in Chapters :
        /\ StartsLocked(s) /\ Removable(c) /\ lock' = s
        /\ call' = [call EXCEPT ![s] = [op |-> "removing", key |-> c,
                                        rest |-> InOrder(Live \ {c})]]
        /\ edits' = edits + 1
        /\ UNCHANGED <<chapter, history, meta, analysed, tab, crashes>>
  BY DEF RemoveRead
<1>2. call[s] = Idle /\ edits < MaxEdits /\ lock = Free /\ c \in Live /\ Cardinality(Live) > 1
  BY <1>1 DEF StartsLocked, Starts, Opens, Removable
<1>3. /\ LocalTo(s) /\ TabShows(s)'
      /\ call'[s] = [op |-> "removing", key |-> c, rest |-> InOrder(Live \ {c})]
  BY <1>1 DEF LocalTo, TabShows, Inv, TypeOK
<1>4. InOrder(Live \ {c}) \in SetToSeqs(Live \ {c})
  <2>1. /\ Live \in SUBSET Chapters /\ IsFiniteSet(Live)
        /\ \A d \in Chapters : chapter[d].seq \in Nat
    BY LiveRows DEF Inv, TypeOK
  <2> DEFINE S == Live \ {c}
  <2>2. S \in SUBSET Chapters /\ IsFiniteSet(S) /\ \A d \in S : d \in Chapters /\ d \in Live
    BY <2>1, FS_RemoveElement
  <2> HIDE DEF S
  <2>3. \A d \in S : chapter[d].seq \in Nat
    BY <2>1, <2>2
  <2>4. \A d, e \in S : chapter[d].seq = chapter[e].seq => d = e
    BY <2>2 DEF Inv, RowsHold
  <2>5. InOrder(S) \in SetToSeqs(S)
    BY <2>2, <2>3, <2>4, InOrderIsListed
  <2> QED BY <2>5 DEF S
<1> DEFINE rest == InOrder(Live \ {c})
<1>5. rest \in SetToSeqs(Live \ {c}) /\ call'[s] = [op |-> "removing", key |-> c, rest |-> rest]
  BY <1>3, <1>4
<1> HIDE DEF rest
<1>6. InProgress(s)'
  <2>1. Live' = Live
    BY <1>1 DEF Live
  <2>2. Removing(s)'
    BY <1>2, <1>5, <2>1 DEF Removing
  <2> QED BY <2>2 DEF InProgress
<1>7. TypeOK'
  BY <1>1, <1>2, <1>3, BoundAssumption DEF Inv, TypeOK, LocalTo
<1>8. call'[s].op \in LockedOps \ {"renumbering"}
  BY <1>5 DEF LockedOps
<1> QED BY <1>1, <1>2, <1>3, <1>6, <1>7, <1>8, LockingSteps

LEMMA ReorderReads ==
  ASSUME Inv, NEW s \in Sessions, ReorderRead(s)
  PROVE  Inv'
<1> USE DEF book
<1>1. PICK order \in SetToSeqs(Live) :
        /\ StartsLocked(s) /\ lock' = s
        /\ call' = [call EXCEPT ![s] = [op |-> "ordering", order |-> order]]
        /\ edits' = edits + 1
        /\ UNCHANGED <<chapter, history, meta, analysed, tab, crashes>>
  BY DEF ReorderRead
<1>2. call[s] = Idle /\ edits < MaxEdits /\ lock = Free
  BY <1>1 DEF StartsLocked, Starts, Opens
<1>3. LocalTo(s) /\ TabShows(s)' /\ call'[s] = [op |-> "ordering", order |-> order]
  BY <1>1 DEF LocalTo, TabShows, Inv, TypeOK
<1>4. InProgress(s)'
  <2>1. Live' = Live
    BY <1>1 DEF Live
  <2>2. Ordering(s)'
    BY <1>3, <2>1 DEF Ordering
  <2> QED BY <2>2 DEF InProgress
<1>5. TypeOK'
  BY <1>1, <1>2, <1>3, BoundAssumption DEF Inv, TypeOK, LocalTo
<1>6. call'[s].op \in LockedOps \ {"renumbering"}
  BY <1>3 DEF LockedOps
<1> QED BY <1>1, <1>2, <1>3, <1>4, <1>5, <1>6, LockingSteps

\* The new chapter comes last.
\* The chapter that is inserted was unused.
LEMMA UnusedIsThere ==
  ASSUME Inv, NEW s \in Sessions, Adding(s)
  PROVE  LET unused == {x \in Chapters : chapter[x] = Absent} IN
         (CHOOSE x \in unused : \A y \in unused : x =< y) \in unused
<1> DEFINE unused == {x \in Chapters : chapter[x] = Absent}
<1>1. unused \in SUBSET Chapters /\ unused # {}
  BY DEF Adding
<1>2. IsFiniteSet(unused) /\ \A x \in unused : x \in Nat
  BY <1>1, ChapterAssumption, FS_Subset, FS_CardinalityType
<1> HIDE DEF unused
<1> DEFINE f == [x \in unused |-> x]
<1>3. f \in [unused -> Nat] /\ \A x, y \in unused : f[x] = f[y] => x = y
  BY <1>2
<1>4. \A x \in unused : f[x] = x
  OBVIOUS
<1> HIDE DEF f
<1>5. \E x \in unused : \A y \in unused : f[x] =< f[y]
  BY <1>1, <1>2, <1>3, LargestOf
<1>6. \E x \in unused : \A y \in unused : x =< y
  BY <1>4, <1>5
<1>7. (CHOOSE x \in unused : \A y \in unused : x =< y) \in unused
  BY <1>6
<1> QED BY <1>7 DEF unused

LEMMA AddInserts ==
  ASSUME Inv, NEW s \in Sessions, NEW t \in Texts, AddInsert(s, t)
  PROVE  Inv'
<1> USE DEF book
<1> DEFINE unused == {x \in Chapters : chapter[x] = Absent}
           c == CHOOSE x \in unused : \A y \in unused : x =< y
           row == [here |-> TRUE, seq |-> call[s].seq, text |-> t]
<1>1. /\ call[s].op = "adding" /\ lock = s /\ lock' = Free
      /\ call' = [call EXCEPT ![s] = Idle]
      /\ UNCHANGED <<history, meta, analysed, tab, edits, crashes>>
  BY DEF AddInsert, Holds, Ends
<1>2. chapter' = [chapter EXCEPT ![c] = row]
  BY DEF AddInsert
<1>3. Adding(s)
  BY <1>1, OperationOf
<1>4. /\ Live \in SUBSET Chapters /\ IsFiniteSet(Live) /\ Cardinality(Live) \in Nat
      /\ \A d \in Chapters : d \in Live <=> chapter[d].here
      /\ \A d \in Chapters : chapter[d].seq \in Nat
  BY LiveRows DEF Inv, TypeOK
<1>5. c \in unused
  BY <1>3, UnusedIsThere
<1>6. c \in Chapters /\ c \notin Live
  BY <1>4, <1>5 DEF Absent
<1> HIDE DEF c
<1>7. row \in Row /\ row.here /\ row.seq = call[s].seq /\ row.text = t
  <2>1. call[s].seq \in Nat
    BY <1>3 DEF Adding
  <2>2. row.here = TRUE /\ row.seq = call[s].seq /\ row.text = t
    OBVIOUS
  <2>3. row \in Row
    <3>1. PICK b \in BOOLEAN : b = TRUE
      OBVIOUS
    <3>2. row = [here |-> b, seq |-> call[s].seq, text |-> t]
      BY <3>1
    <3> HIDE DEF row
    <3> QED BY <2>1, <3>2 DEF Row
  <2> QED BY <2>2, <2>3
<1> HIDE DEF row
<1>8. /\ chapter' \in [Chapters -> Row] /\ chapter'[c] = row
      /\ \A d \in Chapters \ {c} : chapter'[d] = chapter[d]
  BY <1>2, <1>6, <1>7 DEF Inv, TypeOK
<1>9. Live' = Live \cup {c}
  <2>1. \A d \in Chapters : chapter'[d].here <=> d \in Live \/ d = c
    BY <1>4, <1>7, <1>8
  <2> QED BY <1>4, <1>6, <2>1 DEF Live
<1>10. Cardinality(Live') = Cardinality(Live) + 1
  BY <1>4, <1>6, <1>9, FS_AddElement
<1>11. RowsHold'
  <2>1. \A d \in Live : chapter'[d] = chapter[d] /\ chapter[d].seq < call[s].seq /\ chapter[d].seq \in Nat
    BY <1>3, <1>4, <1>6, <1>8 DEF Adding
  <2>2. chapter'[c].seq = call[s].seq /\ chapter'[c].text = t /\ call[s].seq \in Nat
    BY <1>3, <1>7, <1>8 DEF Adding
  <2>3. \A d \in Live' : chapter'[d].text \in Texts
    BY <1>9, <2>1, <2>2 DEF Inv, RowsHold
  <2>4. \A d, e \in Live' : chapter'[d].seq = chapter'[e].seq => d = e
    <3> SUFFICES ASSUME NEW d \in Live', NEW e \in Live', chapter'[d].seq = chapter'[e].seq
                 PROVE  d = e
      OBVIOUS
    <3>1. CASE d \in Live /\ e \in Live
      BY <2>1, <3>1 DEF Inv, RowsHold
    <3>2. CASE d = c /\ e \in Live
      BY <2>1, <2>2, <3>2
    <3>3. CASE d \in Live /\ e = c
      BY <2>1, <2>2, <3>3
    <3> QED BY <1>9, <3>1, <3>2, <3>3
  <2> QED BY <2>3, <2>4 DEF RowsHold
<1>12. NoGap'
  <2> SUFFICES ASSUME crashes = 0 PROVE \A d \in Live' : chapter'[d].seq < Cardinality(Live')
    BY <1>1 DEF NoGap
  <2>1. \A r \in Sessions : call[r].op # "renumbering"
    BY <1>1 DEF Inv, Exclusive, LockedOps
  <2>2. \A d \in Live : chapter[d].seq < Cardinality(Live) /\ chapter'[d] = chapter[d] /\ chapter[d].seq \in Nat
    BY <1>4, <1>6, <1>8, <2>1 DEF Inv, NoGap
  <2>3. chapter'[c].seq =< Cardinality(Live) /\ chapter'[c].seq \in Nat
    BY <1>3, <1>7, <1>8 DEF Adding
  <2> QED BY <1>4, <1>9, <1>10, <2>2, <2>3
<1>13. LocalTo(s) /\ TabShows(s)' /\ InProgress(s)' /\ call'[s] = Idle
  BY <1>1 DEF LocalTo, TabShows, InProgress, Inv, TypeOK
<1>14. TypeOK'
  BY <1>1, <1>8, <1>13 DEF Inv, TypeOK, LocalTo
<1>15. call'[s].op \notin LockedOps /\ Live' # {}
  BY <1>9, <1>13 DEF Idle, LockedOps
<1> QED BY <1>1, <1>11, <1>12, <1>13, <1>14, <1>15, LockedSteps

LEMMA RemoveDeletes ==
  ASSUME Inv, NEW s \in Sessions, RemoveDelete(s)
  PROVE  Inv'
<1> USE DEF book
<1> DEFINE c == call[s].key
<1>1. /\ call[s].op = "removing" /\ lock = s
      /\ chapter' = [chapter EXCEPT ![c].here = FALSE]
      /\ call' = [call EXCEPT ![s].op = "renumbering"]
      /\ UNCHANGED <<history, meta, analysed, lock, tab, edits, crashes>>
  BY DEF RemoveDelete, Holds, Removed
<1>2. /\ call[s] \in [op : {"removing"}, key : Live, rest : SetToSeqs(Live \ {c})]
      /\ Cardinality(Live) > 1
  BY <1>1, OperationOf DEF Removing
<1>3. /\ Live \in SUBSET Chapters /\ IsFiniteSet(Live) /\ Cardinality(Live) \in Nat
      /\ \A d \in Chapters : d \in Live <=> chapter[d].here
      /\ \A d \in Chapters : chapter[d].seq \in Nat /\ chapter[d] \in Row
  BY LiveRows DEF Inv, TypeOK
<1>4. c \in Live /\ c \in Chapters
  BY <1>2, <1>3
<1> DEFINE row == [chapter[c] EXCEPT !.here = FALSE]
<1>5. row \in Row /\ ~ row.here
  <2>1. PICK b \in BOOLEAN : b = FALSE
    OBVIOUS
  <2>2. row = [chapter[c] EXCEPT !.here = b]
    BY <2>1
  <2>3. chapter[c] \in Row
    BY <1>3, <1>4
  <2>4. row \in Row
    BY <2>2, <2>3 DEF Row
  <2>5. row.here = b
    BY <2>2, <2>3 DEF Row
  <2> QED BY <2>1, <2>4, <2>5
<1>6. chapter' = [chapter EXCEPT ![c] = row]
  BY <1>1
<1> HIDE DEF row, c
<1>7. /\ chapter' \in [Chapters -> Row] /\ ~ chapter'[c].here
      /\ \A d \in Chapters \ {c} : chapter'[d] = chapter[d]
  BY <1>4, <1>5, <1>6 DEF Inv, TypeOK
<1>8. Live' = Live \ {c}
  <2>1. \A d \in Chapters : chapter'[d].here <=> d \in Live /\ d # c
    BY <1>3, <1>7
  <2> QED BY <1>3, <2>1 DEF Live
<1>9. Live' # {}
  <2>1. Cardinality(Live \ {c}) = Cardinality(Live) - 1 /\ IsFiniteSet(Live \ {c})
    BY <1>3, <1>4, FS_RemoveElement
  <2>2. Cardinality(Live \ {c}) # 0
    BY <1>2, <1>3, <2>1
  <2> QED BY <1>8, <2>2, FS_EmptySet
<1>10. RowsHold'
  <2>1. \A d \in Live' : d \in Live /\ d \in Chapters /\ chapter'[d] = chapter[d]
    BY <1>3, <1>7, <1>8
  <2> QED BY <2>1 DEF Inv, RowsHold
<1>11. LocalTo(s) /\ TabShows(s)' /\ call'[s] = [call[s] EXCEPT !.op = "renumbering"]
  BY <1>1 DEF LocalTo, TabShows, Inv, TypeOK
<1>12. Renumbering(s)' /\ call'[s].op = "renumbering"
  <2>1. call'[s] \in [op : {"renumbering"}, key : Live, rest : SetToSeqs(Live \ {c})]
    BY <1>2, <1>11
  <2>2. call'[s] \in [op : {"renumbering"}, key : Chapters, rest : SetToSeqs(Live')]
    BY <1>3, <1>8, <2>1
  <2> QED BY <2>2 DEF Renumbering
<1>13. NoGap'
  BY <1>12 DEF NoGap
<1>14. TypeOK'
  BY <1>1, <1>7, <1>11 DEF Inv, TypeOK, LocalTo
<1>15. InProgress(s)' /\ call'[s].op \in LockedOps
  BY <1>12 DEF InProgress, LockedOps
<1> QED BY <1>1, <1>9, <1>10, <1>11, <1>13, <1>14, <1>15, LockedSteps

\* A renumbering of all the chapters gives them the positions 0, 1, ...
LEMMA Renumbers ==
  ASSUME Inv, NEW s \in Sessions, NEW order \in SetToSeqs(Live), Renumber(order),
         lock = s, Ends(s), call[s].op \in LockedOps,
         UNCHANGED <<history, meta, analysed, tab, edits, crashes>>
  PROVE  Inv'
<1>1. /\ Live \in SUBSET Chapters /\ IsFiniteSet(Live) /\ Cardinality(Live) \in Nat
      /\ \A d \in Chapters : d \in Live <=> chapter[d].here
  BY LiveRows DEF Inv, TypeOK
<1>2. ToSet(order) = Live
  BY <1>1, SeqsCover
<1>3. chapter' = Reordered(order)
  BY <1>2 DEF Renumber
<1>4. /\ chapter' \in [Chapters -> Row]
      /\ \A c \in Chapters : chapter'[c].here = chapter[c].here /\ chapter'[c].text = chapter[c].text
      /\ \A c \in Live : chapter'[c].seq < Cardinality(Live)
      /\ \A c, d \in Live : chapter'[c].seq = chapter'[d].seq => c = d
  BY <1>1, <1>3, ReorderedRows DEF Inv, TypeOK
<1>5. Live' = Live
  BY <1>4 DEF Live
<1>6. RowsHold' /\ NoGap' /\ Live' # {}
  BY <1>1, <1>4, <1>5 DEF Inv, RowsHold, NoGap
<1>7. /\ LocalTo(s) /\ TabShows(s)' /\ InProgress(s)' /\ call'[s] = Idle /\ lock' = Free
  BY DEF Ends, LocalTo, TabShows, InProgress, Inv, TypeOK
<1>8. TypeOK'
  BY <1>4, <1>7 DEF Inv, TypeOK, LocalTo
<1>9. call'[s].op \notin LockedOps
  BY <1>7 DEF Idle, LockedOps
<1> QED BY <1>6, <1>7, <1>8, <1>9, LockedSteps

LEMMA RenumberSteps ==
  ASSUME Inv, NEW s \in Sessions, RemoveRenumber(s) \/ ReorderWrite(s)
  PROVE  Inv'
<1> USE DEF book
<1>1. CASE RemoveRenumber(s)
  <2>1. Renumbering(s) /\ lock = s
    BY <1>1, OperationOf DEF RemoveRenumber, Holds
  <2>2. call[s].rest \in SetToSeqs(Live) /\ call[s].op \in LockedOps
    BY <2>1 DEF Renumbering, LockedOps
  <2> QED BY <1>1, <2>1, <2>2, Renumbers DEF RemoveRenumber
<1>2. CASE ReorderWrite(s)
  <2>1. Ordering(s) /\ lock = s
    BY <1>2, OperationOf DEF ReorderWrite, Holds
  <2>2. call[s].order \in SetToSeqs(Live) /\ call[s].op \in LockedOps
    BY <2>1 DEF Ordering, LockedOps
  <2> QED BY <1>2, <2>1, <2>2, Renumbers DEF ReorderWrite
<1> QED BY <1>1, <1>2

LEMMA MetaSteps ==
  ASSUME Inv, NEW s \in Sessions,
         \/ \E l \in Languages, p \in BOOLEAN, given \in MetaConditions : EditMeta(s, l, p, given)
         \/ SettingsRead(s)
         \/ \E b \in BOOLEAN : SettingsWrite(s, b)
  PROVE  Inv'
<1> USE DEF book
<1>1. /\ UNCHANGED <<chapter, history, analysed, lock, crashes>> /\ LocalTo(s) /\ TabShows(s)'
      /\ call[s].op \in {"idle", "settings"} /\ edits' \in 0 .. MaxEdits
  <2>1. CASE \E l \in Languages, p \in BOOLEAN, given \in MetaConditions : EditMeta(s, l, p, given)
    <3>1. /\ UNCHANGED <<chapter, history, analysed, lock, call, crashes>> /\ call[s] = Idle
          /\ tab' = [tab EXCEPT ![s] = Blank] /\ edits' = edits + 1 /\ edits < MaxEdits
      BY <2>1 DEF EditMeta, Saves, Opens
    <3>2. edits' \in 0 .. MaxEdits
      BY <3>1, BoundAssumption DEF Inv, TypeOK
    <3>3. LocalTo(s) /\ TabShows(s)'
      BY <3>1 DEF LocalTo, TabShows, Inv, TypeOK
    <3> QED BY <3>1, <3>2, <3>3 DEF Idle
  <2>2. CASE SettingsRead(s)
    BY <2>2, BoundAssumption
       DEF SettingsRead, Starts, Opens, Idle, LocalTo, TabShows, Inv, TypeOK
  <2>3. CASE \E b \in BOOLEAN : SettingsWrite(s, b)
    BY <2>3 DEF SettingsWrite, LocalTo, TabShows, Inv, TypeOK
  <2> QED BY <2>1, <2>2, <2>3
<1>2. call'[s] = Idle \/ Setting(s)'
  <2>1. CASE \E l \in Languages, p \in BOOLEAN, given \in MetaConditions : EditMeta(s, l, p, given)
    BY <2>1 DEF EditMeta, Saves, Opens
  <2>2. CASE SettingsRead(s)
    <3>1. call'[s] = [op |-> "settings", prologue |-> meta.prologue]
      BY <2>2 DEF SettingsRead, Inv, TypeOK
    <3>2. meta.prologue \in BOOLEAN
      BY DEF Inv, TypeOK, Meta
    <3> QED BY <3>1, <3>2 DEF Setting
  <2>3. CASE \E b \in BOOLEAN : SettingsWrite(s, b)
    BY <2>3 DEF SettingsWrite, Inv, TypeOK
  <2> QED BY <2>1, <2>2, <2>3
<1>3. meta' \in Meta
  <2>0. meta \in Meta
    BY DEF Inv, TypeOK
  <2>1. ASSUME NEW l \in Languages, NEW p \in BOOLEAN, NEW given \in MetaConditions,
             EditMeta(s, l, p, given) PROVE meta' \in Meta
    <3>1. [meta EXCEPT !.language = l] \in Meta
      BY <2>0 DEF Meta
    <3>2. \A m \in Meta : [m EXCEPT !.prologue = p] \in Meta
      BY DEF Meta
    <3>3. [meta EXCEPT !.language = l, !.prologue = p] \in Meta
      BY <3>1, <3>2
    <3> QED BY <2>0, <2>1, <3>3 DEF EditMeta
  <2>2. CASE SettingsRead(s)
    BY <2>0, <2>2 DEF SettingsRead
  <2>3. ASSUME NEW b \in BOOLEAN, SettingsWrite(s, b) PROVE meta' \in Meta
    <3>1. call[s].prologue \in BOOLEAN
      BY <2>3, OperationOf DEF SettingsWrite, Setting
    <3>2. \A m \in Meta : [m EXCEPT !.correct = b] \in Meta
      BY DEF Meta
    <3>3. \A q \in BOOLEAN : [meta EXCEPT !.prologue = q] \in Meta
      BY <2>0 DEF Meta
    <3>4. [meta EXCEPT !.prologue = call[s].prologue, !.correct = b] \in Meta
      BY <3>1, <3>2, <3>3
    <3> QED BY <2>3, <3>4 DEF SettingsWrite
  <2> QED BY <2>1, <2>2, <2>3
<1>4. InPlace /\ \A c \in Live : chapter'[c].text \in Texts
  BY <1>1, Unmoved DEF Inv, RowsHold
<1>5. TypeOK'
  BY <1>1, <1>3 DEF Inv, TypeOK, LocalTo
<1>6. call[s].op \notin LockedOps /\ call'[s].op \notin LockedOps
  BY <1>1, <1>2 DEF Idle, Setting, LockedOps
<1> QED BY <1>1, <1>2, <1>4, <1>5, <1>6, UnlockedSteps DEF InProgress

LEMMA StillSteps ==
  ASSUME Inv, UNCHANGED <<chapter, lock, tab, call, crashes>>, TypeOK'
  PROVE  Inv'
<1>1. Live' = Live
  BY DEF Live
<1>2. \A r \in Sessions : TabShows(r)' /\ InProgress(r)'
  BY Unmoved, OthersGoOn DEF Inv, TabShows
<1>3. RowsHold' /\ NoGap' /\ Exclusive'
  BY <1>1 DEF Inv, RowsHold, NoGap, Exclusive
<1> QED BY <1>1, <1>2, <1>3 DEF Inv

LEMMA Crashes ==
  ASSUME Inv, Crash
  PROVE  Inv'
<1> USE DEF book
<1>1. /\ crashes < MaxCrashes /\ crashes' = crashes + 1 /\ lock' = Free
      /\ call' = [s \in Sessions |-> Idle]
      /\ UNCHANGED <<chapter, history, meta, analysed, tab, edits>>
  BY DEF Crash
<1>2. crashes' \in 0 .. MaxCrashes /\ crashes' # 0
  BY <1>1, BoundAssumption DEF Inv, TypeOK
<1>3. Live' = Live /\ RowsHold'
  BY <1>1 DEF Live, Inv, RowsHold
<1>4. NoGap'
  BY <1>2 DEF NoGap
<1>5. Exclusive'
  BY <1>1, SessionAssumption DEF Exclusive, Idle, LockedOps
<1>6. \A s \in Sessions : TabShows(s)' /\ InProgress(s)'
  BY <1>1 DEF Inv, TabShows, InProgress
<1>7. TypeOK'
  BY <1>1, <1>2 DEF Inv, TypeOK
<1> QED BY <1>3, <1>4, <1>5, <1>6, <1>7 DEF Inv

LEMMA Inductive == Spec => []Inv
<1>1. Init => Inv
  BY Begins
<1>2. Inv /\ [Next]_vars => Inv'
  <2> SUFFICES ASSUME Inv, [Next]_vars PROVE Inv'
    OBVIOUS
  <2>1. ASSUME NEW s \in Sessions, LoadChapter(s) \/ LoadMeta(s) PROVE Inv'
    BY <2>1, LoadSteps
  <2>2. ASSUME NEW s \in Sessions, NEW t \in Texts, NEW given \in SUBSET Conditions, Edit(s, t, given) PROVE Inv'
    BY <2>2, EditSteps
  <2>3. ASSUME NEW s \in Sessions, RestoreRead(s) PROVE Inv'
    BY <2>3, RestoreReads
  <2>4. ASSUME NEW s \in Sessions, RestoreSame(s) \/ RestoreSave(s) \/ RestoreWrite(s) PROVE Inv'
    BY <2>4, RestoreSteps
  <2>5. ASSUME NEW s \in Sessions, AddRead(s) PROVE Inv'
    BY <2>5, AddReads
  <2>6. ASSUME NEW s \in Sessions, NEW t \in Texts, AddInsert(s, t) PROVE Inv'
    BY <2>6, AddInserts
  <2>7. ASSUME NEW s \in Sessions, RemoveRead(s) PROVE Inv'
    BY <2>7, RemoveReads
  <2>8. ASSUME NEW s \in Sessions, RemoveDelete(s) PROVE Inv'
    BY <2>8, RemoveDeletes
  <2>9. ASSUME NEW s \in Sessions, RemoveRenumber(s) \/ ReorderWrite(s) PROVE Inv'
    BY <2>9, RenumberSteps
  <2>10. ASSUME NEW s \in Sessions, ReorderRead(s) PROVE Inv'
    BY <2>10, ReorderReads
  <2>11. ASSUME NEW s \in Sessions,
                \/ \E l \in Languages, p \in BOOLEAN, given \in MetaConditions : EditMeta(s, l, p, given)
                \/ SettingsRead(s)
                \/ \E b \in BOOLEAN : SettingsWrite(s, b)
         PROVE  Inv'
    BY <2>11, MetaSteps
  <2>12. CASE StartAnalysis
    <3>1. TypeOK'
      BY <2>12 DEF StartAnalysis, Inv, TypeOK
    <3> QED BY <2>12, <3>1, StillSteps DEF StartAnalysis
  <2>13. CASE Crash
    BY <2>13, Crashes
  <2>14. CASE UNCHANGED vars
    <3>1. TypeOK'
      BY <2>14 DEF vars, Inv, TypeOK
    <3> QED BY <2>14, <3>1, StillSteps DEF vars
  <2> QED BY <2>1, <2>2, <2>3, <2>4, <2>5, <2>6, <2>7, <2>8, <2>9, <2>10, <2>11, <2>12,
             <2>13, <2>14 DEF Next
<1> QED BY <1>1, <1>2, PTL DEF Spec

-----------------------------------------------------------------------------
(* The theorems *)

\* The rows of the chapters, the versions, the metadata and the lock are of
\* their types in every reachable state (db.chapters, db.chapter_revisions).
THEOREM TypeCorrect == Spec => []TypeOK
<1>1. Inv => TypeOK
  BY DEF Inv
<1> QED BY <1>1, Inductive, PTL

\* A book keeps a chapter whatever is removed at a time and wherever the process
\* dies, and unless a death interrupted a request its positions are 0, 1, ...
\* whenever nobody holds its lock (add_chapter, remove_chapter, reorder_chapters).
THEOREM PositionsHaveNoGap == Spec => []ChaptersAreNumbered
<1>1. Inv => ChaptersAreNumbered
  <2> SUFFICES ASSUME Inv, lock = Free, crashes = 0
               PROVE  {chapter[c].seq : c \in Live} = 0 .. Cardinality(Live) - 1
    BY DEF Inv, ChaptersAreNumbered
  <2>1. /\ IsFiniteSet(Live) /\ Cardinality(Live) \in Nat
        /\ \A c \in Live : chapter[c].seq \in Nat
    BY LiveRows DEF Inv, TypeOK, Live
  <2>2. \A s \in Sessions : call[s].op # "renumbering"
    BY SessionAssumption DEF Inv, Exclusive, LockedOps
  <2>3. \A c \in Live : chapter[c].seq \in 0 .. Cardinality(Live) - 1
    BY <2>1, <2>2 DEF Inv, NoGap
  <2> DEFINE f == [c \in Live |-> chapter[c].seq]
             T == 0 .. Cardinality(Live) - 1
  <2>4. f \in Injection(Live, T)
    BY <2>3 DEF Inv, RowsHold, Injection, IsInjective
  <2>5. IsFiniteSet(T) /\ Cardinality(T) = Cardinality(Live)
    <3>1. Cardinality(Live) # 0
      BY <2>1, FS_EmptySet DEF Inv
    <3>2. 0 \in Int /\ Cardinality(Live) - 1 \in Int
      BY <2>1
    <3> QED BY <2>1, <3>1, <3>2, FS_Interval
  <2> HIDE DEF T
  <2>6. f \in Surjection(Live, T)
    BY <2>4, <2>5, FS_Injection
  <2>7. \A n \in T : \E c \in Live : chapter[c].seq = n
    BY <2>6 DEF Surjection
  <2> QED BY <2>3, <2>7 DEF T
<1> QED BY <1>1, Inductive, PTL

\* A chapter edit that gives the key and the text its tab was loaded with changes only
\* that chapter and from that text, and a metadata edit that gives the hash replaces
\* what its tab shows, whatever other tabs have moved, removed or saved since
\* (edit_chapter, update_book).
THEOREM EditsAreOfWhatWasSeen == Spec => EditIsOfWhatWasSeen
<1> DEFINE Seen(s) ==
             /\ \A given \in SUBSET Conditions :
                  {"key", "text"} \subseteq given /\ (\E t \in Texts : Edit(s, t, given)) =>
                    \A c \in Chapters : chapter'[c] # chapter[c] =>
                      c = tab[s].key /\ chapter[c].text = tab[s].text
             /\ (\E l \in Languages, p \in BOOLEAN : EditMeta(s, l, p, "hash")) =>
                  (meta' # meta => tab[s].meta.language = meta.language
                                   /\ tab[s].meta.prologue = meta.prologue)
<1>1. ASSUME Inv, NEW s \in Sessions PROVE Seen(s)
  <2>1. ASSUME NEW t \in Texts, NEW given \in SUBSET Conditions, Edit(s, t, given),
               {"key", "text"} \subseteq given, NEW c \in Chapters, chapter'[c] # chapter[c]
        PROVE  c = tab[s].key /\ chapter[c].text = tab[s].text
    <3>1. PICK d \in At(tab[s].seq) : /\ Matches(d, tab[s], given)
                                      /\ chapter' = [chapter EXCEPT ![d].text = t]
      BY <2>1 DEF Edit
    <3>2. c = d
      BY <2>1, <3>1 DEF Inv, TypeOK
    <3>3. "key" \in given /\ "text" \in given
      BY <2>1
    <3> QED BY <3>1, <3>2, <3>3 DEF Matches
  <2>2. ASSUME NEW l \in Languages, NEW p \in BOOLEAN, EditMeta(s, l, p, "hash"), meta' # meta
        PROVE  tab[s].meta.language = meta.language /\ tab[s].meta.prologue = meta.prologue
    BY <2>2 DEF EditMeta, SameMeta
  <2> QED BY <2>1, <2>2
<1>2. Inv /\ [Next]_vars => [\A s \in Sessions : Seen(s)]_vars
  BY <1>1
<1> QED BY <1>2, Inductive, PTL DEF Spec, EditIsOfWhatWasSeen

-----------------------------------------------------------------------------
(* Overwritten texts *)

\* No position has more versions than are kept; and the text that a restore has
\* saved stays in the history until as many versions of the position are newer.
Versions ==
  /\ NoneTooMany(history)
  /\ \A s \in Sessions : call[s].op = "restoring" =>
       \/ Has(history, call[s].version.seq, call[s].text)
       \/ Full(history, call[s].version.seq)

\* A step that saves no version keeps this.
LEMMA HistoryStays ==
  ASSUME Versions, history' = history,
         \A r \in Sessions : call'[r].op = "restoring" => call'[r] = call[r]
  PROVE  Versions'
<1>1. NoneTooMany(history')
  BY DEF Versions
<1>2. ASSUME NEW r \in Sessions, call'[r].op = "restoring"
      PROVE  \/ Has(history', call'[r].version.seq, call'[r].text)
             \/ Full(history', call'[r].version.seq)
  BY <1>2 DEF Versions
<1> QED BY <1>1, <1>2 DEF Versions

\* So does one that saves a version, for the others and for itself.
LEMMA HistorySaved ==
  ASSUME Inv, Versions, NEW s \in Sessions, NEW n \in Nat, NEW t \in Texts, NEW c \in Chapters,
         history' = Saved(history, n, t, c),
         \A r \in Sessions \ {s} : call'[r] = call[r],
         call'[s].op = "restoring" => call'[s].version.seq = n /\ call'[s].text = t
  PROVE  Versions' /\ Has(history', n, t)
<1>1. history \in Seq(Version) /\ NoneTooMany(history)
  BY DEF Inv, TypeOK, Versions
<1>2. /\ Has(history', n, t) /\ NoneTooMany(history')
      /\ \A m \in Nat : Full(history, m) => Full(history', m)
      /\ \A m \in Nat : \A u : Has(history, m, u) => Has(history', m, u) \/ Full(history', m)
  BY <1>1, SavedVersions
<1>3. ASSUME NEW r \in Sessions, call'[r].op = "restoring"
      PROVE  \/ Has(history', call'[r].version.seq, call'[r].text)
             \/ Full(history', call'[r].version.seq)
  <2>1. CASE r = s
    BY <1>2, <1>3, <2>1
  <2>2. CASE r # s
    <3>1. call'[r] = call[r]
      BY <2>2
    <3>2. Restoring(r)
      BY <1>3, <3>1, OperationOf
    <3>3. call[r].version.seq \in Nat
      BY <3>2 DEF Restoring, Version
    <3>4. \/ Has(history, call[r].version.seq, call[r].text)
          \/ Full(history, call[r].version.seq)
      BY <1>3, <3>1 DEF Versions
    <3> QED BY <1>2, <3>1, <3>3, <3>4
  <2> QED BY <2>1, <2>2
<1> QED BY <1>2, <1>3 DEF Versions

\* What an edit or a restore that saves does to the history.
LEMMA EditSaves ==
  ASSUME Inv, Versions, NEW s \in Sessions, NEW t \in Texts, NEW given \in SUBSET Conditions, Edit(s, t, given)
  PROVE  /\ Versions'
         /\ \A c \in Chapters : chapter'[c].text # chapter[c].text =>
              Has(history', chapter[c].seq, chapter[c].text)
<1>1. UNCHANGED call
  BY DEF Edit
<1>2. CASE UNCHANGED <<chapter, history>>
  BY <1>1, <1>2, HistoryStays
<1>3. ASSUME NEW c \in At(tab[s].seq), chapter' = [chapter EXCEPT ![c].text = t],
             history' = IF t = chapter[c].text THEN history
                        ELSE Saved(history, chapter[c].seq, chapter[c].text, c)
      PROVE  /\ Versions'
             /\ \A d \in Chapters : chapter'[d].text # chapter[d].text =>
                  Has(history', chapter[d].seq, chapter[d].text)
  <2>1. c \in Live /\ c \in Chapters
    BY DEF At, Live
  <2>2. chapter[c].seq \in Nat /\ chapter[c].text \in Texts /\ chapter[c] \in Row
    BY <2>1 DEF Inv, TypeOK, Row, RowsHold
  <2>3. /\ \A d \in Chapters \ {c} : chapter'[d] = chapter[d]
        /\ chapter'[c].text = t
    BY <1>3, <2>1, <2>2 DEF Inv, TypeOK, Row
  <2>4. CASE t = chapter[c].text
    <3>1. Versions'
      BY <1>1, <1>3, <2>4, HistoryStays
    <3> QED BY <2>3, <2>4, <3>1
  <2>5. CASE t # chapter[c].text
    <3>1. history' = Saved(history, chapter[c].seq, chapter[c].text, c)
      BY <1>3, <2>5
    <3>2. call'[s].op # "restoring"
      BY <1>1 DEF Edit, Saves, Opens, Idle
    <3>3. Versions' /\ Has(history', chapter[c].seq, chapter[c].text)
      BY <1>1, <2>1, <2>2, <3>1, <3>2, HistorySaved
    <3> QED BY <2>3, <3>3
  <2> QED BY <2>4, <2>5
<1> QED BY <1>2, <1>3 DEF Edit

LEMMA RestoreSaves ==
  ASSUME Inv, Versions, NEW s \in Sessions, RestoreSave(s)
  PROVE  Versions'
<1>1. Restoring(s) /\ DOMAIN call = Sessions
  BY OperationOf DEF RestoreSave, Inv, TypeOK
<1>2. call[s].version.seq \in Nat /\ call[s].key \in Chapters /\ call[s].text \in Texts
  BY <1>1 DEF Restoring, Version
<1>3. /\ call' = [call EXCEPT ![s].op = "restoring"]
      /\ history' = Saved(history, call[s].version.seq, call[s].text, call[s].key)
  BY DEF RestoreSave
<1>4. /\ \A r \in Sessions \ {s} : call'[r] = call[r]
      /\ call'[s].version.seq = call[s].version.seq /\ call'[s].text = call[s].text
  BY <1>1, <1>3 DEF Restoring
<1> QED BY <1>2, <1>3, <1>4, HistorySaved

\* The other steps save nothing and let no restore write that has not saved.
LEMMA OthersSaveNothing ==
  ASSUME Inv, [Next]_vars, ~ \E s \in Sessions : RestoreSave(s) \/ \E t \in Texts, given \in SUBSET Conditions : Edit(s, t, given)
  PROVE  history' = history /\ \A r \in Sessions : call'[r].op = "restoring" => call'[r] = call[r]
<1>1. DOMAIN call = Sessions
  BY DEF Inv, TypeOK
<1>2. Idle.op # "restoring"
  BY DEF Idle
<1>3. ASSUME NEW s \in Sessions, LoadChapter(s) \/ LoadMeta(s) \/ RestoreSame(s) \/ RestoreWrite(s)
      PROVE  history' = history /\ \A r \in Sessions : call'[r].op = "restoring" => call'[r] = call[r]
  BY <1>1, <1>2, <1>3 DEF LoadChapter, LoadMeta, RestoreSame, RestoreWrite
<1>4. ASSUME NEW s \in Sessions, RestoreRead(s) \/ AddRead(s) \/ ReorderRead(s) \/ RemoveRead(s)
      PROVE  history' = history /\ \A r \in Sessions : call'[r].op = "restoring" => call'[r] = call[r]
  <2>1. history' = history
    BY <1>4 DEF RestoreRead, AddRead, ReorderRead, RemoveRead
  <2>2. CASE RestoreRead(s)
    <3>1. PICK i \in DOMAIN history, c \in Chapters : call' = [call EXCEPT ![s] =
            [op |-> IF history[i].text = chapter[c].text THEN "same" ELSE "saving",
             version |-> history[i], key |-> c, text |-> chapter[c].text]]
      BY <2>2 DEF RestoreRead, At, Live
    <3>2. call'[s].op # "restoring" /\ \A r \in Sessions \ {s} : call'[r] = call[r]
      BY <1>1, <3>1
    <3> QED BY <2>1, <3>2
  <2>3. CASE AddRead(s) \/ ReorderRead(s) \/ RemoveRead(s)
    <3>1. call'[s].op # "restoring" /\ \A r \in Sessions \ {s} : call'[r] = call[r]
      <4>1. CASE AddRead(s)
        <5>1. PICK n : call' = [call EXCEPT ![s] = [op |-> "adding", seq |-> n]]
          BY <4>1 DEF AddRead
        <5> QED BY <1>1, <5>1
      <4>2. CASE ReorderRead(s)
        <5>1. PICK order : call' = [call EXCEPT ![s] = [op |-> "ordering", order |-> order]]
          BY <4>2 DEF ReorderRead
        <5> QED BY <1>1, <5>1
      <4>3. CASE RemoveRead(s)
        <5>1. PICK c, rest : call' = [call EXCEPT ![s] =
                               [op |-> "removing", key |-> c, rest |-> rest]]
          BY <4>3 DEF RemoveRead
        <5> QED BY <1>1, <5>1
      <4> QED BY <2>3, <4>1, <4>2, <4>3
    <3> QED BY <2>1, <3>1
  <2> QED BY <1>4, <2>2, <2>3
<1>5. ASSUME NEW s \in Sessions,
             \/ \E t \in Texts : AddInsert(s, t)
             \/ RemoveDelete(s) \/ RemoveRenumber(s) \/ ReorderWrite(s)
      PROVE  history' = history /\ \A r \in Sessions : call'[r].op = "restoring" => call'[r] = call[r]
  <2>1. history' = history /\ (call' = [call EXCEPT ![s] = Idle] \/ RemoveDelete(s))
    BY <1>5 DEF AddInsert, RemoveDelete, RemoveRenumber, ReorderWrite, Ends
  <2>2. CASE call' = [call EXCEPT ![s] = Idle]
    BY <1>1, <1>2, <2>1, <2>2
  <2>3. CASE RemoveDelete(s)
    <3>1. Removing(s)
      BY <2>3, OperationOf DEF RemoveDelete, Holds
    <3>2. call'[s].op = "renumbering" /\ \A r \in Sessions \ {s} : call'[r] = call[r]
      BY <1>1, <2>3, <3>1 DEF RemoveDelete, Removing
    <3> QED BY <2>1, <3>2
  <2> QED BY <2>1, <2>2, <2>3
<1>6. ASSUME NEW s \in Sessions,
             \/ \E l \in Languages, p \in BOOLEAN, given \in MetaConditions : EditMeta(s, l, p, given)
             \/ SettingsRead(s)
             \/ \E b \in BOOLEAN : SettingsWrite(s, b)
      PROVE  history' = history /\ \A r \in Sessions : call'[r].op = "restoring" => call'[r] = call[r]
  <2>1. CASE \E l \in Languages, p \in BOOLEAN, given \in MetaConditions : EditMeta(s, l, p, given)
    BY <2>1 DEF EditMeta
  <2>2. CASE SettingsRead(s)
    <3>1. /\ call' = [call EXCEPT ![s] = [op |-> "settings", prologue |-> meta.prologue]]
          /\ history' = history
      BY <2>2 DEF SettingsRead
    <3> QED BY <1>1, <3>1
  <2>3. CASE \E b \in BOOLEAN : SettingsWrite(s, b)
    <3>1. call' = [call EXCEPT ![s] = Idle] /\ history' = history
      BY <2>3 DEF SettingsWrite
    <3> QED BY <1>1, <1>2, <3>1
  <2> QED BY <1>6, <2>1, <2>2, <2>3
<1>7. CASE StartAnalysis \/ UNCHANGED vars
  BY <1>7 DEF StartAnalysis, vars
<1>8. CASE Crash
  BY <1>2, <1>8 DEF Crash
<1> QED BY <1>3, <1>4, <1>5, <1>6, <1>7, <1>8 DEF Next

LEMMA VersionsHold == Spec => []Versions
<1>1. Init => Versions
  <2> SUFFICES ASSUME Init PROVE Versions
    OBVIOUS
  <2>1. \A n : VersionsOf(history, n) = {}
    BY DEF Init, VersionsOf
  <2>2. NoneTooMany(history)
    BY <2>1, FS_EmptySet, BoundAssumption DEF NoneTooMany
  <2>3. \A s \in Sessions : call[s].op # "restoring"
    BY DEF Init, Idle
  <2> QED BY <2>2, <2>3 DEF Versions
<1>2. Inv /\ Versions /\ [Next]_vars => Versions'
  <2> SUFFICES ASSUME Inv, Versions, [Next]_vars PROVE Versions'
    OBVIOUS
  <2>1. ASSUME NEW s \in Sessions, RestoreSave(s) PROVE Versions'
    BY <2>1, RestoreSaves
  <2>2. ASSUME NEW s \in Sessions, NEW t \in Texts, NEW given \in SUBSET Conditions, Edit(s, t, given) PROVE Versions'
    BY <2>2, EditSaves
  <2>3. CASE ~ \E s \in Sessions : RestoreSave(s) \/ \E t \in Texts, given \in SUBSET Conditions : Edit(s, t, given)
    BY <2>3, OthersSaveNothing, HistoryStays
  <2> QED BY <2>1, <2>2, <2>3
<1> QED BY <1>1, <1>2, Inductive, PTL DEF Spec

\* Which steps overwrite the text of a chapter that stays.
LEMMA TextsAreWritten ==
  ASSUME Inv, [Next]_vars, NEW c \in Chapters,
         chapter'[c].here, chapter[c].here, chapter'[c].text # chapter[c].text
  PROVE  \E s \in Sessions : RestoreWrite(s) \/ \E t \in Texts, given \in SUBSET Conditions : Edit(s, t, given)
<1>1. chapter \in [Chapters -> Row]
  BY DEF Inv, TypeOK
<1>2. chapter' # chapter
  OBVIOUS
<1>3. ASSUME NEW s \in Sessions, NEW t \in Texts, AddInsert(s, t) PROVE FALSE
  <2> DEFINE unused == {x \in Chapters : chapter[x] = Absent}
             d == CHOOSE x \in unused : \A y \in unused : x =< y
  <2>1. Adding(s)
    BY <1>3, OperationOf DEF AddInsert, Holds
  <2>2. d \in unused
    BY <2>1, UnusedIsThere
  <2>4. chapter' = [chapter EXCEPT ![d] = [here |-> TRUE, seq |-> call[s].seq, text |-> t]]
    BY <1>3 DEF AddInsert
  <2> HIDE DEF d
  <2>5. chapter[d] = Absent
    BY <2>2
  <2>3. d # c
    BY <2>5 DEF Absent
  <2> QED BY <1>1, <2>3, <2>4
<1>4. ASSUME NEW s \in Sessions, RemoveDelete(s) PROVE FALSE
  BY <1>1, <1>4 DEF RemoveDelete, Removed, Row
<1>5. ASSUME NEW s \in Sessions, RemoveRenumber(s) \/ ReorderWrite(s) PROVE FALSE
  <2>1. PICK order : Renumber(order)
    BY <1>5 DEF RemoveRenumber, ReorderWrite
  <2>2. chapter' = Reordered(order)
    BY <1>2, <2>1 DEF Renumber
  <2>3. \A row \in Row : \A n : [row EXCEPT !.seq = n].text = row.text
    BY DEF Row
  <2>4. chapter'[c].text = chapter[c].text
    BY <1>1, <2>2, <2>3 DEF Reordered
  <2> QED BY <2>4
<1>6. ASSUME NEW s \in Sessions,
             \/ LoadChapter(s) \/ LoadMeta(s) \/ RestoreRead(s) \/ RestoreSame(s) \/ RestoreSave(s)
             \/ AddRead(s) \/ RemoveRead(s) \/ ReorderRead(s) \/ SettingsRead(s)
      PROVE  FALSE
  BY <1>2, <1>6 DEF LoadChapter, LoadMeta, RestoreRead, RestoreSame, RestoreSave, AddRead, RemoveRead,
     ReorderRead, SettingsRead
<1>7. ASSUME NEW s \in Sessions,
             \/ \E l \in Languages, p \in BOOLEAN, given \in MetaConditions : EditMeta(s, l, p, given)
             \/ \E b \in BOOLEAN : SettingsWrite(s, b)
      PROVE  FALSE
  BY <1>2, <1>7 DEF EditMeta, SettingsWrite
<1>8. ~ (StartAnalysis \/ Crash \/ UNCHANGED vars)
  BY <1>2 DEF StartAnalysis, Crash, vars
<1> QED BY <1>3, <1>4, <1>5, <1>6, <1>7, <1>8 DEF Next

\* A text that is overwritten by an edit is in the history of its position, and
\* so is one overwritten by a restore, unless it was written after the restore
\* had read the chapter (edit_chapter, restore_revision, save_chapter_revision).
THEOREM OverwrittenTextsAreKept == Spec => OldVersionIsSaved
<1> DEFINE Keeps(c) ==
      (chapter'[c].here /\ chapter[c].here /\ chapter'[c].text # chapter[c].text) =>
         \/ Has(history', chapter[c].seq, chapter[c].text)
         \/ \E s \in Sessions : /\ call[s].op = "restoring" /\ call'[s] = Idle
                                /\ \/ call[s].text # chapter[c].text
                                   \/ Cardinality(VersionsOf(history, chapter[c].seq)) >= Kept
<1>1. ASSUME Inv, Versions, [Next]_vars, NEW c \in Chapters PROVE Keeps(c)
  <2> SUFFICES ASSUME chapter'[c].here, chapter[c].here, chapter'[c].text # chapter[c].text
               PROVE  \/ Has(history', chapter[c].seq, chapter[c].text)
                      \/ \E s \in Sessions :
                           /\ call[s].op = "restoring" /\ call'[s] = Idle
                           /\ \/ call[s].text # chapter[c].text
                              \/ Full(history, chapter[c].seq)
    BY DEF Full
  <2>1. ASSUME NEW s \in Sessions, NEW t \in Texts, NEW given \in SUBSET Conditions, Edit(s, t, given)
        PROVE  Has(history', chapter[c].seq, chapter[c].text)
    BY <1>1, <2>1, EditSaves
  <2>2. ASSUME NEW s \in Sessions, RestoreWrite(s), call[s].text = chapter[c].text
        PROVE  Has(history', chapter[c].seq, chapter[c].text) \/ Full(history, chapter[c].seq)
    <3>1. c \in At(call[s].version.seq)
      BY <2>2 DEF RestoreWrite
    <3>2. chapter[c].seq = call[s].version.seq
      BY <3>1 DEF At
    <3>3. call[s].op = "restoring" /\ history' = history
      BY <2>2 DEF RestoreWrite
    <3> QED BY <1>1, <2>2, <3>2, <3>3 DEF Versions
  <2>3. ASSUME NEW s \in Sessions, RestoreWrite(s)
        PROVE  call[s].op = "restoring" /\ call'[s] = Idle
    BY <1>1, <2>3 DEF RestoreWrite, Inv, TypeOK
  <2>4. \E s \in Sessions : RestoreWrite(s) \/ \E t \in Texts, given \in SUBSET Conditions : Edit(s, t, given)
    BY <1>1, TextsAreWritten
  <2> QED BY <2>1, <2>2, <2>3, <2>4
<1>2. Inv /\ Versions /\ [Next]_vars => [\A c \in Chapters : Keeps(c)]_vars
  BY <1>1
<1> QED BY <1>2, Inductive, VersionsHold, PTL DEF Spec, OldVersionIsSaved

-----------------------------------------------------------------------------
(* The registry of characters: its tables *)

LEMMA Names == Ids \subseteq Surfaces /\ Nobody \notin Ids /\ Nobody \notin Threads
BY IdAssumption DEF Surfaces

\* The tables, field by field.
Columns == {"characters", "aliases", "resolved", "conflicts", "proposals", "snapshots",
            "voices", "meta", "revision", "events"}

LEMMA FieldsOfTables ==
  ASSUME NEW s \in Tables
  PROVE  /\ s.characters \in [Ids -> Character] /\ s.aliases \in Seq(Alias)
         /\ s.resolved \in [Segments -> Ids \cup {Nobody, "absent"}]
         /\ s.conflicts \in Seq(Conflict) /\ s.proposals \in Seq(Proposal)
         /\ s.snapshots \in Seq(SnapshotRow)
         /\ s.voices \in [Ids -> Voices \cup {NoVoice}] /\ s.meta \in BOOLEAN
         /\ s.revision \in 0 .. MaxRevision /\ s.revision \in Nat /\ s.events \in Seq(Event)
         /\ DOMAIN s = Columns
BY RegistryBounds DEF Tables, Columns

\* Replacing one column by one of its type keeps the tables typed.
LEMMA OneField ==
  ASSUME NEW s \in Tables
  PROVE  /\ \A x \in [Ids -> Character] : [s EXCEPT !.characters = x] \in Tables
         /\ \A x \in Seq(Alias) : [s EXCEPT !.aliases = x] \in Tables
         /\ \A x \in [Segments -> Ids \cup {Nobody, "absent"}] :
              [s EXCEPT !.resolved = x] \in Tables
         /\ \A x \in Seq(Conflict) : [s EXCEPT !.conflicts = x] \in Tables
         /\ \A x \in Seq(Proposal) : [s EXCEPT !.proposals = x] \in Tables
         /\ \A x \in Seq(SnapshotRow) : [s EXCEPT !.snapshots = x] \in Tables
         /\ \A x \in [Ids -> Voices \cup {NoVoice}] : [s EXCEPT !.voices = x] \in Tables
         /\ \A x \in BOOLEAN : [s EXCEPT !.meta = x] \in Tables
         /\ \A x \in 0 .. MaxRevision : [s EXCEPT !.revision = x] \in Tables
         /\ \A x \in Seq(Event) : [s EXCEPT !.events = x] \in Tables
BY DEF Tables

\* Every merge of the book ends, and every one of a snapshot a rollback may restore.
Sound(s) ==
  /\ s \in Tables /\ EndsSomewhere(s.characters)
  /\ \A i \in DOMAIN s.snapshots : EndsSomewhere(s.snapshots[i].characters)

\* What every operation does: no proposal is lost or changed but in its status.
Keeps(s, n) ==
  /\ Sound(n) /\ DOMAIN s.proposals \subseteq DOMAIN n.proposals
  /\ \A i \in DOMAIN s.proposals :
       /\ n.proposals[i].source = s.proposals[i].source
       /\ n.proposals[i].target = s.proposals[i].target
       /\ n.proposals[i].sure = s.proposals[i].sure

\* And what a proposal is judged by changes with the revision only.
Goes(s, n) ==
  /\ Keeps(s, n) /\ n.revision >= s.revision
  /\ n.revision = s.revision =>
       /\ n.aliases = s.aliases /\ n.conflicts = s.conflicts
       /\ \A c \in Ids : s.characters[c].status # "absent" =>
            n.characters[c].status = s.characters[c].status

\* Other characters or aliases have another revision.
Covers(s, n) == Identity(n) # Identity(s) => n.revision > s.revision

\* Doing nothing keeps everything.
LEMMA Stays ==
  ASSUME NEW s, Sound(s)
  PROVE  Goes(s, s) /\ Covers(s, s)
BY FieldsOfTables DEF Sound, Goes, Keeps, Covers

\* Whatever was changed is covered by the next revision.
LEMMA Bumps ==
  ASSUME NEW s, Sound(s), NEW n, Keeps(s, n), n.revision >= s.revision, n.revision < MaxRevision
  PROVE  /\ Goes(s, Bumped(n)) /\ Covers(s, Bumped(n))
         /\ Bumped(n).revision = n.revision + 1 /\ Bumped(n).characters = n.characters
         /\ Bumped(n).aliases = n.aliases
<1>1. n \in Tables /\ s \in Tables
  BY DEF Keeps, Sound
<1>2. EnsureMeta(n) \in Tables /\ EnsureMeta(n).revision = n.revision
  BY <1>1, OneField, FieldsOfTables DEF EnsureMeta, Columns
<1>3. EnsureMeta(n).revision + 1 \in 0 .. MaxRevision
  BY <1>1, <1>2, FieldsOfTables, RegistryBounds
<1>4. Bumped(n) \in Tables
  BY <1>2, <1>3, OneField DEF Bumped
<1>5. /\ Bumped(n).revision = n.revision + 1 /\ Bumped(n).characters = n.characters
      /\ Bumped(n).aliases = n.aliases /\ Bumped(n).proposals = n.proposals
      /\ Bumped(n).snapshots = n.snapshots
  BY <1>1, <1>2, FieldsOfTables DEF Bumped, EnsureMeta, Columns
<1>6. s.revision \in Nat /\ n.revision \in Nat
  BY <1>1, FieldsOfTables
<1> HIDE DEF Bumped
<1>7. Keeps(s, Bumped(n))
  BY <1>4, <1>5 DEF Keeps, Sound
<1>8. Bumped(n).revision > s.revision
  BY <1>5, <1>6
<1> QED BY <1>5, <1>6, <1>7, <1>8 DEF Goes, Covers

\* Writing an event changes nothing else.
LEMMA Logs ==
  ASSUME NEW s, Sound(s), NEW n, Goes(s, n), Covers(s, n),
         NEW type \in {"alias_assigned", "merge", "split", "voice_resolved", "migration",
                       "migration_rollback"}
  PROVE  Goes(s, Logged(n, type)) /\ Covers(s, Logged(n, type))
<1>1. n \in Tables
  BY DEF Goes, Keeps, Sound
<1>2. [type |-> type, revision |-> n.revision] \in Event
  BY <1>1, FieldsOfTables DEF Event
<1>3. Append(n.events, [type |-> type, revision |-> n.revision]) \in Seq(Event)
  BY <1>1, <1>2, FieldsOfTables
<1>4. Logged(n, type) \in Tables
  BY <1>1, <1>3, OneField DEF Logged
<1>5. /\ Logged(n, type).revision = n.revision /\ Logged(n, type).characters = n.characters
      /\ Logged(n, type).aliases = n.aliases /\ Logged(n, type).proposals = n.proposals
      /\ Logged(n, type).snapshots = n.snapshots /\ Logged(n, type).conflicts = n.conflicts
  BY <1>1, FieldsOfTables DEF Logged, Columns
<1> HIDE DEF Logged
<1> QED BY <1>4, <1>5 DEF Goes, Keeps, Sound, Covers, Identity

\* Making sure that the book has its row of the registry changes nothing else.
LEMMA Ensures ==
  ASSUME NEW s, NEW n, Goes(s, n)
  PROVE  /\ Goes(s, EnsureMeta(n)) /\ (Covers(s, n) => Covers(s, EnsureMeta(n)))
         /\ EnsureMeta(n).characters = n.characters
<1>1. n \in Tables
  BY DEF Goes, Keeps, Sound
<1>2. EnsureMeta(n) \in Tables
  BY <1>1, OneField DEF EnsureMeta
<1>5. /\ EnsureMeta(n).revision = n.revision /\ EnsureMeta(n).characters = n.characters
      /\ EnsureMeta(n).aliases = n.aliases /\ EnsureMeta(n).proposals = n.proposals
      /\ EnsureMeta(n).snapshots = n.snapshots /\ EnsureMeta(n).conflicts = n.conflicts
  BY <1>1, FieldsOfTables DEF EnsureMeta, Columns
<1> HIDE DEF EnsureMeta
<1> QED BY <1>2, <1>5 DEF Goes, Keeps, Sound, Covers, Identity

-----------------------------------------------------------------------------
(* Characters *)

\* Chains of merges still end when some characters are no longer merged and nobody
\* disappears.
LEMMA FewerMerged ==
  ASSUME NEW x, NEW y, EndsSomewhere(x),
         \A c \in Ids : /\ y[c].status = "merged" => x[c].status = "merged" /\ y[c].into = x[c].into
                        /\ x[c].status # "absent" => y[c].status # "absent"
  PROVE  EndsSomewhere(y)
<1>1. ASSUME NEW c \in Ids, y[c].status = "merged"
      PROVE  y[c].into \in Ids /\ y[y[c].into].status # "absent"
  BY <1>1 DEF EndsSomewhere
<1>2. ASSUME NEW S \in (SUBSET Ids) \ {{}}
      PROVE  \E c \in S : ~ (y[c].status = "merged" /\ y[c].into \in S)
  <2>1. PICK c \in S : ~ (x[c].status = "merged" /\ x[c].into \in S)
    BY DEF EndsSomewhere
  <2> QED BY <2>1
<1> QED BY <1>1, <1>2 DEF EndsSomewhere

\* A merge into an active character closes no cycle: what ended in the source now
\* ends in the target.
LEMMA MergeEnds ==
  ASSUME NEW x, NEW y, EndsSomewhere(x), NEW source \in Ids, NEW target \in Ids,
         source # target, x[source].status # "absent", x[target].status = "active",
         y[source].status = "merged", y[source].into = target,
         \A c \in Ids \ {source} : y[c].status = x[c].status /\ y[c].into = x[c].into
  PROVE  EndsSomewhere(y)
<1>1. ASSUME NEW c \in Ids, y[c].status = "merged"
      PROVE  y[c].into \in Ids /\ y[y[c].into].status # "absent"
  <2>1. CASE c = source
    BY <2>1
  <2>2. CASE c # source
    <3>1. x[c].into \in Ids /\ x[x[c].into].status # "absent"
      BY <1>1, <2>2 DEF EndsSomewhere
    <3> QED BY <2>2, <3>1
  <2> QED BY <2>1, <2>2
<1>2. ASSUME NEW S \in (SUBSET Ids) \ {{}}
      PROVE  \E c \in S : ~ (y[c].status = "merged" /\ y[c].into \in S)
  <2>1. CASE target \in S
    BY <2>1
  <2>2. CASE target \notin S /\ source \in S
    BY <2>2
  <2>3. CASE target \notin S /\ source \notin S
    <3>1. PICK c \in S : ~ (x[c].status = "merged" /\ x[c].into \in S)
      BY DEF EndsSomewhere
    <3> QED BY <2>3, <3>1
  <2> QED BY <2>1, <2>2, <2>3
<1> QED BY <1>1, <1>2 DEF EndsSomewhere

LEMMA FreshIs ==
  ASSUME NEW status \in {"absent", "provisional", "active", "merged", "split"}
  PROVE  Fresh(status) \in Character /\ Fresh(status).status = status
BY DEF Fresh, NoCharacter, Character

\* x becomes y without a merge: nobody but the absent changes his status.
Grows(x, y) ==
  /\ y \in [Ids -> Character]
  /\ \A c \in Ids : /\ x[c].status # "absent" => y[c].status = x[c].status /\ y[c].into = x[c].into
                    /\ x[c].status = "absent" => y[c].status # "merged"

LEMMA GrowingEnds ==
  ASSUME NEW x, NEW y, EndsSomewhere(x), Grows(x, y)
  PROVE  EndsSomewhere(y)
<1>1. ASSUME NEW c \in Ids
      PROVE  /\ y[c].status = "merged" => x[c].status = "merged" /\ y[c].into = x[c].into
             /\ x[c].status # "absent" => y[c].status # "absent"
  BY DEF Grows
<1> QED BY <1>1, FewerMerged

LEMMA InsertedGrows ==
  ASSUME NEW x \in [Ids -> Character], NEW new,
         NEW status \in {"provisional", "active"}
  PROVE  Grows(x, Inserted(x, new, status))
<1>1. Fresh(status) \in Character /\ Fresh(status).status = status
  BY FreshIs
<1> HIDE DEF Fresh
<1> QED BY <1>1 DEF Inserted, Grows

\* New characters at the same revision change nothing a proposal is judged by.
LEMMA GrowingGoes ==
  ASSUME NEW s, Sound(s), NEW n \in Tables, Grows(s.characters, n.characters),
         n.aliases = s.aliases, n.conflicts = s.conflicts, n.proposals = s.proposals,
         n.snapshots = s.snapshots, n.revision = s.revision
  PROVE  Goes(s, n)
<1>1. EndsSomewhere(n.characters)
  BY GrowingEnds DEF Sound
<1>2. s.revision \in Nat
  BY FieldsOfTables DEF Sound
<1> QED BY <1>1, <1>2 DEF Goes, Keeps, Sound, Grows

-----------------------------------------------------------------------------
(* Aliases *)

\* A name is resolved to a character: its newest accepted alias has a target.
LEMMA KnownIsACharacter ==
  ASSUME NEW s \in Tables, NEW name \in Ids
  PROVE  Known(s, name) \in Ids
<1> DEFINE of(scope) == {i \in DOMAIN s.aliases :
             s.aliases[i].surface = name /\ s.aliases[i].status = "accepted"
             /\ s.aliases[i].target # Nobody /\ s.aliases[i].scope = scope}
<1>1. s.aliases \in Seq(Alias)
  BY FieldsOfTables
<1>2. ASSUME NEW scope, of(scope) # {}
      PROVE  s.aliases[Max(of(scope))].target \in Ids
  <2>1. of(scope) \subseteq 1 .. Len(s.aliases) /\ Len(s.aliases) \in Nat
    BY <1>1
  <2>2. IsFiniteSet(of(scope))
    BY <2>1, FS_Interval, FS_Subset
  <2>3. \A i \in of(scope) : s.aliases[i].target \in Ids
    <3> SUFFICES ASSUME NEW i \in of(scope) PROVE s.aliases[i].target \in Ids
      OBVIOUS
    <3>1. s.aliases[i] \in Alias /\ s.aliases[i].target # Nobody
      BY <1>1
    <3> QED BY <3>1 DEF Alias
  <2> DEFINE S == of(scope)
             f == [i \in S |-> i]
  <2>4. S # {} /\ IsFiniteSet(S) /\ \A i \in S : i \in Nat
    BY <1>2, <2>1, <2>2
  <2>5. \A i \in S : s.aliases[i].target \in Ids
    BY <2>3
  <2> HIDE DEF of, S
  <2>6. f \in [S -> Nat] /\ \A i, j \in S : f[i] = f[j] => i = j
    BY <2>4
  <2>7. PICK i \in S : \A j \in S : f[i] >= f[j]
    <3> HIDE DEF f
    <3> QED BY <2>4, <2>6, LargestOf
  <2>8. \A j \in S : i >= j
    BY <2>7
  <2>9. Max(S) \in S
    BY <2>8 DEF Max
  <2> QED BY <2>5, <2>9 DEF S
<1> DEFINE ofChapter == of("chapter")
           ofBook == of("book")
<1>3. Known(s, name) = CASE ofChapter # {} -> s.aliases[Max(ofChapter)].target
       [] ofChapter = {} /\ ofBook # {} -> s.aliases[Max(ofBook)].target
       [] OTHER -> name
  BY DEF Known
<1>4. /\ ofChapter # {} => s.aliases[Max(ofChapter)].target \in Ids
      /\ ofBook # {} => s.aliases[Max(ofBook)].target \in Ids
  BY <1>2
<1> HIDE DEF ofChapter, ofBook
<1> QED BY <1>3, <1>4

LEMMA AliasRowIsAnAlias ==
  ASSUME NEW surface \in Surfaces, NEW target \in Ids \cup {Nobody},
         NEW scope \in {"chapter", "book", "unresolved"},
         NEW status \in {"accepted", "unresolved"}
  PROVE  AliasRow(surface, target, scope, status) \in Alias
BY DEF AliasRow, Alias

\* Aliases stay aliases: each is kept or replaced by a row, and the new rows follow
\* in their order.
LEMMA UpsertedAreAliases ==
  ASSUME NEW aliases \in Seq(Alias), NEW rows \in Seq(Alias)
  PROVE  Upserted(aliases, rows) \in Seq(Alias)
<1> DEFINE touched(i) == {k \in DOMAIN rows : /\ SameAlias(aliases[i], rows[k])
                            /\ ~ \E j \in 1 .. i - 1 : SameAlias(aliases[j], rows[k])}
           new == {k \in DOMAIN rows : /\ ~ \E i \in DOMAIN aliases : SameAlias(aliases[i], rows[k])
                                       /\ ~ \E j \in 1 .. k - 1 : SameAlias(rows[j], rows[k])}
           old == [i \in DOMAIN aliases |-> IF touched(i) = {} THEN aliases[i]
                                            ELSE rows[CHOOSE k \in touched(i) : TRUE]]
           row(n) == CHOOSE k \in new : Cardinality({j \in new : j =< k}) = n
           more == [n \in 1 .. Cardinality(new) |->
                      rows[CHOOSE k \in new : Cardinality({j \in new : j =< k}) = n]]
<1>1. Upserted(aliases, rows) = old \o more
  BY DEF Upserted
<1>2. old \in Seq(Alias)
  <2>1. ASSUME NEW i \in DOMAIN aliases
        PROVE  (IF touched(i) = {} THEN aliases[i]
                ELSE rows[CHOOSE k \in touched(i) : TRUE]) \in Alias
    <3>1. aliases[i] \in Alias
      OBVIOUS
    <3>2. CASE touched(i) # {}
      <4> DEFINE T == touched(i)
      <4>1. T # {} /\ T \subseteq DOMAIN rows
        BY <3>2
      <4> HIDE DEF T
      <4>2. (CHOOSE k \in T : TRUE) \in DOMAIN rows
        BY <4>1
      <4>3. rows[CHOOSE k \in T : TRUE] \in Alias
        BY <4>2
      <4> QED BY <3>2, <4>3 DEF T
    <3> QED BY <3>1, <3>2
  <2> HIDE DEF touched
  <2>2. DOMAIN aliases = 1 .. Len(aliases) /\ Len(aliases) \in Nat
    OBVIOUS
  <2>3. old \in [1 .. Len(aliases) -> Alias]
    BY <2>1, <2>2
  <2> QED BY <2>2, <2>3
<1>3. more \in Seq(Alias)
  <2>1. new \subseteq 1 .. Len(rows) /\ Len(rows) \in Nat
    OBVIOUS
  <2>2. IsFiniteSet(new)
    BY <2>1, FS_Interval, FS_Subset
  <2>3. Cardinality(new) \in Nat /\ \A k \in new : k \in Nat
    BY <2>1, <2>2, FS_CardinalityType
  <2> DEFINE N == new
  <2>4. IsFiniteSet(N) /\ Cardinality(N) \in Nat /\ N \subseteq DOMAIN rows
        /\ \A k \in N : k \in Nat
    BY <2>1, <2>2, <2>3
  <2>5. more = [n \in 1 .. Cardinality(N) |-> rows[CHOOSE k \in N : Cardinality({j \in N : j =< k}) = n]]
    OBVIOUS
  <2> HIDE DEF N, new, more
  <2>6. \A n \in 1 .. Cardinality(N) : \E k \in N : Cardinality({j \in N : j =< k}) = n
    BY <2>4, Counted
  <2>7. ASSUME NEW n \in 1 .. Cardinality(N)
        PROVE  rows[CHOOSE k \in N : Cardinality({j \in N : j =< k}) = n] \in Alias
    <3>1. (CHOOSE k \in N : Cardinality({j \in N : j =< k}) = n) \in N
      BY <2>6
    <3> HIDE DEF N
    <3>2. (CHOOSE k \in N : Cardinality({j \in N : j =< k}) = n) \in DOMAIN rows
      BY <2>4, <3>1
    <3> QED BY <3>2
  <2>8. more \in [1 .. Cardinality(N) -> Alias]
    BY <2>5, <2>7
  <2> QED BY <2>4, <2>8
<1> HIDE DEF old, more
<1> QED BY <1>1, <1>2, <1>3

-----------------------------------------------------------------------------
(* Registration *)

LEMMA ResolvedGoes ==
  ASSUME NEW s, NEW n, Goes(s, n), Covers(s, n),
         NEW x \in [Segments -> Ids \cup {Nobody, "absent"}]
  PROVE  Goes(s, [n EXCEPT !.resolved = x]) /\ Covers(s, [n EXCEPT !.resolved = x])
<1> DEFINE r == [n EXCEPT !.resolved = x]
<1>1. n \in Tables
  BY DEF Goes, Keeps, Sound
<1>2. r \in Tables
  BY <1>1, OneField
<1>3. /\ r.revision = n.revision /\ r.characters = n.characters /\ r.aliases = n.aliases
      /\ r.proposals = n.proposals /\ r.snapshots = n.snapshots /\ r.conflicts = n.conflicts
  BY <1>1, FieldsOfTables DEF Columns
<1> HIDE DEF r
<1>4. Goes(s, r) /\ Covers(s, r)
  BY <1>2, <1>3 DEF Goes, Keeps, Sound, Covers, Identity
<1> QED BY <1>4 DEF r

LEMMA NewCharacters ==
  ASSUME NEW s, Sound(s), NEW new, NEW status \in {"provisional", "active"},
         NEW n, n = [EnsureMeta(s) EXCEPT !.characters = Inserted(@, new, status)]
  PROVE  /\ Goes(s, n) /\ n.revision = s.revision
         /\ n.characters = s.characters => Covers(s, n)
<1>1. s \in Tables
  BY DEF Sound
<1>2. EnsureMeta(s) \in Tables /\ EnsureMeta(s).characters = s.characters
  BY <1>1, OneField, FieldsOfTables DEF EnsureMeta, Columns
<1>3. Grows(s.characters, Inserted(s.characters, new, status))
  BY <1>1, FieldsOfTables, InsertedGrows
<1>4. n \in Tables /\ n.characters = Inserted(s.characters, new, status)
  BY <1>2, <1>3, OneField, FieldsOfTables DEF Grows, Columns
<1>5. /\ n.revision = s.revision /\ n.aliases = s.aliases /\ n.proposals = s.proposals
      /\ n.snapshots = s.snapshots /\ n.conflicts = s.conflicts
  BY <1>1, <1>2, FieldsOfTables DEF EnsureMeta, Columns
<1>6. Goes(s, n)
  BY <1>3, <1>4, <1>5, GrowingGoes
<1> QED BY <1>5, <1>6 DEF Covers, Identity

\* A registration without a new character changes no alias and keeps the revision;
\* with one it takes two.
LEMMA RegisteredGoes ==
  ASSUME NEW s, Sound(s), NEW a \in Analyses, Registered(s, a).revision =< MaxRevision
  PROVE  Goes(s, Registered(s, a)) /\ Covers(s, Registered(s, a))
<1> DEFINE names == Artifact[a].names
           cast == {names[i].id : i \in DOMAIN names}
           known == [EnsureMeta(s) EXCEPT !.characters =
                       Inserted(@, {Known(s, id) : id \in cast}, "provisional")]
           rows == [i \in DOMAIN names |->
                      AliasRow(names[i].name, Known(s, names[i].id),
                               IF names[i].name \in Titles THEN "chapter" ELSE "book", "accepted")]
           listed == [known EXCEPT !.aliases = Upserted(@, rows)]
           bumped == IF known.characters = s.characters THEN known ELSE Bumped(Bumped(listed))
           speaker(g) == IF SourceSpeaker(g) \in cast THEN Known(s, SourceSpeaker(g))
                         ELSE SourceSpeaker(g)
           resolved == [g \in Segments |-> IF g[1] = a THEN speaker(g) ELSE bumped.resolved[g]]
<1>0. s \in Tables
  BY DEF Sound
<1>1. Registered(s, a) = [bumped EXCEPT !.resolved = resolved]
  BY DEF Registered
<1>2. names \in Seq([id : Ids, name : Surfaces])
  BY ArtifactAssumption
<1>2a. \A i \in DOMAIN names : names[i].id \in Ids /\ names[i].name \in Surfaces
  <2> DEFINE Listed == [id : Ids, name : Surfaces]
  <2> HIDE DEF names, Listed
  <2>1. names \in Seq(Listed)
    BY <1>2 DEF Listed
  <2>2. \A i \in DOMAIN names : names[i] \in Listed
    BY <2>1
  <2> QED BY <2>2 DEF Listed
<1>3. rows \in Seq(Alias)
  <2> HIDE DEF names
  <2>1. DOMAIN names = 1 .. Len(names) /\ Len(names) \in Nat
    BY <1>2
  <2>2. ASSUME NEW i \in DOMAIN names
        PROVE  AliasRow(names[i].name, Known(s, names[i].id),
                        IF names[i].name \in Titles THEN "chapter" ELSE "book", "accepted") \in Alias
    <3>1. names[i].id \in Ids /\ names[i].name \in Surfaces
      BY <1>2a
    <3>2. Known(s, names[i].id) \in Ids
      BY <1>0, <3>1, KnownIsACharacter
    <3> QED BY <3>1, <3>2, AliasRowIsAnAlias
  <2>3. rows \in [1 .. Len(names) -> Alias]
    BY <2>1, <2>2
  <2> HIDE DEF rows
  <2> QED BY <2>1, <2>3
<1>4. Goes(s, known) /\ known.revision = s.revision
      /\ (known.characters = s.characters => Covers(s, known))
  <2> DEFINE new == {Known(s, id) : id \in cast}
  <2>1. known = [EnsureMeta(s) EXCEPT !.characters = Inserted(@, new, "provisional")]
    OBVIOUS
  <2> HIDE DEF new, known
  <2> QED BY <2>1, NewCharacters
<1>5. listed \in Tables /\ Keeps(s, listed) /\ listed.revision = s.revision
  <2> HIDE DEF known, rows
  <2>1. known \in Tables /\ Keeps(s, known)
    BY <1>4 DEF Goes, Keeps, Sound
  <2>2. Upserted(known.aliases, rows) \in Seq(Alias)
    BY <2>1, <1>3, FieldsOfTables, UpsertedAreAliases
  <2>3. listed \in Tables
    BY <2>1, <2>2, OneField
  <2>4. /\ listed.revision = known.revision /\ listed.characters = known.characters
        /\ listed.proposals = known.proposals /\ listed.snapshots = known.snapshots
    BY <2>1, FieldsOfTables DEF Columns
  <2> HIDE DEF listed
  <2> QED BY <1>4, <2>1, <2>3, <2>4 DEF Keeps, Sound
<1>6. bumped.revision = Registered(s, a).revision
  <2> HIDE DEF bumped, resolved
  <2> QED BY <1>1
<1>7. Goes(s, bumped) /\ Covers(s, bumped)
  <2>1. CASE known.characters = s.characters
    BY <1>4, <2>1
  <2>2. CASE known.characters # s.characters
    <3> HIDE DEF known, listed
    <3>1. bumped = Bumped(Bumped(listed))
      BY <2>2
    <3>2. Bumped(Bumped(listed)).revision =< MaxRevision
      BY <1>6, <3>1
    <3> HIDE DEF bumped
    <3>3. s.revision \in Nat /\ MaxRevision \in Nat
      BY <1>0, FieldsOfTables, RegistryBounds
    <3>4. s.revision < MaxRevision
      <4>1. EnsureMeta(listed) \in Tables /\ EnsureMeta(listed).revision = listed.revision
        BY <1>5, OneField, FieldsOfTables DEF EnsureMeta, Columns
      <4>2. Bumped(listed).revision = s.revision + 1 /\ DOMAIN Bumped(listed) = Columns
        BY <4>1, <1>5, FieldsOfTables DEF Bumped, Columns
      <4>3. EnsureMeta(Bumped(listed)).revision = s.revision + 1
            /\ DOMAIN EnsureMeta(Bumped(listed)) = Columns
        BY <4>2 DEF EnsureMeta, Columns
      <4>4. Bumped(Bumped(listed)).revision = s.revision + 1 + 1
        BY <4>3 DEF Bumped, Columns
      <4> QED BY <3>2, <3>3, <4>4
    <3>5. /\ Goes(s, Bumped(listed)) /\ Bumped(listed).revision = s.revision + 1
      BY <1>5, <3>3, <3>4, Bumps
    <3>6. Bumped(listed).revision < MaxRevision
      <4>1. EnsureMeta(Bumped(listed)).revision = Bumped(listed).revision
            /\ DOMAIN EnsureMeta(Bumped(listed)) = Columns
        BY <3>5, FieldsOfTables DEF Goes, Keeps, Sound, EnsureMeta, Columns
      <4>2. Bumped(Bumped(listed)).revision = Bumped(listed).revision + 1
        BY <4>1 DEF Bumped, Columns
      <4> QED BY <3>2, <3>3, <3>5, <4>2
    <3>7. Keeps(s, Bumped(listed)) /\ Bumped(listed).revision >= s.revision
      BY <3>5 DEF Goes
    <3> QED BY <3>1, <3>6, <3>7, Bumps
  <2> QED BY <2>1, <2>2
<1>8. resolved \in [Segments -> Ids \cup {Nobody, "absent"}]
  <2>1. bumped \in Tables
    BY <1>7 DEF Goes, Keeps, Sound
  <2> HIDE DEF bumped
  <2>2. ASSUME NEW g \in Segments, g[1] = a
        PROVE  speaker(g) \in Ids \cup {Nobody, "absent"}
    <3>1. SourceSpeaker(g) \in Ids \cup {Nobody}
      BY <2>2, ArtifactAssumption DEF Segments, SourceSpeaker
    <3>2. cast \subseteq Ids
      <4> HIDE DEF names
      <4> QED BY <1>2a
    <3>3. SourceSpeaker(g) \in cast => Known(s, SourceSpeaker(g)) \in Ids
      BY <1>0, <3>2, KnownIsACharacter
    <3> QED BY <3>1, <3>3
  <2> HIDE DEF speaker
  <2>3. bumped.resolved \in [Segments -> Ids \cup {Nobody, "absent"}]
    BY <2>1, FieldsOfTables
  <2> QED BY <2>2, <2>3
<1> HIDE DEF bumped, resolved
<1> QED BY <1>1, <1>7, <1>8, ResolvedGoes

-----------------------------------------------------------------------------
(* Corrections *)

LEMMA AliasAssigned ==
  ASSUME NEW s, Sound(s), s.revision < MaxRevision, NEW surface \in Surfaces,
         NEW target \in Ids \cup {Nobody}, NEW scope \in {"chapter", "book", "unresolved"},
         NEW status \in {"accepted", "unresolved"}, NEW n,
         n = Logged(Bumped([s EXCEPT !.aliases =
               Upserted(@, <<AliasRow(surface, target, scope, status)>>)]), "alias_assigned")
  PROVE  Goes(s, n) /\ Covers(s, n)
<1> DEFINE rows == <<AliasRow(surface, target, scope, status)>>
           m == [s EXCEPT !.aliases = Upserted(@, rows)]
<1>1. s \in Tables
  BY DEF Sound
<1>2. rows \in Seq(Alias)
  BY AliasRowIsAnAlias
<1>3. n = Logged(Bumped(m), "alias_assigned")
  OBVIOUS
<1> HIDE DEF rows
<1>4. Upserted(s.aliases, rows) \in Seq(Alias)
  BY <1>1, <1>2, FieldsOfTables, UpsertedAreAliases
<1>5. m \in Tables
  BY <1>1, <1>4, OneField
<1>6. /\ m.revision = s.revision /\ m.characters = s.characters
      /\ m.proposals = s.proposals /\ m.snapshots = s.snapshots /\ s.revision \in Nat
  BY <1>1, FieldsOfTables DEF Columns
<1> HIDE DEF m
<1>7. Keeps(s, m) /\ m.revision >= s.revision /\ m.revision < MaxRevision
  BY <1>5, <1>6 DEF Keeps, Sound
<1>8. Goes(s, Bumped(m)) /\ Covers(s, Bumped(m))
  BY <1>7, Bumps
<1> QED BY <1>3, <1>8, Logs

LEMMA ProposalsGoOn ==
  ASSUME NEW s, Sound(s), NEW x \in Seq(Proposal), NEW n, n = [s EXCEPT !.proposals = x],
         DOMAIN s.proposals \subseteq DOMAIN x,
         \A i \in DOMAIN s.proposals : /\ x[i].source = s.proposals[i].source
                                       /\ x[i].target = s.proposals[i].target
                                       /\ x[i].sure = s.proposals[i].sure
  PROVE  Goes(s, n) /\ Covers(s, n)
<1>1. s \in Tables
  BY DEF Sound
<1>2. n \in Tables
  BY <1>1, OneField
<1>3. /\ n.revision = s.revision /\ n.characters = s.characters /\ n.aliases = s.aliases
      /\ n.proposals = x /\ n.snapshots = s.snapshots /\ n.conflicts = s.conflicts
      /\ s.revision \in Nat
  BY <1>1, FieldsOfTables DEF Columns
<1> QED BY <1>2, <1>3 DEF Goes, Keeps, Sound, Covers, Identity

LEMMA ProposalMade ==
  ASSUME NEW s, Sound(s), NEW source \in Ids, NEW target \in Ids, NEW sure \in BOOLEAN, NEW n,
         n = [EnsureMeta(s) EXCEPT !.proposals = Append(@,
               [source |-> source, target |-> target, sure |-> sure, revision |-> s.revision,
                status |-> "pending"])]
  PROVE  Goes(s, n) /\ Covers(s, n)
<1> DEFINE row == [source |-> source, target |-> target, sure |-> sure,
                   revision |-> s.revision, status |-> "pending"]
           m == [s EXCEPT !.proposals = Append(@, row)]
<1>1. s \in Tables
  BY DEF Sound
<1>2. row \in Proposal
  <2>1. s.revision \in 0 .. MaxRevision
    BY <1>1, FieldsOfTables
  <2> QED BY <2>1 DEF Proposal
<1>3. n = EnsureMeta(m)
  BY <1>1, FieldsOfTables DEF EnsureMeta, Columns, Tables
<1> HIDE DEF row
<1>4. Append(s.proposals, row) \in Seq(Proposal) /\ s.proposals \in Seq(Proposal)
  BY <1>1, <1>2, FieldsOfTables
<1> DEFINE x == Append(s.proposals, row)
<1>4a. /\ DOMAIN s.proposals \subseteq DOMAIN x
      /\ \A i \in DOMAIN s.proposals : x[i] = s.proposals[i]
  BY <1>4
<1>4b. m = [s EXCEPT !.proposals = x] /\ x \in Seq(Proposal)
  BY <1>4
<1> HIDE DEF m, x
<1>5. Goes(s, m) /\ Covers(s, m)
  BY <1>4a, <1>4b, ProposalsGoOn
<1> QED BY <1>3, <1>5, Ensures

LEMMA ProposalMarked ==
  ASSUME NEW s, Sound(s), NEW k \in DOMAIN s.proposals,
         NEW status \in {"pending", "unresolved", "accepted"}, NEW n,
         n = [s EXCEPT !.proposals[k].status = status]
  PROVE  Goes(s, n) /\ Covers(s, n)
<1> DEFINE x == [s.proposals EXCEPT ![k].status = status]
<1>1. s.proposals \in Seq(Proposal)
  BY FieldsOfTables DEF Sound
<1>2. n = [s EXCEPT !.proposals = x]
  OBVIOUS
<1>3. \A i \in DOMAIN s.proposals : s.proposals[i] \in Proposal
  BY <1>1
<1>4. [s.proposals[k] EXCEPT !.status = status] \in Proposal
  BY <1>3 DEF Proposal
<1>5. x \in Seq(Proposal)
  BY <1>1, <1>4
<1>6. ASSUME NEW i \in DOMAIN s.proposals
      PROVE  /\ x[i].source = s.proposals[i].source /\ x[i].target = s.proposals[i].target
             /\ x[i].sure = s.proposals[i].sure
  <2>1. s.proposals[i] \in Proposal
    BY <1>3
  <2> QED BY <2>1, <1>1 DEF Proposal
<1>7. DOMAIN x = DOMAIN s.proposals
  OBVIOUS
<1> HIDE DEF x
<1> QED BY <1>2, <1>5, <1>6, <1>7, ProposalsGoOn

-----------------------------------------------------------------------------
(* Merge, split, voices *)

\* What is stored under a new revision, and logged.
LEMMA Changed ==
  ASSUME NEW s, Sound(s), s.revision < MaxRevision, NEW m \in Tables,
         EndsSomewhere(m.characters), m.revision = s.revision, m.proposals = s.proposals,
         DOMAIN m.snapshots = DOMAIN s.snapshots,
         \A i \in DOMAIN m.snapshots :
           m.snapshots[i].characters = s.snapshots[i].characters,
         NEW type \in {"alias_assigned", "merge", "split", "voice_resolved", "migration",
                       "migration_rollback"},
         NEW n, n = Logged(Bumped(m), type)
  PROVE  Goes(s, n) /\ Covers(s, n)
<1>1. s.revision \in Nat
  BY FieldsOfTables DEF Sound
<1>2. Keeps(s, m) /\ m.revision >= s.revision /\ m.revision < MaxRevision
  BY <1>1 DEF Keeps, Sound
<1>3. Goes(s, Bumped(m)) /\ Covers(s, Bumped(m))
  BY <1>2, Bumps
<1> QED BY <1>3, Logs

\* A merge changes characters, aliases, segments and conflicts under a new revision.
LEMMA MergeGoes ==
  ASSUME NEW s, Sound(s), s.revision < MaxRevision, NEW source \in Ids, NEW target \in Ids,
         source # target, Mergeable(s, source, target), NEW n,
         n = Logged(Bumped(Merged(s, source, target)), "merge")
  PROVE  Goes(s, n) /\ Covers(s, n)
<1> DEFINE moved(x) == IF x = source THEN target ELSE x
           differ == s.voices[source] # s.voices[target]
                     /\ NoVoice \notin {s.voices[source], s.voices[target]}
           characters == [s.characters EXCEPT ![source].status = "merged", ![source].into = target,
              ![target].voice = IF differ THEN "needs_manual_voice_resolution" ELSE @]
           aliases == [i \in DOMAIN s.aliases |-> [s.aliases[i] EXCEPT !.target = moved(s.aliases[i].target)]]
           resolved == [g \in Segments |-> moved(s.resolved[g])]
           conflict == [character |-> target, open |-> TRUE,
                        options |-> {s.voices[source], s.voices[target]}]
           conflicts == IF differ THEN Append(s.conflicts, conflict) ELSE s.conflicts
           m == Merged(s, source, target)
<1>0. s \in Tables
  BY DEF Sound
<1>1. m = [s EXCEPT !.characters = characters, !.aliases = aliases, !.resolved = resolved,
                    !.conflicts = conflicts]
  BY Zenon DEF Merged
<1>2. s.characters \in [Ids -> Character]
  BY <1>0, FieldsOfTables
<1>3. characters \in [Ids -> Character]
  <2>1. s.characters[source] \in Character /\ s.characters[target] \in Character
    BY <1>2
  <2>2. [[s.characters[source] EXCEPT !.status = "merged"] EXCEPT !.into = target] \in Character
    BY <2>1 DEF Character
  <2>3. [s.characters[target] EXCEPT !.voice = IF differ THEN "needs_manual_voice_resolution" ELSE @]
          \in Character
    <3> HIDE DEF differ
    <3> QED BY <2>1 DEF Character
  <2> HIDE DEF differ
  <2> QED BY <1>2, <2>2, <2>3
<1>4. EndsSomewhere(characters)
  <2>1. /\ characters[source].status = "merged" /\ characters[source].into = target
    <3>1. s.characters[source] \in Character
      BY <1>2
    <3> HIDE DEF differ
    <3> QED BY <1>2, <3>1 DEF Character
  <2>2. ASSUME NEW c \in Ids \ {source}
        PROVE  characters[c].status = s.characters[c].status /\ characters[c].into = s.characters[c].into
    <3>1. s.characters[c] \in Character
      BY <1>2
    <3> HIDE DEF differ
    <3>2. CASE c = target
      BY <1>2, <3>1, <3>2 DEF Character
    <3>3. CASE c # target
      BY <1>2, <3>1, <3>3 DEF Character
    <3> QED BY <3>2, <3>3
  <2>3. /\ EndsSomewhere(s.characters) /\ s.characters[source].status # "absent"
        /\ s.characters[target].status = "active"
    BY DEF Sound, Mergeable
  <2> HIDE DEF characters
  <2> QED BY <2>1, <2>2, <2>3, MergeEnds
<1>5. aliases \in Seq(Alias)
  <2>1. s.aliases \in Seq(Alias)
    BY <1>0, FieldsOfTables
  <2>2. ASSUME NEW i \in DOMAIN s.aliases
        PROVE  [s.aliases[i] EXCEPT !.target = moved(s.aliases[i].target)] \in Alias
    <3>1. s.aliases[i] \in Alias
      BY <2>1
    <3> QED BY <3>1 DEF Alias
  <2>3. aliases \in [1 .. Len(s.aliases) -> Alias] /\ Len(s.aliases) \in Nat
    BY <2>1, <2>2
  <2> HIDE DEF aliases
  <2> QED BY <2>3
<1>6. resolved \in [Segments -> Ids \cup {Nobody, "absent"}]
  <2>1. s.resolved \in [Segments -> Ids \cup {Nobody, "absent"}]
    BY <1>0, FieldsOfTables
  <2> QED BY <2>1
<1>7. conflicts \in Seq(Conflict)
  <2>1. s.conflicts \in Seq(Conflict) /\ s.voices \in [Ids -> Voices \cup {NoVoice}]
    BY <1>0, FieldsOfTables
  <2>2. CASE differ
    <3>1. {s.voices[source], s.voices[target]} \subseteq Voices
      BY <2>1, <2>2
    <3>2. conflict \in Conflict
      <4> DEFINE options == {s.voices[source], s.voices[target]}
      <4>1. options \in SUBSET Voices
        BY <3>1
      <4> HIDE DEF options
      <4>2. [character |-> target, open |-> TRUE, options |-> options] \in Conflict
        BY <4>1 DEF Conflict
      <4> QED BY <4>2 DEF options
    <3> HIDE DEF conflict
    <3> QED BY <2>1, <3>2
  <2>3. CASE ~differ
    BY <2>1, <2>3
  <2> QED BY <2>2, <2>3
<1> HIDE DEF characters, aliases, resolved, conflicts
<1>8. m \in Tables
  <2>1. [s EXCEPT !.characters = characters] \in Tables
    BY <1>0, <1>3, OneField
  <2>2. [s EXCEPT !.characters = characters, !.aliases = aliases] \in Tables
    BY <2>1, <1>5, OneField
  <2>3. [s EXCEPT !.characters = characters, !.aliases = aliases, !.resolved = resolved] \in Tables
    BY <2>2, <1>6, OneField
  <2>4. [s EXCEPT !.characters = characters, !.aliases = aliases, !.resolved = resolved,
                  !.conflicts = conflicts] \in Tables
    BY <2>3, <1>7, OneField
  <2> QED BY <1>1, <2>4
<1>9. /\ m.revision = s.revision /\ m.proposals = s.proposals /\ m.snapshots = s.snapshots
      /\ m.characters = characters
  BY <1>0, <1>1, FieldsOfTables DEF Columns
<1>10. n = Logged(Bumped(m), "merge")
  OBVIOUS
<1> HIDE DEF m
<1> QED BY <1>4, <1>8, <1>9, <1>10, Changed

\* The first half of a split only adds characters: it may stay in an open transaction.
LEMMA TargetsGo ==
  ASSUME NEW s, Sound(s), NEW source \in Ids, NEW mapping, Range(mapping) \subseteq Ids
  PROVE  /\ Goes(s, Targeted(s, source, mapping))
         /\ Targeted(s, source, mapping).revision = s.revision
<1> DEFINE listed(c) == IF s.characters[c].status = "absent" THEN Fresh("active")
                        ELSE s.characters[c]
           voice(c) == IF s.voices[source] = NoVoice THEN listed(c).voice
                       ELSE "voice_pending_confirmation"
           characters == [c \in Ids |-> IF c \in Range(mapping)
                                        THEN [listed(c) EXCEPT !.voice = voice(c)]
                                        ELSE s.characters[c]]
           resolved == [g \in Segments |->
             IF g \in DOMAIN mapping /\ SourceSpeaker(g) = source /\ s.resolved[g] # "absent"
             THEN mapping[g] ELSE s.resolved[g]]
           n == Targeted(s, source, mapping)
<1>0. s \in Tables
  BY DEF Sound
<1>1. n = [s EXCEPT !.characters = characters, !.resolved = resolved]
  BY DEF Targeted
<1>2. s.characters \in [Ids -> Character]
      /\ s.resolved \in [Segments -> Ids \cup {Nobody, "absent"}]
  BY <1>0, FieldsOfTables
<1>3. Grows(s.characters, characters)
  <2>1. ASSUME NEW c \in Ids
        PROVE  /\ characters[c] \in Character
               /\ s.characters[c].status # "absent" =>
                    characters[c].status = s.characters[c].status
                    /\ characters[c].into = s.characters[c].into
               /\ s.characters[c].status = "absent" => characters[c].status # "merged"
    <3>1. s.characters[c] \in Character
      BY <1>2
    <3>2. Fresh("active") \in Character /\ Fresh("active").status = "active"
      BY FreshIs
    <3>3. listed(c) \in Character
      BY <3>1, <3>2
    <3>4. voice(c) \in {"ready", "needs_manual_voice_resolution", "voice_pending_confirmation"}
      BY <3>3 DEF Character
    <3>5. CASE c \in Range(mapping)
      <4>1. characters[c] = [listed(c) EXCEPT !.voice = voice(c)]
        BY <3>5
      <4> HIDE DEF voice, characters
      <4>2. characters[c] \in Character /\ characters[c].status = listed(c).status
            /\ characters[c].into = listed(c).into
        BY <4>1, <3>3, <3>4 DEF Character
      <4> HIDE DEF Fresh
      <4> QED BY <4>2, <3>2
    <3>6. CASE c \notin Range(mapping)
      BY <3>1, <3>6
    <3> QED BY <3>5, <3>6
  <2>2. characters \in [Ids -> Character]
    <3> DEFINE at(c) == IF c \in Range(mapping) THEN [listed(c) EXCEPT !.voice = voice(c)]
                        ELSE s.characters[c]
    <3>1. \A c \in Ids : characters[c] = at(c)
      OBVIOUS
    <3>2. characters = [c \in Ids |-> at(c)]
      OBVIOUS
    <3>3. \A c \in Ids : characters[c] \in Character
      BY <2>1
    <3> HIDE DEF at, characters
    <3> QED BY <3>1, <3>2, <3>3
  <2> HIDE DEF characters
  <2> QED BY <2>1, <2>2 DEF Grows
<1>4. resolved \in [Segments -> Ids \cup {Nobody, "absent"}]
  <2>1. \A g \in DOMAIN mapping : mapping[g] \in Ids
    BY DEF Range
  <2> QED BY <2>1, <1>2
<1> HIDE DEF characters, resolved
<1>5. characters \in [Ids -> Character]
  BY <1>3 DEF Grows
<1>6. n \in Tables
  <2>1. [s EXCEPT !.characters = characters] \in Tables
    BY <1>0, <1>5, OneField
  <2> QED BY <1>1, <2>1, <1>4, OneField
<1>7. /\ n.revision = s.revision /\ n.proposals = s.proposals /\ n.snapshots = s.snapshots
      /\ n.characters = characters /\ n.aliases = s.aliases /\ n.conflicts = s.conflicts
  BY <1>0, <1>1, FieldsOfTables DEF Columns
<1> HIDE DEF n
<1>8. Goes(s, n)
  BY <1>3, <1>6, <1>7, GrowingGoes
<1> QED BY <1>7, <1>8 DEF n

\* A split takes its source out of the merged characters, if it was one.
LEMMA SplitGoes ==
  ASSUME NEW s, Sound(s), s.revision < MaxRevision, NEW source \in Ids,
         s.characters[source].status \in {"active", "merged"},
         NEW mapping, Range(mapping) \subseteq Ids, NEW n,
         n = Logged(Bumped([Targeted(s, source, mapping)
                            EXCEPT !.characters[source].status = "split"]), "split")
  PROVE  Goes(s, n) /\ Covers(s, n)
<1> DEFINE made == Targeted(s, source, mapping)
           characters == [made.characters EXCEPT ![source].status = "split"]
           m == [made EXCEPT !.characters = characters]
<1>1. Goes(s, made) /\ made.revision = s.revision
  BY TargetsGo
<1>2. n = Logged(Bumped(m), "split")
  OBVIOUS
<1>2a. made.snapshots = s.snapshots /\ made.proposals = s.proposals
  BY FieldsOfTables DEF Targeted, Sound, Columns
<1> HIDE DEF made
<1>3. made \in Tables /\ EndsSomewhere(made.characters)
  BY <1>1 DEF Goes, Keeps, Sound
<1>4. characters \in [Ids -> Character] /\ EndsSomewhere(characters)
  <2>1. made.characters \in [Ids -> Character]
    BY <1>3, FieldsOfTables
  <2>2. made.characters[source] \in Character
    BY <2>1
  <2>3. [made.characters[source] EXCEPT !.status = "split"] \in Character
    BY <2>2 DEF Character
  <2>4. ASSUME NEW c \in Ids
        PROVE  /\ characters[c].status = "merged" => made.characters[c].status = "merged"
                                                     /\ characters[c].into = made.characters[c].into
               /\ made.characters[c].status # "absent" => characters[c].status # "absent"
    <3>1. CASE c = source
      BY <2>1, <2>2, <3>1 DEF Character
    <3>2. CASE c # source
      BY <2>1, <3>2
    <3> QED BY <3>1, <3>2
  <2>5. characters \in [Ids -> Character]
    BY <2>1, <2>3
  <2> HIDE DEF characters
  <2> QED BY <1>3, <2>4, <2>5, FewerMerged
<1> HIDE DEF characters
<1>5. m \in Tables
  BY <1>3, <1>4, OneField
<1>6. /\ m.revision = made.revision /\ m.proposals = made.proposals
      /\ m.snapshots = made.snapshots /\ m.characters = characters
  BY <1>3, FieldsOfTables DEF Columns
<1> HIDE DEF m
<1> QED BY <1>1, <1>2, <1>4, <1>5, <1>6, <1>2a, Changed

LEMMA ConflictResolved ==
  ASSUME NEW s, Sound(s), s.revision < MaxRevision, NEW k \in DOMAIN s.conflicts,
         NEW voice \in Voices, NEW c, c = s.conflicts[k].character, NEW n,
         n = Logged(Bumped([s EXCEPT
               !.conflicts[k].open = FALSE,
               !.voices[c] = IF s.characters[c].status = "absent" THEN @ ELSE voice,
               !.characters[c].voice =
                 IF s.characters[c].status = "absent" THEN @ ELSE "ready"]), "voice_resolved")
  PROVE  Goes(s, n) /\ Covers(s, n)
<1> DEFINE absent == s.characters[c].status = "absent"
           conflicts == [s.conflicts EXCEPT ![k].open = FALSE]
           voices == [s.voices EXCEPT ![c] = IF absent THEN @ ELSE voice]
           characters == [s.characters EXCEPT ![c].voice = IF absent THEN @ ELSE "ready"]
           m == [s EXCEPT !.conflicts = conflicts, !.voices = voices, !.characters = characters]
<1>0. s \in Tables
  BY DEF Sound
<1>1. n = Logged(Bumped(m), "voice_resolved")
  OBVIOUS
<1>2. /\ s.conflicts \in Seq(Conflict) /\ s.voices \in [Ids -> Voices \cup {NoVoice}]
      /\ s.characters \in [Ids -> Character]
  BY <1>0, FieldsOfTables
<1>3. s.conflicts[k] \in Conflict
  BY <1>2
<1>4. c \in Ids
  BY <1>3 DEF Conflict
<1>5. conflicts \in Seq(Conflict)
  <2>1. [s.conflicts[k] EXCEPT !.open = FALSE] \in Conflict
    BY <1>3 DEF Conflict
  <2> QED BY <1>2, <2>1
<1>6. voices \in [Ids -> Voices \cup {NoVoice}]
  <2> HIDE DEF absent
  <2>1. s.voices[c] \in Voices \cup {NoVoice}
    BY <1>2, <1>4
  <2> QED BY <1>2, <1>4, <2>1
<1>7. characters \in [Ids -> Character]
      /\ \A d \in Ids : characters[d].status = s.characters[d].status
                        /\ characters[d].into = s.characters[d].into
  <2> HIDE DEF absent
  <2>1. s.characters[c] \in Character
    BY <1>2, <1>4
  <2>2. [s.characters[c] EXCEPT !.voice = IF absent THEN @ ELSE "ready"] \in Character
    BY <2>1 DEF Character
  <2>3. ASSUME NEW d \in Ids
        PROVE  characters[d].status = s.characters[d].status
               /\ characters[d].into = s.characters[d].into
    <3>1. CASE d = c
      BY <1>2, <2>1, <3>1 DEF Character
    <3>2. CASE d # c
      BY <1>2, <3>2
    <3> QED BY <3>1, <3>2
  <2> QED BY <1>2, <2>2, <2>3
<1>8. EndsSomewhere(characters)
  <2> HIDE DEF characters
  <2> QED BY <1>7, FewerMerged DEF Sound
<1> HIDE DEF conflicts, voices, characters
<1>9. m \in Tables
  <2>1. [s EXCEPT !.conflicts = conflicts] \in Tables
    BY <1>0, <1>5, OneField
  <2>2. [s EXCEPT !.conflicts = conflicts, !.voices = voices] \in Tables
    BY <2>1, <1>6, OneField
  <2> QED BY <2>2, <1>7, OneField
<1>10. /\ m.revision = s.revision /\ m.proposals = s.proposals /\ m.snapshots = s.snapshots
       /\ m.characters = characters
  BY <1>0, FieldsOfTables DEF Columns
<1> HIDE DEF m
<1> QED BY <1>1, <1>8, <1>9, <1>10, Changed

-----------------------------------------------------------------------------
(* Migration *)

LEMMA SnapshotTaken ==
  ASSUME NEW s, Sound(s), NEW voices \in [Ids -> Voices \cup {NoVoice}], NEW n,
         n = [s EXCEPT !.snapshots = Append(@, Snapshot(s, voices))]
  PROVE  Goes(s, n) /\ Covers(s, n)
<1> DEFINE row == Snapshot(s, voices)
<1>0. s \in Tables /\ s.snapshots \in Seq(SnapshotRow) /\ s.revision \in Nat
  BY FieldsOfTables DEF Sound
<1>1. row \in SnapshotRow /\ row.characters = s.characters
  BY <1>0, FieldsOfTables DEF Snapshot, SnapshotRow
<1> HIDE DEF row
<1>2. /\ Append(s.snapshots, row) \in Seq(SnapshotRow)
      /\ \A i \in DOMAIN Append(s.snapshots, row) :
           \/ i \in DOMAIN s.snapshots /\ Append(s.snapshots, row)[i] = s.snapshots[i]
           \/ Append(s.snapshots, row)[i] = row
  BY <1>0, <1>1
<1> DEFINE x == Append(s.snapshots, row)
<1>3. n = [s EXCEPT !.snapshots = x]
  BY DEF row
<1>4. n \in Tables
  BY <1>0, <1>2, <1>3, OneField
<1>5. /\ n.revision = s.revision /\ n.proposals = s.proposals /\ n.snapshots = x
      /\ n.characters = s.characters /\ n.aliases = s.aliases /\ n.conflicts = s.conflicts
  BY <1>0, <1>3, FieldsOfTables DEF Columns
<1>6. ASSUME NEW i \in DOMAIN n.snapshots PROVE EndsSomewhere(n.snapshots[i].characters)
  BY <1>1, <1>2, <1>5 DEF Sound
<1> QED BY <1>0, <1>4, <1>5, <1>6 DEF Goes, Keeps, Sound, Covers, Identity

LEMMA LegacyNames ==
  ASSUME NEW s, Sound(s), NEW made,
         made = [EnsureMeta(s) EXCEPT !.characters = Inserted(@, Legacy, "provisional")]
  PROVE  /\ Goes(s, made)
         /\ made.characters = s.characters => Covers(s, made)
         /\ s.revision < MaxRevision =>
              /\ Goes(s, Logged(Bumped(made), "migration"))
              /\ Covers(s, Logged(Bumped(made), "migration"))
<1>1. Goes(s, made) /\ made.revision = s.revision /\ (made.characters = s.characters => Covers(s, made))
  BY NewCharacters
<1>2. ASSUME s.revision < MaxRevision
      PROVE  /\ Goes(s, Logged(Bumped(made), "migration"))
             /\ Covers(s, Logged(Bumped(made), "migration"))
  <2>1. s.revision \in Nat
    BY FieldsOfTables DEF Sound
  <2>2. Keeps(s, made) /\ made.revision >= s.revision /\ made.revision < MaxRevision
    BY <1>1, <1>2, <2>1 DEF Goes
  <2>3. Goes(s, Bumped(made)) /\ Covers(s, Bumped(made))
    BY <2>2, Bumps
  <2> QED BY <2>3, Logs
<1> QED BY <1>1, <1>2

\* A rollback brings back characters whose merges end, under a new revision.
LEMMA RollbackGoes ==
  ASSUME NEW s, Sound(s), s.revision < MaxRevision, NEW k \in DOMAIN s.snapshots, NEW n,
         n = Logged(Bumped(Restored(s, k)), "migration_rollback")
  PROVE  Goes(s, n) /\ Covers(s, n)
<1> DEFINE row == s.snapshots[k]
           snapshots == [s.snapshots EXCEPT ![k].restored = TRUE]
           m == Restored(s, k)
<1>0. s \in Tables /\ s.snapshots \in Seq(SnapshotRow)
  BY FieldsOfTables DEF Sound
<1>1. m = [s EXCEPT !.characters = row.characters, !.aliases = row.aliases,
                    !.resolved = row.resolved, !.voices = row.voices, !.snapshots = snapshots]
  BY DEF Restored
<1>2. row \in SnapshotRow
  BY <1>0
<1>3. /\ row.characters \in [Ids -> Character] /\ row.aliases \in Seq(Alias)
      /\ row.resolved \in [Segments -> Ids \cup {Nobody, "absent"}]
      /\ row.voices \in [Ids -> Voices \cup {NoVoice}]
  BY <1>2 DEF SnapshotRow
<1>4. snapshots \in Seq(SnapshotRow) /\ DOMAIN snapshots = DOMAIN s.snapshots
  <2>1. [row EXCEPT !.restored = TRUE] \in SnapshotRow
    <3> HIDE DEF row
    <3> QED BY <1>2 DEF SnapshotRow
  <2> QED BY <1>0, <2>1
<1>5. \A i \in DOMAIN s.snapshots : snapshots[i].characters = s.snapshots[i].characters
  <2> SUFFICES ASSUME NEW i \in DOMAIN s.snapshots
               PROVE  snapshots[i].characters = s.snapshots[i].characters
    OBVIOUS
  <2>1. s.snapshots[i] \in SnapshotRow
    BY <1>0
  <2>2. CASE i = k
    BY <1>0, <2>1, <2>2 DEF SnapshotRow
  <2>3. CASE i # k
    BY <1>0, <2>3
  <2> QED BY <2>2, <2>3
<1>6. EndsSomewhere(row.characters)
  BY DEF Sound
<1> HIDE DEF row, snapshots
<1>7. m \in Tables
  <2>1. [s EXCEPT !.characters = row.characters] \in Tables
    BY <1>0, <1>3, OneField
  <2>2. [s EXCEPT !.characters = row.characters, !.aliases = row.aliases] \in Tables
    BY <2>1, <1>3, OneField
  <2>3. [s EXCEPT !.characters = row.characters, !.aliases = row.aliases,
                  !.resolved = row.resolved] \in Tables
    BY <2>2, <1>3, OneField
  <2>4. [s EXCEPT !.characters = row.characters, !.aliases = row.aliases,
                  !.resolved = row.resolved, !.voices = row.voices] \in Tables
    BY <2>3, <1>3, OneField
  <2> QED BY <1>1, <2>4, <1>4, OneField
<1>8. /\ m.revision = s.revision /\ m.proposals = s.proposals /\ m.snapshots = snapshots
      /\ m.characters = row.characters
  BY <1>0, <1>1, FieldsOfTables DEF Columns
<1>9. n = Logged(Bumped(m), "migration_rollback")
  OBVIOUS
<1> HIDE DEF m
<1> QED BY <1>4, <1>5, <1>6, <1>7, <1>8, <1>9, Changed

-----------------------------------------------------------------------------
(* The invariant *)

\* A proposal in hand is there; and one that was judged safe is so while the
\* revision is the one it was judged at.
InHand(t) ==
  task[t].phase \in {"merging", "marking"} =>
    /\ task[t].proposal \in DOMAIN work.proposals
    /\ task[t].phase = "merging" =>
         /\ task[t].revision =< work.revision
         /\ task[t].revision = work.revision /\ ~task[t].forced =>
              proposal_safe(work, work.proposals[task[t].proposal])

RegistryInv ==
  /\ TablesOK
  /\ holder = Nobody => work = store
  /\ Sound(store) /\ Sound(work)
  /\ \A t \in Threads : InHand(t)

\* What is judged safe stays so at the same revision.
LEMMA StaysSafe ==
  ASSUME NEW s, Sound(s), NEW n, Goes(s, n), n.revision = s.revision,
         NEW k \in DOMAIN s.proposals, proposal_safe(s, s.proposals[k])
  PROVE  proposal_safe(n, n.proposals[k])
<1>1. s.proposals[k] \in Proposal
  BY FieldsOfTables DEF Sound
<1>2. s.proposals[k].source \in Ids /\ s.proposals[k].target \in Ids
  BY <1>1 DEF Proposal
<1>3. /\ n.proposals[k].source = s.proposals[k].source
      /\ n.proposals[k].target = s.proposals[k].target
      /\ n.proposals[k].sure = s.proposals[k].sure
      /\ n.aliases = s.aliases /\ n.conflicts = s.conflicts
  BY DEF Goes, Keeps
<1>4. /\ n.characters[n.proposals[k].source].status = s.characters[s.proposals[k].source].status
      /\ n.characters[n.proposals[k].target].status = s.characters[s.proposals[k].target].status
  BY <1>2, <1>3 DEF Goes, proposal_safe
<1> QED BY <1>3, <1>4 DEF proposal_safe, OpenConflict

LEMMA HandsGoOn ==
  ASSUME TablesOK, Sound(work), NEW t \in Threads, InHand(t), Goes(work, work'),
         task'[t] = task[t]
  PROVE  InHand(t)'
<1>1. work.revision \in Nat
  BY FieldsOfTables DEF Sound
<1>2. work'.revision \in Nat
  BY FieldsOfTables DEF Goes, Keeps, Sound
<1> SUFFICES ASSUME task[t].phase \in {"merging", "marking"}
             PROVE  /\ task[t].proposal \in DOMAIN work'.proposals
                    /\ task[t].phase = "merging" =>
                         /\ task[t].revision =< work'.revision
                         /\ task[t].revision = work'.revision /\ ~task[t].forced =>
                              proposal_safe(work', work'.proposals[task[t].proposal])
  BY DEF InHand
<1>3. task[t].proposal \in DOMAIN work.proposals /\ task[t].proposal \in DOMAIN work'.proposals
  BY DEF InHand, Goes, Keeps
<1>4. task[t].revision \in Nat
  BY RegistryBounds DEF TablesOK, Task
<1>5. ASSUME task[t].phase = "merging"
      PROVE  task[t].revision =< work'.revision
  BY <1>1, <1>2, <1>4, <1>5 DEF InHand, Goes
<1>6. ASSUME task[t].phase = "merging", task[t].revision = work'.revision, ~task[t].forced
      PROVE  proposal_safe(work', work'.proposals[task[t].proposal])
  <2>1. task[t].revision =< work.revision /\ work'.revision >= work.revision
    BY <1>6 DEF InHand, Goes
  <2>2. work'.revision = work.revision /\ task[t].revision = work.revision
    BY <1>1, <1>2, <1>4, <1>6, <2>1
  <2>3. proposal_safe(work, work.proposals[task[t].proposal])
    BY <1>6, <2>2 DEF InHand
  <2> QED BY <1>3, <2>2, <2>3, StaysSafe
<1> QED BY <1>3, <1>5, <1>6

\* What a thread has in hand after a step of any.
Hands(u) ==
  \/ task'[u] = task[u]
  \/ task'[u].phase \notin {"merging", "marking"}
  \/ task'[u].phase = "merging" /\ task[u].phase = "idle" /\ InHand(u)'
  \/ /\ task'[u].phase = "marking" /\ InHand(u)'
     /\ ~task[u].forced => proposal_safe(View(u), View(u).proposals[task[u].proposal])

\* What any step of a thread does.
Advances ==
  /\ Goes(work, work')
  /\ \/ store' = work' /\ holder' = Nobody /\ Covers(work, work')
     \/ store' = store /\ holder' \in Threads
     \/ UNCHANGED <<store, work, holder>>
  /\ task' \in [Threads -> Task]
  /\ \A u \in Threads : Hands(u)

\* Whatever step of a thread advances keeps the invariant.
LEMMA Advance ==
  ASSUME RegistryInv, Advances
  PROVE  RegistryInv'
<1>1. Sound(work') /\ Sound(store')
  BY DEF Advances, Goes, Keeps, RegistryInv
<1>2. TablesOK'
  BY <1>1 DEF Advances, TablesOK, Sound, RegistryInv
<1>3. (holder = Nobody => work = store)'
  BY Names DEF Advances, RegistryInv
<1>4. ASSUME NEW u \in Threads PROVE InHand(u)'
  <2>1. Hands(u) /\ InHand(u) /\ Goes(work, work') /\ TablesOK /\ Sound(work)
    BY DEF Advances, RegistryInv
  <2>2. CASE task'[u] = task[u]
    BY <2>1, <2>2, HandsGoOn
  <2>3. CASE task'[u].phase \notin {"merging", "marking"}
    BY <2>3 DEF InHand
  <2> QED BY <2>1, <2>2, <2>3 DEF Hands
<1> QED BY <1>1, <1>2, <1>3, <1>4 DEF RegistryInv

\* Who may write sees the tables of the open transaction, or what is committed.
LEMMA WriterSees ==
  ASSUME RegistryInv, NEW t \in Threads, MayWrite(t)
  PROVE  View(t) = work /\ Sound(work) /\ work \in Tables
BY DEF RegistryInv, MayWrite, View, Sound

LEMMA QuietTask ==
  ASSUME RegistryInv, UNCHANGED task
  PROVE  task' \in [Threads -> Task] /\ \A u \in Threads : Hands(u)
BY DEF RegistryInv, TablesOK, Hands

LEMMA Commits ==
  ASSUME RegistryInv, NEW n, Goes(work, n), Covers(work, n), Commit(n),
         task' \in [Threads -> Task], \A u \in Threads : Hands(u)
  PROVE  Advances
BY DEF Commit, Advances

LEMMA CommitsQuietly ==
  ASSUME RegistryInv, NEW n, Goes(work, n) /\ Covers(work, n), Commit(n), UNCHANGED task
  PROVE  Advances
BY QuietTask, Commits

LEMMA Refuses ==
  ASSUME RegistryInv, NEW t \in Threads, NEW n, Goes(work, n), Refuse(t, n)
  PROVE  Advances
BY QuietTask DEF Refuse, Advances

LEMMA OnlyTask ==
  ASSUME RegistryInv, UNCHANGED <<store, work, holder>>,
         task' \in [Threads -> Task], \A u \in Threads : Hands(u)
  PROVE  Advances
BY Stays DEF RegistryInv, Advances

LEMMA NoTaskIsATask == NoTask \in Task
<1>1. FirstVoice \in [Ids -> Voices \cup {NoVoice}]
  BY InputAssumption
<1> HIDE DEF Voices
<1>2. 0 \in 0 .. MaxProposals /\ 0 \in 0 .. MaxRevision
  BY RegistryBounds
<1> QED BY <1>1, <1>2 DEF NoTask, Task

\* A step that changes what one thread does.
LEMMA OneTask ==
  ASSUME RegistryInv, NEW t \in Threads, NEW new \in Task, task' = [task EXCEPT ![t] = new],
         Hands(t)
  PROVE  task' \in [Threads -> Task] /\ \A u \in Threads : Hands(u)
<1>1. task \in [Threads -> Task]
  BY DEF RegistryInv, TablesOK
<1>2. ASSUME NEW u \in Threads, u # t PROVE task'[u] = task[u]
  BY <1>1, <1>2
<1>3. \A u \in Threads : Hands(u)
  BY <1>2 DEF Hands
<1> QED BY <1>1, <1>3

LEMMA NextPhase ==
  ASSUME RegistryInv, NEW t \in Threads,
         NEW phase \in {"idle", "merging", "marking", "snapshot", "registering", "legacy"},
         Goto(t, phase)
  PROVE  \E new \in Task : /\ task' = [task EXCEPT ![t] = new] /\ task'[t] = new
                           /\ new = [task[t] EXCEPT !.phase = phase] /\ new.phase = phase
                           /\ new.proposal = task[t].proposal
<1>1. task \in [Threads -> Task] /\ task[t] \in Task
  BY DEF RegistryInv, TablesOK
<1>2. /\ [task[t] EXCEPT !.phase = phase] \in Task
      /\ [task[t] EXCEPT !.phase = phase].phase = phase
      /\ [task[t] EXCEPT !.phase = phase].proposal = task[t].proposal
  BY <1>1 DEF Task
<1>3. task' = [task EXCEPT ![t] = [task[t] EXCEPT !.phase = phase]]
  BY DEF Goto
<1>4. task'[t] = [task[t] EXCEPT !.phase = phase]
  BY <1>1, <1>3
<1> QED BY <1>2, <1>3, <1>4

-----------------------------------------------------------------------------
(* The steps *)

LEMMA RegisterSteps ==
  ASSUME RegistryInv, NEW t \in Threads, NEW a \in Analyses, Register(t, a)
  PROVE  Advances
<1>1. View(t) = work /\ Sound(work)
  BY WriterSees DEF Register
<1> DEFINE n == Registered(work, a)
<1>2. n.revision =< MaxRevision /\ Commit(n) /\ UNCHANGED task
  BY <1>1 DEF Register
<1>3. Goes(work, n) /\ Covers(work, n)
  BY <1>1, <1>2, RegisteredGoes
<1> HIDE DEF n
<1> QED BY <1>2, <1>3, CommitsQuietly

LEMMA RefusesFirst ==
  ASSUME RegistryInv, NEW t \in Threads, MayWrite(t), Refuse(t, EnsureMeta(View(t)))
  PROVE  Advances
<1>1. View(t) = work /\ Sound(work)
  BY WriterSees
<1>2. Goes(work, EnsureMeta(work))
  BY <1>1, Stays, Ensures
<1> QED BY <1>1, <1>2, Refuses

LEMMA AliasSteps ==
  ASSUME RegistryInv, NEW t \in Threads, NEW surface \in Surfaces,
         NEW target \in Ids \cup {Nobody}, NEW scope \in {"chapter", "book", "unresolved"},
         assign_alias(t, surface, target, scope)
  PROVE  Advances
<1>1. MayWrite(t) /\ View(t) = work /\ Sound(work) /\ work.revision < MaxRevision
  BY WriterSees DEF assign_alias, Correction
<1> DEFINE status == IF target # Nobody /\ scope # "unresolved" THEN "accepted" ELSE "unresolved"
           n == Logged(Bumped([work EXCEPT !.aliases =
                  Upserted(@, <<AliasRow(surface, target, scope, status)>>)]), "alias_assigned")
<1>2. Refuse(t, EnsureMeta(View(t))) \/ (Commit(n) /\ UNCHANGED task)
  BY Zenon, <1>1 DEF assign_alias
<1>3. CASE Refuse(t, EnsureMeta(View(t)))
  BY <1>1, <1>3, RefusesFirst
<1>4. CASE Commit(n) /\ UNCHANGED task
  <2>1. status \in {"accepted", "unresolved"}
    OBVIOUS
  <2> HIDE DEF status
  <2>2. Goes(work, n) /\ Covers(work, n)
    BY <1>1, <2>1, AliasAssigned
  <2> HIDE DEF n
  <2> QED BY <1>4, <2>2, CommitsQuietly
<1> QED BY <1>2, <1>3, <1>4

LEMMA ProposeSteps ==
  ASSUME RegistryInv, NEW t \in Threads, NEW source \in Ids, NEW target \in Ids,
         NEW sure \in BOOLEAN, propose_reconciliation(t, source, target, sure)
  PROVE  Advances
<1>1. View(t) = work /\ Sound(work)
  BY WriterSees DEF propose_reconciliation
<1> DEFINE n == [EnsureMeta(work) EXCEPT !.proposals = Append(@,
             [source |-> source, target |-> target, sure |-> sure, revision |-> work.revision,
              status |-> "pending"])]
<1>2. Goes(work, n) /\ Covers(work, n)
  BY <1>1, ProposalMade
<1>3. Commit(n) /\ UNCHANGED task
  BY <1>1 DEF propose_reconciliation
<1> HIDE DEF n
<1> QED BY <1>2, <1>3, CommitsQuietly

LEMMA AcceptSteps ==
  ASSUME RegistryInv, NEW t \in Threads, NEW k \in 1 .. MaxProposals, NEW forced \in BOOLEAN,
         accept_proposal(t, k, forced)
  PROVE  Advances
<1>1. /\ View(t) = work /\ Sound(work) /\ work \in Tables /\ k \in DOMAIN work.proposals
      /\ task[t] = NoTask
  BY WriterSees DEF accept_proposal, Correction
<1>2. CASE proposal_safe(work, work.proposals[k]) \/ forced
  <2> DEFINE new == [NoTask EXCEPT !.phase = "merging", !.proposal = k,
                                   !.revision = work.revision, !.forced = forced]
  <2>1. task' = [task EXCEPT ![t] = new] /\ UNCHANGED <<store, work, holder>>
    BY <1>1, <1>2 DEF accept_proposal
  <2>2. work.revision \in 0 .. MaxRevision /\ work.revision \in Nat
    BY <1>1, FieldsOfTables
  <2>3. k \in 0 .. MaxProposals
    BY RegistryBounds
  <2>4. /\ new \in Task /\ new.phase = "merging" /\ new.proposal = k
        /\ new.revision = work.revision /\ new.forced = forced
    <3>1. NoTask \in Task
      BY NoTaskIsATask
    <3>2. [NoTask EXCEPT !.phase = "merging"] \in Task
      BY <3>1 DEF Task
    <3>3. [NoTask EXCEPT !.phase = "merging", !.proposal = k] \in Task
      BY <3>2, <2>3 DEF Task
    <3>4. [NoTask EXCEPT !.phase = "merging", !.proposal = k, !.revision = work.revision] \in Task
      BY <3>3, <2>2 DEF Task
    <3>5. new \in Task
      BY <3>4 DEF Task
    <3> QED BY <3>1, <3>5 DEF NoTask
  <2> HIDE DEF new
  <2>5. task'[t] = new
    BY <2>1 DEF RegistryInv, TablesOK
  <2>6. task'[t].phase = "merging" /\ task[t].phase = "idle"
    BY <1>1, <2>4, <2>5 DEF NoTask
  <2>7. InHand(t)'
    <3>1. work' = work /\ work.revision =< work.revision
      BY <2>1, <2>2
    <3>2. ~forced => proposal_safe(work, work.proposals[k])
      BY <1>2
    <3> QED BY <1>1, <2>4, <2>5, <3>1, <3>2 DEF InHand
  <2>8. Hands(t)
    BY <2>6, <2>7 DEF Hands
  <2> QED BY <2>1, <2>4, <2>8, OneTask, OnlyTask
<1>3. CASE ~ (proposal_safe(work, work.proposals[k]) \/ forced)
  <2>1. PICK status \in {"pending", "unresolved"} :
          Commit([work EXCEPT !.proposals[k].status = status])
    BY <1>1, <1>3 DEF accept_proposal
  <2> DEFINE n == [work EXCEPT !.proposals[k].status = status]
  <2>2. Goes(work, n) /\ Covers(work, n)
    BY <1>1, ProposalMarked
  <2>3. Commit(n) /\ UNCHANGED task
    BY <1>1, <1>3, <2>1 DEF accept_proposal
  <2> HIDE DEF n
  <2> QED BY <2>2, <2>3, CommitsQuietly
<1> QED BY <1>2, <1>3

LEMMA MergeSteps ==
  ASSUME RegistryInv, NEW t \in Threads, NEW source \in Ids, NEW target \in Ids,
         merge_characters(t, source, target)
  PROVE  Advances
<1>1. /\ MayWrite(t) /\ View(t) = work /\ Sound(work) /\ work.revision < MaxRevision
      /\ source # target
  BY WriterSees DEF merge_characters, Correction
<1>2. CASE MergeCommits(View(t), source, target) /\ UNCHANGED task
  <2> DEFINE n == Logged(Bumped(Merged(work, source, target)), "merge")
  <2>1. Mergeable(work, source, target) /\ Commit(n)
    BY <1>1, <1>2 DEF MergeCommits
  <2>2. Goes(work, n) /\ Covers(work, n)
    BY <1>1, <2>1, MergeGoes
  <2> HIDE DEF n
  <2> QED BY <1>2, <2>1, <2>2, CommitsQuietly
<1>3. CASE Refuse(t, EnsureMeta(View(t)))
  BY <1>1, <1>3, RefusesFirst
<1> QED BY <1>2, <1>3 DEF merge_characters

LEMMA MergeProposalSteps ==
  ASSUME RegistryInv, NEW t \in Threads, MergeProposal(t)
  PROVE  Advances
<1> DEFINE k == task[t].proposal
           p == work.proposals[k]
<1>1. View(t) = work /\ Sound(work) /\ task[t].phase = "merging" /\ MayWrite(t)
  BY WriterSees DEF MergeProposal
<1>2. InHand(t) /\ k \in DOMAIN work.proposals
  BY <1>1 DEF RegistryInv, InHand
<1>3. p.source \in Ids /\ p.target \in Ids
  <2>1. p \in Proposal
    BY <1>1, <1>2, FieldsOfTables DEF Sound
  <2> QED BY <2>1 DEF Proposal
<1>4. CASE /\ SameRevision(work, task[t].revision) /\ work.revision < MaxRevision
           /\ p.source # p.target /\ MergeCommits(work, p.source, p.target)
           /\ Goto(t, "marking")
  <2> DEFINE n == Logged(Bumped(Merged(work, p.source, p.target)), "merge")
  <2>1. Mergeable(work, p.source, p.target) /\ Commit(n)
    BY <1>4 DEF MergeCommits
  <2>2. Goes(work, n) /\ Covers(work, n)
    BY <1>1, <1>3, <1>4, <2>1, MergeGoes
  <2> HIDE DEF n
  <2>3. PICK new \in Task : /\ task' = [task EXCEPT ![t] = new] /\ task'[t] = new
                            /\ new.phase = "marking" /\ new.proposal = k
    BY <1>4, NextPhase
  <2>4. InHand(t)'
    <3>1. k \in DOMAIN work'.proposals
      BY <1>2, <2>1, <2>2 DEF Commit, Goes, Keeps
    <3> QED BY <2>3, <3>1 DEF InHand
  <2>5. ~task[t].forced => proposal_safe(work, p)
    BY <1>1, <1>2, <1>4 DEF InHand, SameRevision
  <2>6. Hands(t)
    BY <1>1, <2>3, <2>4, <2>5 DEF Hands
  <2> QED BY <2>1, <2>2, <2>3, <2>6, OneTask, Commits
<1>5. CASE task' = [task EXCEPT ![t] = NoTask] /\ UNCHANGED <<store, work, holder>>
  <2>1. NoTask \in Task /\ task'[t] = NoTask
    BY <1>5, NoTaskIsATask DEF RegistryInv, TablesOK
  <2>2. Hands(t)
    BY <2>1 DEF Hands, NoTask
  <2> QED BY <1>5, <2>1, <2>2, OneTask, OnlyTask
<1> QED BY <1>1, <1>4, <1>5 DEF MergeProposal

LEMMA MarkSteps ==
  ASSUME RegistryInv, NEW t \in Threads, MarkAccepted(t)
  PROVE  Advances
<1> DEFINE k == task[t].proposal
           n == [work EXCEPT !.proposals[k].status = "accepted"]
<1>1. View(t) = work /\ Sound(work) /\ task[t].phase = "marking"
  BY WriterSees DEF MarkAccepted
<1>2. k \in DOMAIN work.proposals
  BY <1>1 DEF RegistryInv, InHand
<1>3. Goes(work, n) /\ Covers(work, n)
  <2> HIDE DEF k
  <2> QED BY <1>1, <1>2, ProposalMarked
<1>4. Commit(n) /\ task' = [task EXCEPT ![t] = NoTask]
  BY <1>1 DEF MarkAccepted
<1> HIDE DEF n
<1>5. NoTask \in Task /\ task'[t] = NoTask
  BY <1>4, NoTaskIsATask DEF RegistryInv, TablesOK
<1>6. Hands(t)
  BY <1>5 DEF Hands, NoTask
<1> QED BY <1>3, <1>4, <1>5, <1>6, OneTask, Commits

LEMMA SplitSteps ==
  ASSUME RegistryInv, NEW t \in Threads, NEW source \in Ids, NEW mapping, Range(mapping) \subseteq Ids,
         NEW complete \in BOOLEAN, split_character(t, source, mapping, complete)
  PROVE  Advances
<1>1. /\ View(t) = work /\ Sound(work) /\ work.revision < MaxRevision
      /\ work.characters[source].status \in {"active", "merged"}
  BY WriterSees DEF split_character, Correction
<1>2. CASE complete
  <2> DEFINE n == Logged(Bumped([Targeted(work, source, mapping)
                            EXCEPT !.characters[source].status = "split"]), "split")
  <2>1. Commit(n) /\ UNCHANGED task
    BY <1>1, <1>2 DEF split_character
  <2>2. Goes(work, n) /\ Covers(work, n)
    BY <1>1, SplitGoes
  <2> HIDE DEF n
  <2> QED BY <2>1, <2>2, CommitsQuietly
<1>3. CASE ~complete
  <2> DEFINE n == EnsureMeta(Targeted(work, source, mapping))
  <2>1. Refuse(t, n)
    BY <1>1, <1>3 DEF split_character
  <2>2. Goes(work, n)
    BY <1>1, TargetsGo, Ensures
  <2> HIDE DEF n
  <2> QED BY <2>1, <2>2, Refuses
<1> QED BY <1>2, <1>3

LEMMA ConflictSteps ==
  ASSUME RegistryInv, NEW t \in Threads, NEW k \in 1 .. Len(View(t).conflicts), NEW voice \in Voices,
         resolve_voice_conflict(t, k, voice)
  PROVE  Advances
<1>1. /\ MayWrite(t) /\ View(t) = work /\ Sound(work) /\ work.revision < MaxRevision
      /\ k \in DOMAIN work.conflicts
  BY WriterSees DEF resolve_voice_conflict, Correction
<1> DEFINE c == work.conflicts[k].character
           n == Logged(Bumped([work EXCEPT
                  !.conflicts[k].open = FALSE,
                  !.voices[c] = IF work.characters[c].status = "absent" THEN @ ELSE voice,
                  !.characters[c].voice =
                    IF work.characters[c].status = "absent" THEN @ ELSE "ready"]), "voice_resolved")
<1>2. Refuse(t, EnsureMeta(View(t))) \/ (Commit(n) /\ UNCHANGED task)
  BY <1>1 DEF resolve_voice_conflict
<1>3. CASE Refuse(t, EnsureMeta(View(t)))
  BY <1>1, <1>3, RefusesFirst
<1>4. CASE Commit(n) /\ UNCHANGED task
  <2> HIDE DEF c
  <2>2. Goes(work, n) /\ Covers(work, n)
    BY <1>1, ConflictResolved DEF c
  <2> HIDE DEF n
  <2> QED BY <1>4, <2>2, CommitsQuietly
<1> QED BY <1>2, <1>3, <1>4

\* A phase that holds no proposal.
LEMMA Moves ==
  ASSUME RegistryInv, NEW t \in Threads, NEW phase \in {"idle", "snapshot", "registering", "legacy"},
         Goto(t, phase)
  PROVE  task' \in [Threads -> Task] /\ \A u \in Threads : Hands(u)
<1>1. PICK new \in Task : /\ task' = [task EXCEPT ![t] = new] /\ task'[t] = new
                          /\ new.phase = phase
  BY NextPhase
<1>2. Hands(t)
  BY <1>1 DEF Hands
<1> QED BY <1>1, <1>2, OneTask

LEMMA StartSteps ==
  ASSUME RegistryInv, NEW t \in Threads, StartMigration(t)
  PROVE  Advances
<1> DEFINE voices == View(t).voices
           new == [NoTask EXCEPT !.phase = "snapshot", !.left = Analyses, !.voices = voices]
<1>1. voices \in [Ids -> Voices \cup {NoVoice}]
  BY FieldsOfTables DEF View, RegistryInv, TablesOK
<1>2. task' = [task EXCEPT ![t] = new] /\ UNCHANGED <<store, work, holder>>
  BY DEF StartMigration
<1> HIDE DEF voices
<1>3. new \in Task /\ new.phase = "snapshot"
  <2>1. NoTask \in Task
    BY NoTaskIsATask
  <2> HIDE DEF NoTask
  <2>2. [NoTask EXCEPT !.phase = "snapshot"] \in Task
        /\ [NoTask EXCEPT !.phase = "snapshot"].phase = "snapshot"
    BY <2>1 DEF Task
  <2>3. [NoTask EXCEPT !.phase = "snapshot", !.left = Analyses] \in Task
        /\ [NoTask EXCEPT !.phase = "snapshot", !.left = Analyses].phase = "snapshot"
    BY <2>2 DEF Task
  <2> QED BY <1>1, <2>3 DEF Task
<1> HIDE DEF new
<1>4. task'[t] = new
  BY <1>2 DEF RegistryInv, TablesOK
<1>5. Hands(t)
  BY <1>3, <1>4 DEF Hands
<1> QED BY <1>2, <1>3, <1>5, OneTask, OnlyTask

LEMMA SnapshotSteps ==
  ASSUME RegistryInv, NEW t \in Threads, TakeSnapshot(t)
  PROVE  Advances
<1> DEFINE n == [work EXCEPT !.snapshots = Append(@, Snapshot(work, task[t].voices))]
<1>1. View(t) = work /\ Sound(work)
  BY WriterSees DEF TakeSnapshot
<1>2. task[t].voices \in [Ids -> Voices \cup {NoVoice}]
  BY DEF RegistryInv, TablesOK, Task
<1>3. Goes(work, n) /\ Covers(work, n)
  BY <1>1, <1>2, SnapshotTaken
<1>4. Commit(n) /\ Goto(t, "registering")
  BY <1>1 DEF TakeSnapshot
<1> HIDE DEF n
<1> QED BY <1>3, <1>4, Moves, Commits

LEMMA ArtifactSteps ==
  ASSUME RegistryInv, NEW t \in Threads, MigrateArtifact(t)
  PROVE  Advances
<1>1. View(t) = work /\ Sound(work) /\ task[t].phase = "registering"
  BY WriterSees DEF MigrateArtifact
<1>2. CASE task[t].left = {}
  <2>1. Goto(t, "legacy") /\ UNCHANGED <<store, work, holder>>
    BY <1>2 DEF MigrateArtifact
  <2> QED BY <2>1, Moves, OnlyTask
<1>3. CASE task[t].left # {}
  <2> DEFINE a == CHOOSE x \in task[t].left : \A y \in task[t].left : x =< y
             n == Registered(work, a)
             new == [task[t] EXCEPT !.left = @ \ {a}]
  <2>1. task \in [Threads -> Task] /\ task[t] \in Task
    BY DEF RegistryInv, TablesOK
  <2>2. a \in Analyses
    <3> DEFINE S == task[t].left
               f == [x \in S |-> x]
    <3>1. S \subseteq Analyses
      BY <2>1 DEF Task
    <3>2. IsFiniteSet(S) /\ S # {} /\ \A x \in S : x \in Nat
      BY <1>3, <3>1, ArtifactAssumption, FS_Subset
    <3> HIDE DEF S
    <3>3. f \in [S -> Nat] /\ \A x, y \in S : f[x] = f[y] => x = y
      BY <3>2
    <3>4. \E x \in S : \A y \in S : f[x] =< f[y]
      <4> HIDE DEF f
      <4> QED BY <3>2, <3>3, LargestOf
    <3>5. \E x \in S : \A y \in S : x =< y
      BY <3>4
    <3>6. (CHOOSE x \in S : \A y \in S : x =< y) \in S
      BY <3>5
    <3> QED BY <3>1, <3>6 DEF S
  <2>3. /\ (n.revision =< MaxRevision /\ Commit(n)) \/ UNCHANGED <<store, work, holder>>
        /\ task' = [task EXCEPT ![t] = new]
    BY <1>1, <1>3 DEF MigrateArtifact
  <2> HIDE DEF a
  <2>4. new \in Task /\ new.phase = "registering"
    BY <1>1, <2>1 DEF Task
  <2> HIDE DEF new
  <2>5. task'[t] = new
    BY <2>1, <2>3
  <2>6. Hands(t)
    BY <2>4, <2>5 DEF Hands
  <2>7. task' \in [Threads -> Task] /\ \A u \in Threads : Hands(u)
    BY <2>3, <2>4, <2>6, OneTask
  <2>8. CASE n.revision =< MaxRevision /\ Commit(n)
    <3>1. Goes(work, n) /\ Covers(work, n)
      BY <1>1, <2>2, <2>8, RegisteredGoes
    <3> HIDE DEF n
    <3> QED BY <2>7, <2>8, <3>1, Commits
  <2>9. CASE UNCHANGED <<store, work, holder>>
    BY <2>7, <2>9, OnlyTask
  <2> QED BY <2>3, <2>8, <2>9
<1> QED BY <1>2, <1>3

LEMMA LegacySteps ==
  ASSUME RegistryInv, NEW t \in Threads, MigrateLegacy(t)
  PROVE  Advances
<1> DEFINE made == [EnsureMeta(work) EXCEPT !.characters = Inserted(@, Legacy, "provisional")]
           n == Logged(Bumped(made), "migration")
<1>1. View(t) = work /\ Sound(work)
  BY WriterSees DEF MigrateLegacy
<1>2. task' = [task EXCEPT ![t] = NoTask]
  BY DEF MigrateLegacy
<1>3. NoTask \in Task /\ task'[t] = NoTask
  BY <1>2, NoTaskIsATask DEF RegistryInv, TablesOK
<1>4. Hands(t)
  BY <1>3 DEF Hands, NoTask
<1>5. task' \in [Threads -> Task] /\ \A u \in Threads : Hands(u)
  BY <1>2, <1>3, <1>4, OneTask
<1>6. CASE made.characters # work.characters
  <2>1. work.revision < MaxRevision /\ Commit(n)
    BY <1>1, <1>6 DEF MigrateLegacy
  <2>2. Goes(work, n) /\ Covers(work, n)
    <3> HIDE DEF made, n
    <3> QED BY <1>1, <2>1, LegacyNames DEF made, n
  <2> HIDE DEF n
  <2> QED BY <1>5, <2>1, <2>2, Commits
<1>7. CASE made.characters = work.characters
  <2>1. work' = made /\ holder' = (IF made = work THEN holder ELSE t) /\ UNCHANGED store
    BY <1>1, <1>7 DEF MigrateLegacy
  <2>2. Goes(work, made)
    BY <1>1, LegacyNames
  <2> HIDE DEF made
  <2> QED BY <1>5, <2>1, <2>2 DEF Advances
<1> QED BY <1>6, <1>7

LEMMA RollbackSteps ==
  ASSUME RegistryInv, NEW t \in Threads, NEW k \in 1 .. MaxSnapshots, rollback_migration(t, k)
  PROVE  Advances
<1> DEFINE n == Logged(Bumped(Restored(work, k)), "migration_rollback")
<1>1. /\ View(t) = work /\ Sound(work) /\ work.revision < MaxRevision
      /\ k \in DOMAIN work.snapshots
  BY WriterSees DEF rollback_migration
<1>2. Commit(n) /\ UNCHANGED task
  BY <1>1 DEF rollback_migration
<1>3. Goes(work, n) /\ Covers(work, n)
  BY <1>1, RollbackGoes
<1> HIDE DEF n
<1> QED BY <1>2, <1>3, CommitsQuietly

LEMMA CorrectSteps ==
  ASSUME RegistryInv, NEW t \in Threads, Correct(t)
  PROVE  Advances
<1>1. CASE Stale(t)
  BY <1>1, RefusesFirst DEF Stale
<1>2. ASSUME NEW i \in Assigned, assign_alias(t, i[1], i[2], i[3]) PROVE Advances
  <2>1. /\ i[1] \in Surfaces /\ i[2] \in Ids \cup {Nobody}
        /\ i[3] \in {"chapter", "book", "unresolved"}
    BY InputAssumption
  <2> QED BY <1>2, <2>1, AliasSteps
<1>3. ASSUME NEW i \in Pairs PROVE i[1] \in Ids /\ i[2] \in Ids
  BY InputAssumption
<1>4. ASSUME NEW i \in Pairs, merge_characters(t, i[1], i[2]) PROVE Advances
  BY <1>3, <1>4, MergeSteps
<1>5. ASSUME NEW i \in Pairs, NEW sure \in BOOLEAN, propose_reconciliation(t, i[1], i[2], sure)
      PROVE  Advances
  BY <1>3, <1>5, ProposeSteps
<1>6. ASSUME NEW n \in 1 .. MaxProposals, NEW forced \in BOOLEAN, accept_proposal(t, n, forced)
      PROVE  Advances
  BY <1>6, AcceptSteps
<1>7. CASE MergeProposal(t) \/ MarkAccepted(t)
  BY <1>7, MergeProposalSteps, MarkSteps
<1>8. ASSUME NEW i \in Pairs, NEW g \in Segments, NEW complete \in BOOLEAN,
             split_character(t, i[1], [h \in {g} |-> i[2]], complete)
      PROVE  Advances
  <2> DEFINE mapping == [h \in {g} |-> i[2]]
  <2>1. Range(mapping) \subseteq Ids
    BY <1>3 DEF Range
  <2> HIDE DEF mapping
  <2>2. split_character(t, i[1], mapping, complete)
    BY <1>8 DEF mapping
  <2> QED BY <1>3, <2>1, <2>2, SplitSteps
<1>9. ASSUME NEW n \in 1 .. Len(View(t).conflicts), NEW voice \in Voices,
             resolve_voice_conflict(t, n, voice)
      PROVE  Advances
  BY <1>9, ConflictSteps
<1> QED BY <1>1, <1>2, <1>4, <1>5, <1>6, <1>7, <1>8, <1>9 DEF Correct

LEMMA ThreadSteps ==
  ASSUME RegistryInv, NEW t \in Threads,
         Correct(t) \/ Migrate(t) \/ CommitElsewhere(t) \/ \E a \in Analyses : Register(t, a)
  PROVE  Advances
<1>1. CASE Correct(t)
  BY <1>1, CorrectSteps
<1>2. CASE Migrate(t)
  BY <1>2, StartSteps, SnapshotSteps, ArtifactSteps, LegacySteps, RollbackSteps DEF Migrate
<1>3. CASE CommitElsewhere(t)
  <2>1. Goes(work, work) /\ Covers(work, work)
    BY Stays DEF RegistryInv
  <2> QED BY <1>3, <2>1, CommitsQuietly DEF CommitElsewhere
<1>4. CASE \E a \in Analyses : Register(t, a)
  BY <1>4, RegisterSteps
<1> QED BY <1>1, <1>2, <1>3, <1>4

LEMMA Deaths ==
  ASSUME RegistryInv, ProcessDies
  PROVE  RegistryInv'
<1>1. /\ work' = store /\ holder' = Nobody /\ store' = store
      /\ task' = [t \in Threads |-> NoTask]
  BY DEF ProcessDies
<1>2. NoTask \in Task /\ NoTask.phase = "idle"
  BY NoTaskIsATask DEF NoTask
<1> HIDE DEF NoTask
<1>3. TablesOK'
  BY <1>1, <1>2 DEF RegistryInv, TablesOK
<1>4. \A t \in Threads : InHand(t)'
  BY <1>1, <1>2 DEF InHand
<1> QED BY <1>1, <1>3, <1>4 DEF RegistryInv

LEMMA RegistryStarts == RegistryInit => RegistryInv
<1> SUFFICES ASSUME RegistryInit PROVE RegistryInv
  OBVIOUS
<1>1. EmptyStore \in Tables
  <2> DEFINE characters == [c \in Ids |-> IF c \in Confirmed THEN Fresh("active") ELSE NoCharacter]
  <2>1. characters \in [Ids -> Character]
    <3>1. Fresh("active") \in Character /\ NoCharacter \in Character
      BY FreshIs DEF NoCharacter, Character
    <3> HIDE DEF Fresh, NoCharacter
    <3> QED BY <3>1
  <2>2. FirstVoice \in [Ids -> Voices \cup {NoVoice}]
    BY InputAssumption
  <2>3. 0 \in 0 .. MaxRevision
    BY RegistryBounds
  <2> HIDE DEF characters, Voices
  <2> QED BY <2>1, <2>2, <2>3 DEF EmptyStore, Tables, characters
<1>2. \A c \in Ids : EmptyStore.characters[c].status # "merged"
  BY DEF EmptyStore, Fresh, NoCharacter
<1>3. EndsSomewhere(EmptyStore.characters) /\ EmptyStore.snapshots = << >>
  <2> DEFINE x == EmptyStore.characters
  <2>1. \A c \in Ids : x[c].status # "merged"
    BY <1>2
  <2> HIDE DEF x
  <2>2. \A S \in (SUBSET Ids) \ {{}} : \E c \in S : ~ (x[c].status = "merged" /\ x[c].into \in S)
    <3> SUFFICES ASSUME NEW S \in (SUBSET Ids) \ {{}}
                 PROVE  \E c \in S : ~ (x[c].status = "merged" /\ x[c].into \in S)
      OBVIOUS
    <3>1. PICK c \in S : c \in Ids
      OBVIOUS
    <3> QED BY <2>1, <3>1
  <2>3. EndsSomewhere(x)
    BY <2>1, <2>2 DEF EndsSomewhere
  <2>4. EmptyStore.snapshots = << >>
    BY DEF EmptyStore
  <2> QED BY <2>3, <2>4 DEF x
<1>4. Sound(EmptyStore)
  BY <1>1, <1>3 DEF Sound
<1>5. TablesOK
  BY <1>1, NoTaskIsATask DEF RegistryInit, TablesOK
<1>6. \A t \in Threads : InHand(t)
  BY DEF RegistryInit, InHand, NoTask
<1> QED BY <1>4, <1>5, <1>6 DEF RegistryInit, RegistryInv

LEMMA RegistryHolds == RegistrySpec => []RegistryInv
<1>1. RegistryInit => RegistryInv
  BY RegistryStarts
<1>2. RegistryInv /\ [RegistryNext]_registry => RegistryInv'
  <2> SUFFICES ASSUME RegistryInv, [RegistryNext]_registry PROVE RegistryInv'
    OBVIOUS
  <2>1. CASE UNCHANGED registry
    BY <2>1 DEF registry, RegistryInv, TablesOK, InHand
  <2>2. ASSUME NEW t \in Threads,
               Correct(t) \/ Migrate(t) \/ CommitElsewhere(t) \/ \E a \in Analyses : Register(t, a)
        PROVE  RegistryInv'
    BY <2>2, ThreadSteps, Advance
  <2>3. CASE ProcessDies
    BY <2>3, Deaths
  <2> QED BY <2>1, <2>2, <2>3 DEF RegistryNext
<1> QED BY <1>1, <1>2, PTL DEF RegistrySpec

\* Committed or in an open transaction, the tables of the registry hold rows of their
\* types, and every task is one of its kinds.
THEOREM TablesAreTyped == RegistrySpec => []TablesOK
<1>1. RegistryInv => TablesOK
  BY DEF RegistryInv
<1> QED BY <1>1, RegistryHolds, PTL

\* merge_characters, accept_proposal, split_character and rollback_migration leave no
\* cycle of merged characters, and none that is merged into a character that is not there.
THEOREM EveryMergeEnds == RegistrySpec => []MergesEnd
<1>1. RegistryInv => MergesEnd
  BY DEF RegistryInv, Sound, MergesEnd
<1> QED BY <1>1, RegistryHolds, PTL

\* accept_proposal judges in one transaction and merges in another: what it merges
\* without force is safe at the merge, since the revision it compares covers all that
\* the judgement reads.
THEOREM UnforcedMergesAreSafe == RegistrySpec => UnforcedMergeIsSafe
<1> DEFINE Safe == \A t \in Threads :
             task[t].phase = "merging" /\ ~task[t].forced /\ task'[t].phase = "marking"
             => proposal_safe(View(t), View(t).proposals[task[t].proposal])
<1>1. RegistryInv /\ [RegistryNext]_registry => [Safe]_registry
  <2> SUFFICES ASSUME RegistryInv, RegistryNext PROVE Safe
    OBVIOUS
  <2>1. ASSUME NEW u \in Threads,
               Correct(u) \/ Migrate(u) \/ CommitElsewhere(u) \/ \E a \in Analyses : Register(u, a)
        PROVE  Safe
    <3>1. \A t \in Threads : Hands(t)
      BY <2>1, ThreadSteps DEF Advances
    <3> QED BY <3>1 DEF Hands
  <2>2. CASE ProcessDies
    BY <2>2 DEF ProcessDies, NoTask
  <2> QED BY <2>1, <2>2 DEF RegistryNext
<1> QED BY <1>1, RegistryHolds, PTL DEF RegistrySpec, UnforcedMergeIsSafe

\* Unless a refusal has left a transaction open, no request commits other characters or
\* aliases under the revision that was there.
THEOREM RevisionsCoverIdentities == RegistrySpec => RevisionCoversIdentity
<1> DEFINE Covered == holder = Nobody /\ Identity(store') # Identity(store)
                      => store'.revision > store.revision
<1>1. RegistryInv /\ [RegistryNext]_registry => [Covered]_registry
  <2> SUFFICES ASSUME RegistryInv, RegistryNext PROVE Covered
    OBVIOUS
  <2>1. ASSUME NEW u \in Threads,
               Correct(u) \/ Migrate(u) \/ CommitElsewhere(u) \/ \E a \in Analyses : Register(u, a)
        PROVE  Covered
    <3>1. Advances
      BY <2>1, ThreadSteps
    <3> QED BY <3>1 DEF Advances, Covers, RegistryInv
  <2>2. CASE ProcessDies
    BY <2>2 DEF ProcessDies
  <2> QED BY <2>1, <2>2 DEF RegistryNext
<1> QED BY <1>1, RegistryHolds, PTL DEF RegistrySpec, RevisionCoversIdentity
=============================================================================
