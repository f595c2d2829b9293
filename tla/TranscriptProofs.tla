---------------------------- MODULE TranscriptProofs ----------------------------
(* What a page and a document show, for every number of messages, every    *)
(* distribution of roles and whatever Cursor writes between the queries.   *)
EXTENDS Transcript, SequenceTheorems, FiniteSetTheorems, WellFoundedInduction, TLAPS

-----------------------------------------------------------------------------
(* The stable sort.                                                        *)

\* A list that is yet to be sorted: finitely many entries, each at a place of its own.
Sortable(entries) ==
    /\ IsFiniteSet(entries)
    /\ \A e \in entries : e.ts \in Int /\ e.place \in Int
    /\ \A x, y \in entries : x.place = y.place => x = y

\* How many are sorted before an entry.
Rank(entries, e) == Cardinality({x \in entries : Before(x, e)})

\* An entry has fewer before it than there are.
LEMMA RankBounds ==
    ASSUME NEW entries, Sortable(entries), NEW e \in entries
    PROVE  Rank(entries, e) \in 0 .. Cardinality(entries) - 1
<1> DEFINE B == {x \in entries : Before(x, e)}
<1>1. IsFiniteSet(entries) /\ Cardinality(entries) \in Nat
  BY FS_CardinalityType DEF Sortable
<1>2. e \notin B
  BY DEF Sortable, Before
<1>3. B \in SUBSET (entries \ {e})
  BY <1>2
<1>4. IsFiniteSet(entries \ {e}) /\ Cardinality(entries \ {e}) = Cardinality(entries) - 1
  BY <1>1, FS_RemoveElement
<1>5. IsFiniteSet(B) /\ Cardinality(B) <= Cardinality(entries) - 1
  BY <1>3, <1>4, FS_Subset
<1>6. Cardinality(B) \in Nat
  BY <1>5, FS_CardinalityType
<1> QED
  BY <1>1, <1>5, <1>6 DEF Rank

\* Whoever comes before another has fewer before it.
LEMMA RankGrows ==
    ASSUME NEW entries, Sortable(entries), NEW x \in entries, NEW y \in entries, Before(x, y)
    PROVE  Rank(entries, x) < Rank(entries, y)
<1> DEFINE B == {z \in entries : Before(z, x)}
           C == {z \in entries : Before(z, y)}
<1>1. x \notin B /\ x \in C
  BY DEF Sortable, Before
<1>2. B \cup {x} \in SUBSET C
  BY <1>1 DEF Sortable, Before
<1>3. IsFiniteSet(B) /\ IsFiniteSet(C)
  BY FS_Subset DEF Sortable
<1>4. Cardinality(B \cup {x}) = Cardinality(B) + 1
  BY <1>1, <1>3, FS_AddElement
<1>5. Cardinality(B \cup {x}) <= Cardinality(C)
  BY <1>2, <1>3, FS_Subset
<1>6. Cardinality(B) \in Nat /\ Cardinality(C) \in Nat
  BY <1>3, FS_CardinalityType
<1> QED
  BY <1>4, <1>5, <1>6 DEF Rank

\* Of two entries one comes first.
LEMMA OneIsBefore ==
    ASSUME NEW entries, Sortable(entries), NEW x \in entries, NEW y \in entries, x # y
    PROVE  Before(x, y) \/ Before(y, x)
BY DEF Sortable, Before

\* Every rank is taken.
LEMMA RanksAreTaken ==
    ASSUME NEW entries, Sortable(entries), NEW k \in 0 .. Cardinality(entries) - 1
    PROVE  \E e \in entries : Rank(entries, e) = k
<1> DEFINE n == Cardinality(entries)
           T == 0 .. n - 1
           f == [e \in entries |-> Rank(entries, e)]
<1>1. IsFiniteSet(entries) /\ n \in Nat
  BY FS_CardinalityType DEF Sortable
<1>2. IsFiniteSet(T) /\ Cardinality(T) = n
  <2>1. 0 \in Int /\ n - 1 \in Int
    BY <1>1
  <2>2. IsFiniteSet(T) /\ Cardinality(T) = IF 0 > n - 1 THEN 0 ELSE (n - 1) - 0 + 1
    BY <2>1, FS_Interval
  <2> QED
    BY <1>1, <2>2
<1>3. f \in [entries -> T]
  BY RankBounds
<1>4. \A x, y \in entries : x # y => f[x] # f[y]
  <2> SUFFICES ASSUME NEW x \in entries, NEW y \in entries, x # y PROVE f[x] # f[y]
    OBVIOUS
  <2>1. Rank(entries, x) \in Int /\ Rank(entries, y) \in Int
    BY RankBounds
  <2>2. Rank(entries, x) < Rank(entries, y) \/ Rank(entries, y) < Rank(entries, x)
    BY OneIsBefore, RankGrows
  <2> QED
    BY <2>1, <2>2
<1>5. f \in Injection(entries, T)
  <2> HIDE DEF T, f
  <2> QED
    BY <1>3, <1>4 DEF Injection, IsInjective
<1>6. f \in Surjection(entries, T)
  <2> HIDE DEF T, f
  <2> QED
    BY <1>1, <1>2, <1>5, FS_Injection
<1>7. \E e \in entries : f[e] = k
  <2> HIDE DEF f
  <2> QED
    BY <1>6 DEF Surjection
<1> QED
  BY <1>7

\* Sorted, the list has the same entries, each before those that it comes before.
LEMMA Sorted ==
    ASSUME NEW entries, Sortable(entries)
    PROVE  LET s == ByTime(entries) IN
           /\ Cardinality(entries) \in Nat
           /\ s \in [1 .. Cardinality(entries) -> entries]
           /\ \A e \in entries : \E i \in 1 .. Cardinality(entries) : s[i] = e
           /\ \A i, j \in 1 .. Cardinality(entries) : i < j => Before(s[i], s[j])
<1> DEFINE n == Cardinality(entries)
           s == ByTime(entries)
<1>1. n \in Nat
  BY FS_CardinalityType DEF Sortable
<1>2. s = [i \in 1 .. n |-> CHOOSE e \in entries : Rank(entries, e) = i - 1]
  BY Zenon DEF ByTime, Rank
<1>3. \A i \in 1 .. n : s[i] \in entries /\ Rank(entries, s[i]) = i - 1
  <2> SUFFICES ASSUME NEW i \in 1 .. n PROVE s[i] \in entries /\ Rank(entries, s[i]) = i - 1
    OBVIOUS
  <2>1. i - 1 \in 0 .. n - 1
    BY <1>1
  <2>2. \E e \in entries : Rank(entries, e) = i - 1
    BY <2>1, RanksAreTaken
  <2>3. s[i] = CHOOSE e \in entries : Rank(entries, e) = i - 1
    BY <1>2
  <2> HIDE DEF s
  <2> QED
    BY <2>2, <2>3
<1>4. s \in [1 .. n -> entries]
  BY <1>2, <1>3
<1>5. \A i, j \in 1 .. n : i < j => Before(s[i], s[j])
  <2> SUFFICES ASSUME NEW i \in 1 .. n, NEW j \in 1 .. n, i < j PROVE Before(s[i], s[j])
    OBVIOUS
  <2>1. s[i] # s[j]
    BY <1>3
  <2>2. ~Before(s[j], s[i])
    <3>1. ASSUME Before(s[j], s[i]) PROVE FALSE
      <4>1. Rank(entries, s[j]) < Rank(entries, s[i])
        BY <1>3, <3>1, RankGrows
      <4> QED
        BY <1>3, <4>1
    <3> QED
      BY <3>1
  <2> QED
    BY <1>3, <2>1, <2>2, OneIsBefore
<1>6. \A e \in entries : \E i \in 1 .. n : s[i] = e
  <2> SUFFICES ASSUME NEW e \in entries PROVE \E i \in 1 .. n : s[i] = e
    OBVIOUS
  <2>1. PICK k \in 0 .. n - 1 : k = Rank(entries, e)
    BY RankBounds
  <2>2. k + 1 \in 1 .. n
    BY <1>1
  <2>3. s[k + 1] \in entries /\ Rank(entries, s[k + 1]) = k
    BY <1>3, <2>2
  <2>4. s[k + 1] = e
    <3>1. ASSUME s[k + 1] # e PROVE FALSE
      <4>1. Rank(entries, s[k + 1]) < Rank(entries, e) \/ Rank(entries, e) < Rank(entries, s[k + 1])
        BY <2>3, <3>1, OneIsBefore, RankGrows
      <4> QED
        BY <2>1, <2>3, <4>1
    <3> QED
      BY <3>1
  <2> QED
    BY <2>2, <2>4
<1> HIDE DEF s, n
<1>7. /\ n \in Nat /\ s \in [1 .. n -> entries]
      /\ \A e \in entries : \E i \in 1 .. n : s[i] = e
      /\ \A i, j \in 1 .. n : i < j => Before(s[i], s[j])
  BY <1>1, <1>4, <1>5, <1>6
<1> QED
  BY <1>7 DEF s, n

-----------------------------------------------------------------------------
(* Chunks joined.                                                          *)

\* Some natural number of a set of them is the least.
LEMMA LeastNat ==
    ASSUME NEW T \in SUBSET Nat, T # {}
    PROVE  \E n \in T : \A m \in T : n <= m
<1>1. PICK n \in T : \A m \in T : ~(<<m, n>> \in OpToRel(<, Nat))
  <2>1. IsWellFoundedOn(OpToRel(<, Nat), Nat)
    BY NatLessThanWellFounded
  <2> HIDE DEF OpToRel
  <2> QED
    BY <2>1, WFMin, Zenon
<1>2. ASSUME NEW m \in T PROVE n <= m
  <2>1. ~(m < n)
    BY <1>1 DEF OpToRel
  <2> QED
    BY <2>1
<1> QED
  BY <1>2

\* f holds the first chunks joined, for every number of chunks up to n.
Joins(f, c, n) == f = [i \in 1 .. n |-> IF i = 1 THEN c[i] ELSE f[i - 1] \o c[i]]

\* Both agree so far.
Alike(f, g, n) == \A i \in 1 .. n : f[i] = g[i]

\* There is such an f: for the least number of chunks for which there were none, the
\* one for a chunk less could be continued.
LEMMA JoinsExist ==
    ASSUME NEW S, NEW c \in Seq(Seq(S)), NEW n \in 0 .. Len(c)
    PROVE  \E f \in [1 .. n -> Seq(S)] : Joins(f, c, n)
<1> DEFINE Can(k) == \E f \in [1 .. k -> Seq(S)] : Joins(f, c, k)
           Bad == {k \in 0 .. Len(c) : ~Can(k)}
<1>1. SUFFICES ASSUME Bad # {} PROVE FALSE
  OBVIOUS
<1>2. PICK k \in Bad : \A m \in Bad : k <= m
  <2>1. Bad \in SUBSET Nat
    OBVIOUS
  <2> HIDE DEF Bad
  <2> QED
    BY <1>1, <2>1, LeastNat
<1>3. k \in 0 .. Len(c) /\ ~Can(k)
  OBVIOUS
<1>4. k # 0
  <2>1. Can(0)
    <3> DEFINE f == [i \in 1 .. 0 |-> <<>>]
    <3>1. f \in [1 .. 0 -> Seq(S)]
      OBVIOUS
    <3>2. Joins(f, c, 0)
      BY DEF Joins
    <3> QED
      BY <3>1, <3>2
  <2> QED
    BY <1>3, <2>1
<1>5. k - 1 \in 0 .. Len(c) /\ k - 1 < k
  BY <1>3, <1>4
<1>6. PICK f \in [1 .. k - 1 -> Seq(S)] : Joins(f, c, k - 1)
  <2>1. ~(k <= k - 1)
    BY <1>5
  <2>2. k - 1 \notin Bad
    BY <1>2, <2>1
  <2>3. Can(k - 1)
    BY <1>5, <2>2
  <2> QED
    BY <2>3
<1> DEFINE g == [i \in 1 .. k |-> IF i = 1 THEN c[i] ELSE f[i - 1] \o c[i]]
<1>7. \A i \in 1 .. k : c[i] \in Seq(S)
  BY <1>3
<1>8. g \in [1 .. k -> Seq(S)]
  <2>1. ASSUME NEW i \in 1 .. k PROVE (IF i = 1 THEN c[i] ELSE f[i - 1] \o c[i]) \in Seq(S)
    <3>1. CASE i = 1
      BY <1>7, <3>1
    <3>2. CASE i # 1
      <4>1. i - 1 \in 1 .. k - 1
        BY <1>3, <3>2
      <4>2. f[i - 1] \in Seq(S) /\ c[i] \in Seq(S)
        BY <1>7, <4>1
      <4>3. f[i - 1] \o c[i] \in Seq(S)
        BY <4>2, ConcatProperties
      <4> QED
        BY <3>2, <4>3
    <3> QED
      BY <3>1, <3>2
  <2> QED
    BY <2>1
<1>9. \A i \in 1 .. k - 1 : g[i] = f[i]
  <2> SUFFICES ASSUME NEW i \in 1 .. k - 1 PROVE g[i] = f[i]
    OBVIOUS
  <2>1. f[i] = IF i = 1 THEN c[i] ELSE f[i - 1] \o c[i]
    BY <1>6 DEF Joins
  <2>2. i \in 1 .. k
    BY <1>3
  <2> QED
    BY <2>1, <2>2
<1>10. Joins(g, c, k)
  <2>1. \A i \in 1 .. k : (IF i = 1 THEN c[i] ELSE f[i - 1] \o c[i]) =
                          (IF i = 1 THEN c[i] ELSE g[i - 1] \o c[i])
    <3> SUFFICES ASSUME NEW i \in 1 .. k, i # 1 PROVE f[i - 1] = g[i - 1]
      OBVIOUS
    <3>1. i - 1 \in 1 .. k - 1
      BY <1>3
    <3> QED
      BY <1>9, <3>1
  <2> QED
    BY <2>1 DEF Joins
<1> QED
  BY <1>3, <1>8, <1>10

\* What is joined depends on nothing that comes later.
LEMMA JoinsAgree ==
    ASSUME NEW c, NEW d, NEW f, NEW g, NEW n \in Nat, NEW m \in Nat, n <= m,
           Alike(c, d, n), Joins(f, c, n), Joins(g, d, m)
    PROVE  Alike(f, g, n)
<1> DEFINE Bad == {k \in 1 .. n : f[k] # g[k]}
<1>1. SUFFICES ASSUME Bad # {} PROVE FALSE
  BY DEF Alike
<1>2. PICK k \in Bad : \A j \in Bad : k <= j
  <2>1. Bad \in SUBSET Nat
    OBVIOUS
  <2> HIDE DEF Bad
  <2> QED
    BY <1>1, <2>1, LeastNat
<1>3. k \in 1 .. n /\ k \in 1 .. m /\ f[k] # g[k]
  OBVIOUS
<1>4. f[k] = IF k = 1 THEN c[k] ELSE f[k - 1] \o c[k]
  BY <1>3 DEF Joins
<1>5. g[k] = IF k = 1 THEN d[k] ELSE g[k - 1] \o d[k]
  BY <1>3 DEF Joins
<1>6. CASE k = 1
  BY <1>3, <1>4, <1>5, <1>6 DEF Alike
<1>7. CASE k # 1
  <2>1. k - 1 \in 1 .. n /\ k - 1 < k
    BY <1>3, <1>7
  <2>2. f[k - 1] = g[k - 1]
    BY <1>2, <2>1
  <2>3. c[k] = d[k]
    BY <1>3 DEF Alike
  <2> QED
    BY <1>3, <1>4, <1>5, <1>7, <2>2, <2>3
<1> QED
  BY <1>6, <1>7

\* FlattenSeq is the last of the joins.
LEMMA FlattenIs ==
    ASSUME NEW S, NEW c \in Seq(Seq(S)), c # <<>>
    PROVE  \E f \in [1 .. Len(c) -> Seq(S)] : Joins(f, c, Len(c)) /\ FlattenSeq(c) = f[Len(c)]
<1> DEFINE n == Len(c)
           f == CHOOSE f : f = [i \in 1 .. n |-> IF i = 1 THEN c[i] ELSE f[i - 1] \o c[i]]
<1>1. n \in Nat /\ n # 0
  BY EmptySeq
<1>2. PICK g \in [1 .. n -> Seq(S)] : Joins(g, c, n)
  <2>1. n \in 0 .. Len(c)
    BY <1>1
  <2> QED
    BY <2>1, JoinsExist
<1>3. Joins(f, c, n)
  BY <1>2, Zenon DEF Joins
<1>4. FlattenSeq(c) = f[n]
  BY <1>1, Zenon DEF FlattenSeq
<1> HIDE DEF f
<1>5. Alike(f, g, n)
  <2>1. Alike(c, c, n)
    BY DEF Alike
  <2> QED
    BY <1>1, <1>2, <1>3, <2>1, JoinsAgree
<1>6. f[n] = g[n]
  BY <1>1, <1>5 DEF Alike
<1> QED
  BY <1>2, <1>4, <1>6

\* No chunks make an empty list.
LEMMA FlattenNone ==
    FlattenSeq(<<>>) = <<>>
BY DEF FlattenSeq

\* One chunk more is appended.
LEMMA FlattenAppend ==
    ASSUME NEW S, NEW c \in Seq(Seq(S)), NEW x \in Seq(S)
    PROVE  FlattenSeq(Append(c, x)) = FlattenSeq(c) \o x
<1> DEFINE d == Append(c, x)
           n == Len(c)
<1>1. d \in Seq(Seq(S)) /\ Len(d) = n + 1 /\ d[n + 1] = x /\ \A i \in 1 .. n : d[i] = c[i]
  BY AppendProperties
<1>2. d # <<>> /\ n \in Nat
  BY <1>1
<1> HIDE DEF d
<1>3. PICK g \in [1 .. n + 1 -> Seq(S)] : Joins(g, d, n + 1) /\ FlattenSeq(d) = g[n + 1]
  BY <1>1, <1>2, FlattenIs
<1>4. g[n + 1] = IF n + 1 = 1 THEN d[n + 1] ELSE g[(n + 1) - 1] \o d[n + 1]
  <2>1. n + 1 \in 1 .. n + 1
    BY <1>2
  <2> QED
    BY <1>3, <2>1 DEF Joins
<1>5. CASE c = <<>>
  <2>1. g[n + 1] = x
    BY <1>1, <1>4, <1>5
  <2>2. <<>> \o x = x
    BY ConcatEmptySeq
  <2>3. FlattenSeq(c) = <<>>
    BY <1>5, FlattenNone
  <2> QED
    BY <1>3, <2>1, <2>2, <2>3 DEF d
<1>6. CASE c # <<>>
  <2>1. n # 0
    BY <1>6, EmptySeq
  <2>2. PICK f \in [1 .. n -> Seq(S)] : Joins(f, c, n) /\ FlattenSeq(c) = f[n]
    BY <1>6, FlattenIs
  <2>3. Alike(f, g, n)
    <3>1. PICK m \in Nat : m = n + 1
      BY <1>2
    <3>2. n \in Nat /\ n <= m /\ Alike(c, d, n)
      BY <1>1, <1>2, <3>1 DEF Alike
    <3>3. Joins(f, c, n) /\ Joins(g, d, m)
      BY <1>3, <2>2, <3>1
    <3> HIDE DEF n
    <3> QED
      BY <3>2, <3>3, JoinsAgree
  <2>4. f[n] = g[n]
    BY <1>2, <2>1, <2>3 DEF Alike
  <2>5. g[n + 1] = g[n] \o x
    BY <1>1, <1>2, <1>4, <2>1
  <2> QED
    BY <1>3, <2>2, <2>4, <2>5 DEF d
<1> QED
  BY <1>5, <1>6

\* A list of chunks of S makes a list of S.
LEMMA FlattenTyped ==
    ASSUME NEW S, NEW c \in Seq(Seq(S))
    PROVE  FlattenSeq(c) \in Seq(S)
<1>1. CASE c = <<>>
  BY <1>1, FlattenNone, EmptySeq
<1>2. CASE c # <<>>
  <2>1. Len(c) \in 1 .. Len(c)
    BY <1>2, EmptySeq
  <2> QED
    <3>1. PICK f \in [1 .. Len(c) -> Seq(S)] : FlattenSeq(c) = f[Len(c)]
      BY <1>2, FlattenIs
    <3> QED
      BY <2>1, <3>1
<1> QED
  BY <1>1, <1>2

-----------------------------------------------------------------------------
(* Headers.                                                                *)

\* A list in order holds the numbers up to its length.
LEMMA InOrderHolds ==
    ASSUME NEW s \in Seq(Ids), InOrder(s)
    PROVE  /\ ToSet(s) = 1 .. Len(s)
           /\ IsFiniteSet(ToSet(s)) /\ Cardinality(ToSet(s)) = Len(s)
<1>1. Len(s) \in Nat /\ DOMAIN s = 1 .. Len(s)
  OBVIOUS
<1>2. ToSet(s) = 1 .. Len(s)
  BY <1>1 DEF ToSet, InOrder
<1>3. 0 \in Int /\ 1 \in Int /\ Len(s) \in Int
  BY <1>1
<1>4. IsFiniteSet(1 .. Len(s)) /\ Cardinality(1 .. Len(s)) = IF 1 > Len(s) THEN 0 ELSE Len(s) - 1 + 1
  BY <1>3, FS_Interval
<1> QED
  BY <1>1, <1>2, <1>4

\* It stays in order when the next number is appended.
LEMMA InOrderGrows ==
    ASSUME NEW s \in Seq(Ids), InOrder(s), NEW m \in Ids, m = Len(s) + 1
    PROVE  /\ Append(s, m) \in Seq(Ids) /\ InOrder(Append(s, m))
           /\ ToSet(s) \subseteq ToSet(Append(s, m))
<1>1. /\ Append(s, m) \in Seq(Ids) /\ Len(Append(s, m)) = Len(s) + 1
      /\ \A i \in 1 .. Len(s) : Append(s, m)[i] = s[i]
      /\ Append(s, m)[Len(s) + 1] = m
  BY AppendProperties
<1>2. DOMAIN s = 1 .. Len(s) /\ Len(s) \in Nat /\ DOMAIN Append(s, m) = 1 .. Len(s) + 1
  BY <1>1
<1>3. InOrder(Append(s, m))
  BY <1>1, <1>2 DEF InOrder
<1>4. ToSet(s) \subseteq ToSet(Append(s, m))
  <2>1. \A i \in DOMAIN s : i \in DOMAIN Append(s, m) /\ Append(s, m)[i] = s[i]
    BY <1>1, <1>2
  <2> QED
    BY <2>1 DEF ToSet
<1> QED
  BY <1>1, <1>3, <1>4

\* A header in a new chunk, or at the end of the last one, is the last of the merged.
LEMMA ChunksGrow ==
    ASSUME NEW c \in Seq(Seq(Ids)), NEW m \in Ids
    PROVE  /\ Append(c, <<m>>) \in Seq(Seq(Ids))
           /\ Merged(Append(c, <<m>>)) = Append(Merged(c), m)
           /\ c # <<>> =>
                LET d == Append(Front(c), Append(Last(c), m)) IN
                /\ d \in Seq(Seq(Ids))
                /\ Merged(d) = Append(Merged(c), m)
<1>1. <<m>> \in Seq(Ids) /\ Merged(c) \in Seq(Ids)
  BY FlattenTyped DEF Merged
<1>2. \A s \in Seq(Ids) : s \o <<m>> = Append(s, m)
  OBVIOUS
<1>3. Append(c, <<m>>) \in Seq(Seq(Ids))
  BY <1>1, AppendProperties
<1>4. Merged(Append(c, <<m>>)) = Append(Merged(c), m)
  BY <1>1, <1>2, FlattenAppend DEF Merged
<1>5. ASSUME c # <<>>
      PROVE  LET d == Append(Front(c), Append(Last(c), m)) IN
             /\ d \in Seq(Seq(Ids))
             /\ Merged(d) = Append(Merged(c), m)
  <2> DEFINE f == Front(c)
             l == Last(c)
  <2>1. Len(c) \in Nat \ {0}
    BY <1>5, EmptySeq
  <2>2. l \in Seq(Ids)
    BY <2>1 DEF Last
  <2>3. f \in Seq(Seq(Ids))
    <3>1. 1 \in Int /\ Len(c) - 1 \in Int /\ \A i \in 1 .. Len(c) - 1 : c[i] \in Seq(Ids)
      BY <2>1
    <3> QED
      BY <3>1, SubSeqProperties DEF Front
  <2>4. c = Append(f, l)
    BY <2>1, <2>3 DEF Front, Last
  <2>5. Append(l, m) \in Seq(Ids) /\ Append(l, m) = l \o <<m>>
    BY <1>2, <2>2, AppendProperties
  <2> HIDE DEF f, l
  <2>6. Merged(f) \in Seq(Ids)
    BY <2>3, FlattenTyped DEF Merged
  <2>7. Merged(c) = Merged(f) \o l
    BY <2>2, <2>3, <2>4, FlattenAppend DEF Merged
  <2>8. Merged(Append(f, Append(l, m))) = Merged(f) \o Append(l, m)
    BY <2>3, <2>5, FlattenAppend DEF Merged
  <2>9. Merged(f) \o Append(l, m) = Append(Merged(f) \o l, m)
    BY <1>1, <2>2, <2>5, <2>6
  <2>10. Append(f, Append(l, m)) \in Seq(Seq(Ids))
    BY <2>3, <2>5, AppendProperties
  <2> QED
    BY <2>7, <2>8, <2>9, <2>10 DEF f, l
<1> QED
  BY <1>3, <1>4, <1>5

\* What was said is numbered in the order it was said.
LEMMA SaidIs ==
    ASSUME TypeOK, HeadersInOrder
    PROVE  LET h == IF kept = "inline" THEN inline ELSE Merged(chunks) IN
           /\ h \in Seq(Ids) /\ InOrder(h)
           /\ Said = ToSet(h) /\ Cardinality(Said) = Len(h)
<1>1. Merged(chunks) \in Seq(Ids) /\ inline \in Seq(Ids)
  BY FlattenTyped DEF Merged, TypeOK
<1>2. ToSet(<<>>) = {} /\ Merged(<<>>) = <<>>
  BY FlattenNone DEF ToSet, Merged
<1>3. Said = ToSet(inline) \cup ToSet(Merged(chunks))
  BY DEF Said, Merged
<1>4. CASE kept = "inline"
  <2>1. Said = ToSet(inline)
    BY <1>2, <1>3, <1>4 DEF HeadersInOrder
  <2> QED
    BY <1>1, <1>4, <2>1, InOrderHolds DEF HeadersInOrder
<1>5. CASE kept = "chunks"
  <2>1. Said = ToSet(Merged(chunks))
    BY <1>2, <1>3, <1>5 DEF HeadersInOrder
  <2> QED
    BY <1>1, <1>5, <2>1, InOrderHolds DEF HeadersInOrder
<1> QED
  BY <1>4, <1>5 DEF TypeOK

-----------------------------------------------------------------------------
(* Queries that are left.                                                  *)

\* A suffix ends as the whole does.
LEMMA SuffixIs ==
    ASSUME NEW S, NEW s \in Seq(S), NEW t \in Seq(S)
    PROVE  IsSuffix(s, t) <=>
             /\ Len(s) <= Len(t)
             /\ \A i \in 1 .. Len(s) : s[Len(s) - i + 1] = t[Len(t) - i + 1]
<1> DEFINE r == Reverse(s)
           q == Reverse(t)
           n == Len(s)
<1>1. n \in Nat /\ Len(t) \in Nat
  OBVIOUS
<1>2. /\ r \in Seq(S) /\ Len(r) = n /\ \A i \in 1 .. n : r[i] = s[n - i + 1]
      /\ q \in Seq(S) /\ Len(q) = Len(t) /\ \A i \in 1 .. Len(t) : q[i] = t[Len(t) - i + 1]
  BY <1>1 DEF Reverse
<1>3. IsSuffix(s, t) <=> n <= Len(t) /\ SubSeq(r, 1, n) = SubSeq(q, 1, n)
  BY <1>2 DEF IsSuffix, IsPrefix
<1> HIDE DEF r, q
<1>4. ASSUME n <= Len(t)
      PROVE  SubSeq(r, 1, n) = SubSeq(q, 1, n) <=> \A i \in 1 .. n : r[i] = q[i]
  <2>1. /\ SubSeq(r, 1, n) \in Seq(S) /\ Len(SubSeq(r, 1, n)) = n
        /\ \A i \in 1 .. n : SubSeq(r, 1, n)[i] = r[i]
    BY <1>1, <1>2
  <2>2. /\ SubSeq(q, 1, n) \in Seq(S) /\ Len(SubSeq(q, 1, n)) = n
        /\ \A i \in 1 .. n : SubSeq(q, 1, n)[i] = q[i]
    BY <1>1, <1>2, <1>4
  <2> QED
    BY <2>1, <2>2
<1>5. ASSUME n <= Len(t), NEW i \in 1 .. n
      PROVE  r[i] = q[i] <=> s[n - i + 1] = t[Len(t) - i + 1]
  <2>1. i \in 1 .. Len(t)
    BY <1>1, <1>5
  <2>2. r[i] = s[n - i + 1] /\ q[i] = t[Len(t) - i + 1]
    BY <1>2, <2>1, Zenon
  <2> QED
    BY <2>2, Zenon
<1> QED
  BY <1>3, <1>4, <1>5, Zenon

\* It is one of itself, and remains one when its first is taken.
LEMMA SuffixSteps ==
    ASSUME NEW S, NEW t \in Seq(S)
    PROVE  /\ IsSuffix(t, t)
           /\ \A s \in Seq(S) : s # <<>> /\ IsSuffix(s, t) => IsSuffix(Tail(s), t)
<1>1. IsSuffix(t, t)
  BY SuffixIs
<1>2. ASSUME NEW s \in Seq(S), s # <<>>, IsSuffix(s, t)
      PROVE  IsSuffix(Tail(s), t)
  <2>1. Tail(s) \in Seq(S) /\ Len(Tail(s)) = Len(s) - 1 /\ Len(s) \in Nat \ {0}
    BY <1>2, HeadTailProperties, EmptySeq
  <2>2. \A i \in 1 .. Len(s) - 1 : Tail(s)[i] = s[i + 1]
    BY <1>2, <2>1, HeadTailProperties
  <2>3. Len(s) <= Len(t) /\ \A i \in 1 .. Len(s) : s[Len(s) - i + 1] = t[Len(t) - i + 1]
    BY <1>2, SuffixIs
  <2>4. Len(Tail(s)) <= Len(t)
    BY <2>1, <2>3
  <2>5. \A i \in 1 .. Len(Tail(s)) : Tail(s)[Len(Tail(s)) - i + 1] = t[Len(t) - i + 1]
    <3> SUFFICES ASSUME NEW i \in 1 .. Len(s) - 1
                 PROVE  Tail(s)[Len(s) - 1 - i + 1] = t[Len(t) - i + 1]
      BY <2>1
    <3>1. Len(s) - 1 - i + 1 \in 1 .. Len(s) - 1 /\ i \in 1 .. Len(s)
      BY <2>1
    <3>2. Tail(s)[Len(s) - 1 - i + 1] = s[(Len(s) - 1 - i + 1) + 1]
      BY <2>2, <3>1
    <3>3. (Len(s) - 1 - i + 1) + 1 = Len(s) - i + 1
      BY <2>1
    <3> QED
      BY <2>3, <3>1, <3>2, <3>3
  <2> QED
    BY <2>1, <2>4, <2>5, SuffixIs
<1> QED
  BY <1>1, <1>2

QueryKinds == {"composer", "chunks", "rows", "edits"}

\* Every handler makes all four queries.
LEMMA QueriesTyped ==
    ASSUME NEW r \in DOMAIN Queries
    PROVE  /\ Queries[r] \in Seq(QueryKinds)
           /\ \A q \in QueryKinds : \E i \in DOMAIN Queries[r] : Queries[r][i] = q
<1>1. CASE r = "tab"
  <2>1. Queries[r] = <<"composer", "chunks", "rows", "edits">>
    BY <1>1 DEF Queries
  <2>2. \A q \in QueryKinds : \E i \in 1 .. 4 : Queries[r][i] = q
    BY <2>1 DEF QueryKinds
  <2> QED
    BY <2>1, <2>2 DEF QueryKinds
<1>2. CASE r = "tabs"
  <2>1. Queries[r] = <<"rows", "edits", "composer", "chunks">>
    BY <1>2 DEF Queries
  <2>2. \A q \in QueryKinds : \E i \in 1 .. 4 : Queries[r][i] = q
    BY <2>1 DEF QueryKinds
  <2> QED
    BY <2>1, <2>2 DEF QueryKinds
<1>3. CASE r = "export"
  <2>1. Queries[r] = <<"rows", "edits", "chunks", "composer">>
    BY <1>3 DEF Queries
  <2>2. \A q \in QueryKinds : \E i \in 1 .. 4 : Queries[r][i] = q
    BY <2>1 DEF QueryKinds
  <2> QED
    BY <2>1, <2>2 DEF QueryKinds
<1> QED
  BY <1>1, <1>2, <1>3 DEF Queries

-----------------------------------------------------------------------------
(* The inductive invariant.                                                *)

LEMMA Bounds ==
    MaxClock \in Nat \ {0} /\ MaxEdits \in Nat /\ MaxWrites \in Nat
BY TranscriptAssumption, Zenon

\* What has not been asked for is a well-typed nothing.
LEMMA UnreadTyped ==
    /\ Unread \in [composer : [inline : Seq(Ids), updated : Times], chunks : Seq(Seq(Ids)),
                   rows : [Ids -> Row \cup {NoRow}], edits : 0 .. MaxEdits]
    /\ Unread.composer.inline = <<>> /\ Unread.chunks = <<>>
    /\ Unread.rows = [m \in Ids |-> NoRow]
<1>1. 0 \in Times /\ 0 \in 0 .. MaxEdits
  BY Bounds DEF Times
<1>2. <<>> \in Seq(Ids) /\ <<>> \in Seq(Seq(Ids))
  OBVIOUS
<1> QED
  BY <1>1, <1>2 DEF Unread

LEMMA GatheringInit ==
    ASSUME Init
    PROVE  Gathering
<1>1. ToSet(<<>>) = {} /\ Merged(<<>>) = <<>> /\ InOrder(<<>>)
  BY FlattenNone DEF ToSet, Merged, InOrder
<1>2. /\ clock = 1 /\ inline = <<>> /\ chunks = <<>> /\ edits = 0 /\ updated = 0
      /\ reader = "" /\ todo = <<>> /\ got = Unread /\ now = 0 /\ old = {} /\ writes = 0
      /\ role \in Roles /\ kept \in {"inline", "chunks"} /\ rows = [m \in Ids |-> NoRow]
  BY Zenon DEF Init
<1>3. TypeOK
  <2>1. clock \in 1 .. MaxClock /\ now \in Times /\ edits \in 0 .. MaxEdits
        /\ updated \in Times /\ writes \in 0 .. MaxWrites
    <3>1. clock = 1 /\ now = 0 /\ edits = 0 /\ updated = 0 /\ writes = 0
      BY <1>2, Zenon
    <3> QED
      BY <3>1, Bounds DEF Times
  <2>2. inline \in Seq(Ids) /\ chunks \in Seq(Seq(Ids))
    BY <1>2, EmptySeq, Zenon
  <2>3. rows \in [Ids -> Row \cup {NoRow}]
    BY <1>2
  <2> QED
    BY <1>2, <2>1, <2>2, <2>3, UnreadTyped, Zenon DEF TypeOK
<1>4. QueriesToMake
  BY <1>2, EmptySeq, Zenon DEF QueriesToMake
<1>5. HeadersInOrder
  BY <1>1, <1>2, UnreadTyped, Zenon DEF HeadersInOrder
<1>6. OldIsHeld
  BY <1>2, Zenon DEF OldIsHeld
<1>7. NoTimeAhead
  <2>1. \A m \in Ids : rows[m].at = 0 /\ got.rows[m].at = 0
    <3>1. rows = [m \in Ids |-> NoRow] /\ got.rows = [m \in Ids |-> NoRow]
      BY <1>2, UnreadTyped, Zenon
    <3> QED
      BY <3>1 DEF NoRow, Untimed
  <2>2. now = 0 /\ clock = 1
    BY <1>2
  <2> QED
    BY <2>1, <2>2 DEF NoTimeAhead
<1> QED
  BY <1>3, <1>4, <1>5, <1>6, <1>7 DEF Gathering

\* What Cursor writes is typed.
LEMMA WritesTyped ==
    ASSUME TypeOK, Write
    PROVE  updated' \in Times /\ writes' \in 0 .. MaxWrites
<1>1. clock \in 1 .. MaxClock /\ writes \in 0 .. MaxWrites
  BY Zenon DEF TypeOK
<1>2. clock \in Times
  BY <1>1, Bounds DEF Times
<1>3. writes' \in 0 .. MaxWrites
  <2>1. writes' = writes \/ (writes < MaxWrites /\ writes' = writes + 1)
    BY DEF Write
  <2> QED
    BY <1>1, <2>1, Bounds
<1> QED
  BY <1>2, <1>3 DEF Write

\* A row is written once, with the present time or none.
LEMMA RowWritten ==
    ASSUME TypeOK, NEW m \in Ids, WriteRow(m)
    PROVE  \E row \in Row : row.at \in {Untimed, clock} /\ rows' = [rows EXCEPT ![m] = row]
<1>1. clock \in Times /\ Untimed \in Times
  <2>1. clock \in 1 .. MaxClock
    BY Zenon DEF TypeOK
  <2> QED
    BY <2>1, Bounds DEF Times, Untimed
<1>2. PICK shows \in {"own", "context", "nothing"}, at \in {Untimed, clock} :
        rows' = [rows EXCEPT ![m] = [shows |-> shows, at |-> at]]
  BY Zenon DEF WriteRow
<1>3. [shows |-> shows, at |-> at] \in Row
  BY <1>1, <1>2 DEF Row
<1> QED
  BY <1>2, <1>3

\* A header follows those there are.
LEMMA HeaderWritten ==
    ASSUME TypeOK, HeadersInOrder, NEW m \in Ids, WriteHeader(m)
    PROVE  /\ inline' \in Seq(Ids) /\ chunks' \in Seq(Seq(Ids))
           /\ InOrder(inline') /\ InOrder(Merged(chunks'))
           /\ kept = "inline" => chunks' = <<>>
           /\ kept = "chunks" => inline' = <<>>
           /\ ToSet(inline) \subseteq ToSet(inline')
           /\ ToSet(Merged(chunks)) \subseteq ToSet(Merged(chunks'))
<1>1. m = Cardinality(Said) + 1 /\ kept \in {"inline", "chunks"}
  BY DEF WriteHeader, TypeOK
<1>2. inline \in Seq(Ids) /\ chunks \in Seq(Seq(Ids)) /\ Merged(chunks) \in Seq(Ids)
  BY FlattenTyped DEF TypeOK, Merged
<1>3. CASE kept = "inline"
  <2>1. inline' = Append(inline, m) /\ chunks' = chunks /\ chunks = <<>>
    BY <1>3 DEF WriteHeader, HeadersInOrder
  <2>2. m = Len(inline) + 1
    BY <1>1, <1>3, SaidIs
  <2> QED
    BY <1>2, <1>3, <2>1, <2>2, InOrderGrows DEF HeadersInOrder
<1>4. CASE kept = "chunks"
  <2>1. inline' = inline /\ inline = <<>>
    BY <1>4 DEF WriteHeader, HeadersInOrder
  <2>2. m = Len(Merged(chunks)) + 1
    BY <1>1, <1>4, SaidIs
  <2>3. \/ chunks # <<>> /\ chunks' = Append(Front(chunks), Append(Last(chunks), m))
        \/ chunks' = Append(chunks, <<m>>)
    BY <1>4 DEF WriteHeader
  <2>4. chunks' \in Seq(Seq(Ids)) /\ Merged(chunks') = Append(Merged(chunks), m)
    BY <1>2, <2>3, ChunksGrow
  <2>5. InOrder(Merged(chunks))
    BY DEF HeadersInOrder
  <2>6. /\ InOrder(Append(Merged(chunks), m))
        /\ ToSet(Merged(chunks)) \subseteq ToSet(Append(Merged(chunks), m))
    BY <1>2, <2>2, <2>5, InOrderGrows
  <2> QED
    BY <1>2, <1>4, <2>1, <2>4, <2>6 DEF HeadersInOrder
<1> QED
  BY <1>1, <1>3, <1>4

\* A query is answered with what is there at its time.
LEMMA Answered ==
    ASSUME TypeOK, QueriesToMake, Query
    PROVE  /\ Head(todo) \in QueryKinds /\ todo' \in Seq(QueryKinds)
           /\ \A q \in QueryKinds : Pending(q) => q = Head(todo) \/ Pending(q)'
           /\ got'.composer = IF Head(todo) = "composer"
                              THEN [inline |-> inline, updated |-> updated] ELSE got.composer
           /\ got'.chunks = IF Head(todo) = "chunks" THEN chunks ELSE got.chunks
           /\ got'.rows = IF Head(todo) = "rows" THEN rows ELSE got.rows
           /\ got' \in [composer : [inline : Seq(Ids), updated : Times], chunks : Seq(Seq(Ids)),
                        rows : [Ids -> Row \cup {NoRow}], edits : 0 .. MaxEdits]
<1>1. todo \in Seq(QueryKinds) /\ todo # <<>> /\ todo' = Tail(todo)
  BY DEF Query, QueriesToMake, QueryKinds
<1>2. Head(todo) \in QueryKinds /\ todo' \in Seq(QueryKinds)
  BY <1>1, HeadTailProperties
<1>3. \A q \in QueryKinds : Pending(q) => q = Head(todo) \/ Pending(q)'
  <2> SUFFICES ASSUME NEW q \in QueryKinds, NEW i \in DOMAIN todo, todo[i] = q, q # Head(todo)
               PROVE  \E j \in DOMAIN todo' : todo'[j] = q
    BY DEF Pending
  <2>1. i \in 1 .. Len(todo) /\ Head(todo) = todo[1] /\ Len(Tail(todo)) = Len(todo) - 1
    BY <1>1, HeadTailProperties
  <2>2. i - 1 \in 1 .. Len(Tail(todo))
    BY <1>1, <2>1
  <2>3. Tail(todo)[i - 1] = todo[(i - 1) + 1]
    BY <1>1, <2>2, HeadTailProperties
  <2>4. DOMAIN todo' = 1 .. Len(Tail(todo)) /\ (i - 1) + 1 = i
    BY <1>1, <1>2, <2>1
  <2> QED
    BY <1>1, <2>2, <2>3, <2>4
<1>4. /\ got \in [composer : [inline : Seq(Ids), updated : Times], chunks : Seq(Seq(Ids)),
                  rows : [Ids -> Row \cup {NoRow}], edits : 0 .. MaxEdits]
      /\ inline \in Seq(Ids) /\ updated \in Times /\ chunks \in Seq(Seq(Ids))
      /\ rows \in [Ids -> Row \cup {NoRow}] /\ edits \in 0 .. MaxEdits
  BY DEF TypeOK
<1>5. CASE Head(todo) = "composer"
  <2>1. got' = [got EXCEPT !.composer = [inline |-> inline, updated |-> updated]]
    BY <1>5 DEF Query
  <2> QED
    BY <1>2, <1>3, <1>4, <1>5, <2>1
<1>6. CASE Head(todo) = "chunks"
  <2>1. got' = [got EXCEPT !.chunks = chunks]
    BY <1>6 DEF Query
  <2> QED
    BY <1>2, <1>3, <1>4, <1>6, <2>1
<1>7. CASE Head(todo) = "rows"
  <2>1. got' = [got EXCEPT !.rows = rows]
    BY <1>7 DEF Query
  <2> QED
    BY <1>2, <1>3, <1>4, <1>7, <2>1
<1>8. CASE Head(todo) = "edits"
  <2>1. got' = [got EXCEPT !.edits = edits]
    BY <1>8 DEF Query
  <2> QED
    BY <1>2, <1>3, <1>4, <1>8, <2>1
<1> QED
  BY <1>2, <1>5, <1>6, <1>7, <1>8 DEF QueryKinds

\* The steps of Cursor and of the handlers keep the types.
LEMMA TypeStep ==
    ASSUME Gathering, [Next]_vars
    PROVE  TypeOK' /\ QueriesToMake'
<1>1. TypeOK /\ QueriesToMake /\ HeadersInOrder
  BY Zenon DEF Gathering
<1>2. /\ clock \in 1 .. MaxClock /\ now \in Times /\ role \in Roles /\ kept \in {"inline", "chunks"}
      /\ inline \in Seq(Ids) /\ chunks \in Seq(Seq(Ids)) /\ rows \in [Ids -> Row \cup {NoRow}]
      /\ edits \in 0 .. MaxEdits /\ updated \in Times /\ writes \in 0 .. MaxWrites
      /\ reader \in DOMAIN Queries \cup {""} /\ old \subseteq Ids
      /\ reader # "" => IsSuffix(todo, Queries[reader])
      /\ got \in [composer : [inline : Seq(Ids), updated : Times], chunks : Seq(Seq(Ids)),
                  rows : [Ids -> Row \cup {NoRow}], edits : 0 .. MaxEdits]
  BY <1>1, Zenon DEF TypeOK
<1>3. clock \in 1 .. MaxClock /\ edits \in 0 .. MaxEdits
  BY <1>2, Zenon
<1>4. CASE UNCHANGED vars
  BY <1>1, <1>4, Zenon DEF TypeOK, QueriesToMake, vars
<1>5. ASSUME NEW m \in Ids, WriteRow(m) PROVE TypeOK' /\ QueriesToMake'
  <2>1. Write
    BY <1>5, Zenon DEF WriteRow
  <2>2. updated' \in Times /\ writes' \in 0 .. MaxWrites
    BY <1>1, <2>1, WritesTyped
  <2>3. rows' \in [Ids -> Row \cup {NoRow}]
    <3>1. PICK row \in Row : rows' = [rows EXCEPT ![m] = row]
      BY <1>1, <1>5, RowWritten
    <3> QED
      BY <1>2, <3>1
  <2>4. UNCHANGED <<clock, role, kept, inline, chunks, edits, reader, todo, got, now, old>>
    BY <1>5, Zenon DEF WriteRow
  <2> QED
    BY <1>1, <1>2, <2>2, <2>3, <2>4, Zenon DEF TypeOK, QueriesToMake
<1>6. ASSUME NEW m \in Ids, WriteHeader(m) PROVE TypeOK' /\ QueriesToMake'
  <2>1. Write
    BY <1>6, Zenon DEF WriteHeader
  <2>2. updated' \in Times /\ writes' \in 0 .. MaxWrites
    BY <1>1, <2>1, WritesTyped
  <2>3. inline' \in Seq(Ids) /\ chunks' \in Seq(Seq(Ids))
    BY <1>1, <1>6, HeaderWritten
  <2>4. UNCHANGED <<clock, role, kept, rows, edits, reader, todo, got, now, old>>
    BY <1>6, Zenon DEF WriteHeader
  <2> QED
    BY <1>1, <1>2, <2>2, <2>3, <2>4, Zenon DEF TypeOK, QueriesToMake
<1>7. CASE WriteEdit
  <2>1. Write /\ edits < MaxEdits /\ edits' = edits + 1
    BY <1>7, Zenon DEF WriteEdit
  <2>2. updated' \in Times /\ writes' \in 0 .. MaxWrites
    BY <1>1, <2>1, WritesTyped
  <2>3. edits' \in 0 .. MaxEdits
    BY <1>3, <2>1, Bounds
  <2>4. UNCHANGED <<clock, role, kept, inline, chunks, rows, reader, todo, got, now, old>>
    BY <1>7, Zenon DEF WriteEdit
  <2> QED
    BY <1>1, <1>2, <2>2, <2>3, <2>4, Zenon DEF TypeOK, QueriesToMake
<1>8. CASE Tick
  <2>1. clock < MaxClock /\ clock' = clock + 1
    BY <1>8, Zenon DEF Tick
  <2>2. clock' \in 1 .. MaxClock
    BY <1>3, <2>1, Bounds
  <2>3. UNCHANGED <<role, kept, inline, chunks, rows, edits, updated, reader, todo, got, now, old, writes>>
    BY <1>8, Zenon DEF Tick, stored
  <2> QED
    BY <1>1, <1>2, <2>2, <2>3, Zenon DEF TypeOK, QueriesToMake
<1>9. ASSUME NEW r \in DOMAIN Queries, Begin(r) PROVE TypeOK' /\ QueriesToMake'
  <2>1. reader' = r /\ todo' = Queries[r] /\ old' = {m \in Said : rows[m] # NoRow}
    BY <1>9, Zenon DEF Begin
  <2>2. Queries[r] \in Seq(QueryKinds)
    BY QueriesTyped
  <2>3. QueriesToMake'
    BY <2>1, <2>2, Zenon DEF QueriesToMake, QueryKinds
  <2>4. reader' # "" => IsSuffix(todo', Queries[reader'])
    BY <2>1, <2>2, SuffixSteps, Zenon
  <2>5. old' \subseteq Ids
    <3>1. Said \subseteq Ids
      <4>1. PICK h \in Seq(Ids) : Said = ToSet(h)
        BY <1>1, SaidIs
      <4> QED
        BY <4>1 DEF ToSet
    <3> QED
      BY <2>1, <3>1
  <2>6. UNCHANGED <<clock, role, kept, inline, chunks, rows, edits, updated, got, now, writes>>
    BY <1>9, Zenon DEF Begin, stored
  <2>7. reader' \in DOMAIN Queries \cup {""}
    BY <2>1, Zenon
  <2> QED
    BY <1>2, <2>3, <2>4, <2>5, <2>6, <2>7, Zenon DEF TypeOK
<1>10. CASE Query
  <2>1. /\ todo' \in Seq(QueryKinds)
        /\ got' \in [composer : [inline : Seq(Ids), updated : Times], chunks : Seq(Seq(Ids)),
                     rows : [Ids -> Row \cup {NoRow}], edits : 0 .. MaxEdits]
    BY <1>1, <1>10, Answered, Zenon
  <2>2. QueriesToMake'
    BY <2>1, Zenon DEF QueriesToMake, QueryKinds
  <2>3. UNCHANGED <<clock, role, kept, inline, chunks, rows, edits, updated, reader, now, old, writes>>
    BY <1>10, Zenon DEF Query, stored
  <2>4. reader # "" /\ todo # <<>> /\ todo' = Tail(todo) /\ todo \in Seq(QueryKinds)
    BY <1>1, <1>10, Zenon DEF Query, QueriesToMake, QueryKinds
  <2>5. reader \in DOMAIN Queries /\ IsSuffix(todo, Queries[reader])
    BY <1>2, <2>4, Zenon
  <2>6. Queries[reader] \in Seq(QueryKinds)
    BY <2>5, QueriesTyped
  <2>7. IsSuffix(todo', Queries[reader'])
    <3>1. IsSuffix(Tail(todo), Queries[reader])
      BY <2>4, <2>5, <2>6, SuffixSteps, Zenon
    <3> QED
      BY <2>3, <2>4, <3>1, Zenon
  <2> QED
    BY <1>2, <2>1, <2>2, <2>3, <2>7, Zenon DEF TypeOK
<1>11. CASE Assemble
  <2>1. now' = clock
    BY <1>11, Zenon DEF Assemble
  <2>2. now' \in Times
    BY <1>3, <2>1, Bounds DEF Times
  <2>3. UNCHANGED <<clock, role, kept, inline, chunks, rows, edits, updated, reader, todo, got, old, writes>>
    BY <1>11, Zenon DEF Assemble, stored
  <2> QED
    BY <1>1, <1>2, <2>2, <2>3, Zenon DEF TypeOK, QueriesToMake
<1>12. CASE Close
  <2>1. reader' = "" /\ todo' = <<>> /\ got' = Unread /\ now' = 0 /\ old' = {} /\ writes' = 0
    BY <1>12, Zenon DEF Close
  <2>2. UNCHANGED <<clock, role, kept, inline, chunks, rows, edits, updated>>
    BY <1>12, Zenon DEF Close, stored
  <2>3. now' \in Times /\ writes' \in 0 .. MaxWrites
    <3>1. 0 \in Times /\ 0 \in 0 .. MaxWrites
      BY Bounds DEF Times
    <3> QED
      BY <2>1, <3>1, Zenon
  <2>4. QueriesToMake'
    BY <2>1, EmptySeq, Zenon DEF QueriesToMake
  <2> QED
    BY <1>2, <2>1, <2>2, <2>3, <2>4, UnreadTyped, Zenon DEF TypeOK
<1> QED
  BY <1>4, <1>5, <1>6, <1>7, <1>8, <1>9, <1>10, <1>11, <1>12, Zenon DEF Next

\* The headers stay in order, wherever they are kept.
LEMMA OrderStep ==
    ASSUME Gathering, [Next]_vars
    PROVE  HeadersInOrder'
<1>1. TypeOK /\ QueriesToMake /\ HeadersInOrder
  BY Zenon DEF Gathering
<1>2. /\ InOrder(inline) /\ InOrder(Merged(chunks))
      /\ InOrder(got.composer.inline) /\ InOrder(Merged(got.chunks))
      /\ kept = "inline" => chunks = <<>> /\ got.chunks = <<>>
      /\ kept = "chunks" => inline = <<>> /\ got.composer.inline = <<>>
  BY <1>1, Zenon DEF HeadersInOrder
<1>3. CASE UNCHANGED <<kept, inline, chunks, got>>
  BY <1>2, <1>3, Zenon DEF HeadersInOrder
<1>4. ASSUME NEW m \in Ids, WriteHeader(m) PROVE HeadersInOrder'
  <2>1. UNCHANGED <<kept, got>>
    BY <1>4, Zenon DEF WriteHeader
  <2>2. /\ InOrder(inline') /\ InOrder(Merged(chunks'))
        /\ kept = "inline" => chunks' = <<>>
        /\ kept = "chunks" => inline' = <<>>
    BY <1>1, <1>4, HeaderWritten, Zenon
  <2> QED
    BY <1>2, <2>1, <2>2, Zenon DEF HeadersInOrder
<1>5. CASE Query
  <2>1. UNCHANGED <<kept, inline, chunks>>
    BY <1>5, Zenon DEF Query, stored
  <2>2. /\ got'.composer.inline = inline \/ got'.composer.inline = got.composer.inline
        /\ got'.chunks = chunks \/ got'.chunks = got.chunks
    <3>1. /\ got'.composer = [inline |-> inline, updated |-> updated] \/ got'.composer = got.composer
          /\ got'.chunks = chunks \/ got'.chunks = got.chunks
      BY <1>1, <1>5, Answered, Zenon
    <3> QED
      BY <3>1
  <2> QED
    BY <1>2, <2>1, <2>2, Zenon DEF HeadersInOrder
<1>6. CASE Close
  <2>1. UNCHANGED <<kept, inline, chunks>> /\ got' = Unread
    BY <1>6, Zenon DEF Close, stored
  <2>2. InOrder(<<>>) /\ Merged(<<>>) = <<>>
    BY FlattenNone DEF InOrder, Merged
  <2> QED
    BY <1>2, <2>1, <2>2, UnreadTyped, Zenon DEF HeadersInOrder
<1>7. UNCHANGED <<kept, inline, chunks, got>> \/ Query \/ Close \/ \E m \in Ids : WriteHeader(m)
  BY Zenon DEF Next, vars, WriteRow, WriteEdit, Tick, Begin, Assemble, stored
<1> QED
  BY <1>3, <1>4, <1>5, <1>6, <1>7, Zenon

\* What was there stays, and what has been answered since holds it.
LEMMA OldStep ==
    ASSUME Gathering, [Next]_vars
    PROVE  OldIsHeld'
<1>1. TypeOK /\ QueriesToMake /\ HeadersInOrder /\ OldIsHeld
  BY Zenon DEF Gathering
<1>2. /\ old \subseteq Said
      /\ \A m \in old : rows[m] # NoRow
      /\ ~Pending("rows") => \A m \in old : got.rows[m] = rows[m]
      /\ kept = "inline" /\ ~Pending("composer") => old \subseteq ToSet(got.composer.inline)
      /\ kept = "chunks" /\ ~Pending("chunks") => old \subseteq ToSet(Merged(got.chunks))
  BY <1>1, Zenon DEF OldIsHeld
<1>3. CASE UNCHANGED <<kept, inline, chunks, rows, todo, got, old>>
  BY <1>2, <1>3, Zenon DEF OldIsHeld, Said, Pending
<1>4. ASSUME NEW m \in Ids, WriteRow(m) PROVE OldIsHeld'
  <2>1. UNCHANGED <<kept, inline, chunks, todo, got, old>> /\ rows[m] = NoRow
    BY <1>4, Zenon DEF WriteRow
  <2>2. \A k \in old : rows'[k] = rows[k]
    <3>1. PICK row \in Row : rows' = [rows EXCEPT ![m] = row]
      BY <1>1, <1>4, RowWritten
    <3>2. rows \in [Ids -> Row \cup {NoRow}] /\ old \subseteq Ids
      BY <1>1, Zenon DEF TypeOK
    <3>3. \A k \in old : k # m /\ k \in Ids
      BY <1>2, <2>1, <3>2, Zenon
    <3> QED
      BY <3>1, <3>2, <3>3
  <2>3. Said' = Said /\ \A q : Pending(q)' <=> Pending(q)
    BY <2>1, Zenon DEF Said, Pending
  <2> QED
    BY <1>2, <2>1, <2>2, <2>3, Zenon DEF OldIsHeld
<1>5. ASSUME NEW m \in Ids, WriteHeader(m) PROVE OldIsHeld'
  <2>1. UNCHANGED <<kept, rows, todo, got, old>>
    BY <1>5, Zenon DEF WriteHeader
  <2>2. Said \subseteq Said'
    <3>1. ToSet(inline) \subseteq ToSet(inline') /\ ToSet(Merged(chunks)) \subseteq ToSet(Merged(chunks'))
      BY <1>1, <1>5, HeaderWritten, Zenon
    <3>2. Said = ToSet(inline) \cup ToSet(Merged(chunks)) /\ Said' = ToSet(inline') \cup ToSet(Merged(chunks'))
      BY Zenon DEF Said, Merged
    <3> QED
      BY <3>1, <3>2, Zenon
  <2>3. \A q : Pending(q)' <=> Pending(q)
    BY <2>1, Zenon DEF Pending
  <2>4. old' \subseteq Said'
    BY <1>2, <2>1, <2>2, Zenon
  <2> QED
    BY <1>2, <2>1, <2>3, <2>4, Zenon DEF OldIsHeld
<1>6. ASSUME NEW r \in DOMAIN Queries, Begin(r) PROVE OldIsHeld'
  <2>1. todo' = Queries[r] /\ old' = {m \in Said : rows[m] # NoRow}
    BY <1>6, Zenon DEF Begin
  <2>2. UNCHANGED <<kept, inline, chunks, rows, got>>
    BY <1>6, Zenon DEF Begin, stored
  <2>3. \A q \in QueryKinds : Pending(q)'
    BY <2>1, QueriesTyped, Zenon DEF Pending
  <2>4. Pending("rows")' /\ Pending("composer")' /\ Pending("chunks")'
    BY <2>3 DEF QueryKinds
  <2>5. Said' = Said
    BY <2>2, Zenon DEF Said
  <2>6. old' \subseteq Said' /\ \A m \in old' : rows'[m] # NoRow
    BY <2>1, <2>2, <2>5
  <2> QED
    BY <2>4, <2>6, Zenon DEF OldIsHeld
<1>7. CASE Query
  <2>1. UNCHANGED <<kept, inline, chunks, rows, old>>
    BY <1>7, Zenon DEF Query, stored
  <2>2. Said' = Said
    BY <2>1, Zenon DEF Said
  <2>3. /\ \A q \in QueryKinds : Pending(q) => q = Head(todo) \/ Pending(q)'
        /\ got'.composer = IF Head(todo) = "composer"
                           THEN [inline |-> inline, updated |-> updated] ELSE got.composer
        /\ got'.chunks = IF Head(todo) = "chunks" THEN chunks ELSE got.chunks
        /\ got'.rows = IF Head(todo) = "rows" THEN rows ELSE got.rows
    BY <1>1, <1>7, Answered, Zenon
  <2>4. "rows" \in QueryKinds /\ "composer" \in QueryKinds /\ "chunks" \in QueryKinds
    BY DEF QueryKinds
  <2>5. ~Pending("rows")' => \A m \in old' : got'.rows[m] = rows'[m]
    BY <1>2, <2>1, <2>3, <2>4, Zenon
  <2>6. Said = ToSet(IF kept = "inline" THEN inline ELSE Merged(chunks))
    BY <1>1, SaidIs, Zenon
  <2>7. kept' = "inline" /\ ~Pending("composer")' => old' \subseteq ToSet(got'.composer.inline)
    <3> SUFFICES ASSUME kept = "inline", ~Pending("composer")'
                 PROVE  old \subseteq ToSet(got'.composer.inline)
      BY <2>1, Zenon
    <3>1. CASE Head(todo) = "composer"
      <4>1. got'.composer = [inline |-> inline, updated |-> updated]
        BY <2>3, <3>1, Zenon
      <4>2. got'.composer.inline = inline
        BY <4>1
      <4> QED
        BY <1>2, <2>6, <4>2, Zenon
    <3>2. CASE Head(todo) # "composer"
      BY <1>2, <2>3, <2>4, <3>2, Zenon
    <3> QED
      BY <3>1, <3>2
  <2>8. kept' = "chunks" /\ ~Pending("chunks")' => old' \subseteq ToSet(Merged(got'.chunks))
    <3> SUFFICES ASSUME kept = "chunks", ~Pending("chunks")'
                 PROVE  old \subseteq ToSet(Merged(got'.chunks))
      BY <2>1, Zenon
    <3>1. CASE Head(todo) = "chunks"
      <4>1. Said = ToSet(Merged(chunks))
        BY <2>6
      <4> QED
        BY <1>2, <2>3, <3>1, <4>1, Zenon
    <3>2. CASE Head(todo) # "chunks"
      BY <1>2, <2>3, <2>4, <3>2, Zenon
    <3> QED
      BY <3>1, <3>2
  <2>9. old' \subseteq Said' /\ \A m \in old' : rows'[m] # NoRow
    BY <1>2, <2>1, <2>2, Zenon
  <2> QED
    BY <2>5, <2>7, <2>8, <2>9, Zenon DEF OldIsHeld
<1>8. CASE Close
  <2>1. old' = {}
    BY <1>8, Zenon DEF Close
  <2> QED
    BY <2>1, Zenon DEF OldIsHeld
<1>9. \/ UNCHANGED <<kept, inline, chunks, rows, todo, got, old>> \/ Query \/ Close
      \/ \E m \in Ids : WriteRow(m) \/ WriteHeader(m)
      \/ \E r \in DOMAIN Queries : Begin(r)
  BY Zenon DEF Next, vars, WriteEdit, Tick, Assemble, stored
<1> QED
  BY <1>3, <1>4, <1>5, <1>6, <1>7, <1>8, <1>9, Zenon

\* No time is ahead of the clock.
LEMMA TimesStep ==
    ASSUME Gathering, [Next]_vars
    PROVE  NoTimeAhead'
<1>1. TypeOK /\ QueriesToMake /\ NoTimeAhead
  BY Zenon DEF Gathering
<1>2. /\ now # 0 => reader # "" /\ todo = <<>>
      /\ now <= clock
      /\ \A m \in Ids : rows[m].at <= clock /\ got.rows[m].at <= clock
      /\ now # 0 => \A m \in Ids : got.rows[m].at <= now
  BY <1>1, Zenon DEF NoTimeAhead
<1>3. clock \in 1 .. MaxClock /\ now \in Times /\ rows \in [Ids -> Row \cup {NoRow}]
  BY <1>1, Zenon DEF TypeOK
<1>4. clock \in Nat /\ clock # 0 /\ now \in Nat
  <2>1. clock \in 1 .. MaxClock /\ now \in Times
    BY <1>3, Zenon
  <2> QED
    BY <2>1, Bounds DEF Times
<1>5. CASE UNCHANGED <<clock, rows, reader, todo, got, now>>
  BY <1>2, <1>5, Zenon DEF NoTimeAhead
<1>6. ASSUME NEW m \in Ids, WriteRow(m) PROVE NoTimeAhead'
  <2>1. UNCHANGED <<clock, reader, todo, got, now>>
    BY <1>6, Zenon DEF WriteRow
  <2>2. PICK row \in Row : row.at \in {Untimed, clock} /\ rows' = [rows EXCEPT ![m] = row]
    BY <1>1, <1>6, RowWritten
  <2>3. row.at <= clock
    BY <1>4, <2>2 DEF Untimed
  <2>4. \A k \in Ids : rows'[k] = IF k = m THEN row ELSE rows[k]
    BY <1>3, <2>2
  <2>5. \A k \in Ids : rows'[k].at <= clock
    BY <1>2, <2>3, <2>4, Zenon
  <2> QED
    BY <1>2, <2>1, <2>5, Zenon DEF NoTimeAhead
<1>7. CASE Tick
  <2>1. clock' = clock + 1
    BY <1>7, Zenon DEF Tick
  <2>2. UNCHANGED <<rows, reader, todo, got, now>>
    BY <1>7, Zenon DEF Tick, stored
  <2>3. \A m \in Ids : rows[m].at \in Int /\ got.rows[m].at \in Int
    <3>1. \A row \in Row \cup {NoRow} : row.at \in Int
      BY DEF Row, NoRow, Untimed, Times
    <3>2. got \in [composer : [inline : Seq(Ids), updated : Times], chunks : Seq(Seq(Ids)),
                   rows : [Ids -> Row \cup {NoRow}], edits : 0 .. MaxEdits]
      BY <1>1, Zenon DEF TypeOK
    <3>3. got.rows \in [Ids -> Row \cup {NoRow}]
      BY <3>2
    <3>4. \A m \in Ids : rows[m] \in Row \cup {NoRow} /\ got.rows[m] \in Row \cup {NoRow}
      BY <1>3, <3>3
    <3> QED
      BY <3>1, <3>4, Zenon
  <2>4. \A t \in Int : t <= clock => t <= clock'
    BY <1>4, <2>1
  <2>5. now <= clock'
    <3>1. now <= clock
      BY <1>2, Zenon
    <3> QED
      BY <1>4, <2>4, <3>1
  <2>6. \A m \in Ids : rows[m].at <= clock' /\ got.rows[m].at <= clock'
    BY <1>2, <2>3, <2>4, Zenon
  <2> QED
    BY <1>2, <2>2, <2>5, <2>6, Zenon DEF NoTimeAhead
<1>8. ASSUME NEW r \in DOMAIN Queries, Begin(r) PROVE NoTimeAhead'
  <2>1. reader = "" /\ UNCHANGED <<clock, rows, got, now>>
    BY <1>8, Zenon DEF Begin, stored
  <2>2. now = 0
    BY <1>2, <2>1, Zenon
  <2> QED
    BY <1>2, <2>1, <2>2, Zenon DEF NoTimeAhead
<1>9. CASE Query
  <2>1. todo # <<>> /\ UNCHANGED <<clock, rows, reader, now>>
    BY <1>9, Zenon DEF Query, stored
  <2>2. now = 0
    BY <1>2, <2>1, Zenon
  <2>3. got'.rows = rows \/ got'.rows = got.rows
    BY <1>1, <1>9, Answered, Zenon
  <2> QED
    BY <1>2, <2>1, <2>2, <2>3, Zenon DEF NoTimeAhead
<1>10. CASE Assemble
  <2>1. reader # "" /\ todo = <<>> /\ now' = clock /\ UNCHANGED <<clock, rows, reader, todo, got>>
    BY <1>10, Zenon DEF Assemble, stored
  <2>2. clock <= clock
    BY <1>4
  <2> QED
    BY <1>2, <2>1, <2>2, Zenon DEF NoTimeAhead
<1>11. CASE Close
  <2>1. now' = 0 /\ got' = Unread /\ UNCHANGED <<clock, rows>>
    BY <1>11, Zenon DEF Close, stored
  <2>2. \A m \in Ids : Unread.rows[m].at = 0
    BY UnreadTyped DEF NoRow, Untimed
  <2>3. 0 <= clock
    BY <1>4
  <2> QED
    BY <1>2, <2>1, <2>2, <2>3, Zenon DEF NoTimeAhead
<1>12. \/ UNCHANGED <<clock, rows, reader, todo, got, now>> \/ Tick \/ Query \/ Assemble \/ Close
       \/ \E m \in Ids : WriteRow(m)
       \/ \E r \in DOMAIN Queries : Begin(r)
  BY Zenon DEF Next, vars, WriteHeader, WriteEdit
<1> QED
  BY <1>5, <1>6, <1>7, <1>8, <1>9, <1>10, <1>11, <1>12, Zenon

\* The invariant holds in every state.
LEMMA GatheringHolds == Spec => []Gathering
<1>1. Init => Gathering
  BY GatheringInit
<1>2. Gathering /\ [Next]_vars => Gathering'
  BY TypeStep, OrderStep, OldStep, TimesStep, Zenon DEF Gathering
<1> QED
  BY <1>1, <1>2, PTL DEF Spec

\* What a handler holds of the conversation is typed, and ready to be assembled
\* once every query has been answered.
THEOREM TranscriptTypeCorrect == Spec => []TypeOK
<1>1. Gathering => TypeOK
  BY Zenon DEF Gathering
<1> QED
  BY <1>1, GatheringHolds, PTL

-----------------------------------------------------------------------------
(* What is shown.                                                          *)

\* A set of natural numbers below a bound has a greatest.
LEMMA GreatestNat ==
    ASSUME NEW T \in SUBSET Nat, T # {}, NEW b \in Nat, \A m \in T : m <= b
    PROVE  \E n \in T : \A m \in T : m <= n
<1> DEFINE U == {u \in Nat : \A m \in T : m <= u}
<1>1. PICK u \in U : \A v \in U : u <= v
  <2>1. U \in SUBSET Nat /\ U # {}
    OBVIOUS
  <2> HIDE DEF U
  <2> QED
    BY <2>1, LeastNat
<1>2. CASE u \in T
  BY <1>1, <1>2
<1>3. CASE u \notin T
  <2>1. u \in Nat /\ \A m \in T : m <= u /\ m \in Nat
    OBVIOUS
  <2>2. \A m \in T : m <= u - 1
    BY <1>3, <2>1
  <2>3. u - 1 \in Nat
    <3>1. PICK m \in T : TRUE
      OBVIOUS
    <3> QED
      BY <2>1, <2>2, <3>1
  <2>4. u - 1 \in U
    BY <2>2, <2>3
  <2> QED
    BY <1>1, <2>1, <2>4
<1> QED
  BY <1>2, <1>3

\* Max finds it.
LEMMA MaxIn ==
    ASSUME NEW T \in SUBSET Nat, T # {}, NEW b \in Nat, \A m \in T : m <= b
    PROVE  Max(T) \in T /\ \A m \in T : m <= Max(T)
<1>1. \E n \in T : \A m \in T : n >= m
  BY GreatestNat
<1> QED
  BY <1>1 DEF Max

AnEntry == [id : 0 .. Messages, kind : {"user", "ai"}, ts : Int, place : Int, response : {0}]

\* What was read, when it is typed.
Answers == [composer : [inline : Seq(Ids), updated : Times], chunks : Seq(Seq(Ids)),
            rows : [Ids -> Row \cup {NoRow}], edits : 0 .. MaxEdits]

LEMMA HeadersTyped ==
    ASSUME NEW g \in Answers
    PROVE  Headers(g) \in Seq(Ids)
<1>1. g.composer.inline \in Seq(Ids) /\ g.chunks \in Seq(Seq(Ids))
  BY DEF Answers
<1>2. Merged(g.chunks) \in Seq(Ids)
  BY <1>1, FlattenTyped DEF Merged
<1> QED
  BY <1>1, <1>2, Zenon DEF Headers

\* The entries before they are sorted: every one has a place of its own.
LEMMA Unsorted ==
    ASSUME NEW r, NEW g \in Answers, NEW at \in Nat, NEW e,
           role \in [Ids -> {"user", "ai"}], Messages \in Nat
    PROVE  /\ e \in Entries(r, g, at) =>
                /\ e \in AnEntry
                /\ e.place \in DOMAIN Headers(g)
                /\ g.rows[Headers(g)[e.place]] # NoRow
                /\ e = Entry(Headers(g)[e.place], role[Headers(g)[e.place]],
                             Stamp(g.rows[Headers(g)[e.place]], at), e.place)
           /\ e \in Edits(r, g, at) =>
                /\ e \in AnEntry
                /\ e.place \in Len(Headers(g)) + 1 .. Len(Headers(g)) + g.edits
                /\ e = Entry(0, "ai", IF g.composer.updated = 0 THEN at ELSE g.composer.updated, e.place)
<1> DEFINE h == Headers(g)
<1>1. h \in Seq(Ids) /\ Len(h) \in Nat /\ DOMAIN h = 1 .. Len(h)
  <2>1. h \in Seq(Ids)
    BY HeadersTyped
  <2> HIDE DEF h
  <2> QED
    BY <2>1
<1>2. /\ g.rows \in [Ids -> Row \cup {NoRow}] /\ g.composer.updated \in Nat
      /\ g.edits \in Nat
  <2>1. g.rows \in [Ids -> Row \cup {NoRow}] /\ g.composer.updated \in Times /\ g.edits \in 0 .. MaxEdits
    BY DEF Answers
  <2>2. g.composer.updated \in Times /\ g.edits \in 0 .. MaxEdits
    BY <2>1, Zenon
  <2> QED
    BY <2>1, <2>2, Bounds DEF Times
<1>3. \A row \in Row \cup {NoRow} : row.at \in Int
  BY DEF Row, NoRow, Untimed, Times
<1> HIDE DEF h
<1>4. ASSUME e \in Entries(r, g, at)
      PROVE  /\ e \in AnEntry
             /\ e.place \in DOMAIN h
             /\ g.rows[h[e.place]] # NoRow
             /\ e = Entry(h[e.place], role[h[e.place]], Stamp(g.rows[h[e.place]], at), e.place)
  <2>1. PICK i \in DOMAIN h : /\ g.rows[h[i]] # NoRow
                              /\ e = Entry(h[i], role[h[i]], Stamp(g.rows[h[i]], at), i)
    BY <1>4 DEF Entries, h
  <2>2. h[i] \in Ids /\ i \in Int
    BY <1>1, <2>1
  <2>3. role[h[i]] \in {"user", "ai"} /\ g.rows[h[i]] \in Row \cup {NoRow}
    BY <1>2, <2>2
  <2>4. Stamp(g.rows[h[i]], at) \in Int
    <3>1. g.rows[h[i]].at \in Int
      BY <1>3, <2>3, Zenon
    <3> QED
      BY <3>1 DEF Stamp
  <2>5. h[i] \in 0 .. Messages
    BY <2>2 DEF Ids
  <2>6. e \in AnEntry /\ e.place = i
    BY <2>1, <2>2, <2>3, <2>4, <2>5 DEF Entry, AnEntry
  <2> QED
    BY <2>1, <2>6
<1>5. ASSUME e \in Edits(r, g, at)
      PROVE  /\ e \in AnEntry
             /\ e.place \in Len(h) + 1 .. Len(h) + g.edits
             /\ e = Entry(0, "ai", IF g.composer.updated = 0 THEN at ELSE g.composer.updated, e.place)
  <2> DEFINE ts == IF g.composer.updated = 0 THEN at ELSE g.composer.updated
  <2>1. PICK i \in 1 .. IF r = "export" THEN g.edits ELSE 0 : e = Entry(0, "ai", ts, Len(h) + i)
    BY <1>5 DEF Edits, h
  <2>2. i \in 1 .. g.edits
    BY <1>2, <2>1
  <2>3. ts \in Int /\ 0 \in 0 .. Messages
    BY <1>2
  <2> HIDE DEF ts
  <2>4. Len(h) + i \in Int /\ Len(h) + i \in Len(h) + 1 .. Len(h) + g.edits
    BY <1>1, <1>2, <2>2
  <2>5. e \in AnEntry /\ e.place = Len(h) + i
    BY <2>1, <2>3, <2>4 DEF Entry, AnEntry
  <2> QED
    BY <2>1, <2>4, <2>5 DEF ts
<1> QED
  BY <1>4, <1>5 DEF h

\* Entries with places of their own can be sorted.
LEMMA PlacesSort ==
    ASSUME NEW E, NEW b \in Nat,
           \A e \in E : e.ts \in Int /\ e.place \in 1 .. b,
           \A x, y \in E : x.place = y.place => x = y
    PROVE  Sortable(E)
<1> DEFINE f == [e \in E |-> e.place]
<1>1. f \in Injection(E, 1 .. b)
  BY DEF Injection, IsInjective
<1>2. IsFiniteSet(1 .. b)
  BY FS_Interval
<1> HIDE DEF f
<1>3. IsFiniteSet(E)
  BY <1>1, <1>2, FS_Injection
<1> QED
  BY <1>3 DEF Sortable

\* A list has an entry of the set for every number, and no entry is left.
ListOf(s, n, E) == E = {s[i] : i \in 1 .. n}

\* What is listed, in its order.
LEMMA Listed ==
    ASSUME NEW r, NEW g \in Answers, NEW at \in Nat,
           role \in [Ids -> {"user", "ai"}], Messages \in Nat
    PROVE  LET E == Entries(r, g, at) \cup Edits(r, g, at)
               n == Cardinality(E)
               s == ByTime(E)
           IN  /\ n \in Nat /\ s \in [1 .. n -> AnEntry]
               /\ \A i \in 1 .. n : s[i] \in E
               /\ ListOf(s, n, E)
               /\ \A i, j \in 1 .. n : i < j => Before(s[i], s[j])
<1> DEFINE E == Entries(r, g, at) \cup Edits(r, g, at)
           b == Len(Headers(g)) + g.edits
<1>1. Len(Headers(g)) \in Nat /\ DOMAIN Headers(g) = 1 .. Len(Headers(g)) /\ g.edits \in Nat
  <2>1. Headers(g) \in Seq(Ids)
    BY HeadersTyped
  <2>2. g.edits \in 0 .. MaxEdits
    BY DEF Answers
  <2> QED
    BY <2>1, <2>2, Bounds
<1>2. \A e \in E : e \in AnEntry /\ e.place \in 1 .. b
  <2> SUFFICES ASSUME NEW e \in E PROVE e \in AnEntry /\ e.place \in 1 .. b
    OBVIOUS
  <2>1. CASE e \in Entries(r, g, at)
    <3>1. e \in AnEntry /\ e.place \in DOMAIN Headers(g)
      BY <2>1, Unsorted
    <3> QED
      BY <1>1, <3>1
  <2>2. CASE e \in Edits(r, g, at)
    <3>1. e \in AnEntry /\ e.place \in Len(Headers(g)) + 1 .. Len(Headers(g)) + g.edits
      BY <2>2, Unsorted
    <3> QED
      BY <1>1, <3>1
  <2> QED
    BY <2>1, <2>2
<1>3. \A x, y \in E : x.place = y.place => x = y
  <2> SUFFICES ASSUME NEW x \in E, NEW y \in E, x.place = y.place PROVE x = y
    OBVIOUS
  <2> DEFINE M(p) == Entry(Headers(g)[p], role[Headers(g)[p]], Stamp(g.rows[Headers(g)[p]], at), p)
             C(p) == Entry(0, "ai", IF g.composer.updated = 0 THEN at ELSE g.composer.updated, p)
  <2>1. \A e \in E : \/ e.place \in 1 .. Len(Headers(g)) /\ e = M(e.place)
                     \/ e.place \in Len(Headers(g)) + 1 .. Len(Headers(g)) + g.edits /\ e = C(e.place)
    <3> SUFFICES ASSUME NEW e \in E
                 PROVE  \/ e.place \in 1 .. Len(Headers(g)) /\ e = M(e.place)
                        \/ e.place \in Len(Headers(g)) + 1 .. Len(Headers(g)) + g.edits /\ e = C(e.place)
      OBVIOUS
    <3>1. e \in Entries(r, g, at) => e.place \in DOMAIN Headers(g) /\ e = M(e.place)
      BY Unsorted
    <3>2. e \in Edits(r, g, at) =>
            e.place \in Len(Headers(g)) + 1 .. Len(Headers(g)) + g.edits /\ e = C(e.place)
      BY Unsorted
    <3> QED
      BY <1>1, <3>1, <3>2
  <2> HIDE DEF M, C
  <2> QED
    BY <1>1, <2>1
<1>4. b \in Nat
  BY <1>1
<1> HIDE DEF E, b
<1>5. \A e \in E : e.ts \in Int
  BY <1>2 DEF AnEntry
<1>6. Sortable(E)
  BY <1>2, <1>3, <1>4, <1>5, PlacesSort, Zenon
<1>7. /\ Cardinality(E) \in Nat
      /\ ByTime(E) \in [1 .. Cardinality(E) -> E]
      /\ \A e \in E : \E i \in 1 .. Cardinality(E) : ByTime(E)[i] = e
      /\ \A i, j \in 1 .. Cardinality(E) : i < j => Before(ByTime(E)[i], ByTime(E)[j])
  BY <1>6, Sorted, Zenon
<1>8. ByTime(E) \in [1 .. Cardinality(E) -> AnEntry] /\ \A i \in 1 .. Cardinality(E) : ByTime(E)[i] \in E
  BY <1>2, <1>7
<1>9. ListOf(ByTime(E), Cardinality(E), E)
  BY <1>7, <1>8 DEF ListOf
<1> QED
  BY <1>7, <1>8, <1>9, Zenon DEF E

\* Response times change nothing else, and one that is not zero is counted from the
\* last question above.
LEMMA AnnotatedIs ==
    ASSUME NEW n \in Nat, NEW s \in [1 .. n -> AnEntry]
    PROVE  /\ DOMAIN Annotated(s) = 1 .. n
           /\ \A i \in 1 .. n :
                /\ Annotated(s)[i].id = s[i].id /\ Annotated(s)[i].kind = s[i].kind
                /\ Annotated(s)[i].ts = s[i].ts
                /\ Annotated(s)[i].response > 0 =>
                     \E q \in 1 .. i : /\ s[q].kind = "user"
                                       /\ Annotated(s)[i].response = s[i].ts - s[q].ts
                                       /\ \A k \in 1 .. i : s[k].kind = "user" => k <= q
<1> DEFINE asked(i) == {j \in 1 .. i : s[j].kind = "user"}
           late(i) == s[i].kind = "user" \/ asked(i) = {} \/ s[i].ts <= s[Max(asked(i))].ts
<1>1. DOMAIN s = 1 .. n
  OBVIOUS
<1>2. Annotated(s) = [i \in 1 .. n |-> IF late(i) THEN s[i]
                                       ELSE [s[i] EXCEPT !.response = s[i].ts - s[Max(asked(i))].ts]]
  BY <1>1, Zenon DEF Annotated
<1> SUFFICES ASSUME NEW i \in 1 .. n
             PROVE  /\ Annotated(s)[i].id = s[i].id /\ Annotated(s)[i].kind = s[i].kind
                    /\ Annotated(s)[i].ts = s[i].ts
                    /\ Annotated(s)[i].response > 0 =>
                         \E q \in 1 .. i : /\ s[q].kind = "user"
                                           /\ Annotated(s)[i].response = s[i].ts - s[q].ts
                                           /\ \A k \in 1 .. i : s[k].kind = "user" => k <= q
  <2>1. DOMAIN Annotated(s) = 1 .. n
    BY <1>2
  <2> QED
    BY <2>1, Zenon
<1>3. s[i] \in AnEntry /\ i \in Nat
  OBVIOUS
<1>4. CASE late(i)
  <2>1. Annotated(s)[i] = s[i]
    BY <1>2, <1>4
  <2>2. ~(s[i].response > 0)
    BY <1>3 DEF AnEntry
  <2> QED
    BY <2>1, <2>2, Zenon
<1>5. CASE ~late(i)
  <2> DEFINE q == Max(asked(i))
  <2>1. q \in asked(i) /\ \A k \in asked(i) : k <= q
    <3>1. asked(i) \in SUBSET Nat /\ asked(i) # {} /\ \A k \in asked(i) : k <= i
      BY <1>3, <1>5
    <3> HIDE DEF asked
    <3> QED
      BY <1>3, <3>1, MaxIn
  <2>2. Annotated(s)[i] = [s[i] EXCEPT !.response = s[i].ts - s[q].ts]
    BY <1>2, <1>5
  <2>3. q \in 1 .. i /\ s[q].kind = "user" /\ \A k \in 1 .. i : s[k].kind = "user" => k <= q
    BY <2>1
  <2> HIDE DEF q
  <2>4. PICK d : d = s[i].ts - s[q].ts
    OBVIOUS
  <2>5. Annotated(s)[i] = [s[i] EXCEPT !.response = d]
    BY <2>2, <2>4, Zenon
  <2>6. /\ Annotated(s)[i].id = s[i].id /\ Annotated(s)[i].kind = s[i].kind
        /\ Annotated(s)[i].ts = s[i].ts /\ Annotated(s)[i].response = d
    BY <1>3, <2>5 DEF AnEntry
  <2> QED
    BY <2>3, <2>4, <2>6, Zenon
<1> QED
  BY <1>4, <1>5

\* What the properties are about: when something is shown, what it was made of is typed.
LEMMA WhenShown ==
    ASSUME Gathering, now # 0
    PROVE  /\ got \in Answers /\ now \in Nat /\ Messages \in Nat
           /\ role \in [Ids -> {"user", "ai"}]
           /\ \A q \in QueryKinds : ~Pending(q)
<1>1. TypeOK /\ NoTimeAhead
  BY Zenon DEF Gathering
<1>2. got \in Answers
  BY <1>1, Zenon DEF TypeOK, Answers
<1>3. now \in Times /\ role \in Roles
  BY <1>1, Zenon DEF TypeOK
<1>4. now \in Nat
  <2>1. now \in Times
    BY <1>3
  <2> QED
    BY <2>1, Bounds DEF Times
<1>5. role \in [Ids -> {"user", "ai"}]
  <2>1. Roles \subseteq [1 .. Messages -> {"user", "ai"}]
    BY TranscriptAssumption, Zenon
  <2> QED
    BY <1>3, <2>1, Zenon DEF Ids
<1>6. Messages \in Nat
  <2>1. Messages \in Nat \ {0}
    BY TranscriptAssumption, Zenon
  <2> QED
    BY <2>1
<1>7. todo = <<>>
  BY <1>1, Zenon DEF NoTimeAhead
<1>8. \A q \in QueryKinds : ~Pending(q)
  BY <1>7 DEF Pending
<1> QED
  BY <1>2, <1>4, <1>5, <1>6, <1>8

\* A response time never reaches back over a question that is shown above the answer,
\* and never before the first one: for every list that could have been read.
THEOREM ResponsesKnowTheirQuestion == Spec => []ResponseIsToTheLastQuestion
<1>1. ASSUME Gathering PROVE ResponseIsToTheLastQuestion
  <2> SUFFICES ASSUME now # 0, NEW j \in DOMAIN Shown, Shown[j].response > 0
               PROVE  /\ \E i \in 1 .. j : Shown[i].kind = "user"
                      /\ \A i \in 1 .. j :
                           Shown[i].kind = "user" => Shown[j].ts - Shown[j].response >= Shown[i].ts
    BY DEF ResponseIsToTheLastQuestion
  <2> DEFINE E == Entries(reader, got, now) \cup Edits(reader, got, now)
             n == Cardinality(E)
             s == ByTime(E)
  <2>1. /\ n \in Nat /\ s \in [1 .. n -> AnEntry]
        /\ \A i, k \in 1 .. n : i < k => Before(s[i], s[k])
    BY <1>1, WhenShown, Listed
  <2>2. Shown = Annotated(s)
    BY DEF Shown, Assembled
  <2> HIDE DEF E, n, s
  <2>3. j \in 1 .. n
    BY <2>1, <2>2, AnnotatedIs
  <2>4. PICK q \in 1 .. j : /\ s[q].kind = "user"
                            /\ Shown[j].response = s[j].ts - s[q].ts
                            /\ \A k \in 1 .. j : s[k].kind = "user" => k <= q
    BY <2>1, <2>2, <2>3, AnnotatedIs
  <2>5. \A i \in 1 .. j : /\ i \in 1 .. n
                          /\ Shown[i].kind = s[i].kind /\ Shown[i].ts = s[i].ts
    <3>1. \A i \in 1 .. j : i \in 1 .. n
      BY <2>1, <2>3
    <3> QED
      BY <2>1, <2>2, <3>1, AnnotatedIs
  <2>6. \A i \in 1 .. n : s[i].ts \in Int
    BY <2>1 DEF AnEntry
  <2>7. q \in 1 .. j /\ q \in 1 .. n /\ j \in 1 .. j
    BY <2>1, <2>3
  <2>8. ASSUME NEW i \in 1 .. j, Shown[i].kind = "user"
        PROVE  Shown[j].ts - Shown[j].response >= Shown[i].ts
    <3>1. i <= q /\ i \in 1 .. n
      BY <2>1, <2>3, <2>4, <2>5, <2>8
    <3>2. s[i].ts <= s[q].ts
      <4>1. CASE i = q
        BY <2>6, <2>7, <4>1
      <4>2. CASE i # q
        <5>1. Before(s[i], s[q])
          BY <2>1, <2>7, <3>1, <4>2
        <5> QED
          BY <2>6, <2>7, <3>1, <5>1 DEF Before
      <4> QED
        BY <4>1, <4>2
    <3>3. Shown[j].ts = s[j].ts /\ Shown[i].ts = s[i].ts
      BY <2>5, <2>7
    <3>4. s[j].ts \in Int /\ s[q].ts \in Int /\ s[i].ts \in Int
      BY <2>3, <2>6, <2>7, <3>1
    <3>5. PICK a \in Int, b \in Int, c \in Int : a = s[j].ts /\ b = s[q].ts /\ c = s[i].ts
      BY <3>4
    <3>6. a - (a - b) >= c
      BY <3>2, <3>5
    <3> QED
      BY <2>4, <3>3, <3>5, <3>6
  <2>9. \E i \in 1 .. j : Shown[i].kind = "user"
    BY <2>4, <2>5, <2>7
  <2> QED
    BY <2>8, <2>9
<1> QED
  BY <1>1, GatheringHolds, PTL

\* The headers that are used are in the order of the conversation.
LEMMA UsedInOrder ==
    ASSUME Gathering
    PROVE  InOrder(Headers(got))
<1>1. InOrder(got.composer.inline) /\ InOrder(Merged(got.chunks))
  BY Zenon DEF Gathering, HeadersInOrder
<1> QED
  BY <1>1, Zenon DEF Headers

\* Whatever times the messages have, with or without a header in time, they are the
\* only reasons for which a conversation is not told in its order.
THEOREM TimesAloneReorder == Spec => []OnlyTimesReorder
<1>1. ASSUME Gathering PROVE OnlyTimesReorder
  <2> SUFFICES ASSUME now # 0, NEW i \in DOMAIN Shown, NEW j \in DOMAIN Shown, i < j,
                      Shown[i].id > Shown[j].id, Shown[j].id # 0
               PROVE  \/ got.rows[Shown[j].id].at = Untimed /\ got.rows[Shown[i].id].at # Untimed
                      \/ got.rows[Shown[i].id].at < got.rows[Shown[j].id].at
                         /\ got.rows[Shown[i].id].at # Untimed
    BY DEF OnlyTimesReorder, Above
  <2> DEFINE E == Entries(reader, got, now) \cup Edits(reader, got, now)
             n == Cardinality(E)
             s == ByTime(E)
             h == Headers(got)
  <2>0. /\ got \in Answers /\ now \in Nat /\ Messages \in Nat
        /\ role \in [Ids -> {"user", "ai"}]
    BY <1>1, WhenShown
  <2>1. /\ n \in Nat /\ s \in [1 .. n -> AnEntry]
        /\ \A k \in 1 .. n : s[k] \in E
        /\ \A k, l \in 1 .. n : k < l => Before(s[k], s[l])
    BY <2>0, Listed
  <2>2. Shown = Annotated(s)
    BY DEF Shown, Assembled
  <2> HIDE DEF n, s
  <2>3. i \in 1 .. n /\ j \in 1 .. n
    BY <2>1, <2>2, AnnotatedIs
  <2>4. Shown[i].id = s[i].id /\ Shown[j].id = s[j].id
    BY <2>1, <2>2, <2>3, AnnotatedIs
  <2> DEFINE x == s[i]  y == s[j]
  <2>5. x \in E /\ y \in E /\ Before(x, y) /\ x \in AnEntry /\ y \in AnEntry
    BY <2>1, <2>3
  <2>6. x.id > y.id /\ y.id # 0 /\ x.id # 0
    <3>1. s[i].id > s[j].id /\ s[j].id # 0
      BY <2>4
    <3>2. s[i].id \in Nat /\ s[j].id \in Nat
      BY <2>0, <2>5 DEF AnEntry
    <3> QED
      BY <3>1, <3>2
  <2> HIDE DEF x, y
  <2>7. \A e \in E : e.id # 0 => /\ e.place = e.id /\ e.ts = Stamp(got.rows[e.id], now)
                                 /\ e.id \in Ids
    <3> SUFFICES ASSUME NEW e \in E, e.id # 0
                 PROVE  e.place = e.id /\ e.ts = Stamp(got.rows[e.id], now) /\ e.id \in Ids
      OBVIOUS
    <3>1. e \notin Edits(reader, got, now)
      <4>1. ASSUME e \in Edits(reader, got, now) PROVE FALSE
        <5>1. e = Entry(0, "ai", IF got.composer.updated = 0 THEN now ELSE got.composer.updated, e.place)
          BY <2>0, <4>1, Unsorted
        <5> QED
          BY <5>1 DEF Entry
      <4> QED
        BY <4>1
    <3>2. /\ e.place \in DOMAIN h
          /\ e = Entry(h[e.place], role[h[e.place]], Stamp(got.rows[h[e.place]], now), e.place)
      BY <2>0, <3>1, Unsorted
    <3>3. h[e.place] = e.place
      BY <1>1, <3>2, UsedInOrder DEF InOrder
    <3>4. e.id = h[e.place] /\ e.ts = Stamp(got.rows[h[e.place]], now)
      BY <3>2 DEF Entry
    <3>5. h[e.place] \in Ids
      <4>1. h \in Seq(Ids)
        BY <2>0, HeadersTyped
      <4> HIDE DEF h
      <4> QED
        BY <3>2, <4>1
    <3> HIDE DEF h
    <3> QED
      BY <3>3, <3>4, <3>5
  <2> HIDE DEF E
  <2>8. /\ x.place = x.id /\ x.ts = Stamp(got.rows[x.id], now) /\ x.id \in Ids
        /\ y.place = y.id /\ y.ts = Stamp(got.rows[y.id], now) /\ y.id \in Ids
    BY <2>5, <2>6, <2>7
  <2>9. x.ts < y.ts
    <3>1. ~(x.place < y.place)
      <4>1. x.id \in Int /\ y.id \in Int
        BY <2>0, <2>8 DEF Ids
      <4> QED
        BY <2>6, <2>8, <4>1
    <3> QED
      BY <2>5, <3>1 DEF Before
  <2>10. \A m \in Ids : got.rows[m].at <= now /\ got.rows[m].at \in Int
    <3>1. \A m \in Ids : got.rows[m].at <= now
      BY <1>1, Zenon DEF Gathering, NoTimeAhead
    <3>2. \A row \in Row \cup {NoRow} : row.at \in Int
      BY DEF Row, NoRow, Untimed, Times
    <3>3. got.rows \in [Ids -> Row \cup {NoRow}]
      BY <2>0 DEF Answers
    <3>4. \A m \in Ids : got.rows[m] \in Row \cup {NoRow}
      BY <3>3
    <3> QED
      BY <3>1, <3>2, <3>4, Zenon
  <2>11. PICK a \in Int, b \in Int : a = got.rows[x.id].at /\ b = got.rows[y.id].at
    BY <2>8, <2>10
  <2>12. a <= now /\ b <= now
    BY <2>8, <2>10, <2>11, Zenon
  <2>13. (IF a = 0 THEN now ELSE a) < (IF b = 0 THEN now ELSE b)
    BY <2>8, <2>9, <2>11, Zenon DEF Stamp, Untimed
  <2>14. (b = 0 /\ a # 0) \/ (a < b /\ a # 0)
    BY <2>0, <2>12, <2>13
  <2> QED
    BY <2>4, <2>11, <2>14, Zenon DEF x, y, Untimed
<1> QED
  BY <1>1, GatheringHolds, PTL

\* Whatever Cursor writes between the queries, in whatever order they are made and
\* wherever the headers are kept, a message that was there when the page was begun is
\* on it, unless it shows nothing.
THEOREM NoOldMessageIsMissing == Spec => []NothingOldIsMissing
<1>1. ASSUME Gathering PROVE NothingOldIsMissing
  <2> SUFFICES ASSUME now # 0, NEW m \in old, Shows(reader, rows[m])
               PROVE  \E i \in DOMAIN Shown : Shown[i].id = m
    BY DEF NothingOldIsMissing
  <2> DEFINE E == Entries(reader, got, now) \cup Edits(reader, got, now)
             n == Cardinality(E)
             s == ByTime(E)
             h == Headers(got)
  <2>1. /\ got \in Answers /\ now \in Nat /\ Messages \in Nat
        /\ role \in [Ids -> {"user", "ai"}]
    BY <1>1, WhenShown
  <2>2. ~Pending("rows") /\ ~Pending("composer") /\ ~Pending("chunks")
    <3>1. "rows" \in QueryKinds /\ "composer" \in QueryKinds /\ "chunks" \in QueryKinds
      BY DEF QueryKinds
    <3> QED
      BY <1>1, <3>1, WhenShown, Zenon
  <2>3. /\ got.rows[m] = rows[m] /\ rows[m] # NoRow
        /\ kept = "inline" => m \in ToSet(got.composer.inline)
        /\ kept = "chunks" => m \in ToSet(Merged(got.chunks))
    BY <1>1, <2>2, Zenon DEF Gathering, OldIsHeld
  <2>4. m \in ToSet(h)
    <3>1. kept \in {"inline", "chunks"}
      BY <1>1, Zenon DEF Gathering, TypeOK
    <3>2. CASE kept = "inline"
      <4>1. got.composer.inline # <<>>
        BY <2>3, <3>2 DEF ToSet
      <4> QED
        BY <2>3, <3>2, <4>1, Zenon DEF Headers
    <3>3. CASE kept = "chunks"
      <4>1. got.composer.inline = <<>>
        BY <1>1, <3>3, Zenon DEF Gathering, HeadersInOrder
      <4> QED
        BY <2>3, <3>3, <4>1, Zenon DEF Headers
    <3> QED
      BY <3>1, <3>2, <3>3
  <2>5. PICK p \in DOMAIN h : h[p] = m
    BY <2>4, Zenon DEF ToSet
  <2>6. Entry(m, role[m], Stamp(got.rows[m], now), p) \in E
    BY <2>3, <2>5 DEF Entries
  <2>7. n \in Nat /\ s \in [1 .. n -> AnEntry] /\ ListOf(s, n, E)
    BY <2>1, Listed
  <2>8. Shown = Annotated(s)
    BY DEF Shown, Assembled
  <2> HIDE DEF E, n, s, h
  <2>9. PICK i \in 1 .. n : s[i] = Entry(m, role[m], Stamp(got.rows[m], now), p)
    BY <2>6, <2>7 DEF ListOf
  <2>10. s[i].id = m
    BY <2>9 DEF Entry
  <2>11. DOMAIN Shown = 1 .. n /\ Shown[i].id = s[i].id
    BY <2>7, <2>8, AnnotatedIs
  <2> QED
    BY <2>10, <2>11
<1> QED
  BY <1>1, GatheringHolds, PTL

-----------------------------------------------------------------------------
(* Totals.                                                                 *)

\* The response time of an entry, if its place counts.
Counted(s, places, i) == IF i \in places THEN s[i].response ELSE 0

\* u holds the totals of the first entries, for every number of them up to n.
Totals(u, s, places, n) ==
    u = [i \in 0 .. n |-> IF i = 0 THEN 0 ELSE u[i - 1] + Counted(s, places, i)]

\* There is such a u: for the least number of entries for which there were none, the
\* one for an entry less could be continued.
LEMMA TotalsExist ==
    ASSUME NEW s, NEW places, NEW n \in Nat
    PROVE  \E u : Totals(u, s, places, n)
<1> DEFINE Can(k) == \E u : Totals(u, s, places, k)
           Bad == {k \in Nat : ~Can(k)}
<1>1. SUFFICES ASSUME Bad # {} PROVE FALSE
  OBVIOUS
<1>2. PICK k \in Bad : \A m \in Bad : k <= m
  <2>1. Bad \in SUBSET Nat
    OBVIOUS
  <2> HIDE DEF Bad
  <2> QED
    BY <1>1, <2>1, LeastNat
<1>3. k \in Nat /\ ~Can(k)
  OBVIOUS
<1>4. k # 0
  <2> DEFINE u == [i \in 0 .. 0 |-> 0]
  <2>1. u = [i \in 0 .. 0 |-> IF i = 0 THEN 0 ELSE u[i - 1] + Counted(s, places, i)]
    <3>1. \A i \in 0 .. 0 : i = 0
      OBVIOUS
    <3> QED
      BY <3>1
  <2> HIDE DEF u
  <2>2. Can(0)
    BY <2>1, Zenon DEF Totals
  <2> QED
    BY <1>3, <2>2
<1>5. k - 1 \in Nat /\ ~(k <= k - 1)
  BY <1>3, <1>4
<1>6. PICK u : Totals(u, s, places, k - 1)
  <2>1. k - 1 \notin Bad
    BY <1>2, <1>5
  <2>2. Can(k - 1)
    BY <1>5, <2>1
  <2> QED
    BY <2>2
<1> DEFINE w == [i \in 0 .. k |-> IF i = 0 THEN 0 ELSE u[i - 1] + Counted(s, places, i)]
<1>7. ASSUME NEW i \in 0 .. k - 1 PROVE w[i] = u[i]
  <2>1. u[i] = IF i = 0 THEN 0 ELSE u[i - 1] + Counted(s, places, i)
    BY <1>6, <1>7 DEF Totals
  <2>2. i \in 0 .. k
    BY <1>3
  <2> QED
    BY <2>1, <2>2
<1>8. ASSUME NEW i \in 0 .. k
      PROVE  w[i] = IF i = 0 THEN 0 ELSE w[i - 1] + Counted(s, places, i)
  <2>1. i # 0 => i - 1 \in 0 .. k - 1
    BY <1>3
  <2>2. i # 0 => w[i - 1] = u[i - 1]
    BY <1>7, <2>1
  <2> HIDE DEF Can, Bad
  <2> QED
    BY <2>2
<1>9. Totals(w, s, places, k)
  <2>1. w = [i \in 0 .. k |-> w[i]]
    OBVIOUS
  <2> HIDE DEF w
  <2> QED
    BY <1>8, <2>1 DEF Totals
<1> QED
  BY <1>3, <1>9

\* Each total is that of an entry less and the entry's.
LEMMA TotalsTyped ==
    ASSUME NEW s, NEW places, NEW n \in Nat, NEW u, Totals(u, s, places, n),
           \A i \in 1 .. n : s[i].response \in Int
    PROVE  /\ \A i \in 0 .. n : u[i] \in Int
           /\ \A i \in 1 .. n : u[i] = u[i - 1] + Counted(s, places, i)
<1>1. \A i \in 0 .. n : u[i] = IF i = 0 THEN 0 ELSE u[i - 1] + Counted(s, places, i)
  BY DEF Totals
<1>2. \A i \in 1 .. n : Counted(s, places, i) \in Int
  BY DEF Counted
<1>3. \A i \in 0 .. n : u[i] \in Int
  <2> DEFINE Bad == {i \in 0 .. n : u[i] \notin Int}
  <2>1. SUFFICES ASSUME Bad # {} PROVE FALSE
    OBVIOUS
  <2>2. PICK k \in Bad : \A m \in Bad : k <= m
    <3>1. Bad \in SUBSET Nat
      OBVIOUS
    <3> HIDE DEF Bad
    <3> QED
      BY <2>1, <3>1, LeastNat
  <2>3. k \in 0 .. n /\ u[k] \notin Int
    OBVIOUS
  <2>4. k # 0
    <3>1. 0 \in 0 .. n
      OBVIOUS
    <3>2. u[0] = 0
      BY <1>1, <3>1
    <3> QED
      BY <2>3, <3>2
  <2>5. k - 1 \in 0 .. n /\ k \in 1 .. n /\ ~(k <= k - 1)
    BY <2>3, <2>4
  <2>6. u[k - 1] \in Int
    BY <2>2, <2>5
  <2>7. u[k] = u[k - 1] + Counted(s, places, k)
    BY <1>1, <2>3, <2>4
  <2>8. Counted(s, places, k) \in Int
    BY <1>2, <2>5
  <2> QED
    BY <2>3, <2>6, <2>7, <2>8
<1>4. \A i \in 1 .. n : i \in 0 .. n /\ i # 0
  OBVIOUS
<1>5. 0 \in 0 .. n
  OBVIOUS
<1> QED
  BY <1>1, <1>2, <1>3, <1>4, <1>5

\* Totals, by what they are used for.
Totalled(u, s, places, n) ==
    /\ \A i \in 0 .. n : u[i] \in Int
    /\ u[0] = 0
    /\ \A i \in 1 .. n : u[i] = u[i - 1] + IF i \in places THEN s[i].response ELSE 0

\* TotalResponse is the last of them.
Adds(u, s, places, n) == Totalled(u, s, places, n) /\ TotalResponse(s, places) = u[n]

\* A list that has a response time for each of its entries.
Timed(s, n) == n \in Nat /\ Len(s) = n /\ \A i \in 1 .. n : s[i].response \in Int

\* The totals of a list, with the last.
LEMMA TotalIs ==
    ASSUME NEW s, NEW places, NEW n, Timed(s, n)
    PROVE  \E u : Adds(u, s, places, n)
<1>1. n \in Nat /\ Len(s) = n /\ \A i \in 1 .. n : s[i].response \in Int
  BY Zenon DEF Timed
<1>2. TotalResponse(s, places) =
        (CHOOSE u : u = [i \in 0 .. Len(s) |->
            IF i = 0 THEN 0 ELSE u[i - 1] + IF i \in places THEN s[i].response ELSE 0])[Len(s)]
  BY Zenon DEF TotalResponse
<1>3. PICK u : u = CHOOSE f : f = [i \in 0 .. Len(s) |->
            IF i = 0 THEN 0 ELSE f[i - 1] + IF i \in places THEN s[i].response ELSE 0]
  OBVIOUS
<1>4. \E f : f = [i \in 0 .. Len(s) |->
                    IF i = 0 THEN 0 ELSE f[i - 1] + IF i \in places THEN s[i].response ELSE 0]
  <2>1. \E f : Totals(f, s, places, Len(s))
    BY <1>1, TotalsExist
  <2> QED
    BY <2>1, Zenon DEF Totals, Counted
<1>5. u = [i \in 0 .. Len(s) |->
             IF i = 0 THEN 0 ELSE u[i - 1] + IF i \in places THEN s[i].response ELSE 0]
  BY <1>3, <1>4, Zenon
<1>6. Totals(u, s, places, n)
  BY <1>1, <1>5, Zenon DEF Totals, Counted
<1>7. Totalled(u, s, places, n)
  <2>1. /\ \A i \in 0 .. n : u[i] \in Int
        /\ \A i \in 1 .. n : u[i] = u[i - 1] + Counted(s, places, i)
    BY <1>1, <1>6, TotalsTyped
  <2>2. u[0] = 0
    BY <1>1, <1>6 DEF Totals
  <2> QED
    BY <2>1, <2>2, Zenon DEF Totalled, Counted
<1>8. TotalResponse(s, places) = u[n]
  BY <1>1, <1>2, <1>3, Zenon
<1> QED
  BY <1>7, <1>8, Zenon DEF Adds

\* The entries of a list are at some places of another, in their order and with their
\* response times, and what the other has more is at the others.
Carried(page, p, document, d, at, more) ==
    /\ p \in Nat /\ d \in Nat
    /\ \A k \in 1 .. d : document[k].response \in Int
    /\ at \in [1 .. p -> 1 .. d]
    /\ \A i, j \in 1 .. p : i < j => at[i] < at[j]
    /\ \A i \in 1 .. p : page[i].response = document[at[i]].response
    /\ \A k \in 1 .. d : k \in more <=> \A i \in 1 .. p : at[i] # k

\* The total of a list is that of another and that of what it has more.
More(document, d, page, p, more) ==
    TotalResponse(document, 1 .. d) = TotalResponse(page, 1 .. p) + TotalResponse(document, more)

\* A list whose entries are those of another, in their order, and more has the other's
\* total and that of what it has more: of its first entries, for the least number of
\* them for which the totals differed, the last would have to make the difference.
LEMMA TotalsAdd ==
    ASSUME NEW p, NEW d, NEW page, NEW document, NEW at, NEW more,
           Carried(page, p, document, d, at, more), Timed(page, p), Timed(document, d)
    PROVE  More(document, d, page, p, more)
<1>1. PICK u : Totalled(u, page, 1 .. p, p) /\ TotalResponse(page, 1 .. p) = u[p]
  BY TotalIs, Zenon DEF Adds
<1>2. PICK v : Totalled(v, document, 1 .. d, d) /\ TotalResponse(document, 1 .. d) = v[d]
  BY TotalIs, Zenon DEF Adds
<1>3. PICK w : Totalled(w, document, more, d) /\ TotalResponse(document, more) = w[d]
  BY TotalIs, Zenon DEF Adds
<1>4. /\ p \in Nat /\ d \in Nat
      /\ \A k \in 1 .. d : document[k].response \in Int
      /\ at \in [1 .. p -> 1 .. d]
      /\ \A i, j \in 1 .. p : i < j => at[i] < at[j]
      /\ \A i \in 1 .. p : page[i].response = document[at[i]].response
      /\ \A k \in 1 .. d : k \in more <=> \A i \in 1 .. p : at[i] # k
  BY Zenon DEF Carried
<1> USE <1>4
<1>5. /\ \A i \in 0 .. p : u[i] \in Int
      /\ u[0] = 0
      /\ \A i \in 1 .. p : u[i] = u[i - 1] + page[i].response
  BY <1>1 DEF Totalled
<1>6. /\ \A k \in 0 .. d : v[k] \in Int
      /\ v[0] = 0
      /\ \A k \in 1 .. d : v[k] = v[k - 1] + document[k].response
  BY <1>2 DEF Totalled
<1>7. /\ \A k \in 0 .. d : w[k] \in Int
      /\ w[0] = 0
      /\ \A k \in 1 .. d : w[k] = w[k - 1] + IF k \in more THEN document[k].response ELSE 0
  BY <1>3 DEF Totalled
<1> DEFINE Upto(k, i) == \A j \in 1 .. p : j <= i <=> at[j] <= k
           Bad == {k \in 0 .. d : \E i \in 0 .. p : Upto(k, i) /\ v[k] # u[i] + w[k]}
<1>8. ASSUME Bad # {} PROVE FALSE
  <2>1. PICK k \in Bad : \A m \in Bad : k <= m
    <3>1. Bad \in SUBSET Nat
      OBVIOUS
    <3> HIDE DEF Bad
    <3> QED
      BY <1>8, <3>1, LeastNat
  <2>2. k \in 0 .. d
    OBVIOUS
  <2>3. PICK i \in 0 .. p : Upto(k, i) /\ v[k] # u[i] + w[k]
    OBVIOUS
  <2>4. \A m \in 0 .. d, j \in 0 .. p : m < k /\ Upto(m, j) => v[m] = u[j] + w[m]
    <3>1. \A m \in Bad : ~(m < k)
      BY <2>1, <2>2
    <3> QED
      BY <3>1
  <2> HIDE DEF Bad
  <2>5. \A j \in 1 .. p : at[j] \in 1 .. d
    OBVIOUS
  <2>6. CASE k = 0
    <3>1. i = 0
      <4>1. ASSUME i # 0 PROVE FALSE
        <5>1. i \in 1 .. p /\ i <= i
          BY <4>1
        <5>2. at[i] <= 0
          BY <2>3, <2>6, <5>1
        <5> QED
          BY <2>5, <5>1, <5>2
      <4> QED
        BY <4>1
    <3> QED
      BY <1>5, <1>6, <1>7, <2>3, <2>6, <3>1
  <2>7. CASE k # 0
    <3>1. k \in 1 .. d /\ k - 1 \in 0 .. d /\ k - 1 < k
      BY <2>2, <2>7
    <3>2. /\ v[k] = v[k - 1] + document[k].response
          /\ w[k] = w[k - 1] + IF k \in more THEN document[k].response ELSE 0
          /\ v[k - 1] \in Int /\ w[k - 1] \in Int /\ document[k].response \in Int /\ u[i] \in Int
      BY <1>5, <1>6, <1>7, <3>1
    <3>3. CASE k \in more
      <4>1. \A j \in 1 .. p : at[j] # k
        BY <3>1, <3>3
      <4>2. \A j \in 1 .. p : at[j] <= k <=> at[j] <= k - 1
        BY <2>2, <2>5, <4>1
      <4>3. Upto(k - 1, i)
        BY <2>3, <4>2
      <4>4. v[k - 1] = u[i] + w[k - 1]
        BY <2>4, <3>1, <4>3
      <4>5. v[k] = u[i] + w[k]
        BY <3>2, <3>3, <4>4
      <4> QED
        BY <2>3, <4>5
    <3>4. CASE k \notin more
      <4>1. PICK j \in 1 .. p : at[j] = k
        BY <3>1, <3>4
      <4>2. j = i
        <5>1. j <= i
          BY <2>2, <2>3, <4>1
        <5>2. ASSUME j < i PROVE FALSE
          <6>1. i \in 1 .. p
            BY <5>2
          <6>2. at[j] < at[i]
            BY <5>2, <6>1
          <6>3. at[i] <= k
            BY <2>3, <6>1
          <6> QED
            BY <2>2, <2>5, <4>1, <6>1, <6>2, <6>3
        <5> QED
          BY <5>1, <5>2
      <4>3. i \in 1 .. p /\ i - 1 \in 0 .. p /\ at[i] = k
        BY <4>1, <4>2
      <4>4. Upto(k - 1, i - 1)
        <5> SUFFICES ASSUME NEW l \in 1 .. p PROVE l <= i - 1 <=> at[l] <= k - 1
          OBVIOUS
        <5>1. CASE l < i
          <6>1. at[l] < k
            BY <4>3, <5>1
          <6> QED
            BY <2>2, <2>5, <4>3, <5>1, <6>1
        <5>2. CASE l = i
          BY <2>2, <4>3, <5>2
        <5>3. CASE i < l
          <6>1. k < at[l]
            BY <4>3, <5>3
          <6> QED
            BY <2>2, <2>5, <4>3, <5>3, <6>1
        <5> QED
          BY <4>3, <5>1, <5>2, <5>3
      <4>5. v[k - 1] = u[i - 1] + w[k - 1]
        BY <2>4, <3>1, <4>3, <4>4
      <4>6. u[i] = u[i - 1] + document[k].response /\ u[i - 1] \in Int
        <5>1. page[i].response = document[k].response
          BY <4>3
        <5> QED
          BY <1>5, <4>3, <5>1
      <4>7. v[k] = u[i] + w[k]
        BY <3>2, <3>4, <4>5, <4>6
      <4> QED
        BY <2>3, <4>7
    <3> QED
      BY <3>3, <3>4
  <2> QED
    BY <2>6, <2>7
<1>9. Upto(d, p)
  <2>1. \A j \in 1 .. p : at[j] \in 1 .. d
    OBVIOUS
  <2> QED
    BY <2>1
<1>10. d \in 0 .. d /\ p \in 0 .. p
  OBVIOUS
<1>11. v[d] = u[p] + w[d]
  <2>1. d \notin Bad
    BY <1>8
  <2> HIDE DEF Upto
  <2> QED
    BY <1>9, <1>10, <2>1
<1> QED
  BY <1>1, <1>2, <1>3, <1>11, Zenon DEF More

-----------------------------------------------------------------------------
(* Page and document.                                                      *)

\* The questions above an entry, whatever else is listed.
Asked(E, x) == {u \in E : u.kind = "user" /\ Before(u, x)}

\* The last of them.
LastAsked(Q, u) == u \in Q /\ \A v \in Q : v = u \/ Before(v, u)

\* The response time of an entry, by the questions that come before it.
IsResponse(E, x, t) ==
    \/ (x.kind = "user" \/ Asked(E, x) = {}) /\ t = 0
    \/ /\ x.kind # "user"
       /\ \E u : LastAsked(Asked(E, x), u) /\ t = IF x.ts <= u.ts THEN 0 ELSE x.ts - u.ts

\* A response time depends on nothing but the questions above.
LEMMA ResponseIs ==
    ASSUME NEW n \in Nat, NEW s \in [1 .. n -> AnEntry], NEW E, ListOf(s, n, E),
           \A i, j \in 1 .. n : i < j => Before(s[i], s[j]),
           NEW i \in 1 .. n
    PROVE  IsResponse(E, s[i], Annotated(s)[i].response) /\ Annotated(s)[i].response \in Int
<1> DEFINE asked == {j \in 1 .. i : s[j].kind = "user"}
           late == s[i].kind = "user" \/ asked = {} \/ s[i].ts <= s[Max(asked)].ts
           x == s[i]
<1>1. DOMAIN s = 1 .. n
  OBVIOUS
<1>2. Annotated(s)[i] = IF late THEN s[i] ELSE [s[i] EXCEPT !.response = s[i].ts - s[Max(asked)].ts]
  BY <1>1, Zenon DEF Annotated
<1>3. /\ \A j \in 1 .. n : s[j] \in AnEntry /\ s[j].ts \in Int /\ s[j].place \in Int
      /\ \A j \in 1 .. i : j \in 1 .. n /\ j \in Nat
      /\ i \in Nat /\ i \in 1 .. i
  BY DEF AnEntry
<1>4. ASSUME NEW j \in 1 .. n, NEW k \in 1 .. n, Before(s[j], s[k]) PROVE j < k
  <2>1. ~(k < j)
    <3>1. ~Before(s[k], s[j])
      BY <1>3, <1>4 DEF Before
    <3> QED
      BY <3>1
  <2>2. j # k
    BY <1>3, <1>4 DEF Before
  <2> QED
    BY <2>1, <2>2
<1>5. s[i].response = 0
  BY <1>3 DEF AnEntry
<1>6. CASE x.kind = "user"
  <2>1. Annotated(s)[i].response = 0
    BY <1>2, <1>5, <1>6, Zenon
  <2> QED
    BY <1>6, <2>1 DEF IsResponse
<1>7. CASE x.kind # "user"
  <2>1. \A u \in Asked(E, x) : \E j \in asked : u = s[j]
    <3> SUFFICES ASSUME NEW u \in Asked(E, x) PROVE \E j \in asked : u = s[j]
      OBVIOUS
    <3>1. PICK j \in 1 .. n : u = s[j]
      BY DEF Asked, ListOf
    <3>2. u.kind = "user" /\ Before(s[j], s[i])
      BY <3>1 DEF Asked
    <3>3. j < i
      BY <1>4, <3>2
    <3>4. j \in 1 .. i
      BY <3>3
    <3> QED
      BY <3>1, <3>2, <3>4
  <2>2. \A j \in asked : s[j] \in Asked(E, x) /\ j \in 1 .. n
    <3> SUFFICES ASSUME NEW j \in asked PROVE s[j] \in Asked(E, x) /\ j \in 1 .. n
      OBVIOUS
    <3>1. j \in 1 .. i /\ s[j].kind = "user" /\ j \in 1 .. n
      BY <1>3
    <3>2. j < i
      BY <1>7, <3>1
    <3>3. Before(s[j], s[i]) /\ s[j] \in E
      BY <3>1, <3>2 DEF ListOf
    <3> QED
      BY <3>1, <3>3 DEF Asked
  <2>3. CASE asked = {}
    <3>1. Annotated(s)[i].response = 0
      BY <1>2, <1>5, <2>3, Zenon
    <3>2. Asked(E, x) = {}
      BY <2>1, <2>3, Zenon
    <3> QED
      BY <3>1, <3>2 DEF IsResponse
  <2>4. CASE asked # {}
    <3> DEFINE q == Max(asked)
    <3>1. q \in asked /\ \A k \in asked : k <= q
      <4>1. asked \in SUBSET Nat /\ \A k \in asked : k <= i
        BY <1>3
      <4> HIDE DEF asked
      <4> QED
        BY <1>3, <2>4, <4>1, MaxIn
    <3>2. Annotated(s)[i] = IF s[i].ts <= s[q].ts THEN s[i] ELSE [s[i] EXCEPT !.response = s[i].ts - s[q].ts]
      BY <1>2, <1>7, <2>4, Zenon
    <3>3. q \in 1 .. n /\ s[q].ts \in Int
      BY <1>3, <2>2, <3>1
    <3> HIDE DEF q, asked
    <3>4. PICK d \in Int : d = s[i].ts - s[q].ts
      BY <1>3, <3>3
    <3>5. Annotated(s)[i].response = IF s[i].ts <= s[q].ts THEN 0 ELSE s[i].ts - s[q].ts
      <4>1. CASE s[i].ts <= s[q].ts
        BY <1>5, <3>2, <4>1, Zenon
      <4>2. CASE ~(s[i].ts <= s[q].ts)
        <5>1. Annotated(s)[i] = [s[i] EXCEPT !.response = d]
          BY <3>2, <3>4, <4>2, Zenon
        <5>2. Annotated(s)[i].response = d
          BY <1>3, <5>1 DEF AnEntry
        <5> QED
          BY <3>4, <4>2, <5>2, Zenon
      <4> QED
        BY <4>1, <4>2
    <3>6. LastAsked(Asked(E, x), s[q])
      <4>1. s[q] \in Asked(E, x)
        BY <2>2, <3>1
      <4>2. ASSUME NEW v \in Asked(E, x) PROVE v = s[q] \/ Before(v, s[q])
        <5>1. PICK j \in asked : v = s[j]
          BY <2>1
        <5>2. j \in 1 .. n /\ j <= q
          BY <2>2, <3>1, <5>1
        <5>3. j = q \/ j < q
          BY <3>3, <5>2
        <5> QED
          BY <3>3, <5>1, <5>2, <5>3
      <4> QED
        BY <4>1, <4>2, Zenon DEF LastAsked
    <3>7. Annotated(s)[i].response \in Int
      BY <3>4, <3>5
    <3> QED
      BY <1>7, <3>5, <3>6, <3>7, Zenon DEF IsResponse
  <2> QED
    BY <2>3, <2>4
<1> QED
  BY <1>6, <1>7

\* The same questions above make the same response time.
LEMMA OneResponse ==
    ASSUME NEW E, NEW F, NEW x, NEW t, NEW w, Asked(E, x) = Asked(F, x),
           \A u \in E : u.ts \in Int /\ u.place \in Int,
           IsResponse(E, x, t), IsResponse(F, x, w)
    PROVE  t = w
<1> DEFINE Q == Asked(E, x)
<1>1. ASSUME NEW u, NEW v, LastAsked(Q, u), LastAsked(Q, v) PROVE u = v
  <2>1. u \in E /\ v \in E
    BY <1>1 DEF LastAsked, Asked
  <2>2. u = v \/ (Before(u, v) /\ Before(v, u))
    BY <1>1, Zenon DEF LastAsked
  <2>3. ~(Before(u, v) /\ Before(v, u))
    BY <2>1 DEF Before
  <2> QED
    BY <2>2, <2>3
<1>2. CASE x.kind = "user" \/ Q = {}
  <2>1. \A u : ~LastAsked({}, u)
    BY DEF LastAsked
  <2> QED
    BY <1>2, <2>1, Zenon DEF IsResponse
<1>3. CASE ~(x.kind = "user" \/ Q = {})
  <2>1. PICK u : LastAsked(Q, u) /\ t = IF x.ts <= u.ts THEN 0 ELSE x.ts - u.ts
    BY <1>3, Zenon DEF IsResponse
  <2>2. PICK v : LastAsked(Q, v) /\ w = IF x.ts <= v.ts THEN 0 ELSE x.ts - v.ts
    BY <1>3, Zenon DEF IsResponse
  <2> QED
    BY <1>1, <2>1, <2>2, Zenon
<1> QED
  BY <1>2, <1>3

\* A message, in the list of a page or a document.
LEMMA MessageIs ==
    ASSUME Gathering, now # 0, NEW r, NEW e \in Entries(r, got, now)
    PROVE  /\ e.id \in Ids /\ e.id # 0 /\ e.place = e.id
           /\ e = Entry(e.id, role[e.id], Stamp(got.rows[e.id], now), e.id)
           /\ e.id \in DOMAIN Headers(got) /\ Headers(got)[e.id] = e.id
           /\ got.rows[e.id] # NoRow /\ Shows(r, got.rows[e.id])
<1> DEFINE h == Headers(got)
<1>1. PICK i \in DOMAIN h : /\ got.rows[h[i]] # NoRow /\ Shows(r, got.rows[h[i]])
                            /\ e = Entry(h[i], role[h[i]], Stamp(got.rows[h[i]], now), i)
  BY Zenon DEF Entries
<1>2. h[i] = i
  BY UsedInOrder DEF InOrder
<1>3. h[i] \in Ids
  <2>1. h \in Seq(Ids)
    BY WhenShown, HeadersTyped
  <2> HIDE DEF h
  <2> QED
    BY <2>1
<1>4. e.id = i /\ e.place = i
  BY <1>1, <1>2 DEF Entry
<1>5. i # 0
  BY <1>2, <1>3 DEF Ids
<1> HIDE DEF h
<1>6. e = Entry(i, role[i], Stamp(got.rows[i], now), i)
  BY <1>1, <1>2, Zenon
<1> QED
  BY <1>1, <1>2, <1>3, <1>4, <1>5, <1>6, Zenon DEF h

\* A code edit, which only a document lists.
LEMMA ChangeIs ==
    ASSUME NEW r, NEW g, NEW t, NEW e \in Edits(r, g, t)
    PROVE  e.id = 0 /\ e.kind = "ai" /\ r = "export"
<1>1. PICK i \in 1 .. IF r = "export" THEN g.edits ELSE 0 :
         e = Entry(0, "ai", IF g.composer.updated = 0 THEN t ELSE g.composer.updated, Len(Headers(g)) + i)
  BY Zenon DEF Edits
<1>2. r = "export"
  <2>1. ASSUME r # "export" PROVE FALSE
    <3>1. i \in 1 .. 0
      BY <2>1
    <3> QED
      BY <3>1
  <2> QED
    BY <2>1
<1> QED
  BY <1>1, <1>2 DEF Entry

\* The messages of a document are those that the page shows as its own.
LEMMA SameMessages ==
    ASSUME NEW e, Gathering, now # 0
    PROVE  e \in Entries("export", got, now) <=>
             e \in Entries("tab", got, now) /\ got.rows[e.id].shows = "own"
<1> DEFINE h == Headers(got)
           M(i) == Entry(h[i], role[h[i]], Stamp(got.rows[h[i]], now), i)
<1>1. ASSUME e \in Entries("export", got, now)
      PROVE  e \in Entries("tab", got, now) /\ got.rows[e.id].shows = "own"
  <2>1. PICK i \in DOMAIN h : got.rows[h[i]] # NoRow /\ Shows("export", got.rows[h[i]]) /\ e = M(i)
    BY <1>1, Zenon DEF Entries
  <2>2. got.rows[h[i]].shows = "own" /\ Shows("tab", got.rows[h[i]])
    BY <2>1 DEF Shows
  <2>3. e.id = h[i]
    BY <2>1 DEF Entry
  <2> QED
    BY <2>1, <2>2, <2>3, Zenon DEF Entries
<1>2. ASSUME e \in Entries("tab", got, now), got.rows[e.id].shows = "own"
      PROVE  e \in Entries("export", got, now)
  <2>1. PICK i \in DOMAIN h : got.rows[h[i]] # NoRow /\ e = M(i)
    BY <1>2, Zenon DEF Entries
  <2>2. e.id = h[i]
    BY <2>1 DEF Entry
  <2>3. Shows("export", got.rows[h[i]])
    BY <1>2, <2>2, Zenon DEF Shows
  <2> QED
    BY <2>1, <2>3, Zenon DEF Entries
<1> QED
  BY <1>1, <1>2

\* A list in its order.
InTurn(s, n) ==
    /\ n \in Nat /\ s \in [1 .. n -> AnEntry]
    /\ \A i, j \in 1 .. n : i < j => Before(s[i], s[j])

\* What is assembled for one reader: the list it is made from, in order.
AssembledFrom(r, n, s) ==
    /\ InTurn(s, n)
    /\ ListOf(s, n, Entries(r, got, now) \cup Edits(r, got, now))
    /\ Assembled(r, got, now) = Annotated(s)

LEMMA AssembledIs ==
    ASSUME Gathering, now # 0, NEW r
    PROVE  \E n, s : AssembledFrom(r, n, s)
<1> DEFINE E == Entries(r, got, now) \cup Edits(r, got, now)
           n == Cardinality(E)
           s == ByTime(E)
<1>1. /\ n \in Nat /\ s \in [1 .. n -> AnEntry]
      /\ ListOf(s, n, E)
      /\ \A i, j \in 1 .. n : i < j => Before(s[i], s[j])
  BY WhenShown, Listed
<1>2. Assembled(r, got, now) = Annotated(s)
  BY Zenon DEF Assembled
<1> HIDE DEF n, s
<1> QED
  BY <1>1, <1>2, Zenon DEF AssembledFrom, InTurn

\* Response times change neither what is listed nor how many are.
LEMMA AnnotatedLists ==
    ASSUME NEW n \in Nat, NEW s \in [1 .. n -> AnEntry]
    PROVE  /\ DOMAIN Annotated(s) = 1 .. n /\ Len(Annotated(s)) = n
           /\ \A i \in 1 .. n : Annotated(s)[i].id = s[i].id
<1> DEFINE a == Annotated(s)
           S == {a[i] : i \in 1 .. n}
<1>1. DOMAIN a = 1 .. n /\ \A i \in 1 .. n : a[i].id = s[i].id
  BY AnnotatedIs
<1>2. a = [i \in 1 .. n |-> a[i]]
  <2>1. DOMAIN s = 1 .. n
    OBVIOUS
  <2>2. a = [i \in DOMAIN a |-> a[i]]
    BY Zenon DEF Annotated
  <2> HIDE DEF a
  <2> QED
    BY <1>1, <2>2
<1> HIDE DEF a
<1>3. a \in [1 .. n -> S]
  BY <1>2
<1> HIDE DEF S
<1>4. a \in Seq(S)
  BY <1>3
<1>5. Len(a) = n
  BY <1>1, <1>4
<1> QED
  BY <1>1, <1>5 DEF a

\* Two sorted lists have the entries they share in the same order.
LEMMA SameOrder ==
    ASSUME NEW p, NEW d, NEW s, NEW t, InTurn(s, p), InTurn(t, d),
           NEW i \in 1 .. p, NEW j \in 1 .. p, NEW k \in 1 .. d, NEW l \in 1 .. d,
           s[i] = t[k], s[j] = t[l], i < j
    PROVE  k < l
<1>1. /\ p \in Nat /\ s \in [1 .. p -> AnEntry]
      /\ \A a, b \in 1 .. p : a < b => Before(s[a], s[b])
      /\ d \in Nat /\ t \in [1 .. d -> AnEntry]
      /\ \A a, b \in 1 .. d : a < b => Before(t[a], t[b])
  BY Zenon DEF InTurn
<1>2. t[k] \in AnEntry /\ t[l] \in AnEntry
  BY <1>1
<1>3. t[k].ts \in Int /\ t[l].ts \in Int /\ t[k].place \in Int /\ t[l].place \in Int
  BY <1>2 DEF AnEntry
<1>4. Before(t[k], t[l])
  BY <1>1
<1>5. ~Before(t[l], t[k]) /\ t[k] # t[l]
  BY <1>3, <1>4 DEF Before
<1>6. ~(l < k) /\ l # k
  BY <1>1, <1>5
<1> QED
  BY <1>1, <1>6

\* A page and a document of the same answers, as lists.
PageAndDocument(p, s, d, t) == AssembledFrom("tab", p, s) /\ AssembledFrom("export", d, t)

\* The messages of a document are those a page shows as its own, and equal ids are
\* equal entries.
Matched(p, s, d, t) ==
    /\ \A i \in 1 .. p : s[i] \in Entries("tab", got, now) /\ s[i].id \in Ids
    /\ \A i \in 1 .. p : got.rows[s[i].id].shows = "own" =>
          \E k \in 1 .. d : t[k] = s[i] /\ t[k].id # 0
    /\ \A k \in 1 .. d : t[k].id # 0 =>
          \E i \in 1 .. p : s[i] = t[k] /\ got.rows[s[i].id].shows = "own"
    /\ \A i \in 1 .. p, k \in 1 .. d : s[i].id = t[k].id => s[i] = t[k]

LEMMA MessagesMatch ==
    ASSUME Gathering, now # 0, NEW p, NEW s, NEW d, NEW t, PageAndDocument(p, s, d, t)
    PROVE  Matched(p, s, d, t)
<1> DEFINE P == Entries("tab", got, now)
           D == Entries("export", got, now)
           C == Edits("export", got, now)
<1>1. ListOf(s, p, P) /\ ListOf(t, d, D \cup C)
  <2>1. \A e \in Edits("tab", got, now) : FALSE
    <3>1. "tab" # "export"
      OBVIOUS
    <3> QED
      BY <3>1, ChangeIs, Zenon
  <2>2. Entries("tab", got, now) \cup Edits("tab", got, now) = P
    BY <2>1
  <2>3. /\ ListOf(s, p, Entries("tab", got, now) \cup Edits("tab", got, now))
        /\ ListOf(t, d, D \cup C)
    BY Zenon DEF PageAndDocument, AssembledFrom
  <2> QED
    BY <2>2, <2>3, Zenon
<1>2. /\ \A i \in 1 .. p : s[i] \in P
      /\ \A e \in P : \E i \in 1 .. p : s[i] = e
      /\ \A k \in 1 .. d : t[k] \in D \cup C
      /\ \A e \in D : \E k \in 1 .. d : t[k] = e
  BY <1>1, Zenon DEF ListOf
<1>3. \A e \in P : e.id \in Ids /\ e.id # 0 /\ e = Entry(e.id, role[e.id], Stamp(got.rows[e.id], now), e.id)
  BY MessageIs, Zenon
<1>4. \A e \in D : e.id # 0 /\ e = Entry(e.id, role[e.id], Stamp(got.rows[e.id], now), e.id)
  BY MessageIs, Zenon
<1>5. \A e \in C : e.id = 0
  BY ChangeIs, Zenon
<1>6. \A e : e \in D <=> e \in P /\ got.rows[e.id].shows = "own"
  BY SameMessages, Zenon
<1> HIDE DEF P, D, C
<1>7. \A i \in 1 .. p : s[i] \in P /\ s[i].id \in Ids
  BY <1>2, <1>3, Zenon
<1>8. ASSUME NEW i \in 1 .. p, got.rows[s[i].id].shows = "own"
      PROVE  \E k \in 1 .. d : t[k] = s[i] /\ t[k].id # 0
  <2>1. s[i] \in D
    BY <1>6, <1>7, <1>8, Zenon
  <2>2. PICK k \in 1 .. d : t[k] = s[i]
    BY <1>2, <2>1, Zenon
  <2>3. s[i].id # 0
    BY <1>4, <2>1, Zenon
  <2> QED
    BY <2>2, <2>3, Zenon
<1>9. \A k \in 1 .. d : t[k].id # 0 => t[k] \in D
  BY <1>2, <1>5
<1>10. ASSUME NEW k \in 1 .. d, t[k].id # 0
       PROVE  \E i \in 1 .. p : s[i] = t[k] /\ got.rows[s[i].id].shows = "own"
  <2>1. t[k] \in P /\ got.rows[t[k].id].shows = "own"
    BY <1>6, <1>9, <1>10, Zenon
  <2>2. PICK i \in 1 .. p : s[i] = t[k]
    BY <1>2, <2>1, Zenon
  <2> QED
    BY <2>1, <2>2, Zenon
<1>11. ASSUME NEW i \in 1 .. p, NEW k \in 1 .. d, s[i].id = t[k].id PROVE s[i] = t[k]
  <2>1. s[i].id # 0 /\ s[i] = Entry(s[i].id, role[s[i].id], Stamp(got.rows[s[i].id], now), s[i].id)
    BY <1>3, <1>7, Zenon
  <2>2. t[k].id # 0
    BY <1>11, <2>1, Zenon
  <2>3. t[k] = Entry(t[k].id, role[t[k].id], Stamp(got.rows[t[k].id], now), t[k].id)
    BY <1>4, <1>9, <2>2, Zenon
  <2> QED
    BY <1>11, <2>1, <2>3, Zenon
<1> QED
  BY <1>7, <1>8, <1>10, <1>11, Zenon DEF P, Matched

\* No message is only context.
NoContext == \A m \in Ids : got.rows[m].shows # "context"

\* Two entries have the same response time.
SameResponse(s, i, t, k) == Annotated(s)[i].response = Annotated(t)[k].response

\* When no message is only context, each answer took the same time in both: the same
\* questions are asked.
LEMMA ResponsesMatch ==
    ASSUME Gathering, now # 0, NEW p, NEW s, NEW d, NEW t, PageAndDocument(p, s, d, t), NoContext,
           NEW i \in 1 .. p, NEW k \in 1 .. d, s[i] = t[k]
    PROVE  SameResponse(s, i, t, k)
<1> DEFINE P == Entries("tab", got, now) \cup Edits("tab", got, now)
           D == Entries("export", got, now) \cup Edits("export", got, now)
           x == s[i]
<1>1. /\ p \in Nat /\ s \in [1 .. p -> AnEntry] /\ ListOf(s, p, P)
      /\ \A a, b \in 1 .. p : a < b => Before(s[a], s[b])
      /\ d \in Nat /\ t \in [1 .. d -> AnEntry] /\ ListOf(t, d, D)
      /\ \A a, b \in 1 .. d : a < b => Before(t[a], t[b])
  BY Zenon DEF PageAndDocument, AssembledFrom, InTurn
<1>2. Asked(P, x) = Asked(D, x)
  <2>1. ASSUME NEW u, u.kind = "user" PROVE u \in P <=> u \in D
    <3>1. u \notin Edits("tab", got, now) /\ u \notin Edits("export", got, now)
      <4>1. \A r : \A e \in Edits(r, got, now) : e.kind = "ai"
        BY ChangeIs, Zenon
      <4>2. "ai" # "user"
        OBVIOUS
      <4> QED
        BY <2>1, <4>1, <4>2, Zenon
    <3>2. u \in Entries("tab", got, now) => got.rows[u.id].shows = "own"
      <4>1. ASSUME u \in Entries("tab", got, now) PROVE got.rows[u.id].shows = "own"
        <5>1. u.id \in Ids /\ Shows("tab", got.rows[u.id])
          BY <4>1, MessageIs, Zenon
        <5> QED
          BY <5>1, Zenon DEF Shows, NoContext
      <4> QED
        BY <4>1
    <3>3. u \in Entries("export", got, now) <=>
            u \in Entries("tab", got, now) /\ got.rows[u.id].shows = "own"
      BY SameMessages, Zenon
    <3> QED
      BY <3>1, <3>2, <3>3, Zenon
  <2> HIDE DEF P, D
  <2>2. \A u : u \in Asked(P, x) <=> u \in Asked(D, x)
    BY <2>1, Zenon DEF Asked
  <2> QED
    BY <2>2
<1> HIDE DEF P, D
<1>3. IsResponse(P, x, Annotated(s)[i].response)
  BY <1>1, ResponseIs
<1>4. IsResponse(D, x, Annotated(t)[k].response)
  <2>1. IsResponse(D, t[k], Annotated(t)[k].response)
    BY <1>1, ResponseIs
  <2> QED
    BY <2>1
<1>5. \A u \in P : u.ts \in Int /\ u.place \in Int
  <2>1. \A u \in P : u \in AnEntry
    BY <1>1 DEF ListOf
  <2> QED
    BY <2>1 DEF AnEntry
<1>6. Annotated(s)[i].response = Annotated(t)[k].response
  BY <1>2, <1>3, <1>4, <1>5, OneResponse, Zenon
<1> QED
  BY <1>6, Zenon DEF SameResponse

\* The totals differ by the code edits'.
LEMMA TotalsMatch ==
    ASSUME Gathering, now # 0, NEW p, NEW s, NEW d, NEW t, PageAndDocument(p, s, d, t), NoContext,
           NEW more, \A k \in 1 .. d : k \in more <=> t[k].id = 0
    PROVE  More(Annotated(t), d, Annotated(s), p, more)
<1>1. InTurn(s, p) /\ InTurn(t, d)
  BY Zenon DEF PageAndDocument, AssembledFrom
<1>2. /\ p \in Nat /\ s \in [1 .. p -> AnEntry]
      /\ \A a, b \in 1 .. p : a < b => Before(s[a], s[b])
      /\ d \in Nat /\ t \in [1 .. d -> AnEntry]
      /\ \A a, b \in 1 .. d : a < b => Before(t[a], t[b])
  BY <1>1, Zenon DEF InTurn
<1>3. /\ \A i \in 1 .. p : s[i] \in Entries("tab", got, now) /\ s[i].id \in Ids
      /\ \A i \in 1 .. p : got.rows[s[i].id].shows = "own" =>
           \E k \in 1 .. d : t[k] = s[i] /\ t[k].id # 0
      /\ \A k \in 1 .. d : t[k].id # 0 => \E i \in 1 .. p : s[i] = t[k]
      /\ \A i \in 1 .. p, k \in 1 .. d : s[i].id = t[k].id => s[i] = t[k]
  <2>1. Matched(p, s, d, t)
    BY MessagesMatch, Zenon
  <2> QED
    BY <2>1, Zenon DEF Matched
<1>4. ASSUME NEW i \in 1 .. p PROVE \E k \in 1 .. d : t[k] = s[i] /\ t[k].id # 0
  <2>1. Shows("tab", got.rows[s[i].id]) /\ s[i].id \in Ids
    BY <1>3, MessageIs, Zenon
  <2>2. got.rows[s[i].id].shows = "own"
    BY <2>1, Zenon DEF Shows, NoContext
  <2> QED
    BY <1>3, <2>2, Zenon
<1> DEFINE at == [i \in 1 .. p |-> CHOOSE k \in 1 .. d : t[k] = s[i] /\ t[k].id # 0]
<1>5. \A i \in 1 .. p : at[i] \in 1 .. d /\ t[at[i]] = s[i] /\ t[at[i]].id # 0
  <2> SUFFICES ASSUME NEW i \in 1 .. p
               PROVE  at[i] \in 1 .. d /\ t[at[i]] = s[i] /\ t[at[i]].id # 0
    OBVIOUS
  <2>1. at[i] = CHOOSE k \in 1 .. d : t[k] = s[i] /\ t[k].id # 0
    OBVIOUS
  <2> HIDE DEF at
  <2> QED
    BY <1>4, <2>1, Zenon
<1>6. at \in [1 .. p -> 1 .. d]
  BY <1>5
<1> HIDE DEF at
<1>7. \A i, j \in 1 .. p : i < j => at[i] < at[j]
  <2> SUFFICES ASSUME NEW i \in 1 .. p, NEW j \in 1 .. p, i < j PROVE at[i] < at[j]
    OBVIOUS
  <2>1. at[i] \in 1 .. d /\ at[j] \in 1 .. d /\ s[i] = t[at[i]] /\ s[j] = t[at[j]]
    BY <1>5
  <2>2. PICK k \in 1 .. d, l \in 1 .. d : k = at[i] /\ l = at[j]
    BY <2>1
  <2>3. s[i] = t[k] /\ s[j] = t[l]
    BY <2>1, <2>2, Zenon
  <2>4. k < l
    BY <1>1, <2>3, SameOrder, Zenon
  <2> QED
    BY <2>2, <2>4
<1>8. \A k \in 1 .. d : k \in more <=> \A i \in 1 .. p : at[i] # k
  <2> SUFFICES ASSUME NEW k \in 1 .. d PROVE t[k].id = 0 <=> \A i \in 1 .. p : at[i] # k
    OBVIOUS
  <2>1. ASSUME t[k].id = 0 PROVE \A i \in 1 .. p : at[i] # k
    BY <1>5, <2>1, Zenon
  <2>2. ASSUME t[k].id # 0 PROVE \E i \in 1 .. p : at[i] = k
    <3>1. PICK i \in 1 .. p : s[i] = t[k]
      BY <1>3, <2>2, Zenon
    <3>2. at[i] \in 1 .. d /\ t[at[i]] = t[k]
      BY <1>5, <3>1, Zenon
    <3>3. ~(at[i] < k) /\ ~(k < at[i])
      <4>1. \A x \in AnEntry : ~Before(x, x)
        BY DEF Before, AnEntry
      <4>2. t[k] \in AnEntry
        BY <1>2
      <4> QED
        BY <1>2, <3>2, <4>1, <4>2, Zenon
    <3> QED
      BY <1>2, <3>2, <3>3
  <2> QED
    BY <2>1, <2>2, Zenon
<1> DEFINE page == Annotated(s)
           document == Annotated(t)
<1>9. \A i \in 1 .. p : page[i].response = document[at[i]].response
  <2> SUFFICES ASSUME NEW i \in 1 .. p PROVE page[i].response = document[at[i]].response
    OBVIOUS
  <2>1. at[i] \in 1 .. d /\ s[i] = t[at[i]]
    BY <1>5
  <2>2. SameResponse(s, i, t, at[i])
    BY <2>1, ResponsesMatch, Zenon
  <2> QED
    BY <2>2, Zenon DEF SameResponse
<1>10. Len(page) = p /\ Len(document) = d
  BY <1>2, AnnotatedLists, Zenon
<1>11. \A i \in 1 .. p : page[i].response \in Int
  <2>1. ListOf(s, p, Entries("tab", got, now) \cup Edits("tab", got, now))
    BY Zenon DEF PageAndDocument, AssembledFrom
  <2> QED
    BY <1>2, <2>1, ResponseIs, Zenon
<1>12. \A k \in 1 .. d : document[k].response \in Int
  <2>1. ListOf(t, d, Entries("export", got, now) \cup Edits("export", got, now))
    BY Zenon DEF PageAndDocument, AssembledFrom
  <2> QED
    BY <1>2, <2>1, ResponseIs, Zenon
<1> HIDE DEF page, document
<1>13. Timed(page, p) /\ Timed(document, d)
  BY <1>2, <1>10, <1>11, <1>12, Zenon DEF Timed
<1>14. Carried(page, p, document, d, at, more)
  <2>1. \A k \in 1 .. d : k \in more <=> \A i \in 1 .. p : at[i] # k
    BY <1>8
  <2> QED
    BY <1>2, <1>6, <1>7, <1>9, <1>12, <2>1, Zenon DEF Carried
<1>15. More(document, d, page, p, more)
  BY <1>13, <1>14, TotalsAdd, Zenon
<1> QED
  BY <1>15, Zenon DEF page, document

\* The document tells the conversation the page tells, whatever was read and whenever:
\* its messages in the page's order, and the totals apart from the code edits'.
THEOREM DocumentTellsThePage == Spec => []DocumentMatchesPage
<1>1. ASSUME Gathering PROVE DocumentMatchesPage
  <2> DEFINE page == Assembled("tab", got, now)
             document == Assembled("export", got, now)
             own == {i \in DOMAIN page : got.rows[page[i].id].shows = "own"}
             messages == {k \in DOMAIN document : document[k].id # 0}
             Same(i, k) == page[i].id = document[k].id
  <2> SUFFICES ASSUME now # 0
               PROVE  /\ \A i \in own : \E k \in messages : Same(i, k)
                      /\ \A k \in messages : \E i \in own : Same(i, k)
                      /\ \A i, j \in own, k, l \in messages :
                            Same(i, k) /\ Same(j, l) => (i < j <=> k < l)
                      /\ (\A m \in Ids : got.rows[m].shows # "context") =>
                            /\ \A i \in own, k \in messages :
                                  Same(i, k) => page[i].response = document[k].response
                            /\ TotalResponse(document, DOMAIN document) =
                                  TotalResponse(page, DOMAIN page)
                                  + TotalResponse(document, DOMAIN document \ messages)
    BY Zenon DEF DocumentMatchesPage
  <2>1. PICK p, s : AssembledFrom("tab", p, s)
    BY <1>1, AssembledIs, Zenon
  <2>2. PICK d, t : AssembledFrom("export", d, t)
    BY <1>1, AssembledIs, Zenon
  <2>3. PageAndDocument(p, s, d, t)
    BY <2>1, <2>2, Zenon DEF PageAndDocument
  <2>4. InTurn(s, p) /\ InTurn(t, d)
    BY <2>1, <2>2, Zenon DEF AssembledFrom
  <2>5. /\ p \in Nat /\ s \in [1 .. p -> AnEntry] /\ page = Annotated(s)
        /\ \A a, b \in 1 .. p : a < b => Before(s[a], s[b])
        /\ d \in Nat /\ t \in [1 .. d -> AnEntry] /\ document = Annotated(t)
        /\ \A a, b \in 1 .. d : a < b => Before(t[a], t[b])
    BY <2>1, <2>2, Zenon DEF AssembledFrom, InTurn
  <2>6. /\ DOMAIN page = 1 .. p /\ \A i \in 1 .. p : page[i].id = s[i].id
        /\ DOMAIN document = 1 .. d /\ \A k \in 1 .. d : document[k].id = t[k].id
    BY <2>5, AnnotatedLists, Zenon
  <2> HIDE DEF page, document
  <2>7. /\ own = {i \in 1 .. p : got.rows[s[i].id].shows = "own"}
        /\ messages = {k \in 1 .. d : t[k].id # 0}
    BY <2>6
  <2>8. Matched(p, s, d, t)
    BY <1>1, <2>3, MessagesMatch, Zenon
  <2>9. \A i \in 1 .. p, k \in 1 .. d : Same(i, k) <=> s[i] = t[k]
    BY <2>6, <2>8 DEF Matched
  <2> HIDE DEF own, messages, Same
  <2>10. /\ \A i \in own : \E k \in messages : Same(i, k)
        /\ \A k \in messages : \E i \in own : Same(i, k)
    <3>1. /\ \A i \in 1 .. p : got.rows[s[i].id].shows = "own" =>
               \E k \in 1 .. d : t[k] = s[i] /\ t[k].id # 0
          /\ \A k \in 1 .. d : t[k].id # 0 =>
               \E i \in 1 .. p : s[i] = t[k] /\ got.rows[s[i].id].shows = "own"
      BY <2>8, Zenon DEF Matched
    <3> QED
      BY <2>7, <2>9, <3>1, Zenon
  <2>11. \A i, j \in own, k, l \in messages : Same(i, k) /\ Same(j, l) => (i < j <=> k < l)
    <3> SUFFICES ASSUME NEW i \in own, NEW j \in own, NEW k \in messages, NEW l \in messages,
                        Same(i, k), Same(j, l)
                 PROVE  i < j <=> k < l
      BY Zenon
    <3>1. i \in 1 .. p /\ j \in 1 .. p /\ k \in 1 .. d /\ l \in 1 .. d
      BY <2>7, Zenon
    <3>2. s[i] = t[k] /\ s[j] = t[l]
      BY <2>9, <3>1, Zenon
    <3>3. ASSUME i < j PROVE k < l
      BY <2>4, <3>1, <3>2, <3>3, SameOrder, Zenon
    <3>4. ASSUME k < l PROVE i < j
      BY <2>4, <3>1, <3>2, <3>4, SameOrder, Zenon
    <3> QED
      BY <3>3, <3>4
  <2>12. ASSUME \A m \in Ids : got.rows[m].shows # "context"
         PROVE  /\ \A i \in own, k \in messages : Same(i, k) => page[i].response = document[k].response
                /\ TotalResponse(document, DOMAIN document) =
                      TotalResponse(page, DOMAIN page)
                      + TotalResponse(document, DOMAIN document \ messages)
    <3>1. NoContext
      BY <2>12, Zenon DEF NoContext
    <3>2. ASSUME NEW i \in own, NEW k \in messages, Same(i, k)
          PROVE  page[i].response = document[k].response
      <4>1. i \in 1 .. p /\ k \in 1 .. d
        BY <2>7, Zenon
      <4>2. s[i] = t[k]
        BY <2>9, <3>2, <4>1, Zenon
      <4>3. SameResponse(s, i, t, k)
        BY <1>1, <2>3, <3>1, <4>1, <4>2, ResponsesMatch, Zenon
      <4> QED
        BY <2>5, <4>3, Zenon DEF SameResponse
    <3>3. PICK more : more = DOMAIN document \ messages
      OBVIOUS
    <3>4. \A k \in 1 .. d : k \in more <=> t[k].id = 0
      BY <2>6, <2>7, <3>3, Zenon
    <3>5. More(Annotated(t), d, Annotated(s), p, more)
      BY <1>1, <2>3, <3>1, <3>4, TotalsMatch, Zenon
    <3>6. TotalResponse(document, DOMAIN document) =
             TotalResponse(page, DOMAIN page) + TotalResponse(document, DOMAIN document \ messages)
      BY <2>5, <2>6, <3>3, <3>5, Zenon DEF More
    <3> QED
      BY <3>2, <3>6, Zenon
  <2> QED
    BY <2>10, <2>11, <2>12, Zenon
<1> QED
  BY <1>1, GatheringHolds, PTL
===============================================================================
